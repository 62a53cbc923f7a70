--------------------------- MODULE ProjectKeys ---------------------------
(***************************************************************************)
(* The keys of Zuul's projects and the secrets they encrypt: the           *)
(* `rotate-projects-private-keys` command (RotateProjectPrivateKey and the *)
(* script it runs), and the part of `deploy` that installs the secrets of  *)
(* the internal tenant and makes Zuul load them (SetupConfigJob).          *)
(*                                                                         *)
(* Keys are generations; 0 is no key.  A version of the internal tenant's  *)
(* secrets is the keystore password it was computed with, whose            *)
(* resourceVersion is always a new one, and the settings of the CR, which  *)
(* may return to earlier ones.  The content of the internal system-config  *)
(* repository is the version it was made for and the key that its secrets  *)
(* are encrypted with.                                                     *)
(***************************************************************************)
EXTENDS Naturals, FiniteSets

CONSTANTS
    Projects,    \* the users' projects that have secrets
    Settings,    \* what the CR may have as ClusterAPIURL and LogserverHost
    First,       \* what it has at first
    MaxPassword, \* bound on the passwords of the keystore
    MaxRuns,     \* bound on the number of commands
    MaxCrashes,  \* bound on the number of killed commands
    Internal     \* the internal project, system-config

ASSUME ProjectsAssumption == Internal \notin Projects /\ IsFiniteSet(Projects)
ASSUME SettingsAssumption == First \in Settings
ASSUME BoundsAssumption   == {MaxRuns, MaxCrashes} \subseteq Nat /\ MaxPassword \in Nat \ {0}

VARIABLES
    pc,       \* where the command is
    outcome,  \* how the last command ended
    todo,     \* the projects the script has still to deal with
    gen,      \* the last key made
    zkKey,    \* ZooKeeper: the key of each project
    repoKey,  \* git: the key that the secrets of each user's project need
    newKey,   \* the key that the script has in its memory; 0: none
    password, \* the resourceVersion of the keystore's password
    setting,  \* the settings of the CR
    jobs,     \* the config-base-secret jobs, by version
    orphans,  \* pods of deleted jobs: what each is to push, key 0: not fetched yet
    repo,     \* git: the content of system-config
    overtaken,\* the versions done or recorded that another pod has pushed over
    cm,       \* the version noted in zs-internal-tenant-reconfigure
    full,     \* the zuul-needs-full-reconfigure marker exists
    refresh,  \* the zk-clients-need-refresh marker exists
    loaded,   \* what the scheduler loaded of system-config
    stale,    \* keys were changed since the last full reconfigure
    lost,     \* a full reconfigure was not carried out, and is not asked for any more
    web,      \* zuul-web: "absent", "starting" or "up"
    webKey,   \* the internal key that zuul-web has in its cache; 0: none
    webRepo,  \* what zuul-web loaded of system-config when it started
    runs, crashes

command == <<runs, crashes>>
keys    == <<gen, zkKey, repoKey, newKey, stale, lost>>
version == <<password, setting>>
base    == <<jobs, orphans, repo, overtaken>>
tenant  == <<version, base, cm, full, refresh, loaded>>
webVars == <<web, webKey, webRepo>>
vars    == <<pc, outcome, todo, keys, tenant, webVars, command>>

\* internalTenantSecretsVersion
Version   == [password |-> password, setting |-> setting]
Versions  == [password : 1..MaxPassword, setting : Settings]
NoVersion == [password |-> 0, setting |-> First]
Nothing   == [version |-> NoVersion, key |-> 0]

PCs == {"idle", "clear-job", "clear-cm", "mark-refresh", "mark-full", "copy",
        "script", "set", "cleanup", "unmark", "web", "config", "reconfigure",
        "exec-full", "exec-tenant", "delete-web", "record"}
JobStates == {"absent", "running", "done", "failed"}
Contents  == [version : Versions \cup {NoVersion}, key : 0..gen]

\* The types of the variables; every key there is was made once, by a step of
\* Zuul or of the script, and so was every content.
TypeOK ==
    /\ pc \in PCs
    /\ outcome \in {"none", "failed", "rotated", "deployed"}
    /\ todo \subseteq Projects \cup {Internal}
    /\ gen \in Nat \ {0}
    /\ zkKey \in [Projects \cup {Internal} -> 0..gen]
    /\ repoKey \in [Projects -> 1..gen]
    /\ stale \in BOOLEAN /\ lost \in BOOLEAN /\ full \in BOOLEAN /\ refresh \in BOOLEAN
    /\ newKey \in 0..gen
    /\ Version \in Versions /\ cm \in Versions \cup {NoVersion}
    /\ jobs \in [Versions -> JobStates]
    /\ orphans \subseteq [version : Versions, key : 0..gen]
    /\ overtaken \subseteq Versions
    /\ web \in {"absent", "starting", "up"} /\ webKey \in 0..gen
    /\ {repo, loaded, webRepo} \subseteq Contents
    /\ runs \in 0..MaxRuns /\ crashes \in 0..MaxCrashes

Init ==
    /\ pc = "idle" /\ outcome = "none" /\ todo = {}
    /\ gen = 1
    /\ zkKey = [p \in Projects \cup {Internal} |-> IF p = Internal THEN 0 ELSE 1]
    /\ repoKey = [p \in Projects |-> 1]
    /\ stale = FALSE /\ lost = FALSE
    /\ newKey = 0
    /\ password = 1 /\ setting = First
    /\ jobs = [v \in Versions |-> "absent"] /\ orphans = {} /\ overtaken = {}
    /\ repo = Nothing /\ cm = NoVersion
    /\ full = FALSE /\ refresh = FALSE /\ loaded = Nothing
    /\ web = "absent" /\ webKey = 0 /\ webRepo = Nothing
    /\ runs = 0 /\ crashes = 0

Goto(from, to) == pc = from /\ pc' = to /\ UNCHANGED <<outcome, command>>
End(from, how) == pc = from /\ pc' = "idle" /\ outcome' = how /\ UNCHANGED command

\* A pass of deploy that is not ready: another one, or this was the last attempt.
Again(from) == Goto(from, "cleanup") \/ End(from, "failed")

-----------------------------------------------------------------------------
(* RotateProjectPrivateKey *)

\* One of the jobs is deleted.  A pod of it that runs stays, as DeleteR has no
\* propagation policy; it may have asked zuul-web for the key already.
ClearConfigJob(v) ==
    /\ Goto("clear-job", "clear-job")
    /\ jobs[v] # "absent"
    /\ jobs' = [jobs EXCEPT ![v] = "absent"]
    /\ IF jobs[v] = "running"
         THEN \E key \in {0, zkKey[Internal]} :
                 orphans' = orphans \cup {[version |-> v, key |-> key]}
         ELSE UNCHANGED orphans
    /\ UNCHANGED <<todo, keys, version, repo, overtaken, cm, full, refresh, loaded, webVars>>

ConfigJobCleared ==
    /\ Goto("clear-job", "clear-cm")
    /\ \A v \in Versions : jobs[v] = "absent"
    /\ UNCHANGED <<todo, keys, tenant, webVars>>

\* Faulty variant: the record of the reconfiguration stays.
ClearRecordSkipped ==
    /\ Goto("clear-cm", "mark-refresh")
    /\ UNCHANGED <<todo, keys, tenant, webVars>>

ClearRecord ==
    /\ Goto("clear-cm", "mark-refresh")
    /\ cm' = NoVersion /\ overtaken' = {}
    /\ UNCHANGED <<todo, keys, version, jobs, orphans, repo, full, refresh, loaded, webVars>>

MarkRefresh ==
    /\ Goto("mark-refresh", "mark-full")
    /\ refresh' = TRUE
    /\ UNCHANGED <<todo, keys, version, base, cm, full, loaded, webVars>>

MarkFullReconfigure ==
    /\ Goto("mark-full", "copy")
    /\ full' = TRUE
    /\ UNCHANGED <<todo, keys, version, base, cm, refresh, loaded, webVars>>

\* The script, the ssh key and the tenants are copied to the kazoo pod; each
\* of these may fail.
CopyTools ==
    /\ \/ Goto("copy", "script") /\ todo' = Projects \cup {Internal}
       \/ End("copy", "failed") /\ UNCHANGED todo
    /\ UNCHANGED <<keys, tenant, webVars>>

-----------------------------------------------------------------------------
(* rotate-projects-private-keys.py *)

\* "internal repo will be handled in reconcile"
DeleteInternalKey ==
    /\ Goto("script", "script") /\ Internal \in todo
    /\ zkKey' = [zkKey EXCEPT ![Internal] = 0]
    /\ stale' = TRUE
    /\ todo' = todo \ {Internal}
    /\ UNCHANGED <<gen, repoKey, newKey, lost, tenant, webVars>>

\* rotate_inrepo_secret: decrypt with the key of ZooKeeper, encrypt with a new
\* key, and push.  The new key is in the script's memory only.
PushSecrets(p) ==
    /\ Goto("script", "set") /\ p \in todo
    /\ zkKey[p] = repoKey[p]
    /\ gen' = gen + 1 /\ newKey' = gen + 1
    /\ repoKey' = [repoKey EXCEPT ![p] = gen + 1]
    /\ stale' = TRUE
    /\ UNCHANGED <<todo, zkKey, lost, tenant, webVars>>

\* Secrets that cannot be decrypted, or pushed, are skipped with a message.
SkipProject(p) ==
    /\ Goto("script", "script") /\ p \in todo
    /\ todo' = todo \ {p}
    /\ UNCHANGED <<keys, tenant, webVars>>

\* Faulty variant: the key that is stored is not the one that was used.
StoreAnotherKey(p) ==
    /\ p \in todo /\ repoKey[p] = newKey
    /\ Goto("set", "script")
    /\ zkKey' = [zkKey EXCEPT ![p] = gen + 1]
    /\ todo' = todo \ {p}
    /\ UNCHANGED <<gen, repoKey, newKey, stale, lost, tenant, webVars>>

\* The new key is stored; an error of ZooKeeper ends the script.
StoreKey(p) ==
    /\ p \in todo /\ repoKey[p] = newKey
    /\ \/ /\ Goto("set", "script")
          /\ zkKey' = [zkKey EXCEPT ![p] = newKey]
          /\ todo' = todo \ {p}
       \/ /\ End("set", "failed")
          /\ todo' = {} /\ UNCHANGED zkKey
    /\ newKey' = 0
    /\ UNCHANGED <<gen, repoKey, stale, lost, tenant, webVars>>

\* The script is done, or an error of ZooKeeper ended it.
EndRotation ==
    /\ \/ End("script", "rotated") /\ todo = {}
       \/ End("script", "failed")
    /\ todo' = {}
    /\ UNCHANGED <<keys, tenant, webVars>>

Rotate ==
    \/ (\E v \in Versions : ClearConfigJob(v)) \/ ConfigJobCleared \/ ClearRecord
    \/ MarkRefresh \/ MarkFullReconfigure \/ CopyTools \/ DeleteInternalKey
    \/ \E p \in Projects : PushSecrets(p) \/ SkipProject(p) \/ StoreKey(p)
    \/ EndRotation

-----------------------------------------------------------------------------
(* A pass of deploy *)

\* cleanup: restart the clients of ZooKeeper, then remove the marker.
NukeZKClients ==
    /\ Goto("cleanup", IF refresh THEN "unmark" ELSE "web")
    /\ IF refresh THEN web' = "absent" /\ webKey' = 0 /\ webRepo' = Nothing
                  ELSE UNCHANGED webVars
    /\ UNCHANGED <<todo, keys, tenant>>

UnmarkRefresh ==
    /\ Goto("unmark", "web")
    /\ refresh' = FALSE
    /\ UNCHANGED <<todo, keys, version, base, cm, full, loaded, webVars>>

\* The internal tenant waits for Zuul, of which zuul-web is the last part.
EnsureZuulWeb ==
    /\ IF web = "up" THEN Goto("web", "config") ELSE Again("web")
    /\ web' = IF web = "absent" THEN "starting" ELSE web
    /\ UNCHANGED <<todo, keys, tenant, webKey, webRepo>>

\* SetupConfigJob up to the point where the job is known to be done.  A job is
\* made for a version that has none: one that is done, for whatever CR there was
\* in the meantime, is not run again, and one that failed is waited for.
SetupBaseSecrets ==
    /\ \/ /\ jobs[Version] = "absent"
          /\ Again("config")
          /\ jobs' = [jobs EXCEPT ![Version] = "running"]
       \/ /\ jobs[Version] \in {"running", "failed"}
          /\ Again("config")
          /\ UNCHANGED jobs
       \/ /\ jobs[Version] = "done" /\ cm # Version
          /\ Goto("config", "reconfigure")
          /\ UNCHANGED jobs
       \/ /\ jobs[Version] = "done" /\ cm = Version
          /\ End("config", "deployed")
          /\ UNCHANGED jobs
    /\ UNCHANGED <<todo, keys, version, orphans, repo, overtaken, cm, full, refresh, loaded,
                   webVars>>

\* runZuulInternalTenantReconfigure removes the marker before it runs the
\* command the marker asks for.
ChooseReconfigure ==
    /\ Goto("reconfigure", IF full THEN "exec-full" ELSE "exec-tenant")
    /\ full' = FALSE
    /\ UNCHANGED <<todo, keys, version, base, cm, refresh, loaded, webVars>>

Reconfigured(scope) ==
    /\ loaded' = repo
    /\ stale' = (stale /\ scope # "exec-full")
    /\ lost' = (lost /\ scope # "exec-full")

NotReconfigured(scope) ==
    /\ lost' = (lost \/ scope = "exec-full")
    /\ UNCHANGED <<loaded, stale>>

\* The command may fail, or succeed without the operator hearing of it; the
\* next pass begins then.
ExecReconfigure(scope) ==
    /\ \/ Goto(scope, "delete-web") /\ Reconfigured(scope)
       \/ Again(scope) /\ (Reconfigured(scope) \/ NotReconfigured(scope))
    /\ UNCHANGED <<todo, gen, zkKey, repoKey, newKey, version, base, cm, full, refresh, webVars>>

\* Faulty variant: zuul-web is not refreshed.
DeleteWebSkipped ==
    /\ Goto("delete-web", "record")
    /\ UNCHANGED <<todo, keys, tenant, webVars>>

DeleteWeb ==
    /\ Goto("delete-web", "record")
    /\ web' = "absent" /\ webKey' = 0 /\ webRepo' = Nothing
    /\ UNCHANGED <<todo, keys, tenant>>

\* Faulty variant: the record is created, never updated (CreateR ignores that
\* it exists).
RecordCreatedOnly ==
    /\ Again("record")
    /\ cm' = IF cm = NoVersion THEN Version ELSE cm
    /\ UNCHANGED <<todo, keys, version, base, full, refresh, loaded, webVars>>

RecordReconfigure ==
    /\ Again("record")
    /\ cm' = Version
    /\ UNCHANGED <<todo, keys, version, base, full, refresh, loaded, webVars>>

Deploy ==
    \/ NukeZKClients \/ UnmarkRefresh \/ EnsureZuulWeb \/ SetupBaseSecrets
    \/ ChooseReconfigure \/ ExecReconfigure("exec-full") \/ ExecReconfigure("exec-tenant")
    \/ DeleteWeb \/ RecordReconfigure

-----------------------------------------------------------------------------
(* Around the commands *)

Begin ==
    /\ pc = "idle" /\ runs < MaxRuns
    /\ pc' \in {"cleanup", "clear-job"}
    /\ outcome' = "none"
    /\ runs' = runs + 1
    /\ UNCHANGED <<todo, keys, tenant, webVars, crashes>>

Crash ==
    /\ pc # "idle" /\ crashes < MaxCrashes
    /\ pc' = "idle" /\ outcome' = "failed"
    /\ crashes' = crashes + 1
    /\ lost' = (lost \/ pc = "exec-full")
    /\ todo' = {} /\ newKey' = 0
    /\ UNCHANGED <<gen, zkKey, repoKey, stale, tenant, webVars, runs>>

\* The keystore's password is rotated: its resourceVersion was never there before.
NewPassword ==
    /\ pc = "idle" /\ runs > 0 /\ password < MaxPassword
    /\ password' = password + 1 /\ outcome' = "none"
    /\ UNCHANGED <<pc, todo, keys, setting, base, cm, full, refresh, loaded, webVars, command>>

\* The CR is changed, to settings that it may have had before.
NewSetting ==
    /\ pc = "idle" /\ runs > 0
    /\ setting' \in Settings \ {setting} /\ outcome' = "none"
    /\ UNCHANGED <<pc, todo, keys, password, base, cm, full, refresh, loaded, webVars, command>>

WebUp ==
    /\ web = "starting"
    /\ web' = "up" /\ webKey' = 0 /\ webRepo' = loaded
    /\ UNCHANGED <<pc, outcome, todo, keys, tenant, command>>

\* create_zuul_secrets encrypts with the key that zuul-web hands out: the one
\* in its cache, or in ZooKeeper, or, if there is none, a new one.
PublicKey == IF webKey # 0 THEN webKey
             ELSE IF zkKey[Internal] # 0 THEN zkKey[Internal] ELSE gen + 1

HandOut ==
    /\ web = "up"
    /\ webKey' = PublicKey
    /\ zkKey' = [zkKey EXCEPT ![Internal] = IF @ = 0 /\ webKey = 0 THEN PublicKey ELSE @]
    /\ gen' = IF PublicKey > gen THEN PublicKey ELSE gen
    /\ UNCHANGED <<pc, outcome, todo, repoKey, newKey, stale, lost, version, cm, full, refresh,
                   loaded, web, webRepo, command>>

\* commit_and_push, by a pod that is not of the jobs of the versions `others`.
Push(content, others) ==
    /\ repo' = content
    /\ overtaken' = overtaken \cup {v \in others : jobs[v] = "done" \/ cm = v}

\* A pod of a job: one that fails after it has pushed is followed by another, up to
\* the backoffLimit.  No key is deleted between its two calls while there is a job.
RunJob(v) ==
    /\ jobs[v] = "running"
    /\ HandOut
    /\ Push([version |-> v, key |-> PublicKey], Versions \ {v})
    /\ \E end \in JobStates \ {"absent"} : jobs' = [jobs EXCEPT ![v] = end]
    /\ UNCHANGED orphans

\* The last pod that the backoffLimit allows has failed.
FailJob(v) ==
    /\ jobs[v] = "running"
    /\ jobs' = [jobs EXCEPT ![v] = "failed"]
    /\ UNCHANGED <<pc, outcome, todo, keys, version, orphans, repo, overtaken, cm, full, refresh,
                   loaded, webVars, command>>

\* Pods of deleted jobs go on, if they do, whenever they like; several of them may
\* have the same to do.
FetchKey(o) ==
    /\ o.key = 0
    /\ HandOut
    /\ \E others \in {orphans, orphans \ {o}} :
          orphans' = others \cup {[version |-> o.version, key |-> PublicKey]}
    /\ UNCHANGED <<jobs, repo, overtaken>>

PushLate(o) ==
    /\ o.key # 0
    /\ Push(o, Versions)
    /\ orphans' \in {orphans, orphans \ {o}}
    /\ UNCHANGED <<pc, outcome, todo, keys, version, jobs, cm, full, refresh, loaded, webVars,
                   command>>

Environment ==
    \/ Begin \/ Crash \/ NewPassword \/ NewSetting \/ WebUp
    \/ \E v \in Versions : RunJob(v) \/ FailJob(v)
    \/ \E o \in orphans : FetchKey(o) \/ PushLate(o)

Next == Rotate \/ Deploy \/ Environment

Spec == Init /\ [][Next]_vars

\* The command goes on, pods start and jobs run; Zuul accepts a
\* reconfiguration that is asked for again and again, and a deploy that waits for a
\* job that failed runs out of attempts.
FairSpec == /\ Spec
            /\ WF_vars(Rotate \/ Deploy) /\ WF_vars(WebUp)
            /\ \A v \in Versions : WF_vars(RunJob(v) /\ jobs'[v] = "done")
            /\ \A scope \in {"exec-full", "exec-tenant"} :
                  SF_vars(ExecReconfigure(scope) /\ pc' = "delete-web")
            /\ SF_vars(SetupBaseSecrets /\ jobs[Version] = "failed" /\ pc' = "idle")

-----------------------------------------------------------------------------
(* Properties *)

\* When deploy succeeds, zuul-web is up, the internal tenant's secrets are of the
\* version it computed and encrypted with the key that Zuul has in ZooKeeper, and
\* both the scheduler and zuul-web have loaded them, wherever this or an earlier
\* command was killed and whichever jobs failed.  Excepted is a version whose job
\* or record was there when another pod pushed its own content: SetupBaseSecrets
\* takes the job that is done for granted.
DeployedIsLoaded == outcome = "deployed" =>
    /\ web = "up"
    /\ Version \notin overtaken =>
          /\ repo = [version |-> Version, key |-> zkKey[Internal]]
          /\ loaded = repo /\ webRepo = repo

\* When deploy succeeds, the secrets in system-config were made with the settings
\* that the CR has, as the checksum in the version is there to ensure.
SettingsInstalled == outcome = "deployed" => repo.version.setting = setting

\* deploy finishes a rotation: it makes Zuul reload every tenant after their keys
\* were changed, wherever commands were killed.  Excepted is a full reconfigure
\* that failed or was cut short: the marker that asks for it is gone by then, and
\* the next pass only reloads the internal tenant.
FullyReconfigured == outcome = "deployed" => ~stale \/ lost

\* The rotation can be tried again after an error: once it succeeds, the
\* secrets of every project can be decrypted with the key in ZooKeeper.
RetryRepairs == outcome = "rotated" => \A p \in Projects : repoKey[p] = zkKey[p]

\* Every command ends; whatever a killed one left behind, deploy gets the
\* internal tenant loaded.
CommandEnds == pc # "idle" ~> pc = "idle"
=============================================================================
