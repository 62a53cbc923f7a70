------------------------- MODULE ProjectKeysProofs -------------------------
(***************************************************************************)
(* Proofs about ProjectKeys, for any set of projects and any number of     *)
(* commands, kills, passwords and settings.                                *)
(***************************************************************************)
EXTENDS ProjectKeys, TLAPS

-----------------------------------------------------------------------------
(* The inductive invariant. *)

\* What the job of a version puts into the repository, with the key of ZooKeeper.
Made(v) == [version |-> v, key |-> zkKey[Internal]]

NoJobs == \A v \in Versions : jobs[v] = "absent"

\* A rotation has cleared the jobs, then the record, then set the two markers,
\* when it begins to change keys.
RotateInv ==
    /\ pc \in {"clear-cm", "mark-refresh", "mark-full", "copy", "script", "set"} => NoJobs
    /\ pc \in {"mark-refresh", "mark-full", "copy", "script", "set"} => cm = NoVersion
    /\ pc \in {"mark-full", "copy", "script", "set"} => refresh
    /\ pc \in {"copy", "script", "set"} => full

\* A pass of deploy has restarted zuul-web before it makes the job that asks it
\* for a key, and has found the job done when it makes Zuul load its secrets.
PassInv ==
    /\ pc = "unmark" => web = "absent" /\ webKey = 0
    /\ pc \in {"web", "config", "reconfigure", "exec-full", "exec-tenant", "delete-web",
               "record"} => ~refresh
    /\ pc \in {"config", "reconfigure", "exec-full", "exec-tenant", "delete-web"} => web = "up"
    /\ pc \in {"reconfigure", "exec-full", "exec-tenant", "delete-web", "record"}
          => jobs[Version] = "done"
    /\ pc \in {"delete-web", "record"} => loaded = repo \/ Version \in overtaken
    /\ pc = "record" => web = "absent"

\* While a job may run, zuul-web has no key in its cache that ZooKeeper has not;
\* the pods that a rotation left behind meet another zuul-web later.
CacheInv ==
    /\ refresh => NoJobs
    /\ ~refresh => webKey \in {0, zkKey[Internal]}

\* What a job that is done has made is what the repository has, with the key that
\* ZooKeeper has now, unless another pod has pushed since.
JobsInv == \A v \in Versions :
    jobs[v] = "done" /\ v \notin overtaken => repo = Made(v) /\ zkKey[Internal] # 0

\* The record, of whichever version, says what the scheduler has loaded, and
\* zuul-web if it is up, with the same exception.
RecordInv == cm # NoVersion /\ cm \notin overtaken =>
    /\ repo = Made(cm) /\ zkKey[Internal] # 0
    /\ loaded = repo
    /\ web = "up" => webRepo = repo

\* A full reconfigure that is needed is asked for, unless it was lost, and the
\* record does not exist while it is asked for.
FullInv ==
    /\ stale => full \/ lost \/ pc = "exec-full"
    /\ full => cm = NoVersion
    /\ pc \in {"exec-full", "exec-tenant", "delete-web", "record"} => ~full

OutcomeInv ==
    /\ outcome # "none" => pc = "idle"
    /\ outcome = "deployed" => jobs[Version] = "done" /\ cm = Version /\ web = "up"

KeysInv == /\ RotateInv /\ PassInv /\ CacheInv /\ JobsInv /\ RecordInv /\ FullInv /\ OutcomeInv

-----------------------------------------------------------------------------
(* Types *)

\* A step of a rotation keeps the state well typed: keys are made in turn.
LEMMA RotateType == TypeOK /\ Rotate => TypeOK'
<1> SUFFICES ASSUME TypeOK, Rotate PROVE TypeOK'
    OBVIOUS
<1> USE DEF TypeOK, Contents, PCs, JobStates, Goto, End, Again, Version, Versions, NoVersion,
            command, keys, version, base, tenant, webVars
<1>1. ASSUME NEW v \in Versions, ClearConfigJob(v) PROVE TypeOK'
    BY <1>1 DEF ClearConfigJob
<1>11. CASE ConfigJobCleared
    BY <1>11 DEF ConfigJobCleared
<1>2. CASE ClearRecord
    BY <1>2 DEF ClearRecord
<1>3. CASE MarkRefresh
    BY <1>3 DEF MarkRefresh
<1>4. CASE MarkFullReconfigure
    BY <1>4 DEF MarkFullReconfigure
<1>5. CASE CopyTools
    BY <1>5 DEF CopyTools
<1>6. CASE DeleteInternalKey
    BY <1>6 DEF DeleteInternalKey
<1>7. ASSUME NEW p \in Projects, PushSecrets(p) PROVE TypeOK'
    BY <1>7 DEF PushSecrets
<1>8. ASSUME NEW p \in Projects, SkipProject(p) PROVE TypeOK'
    BY <1>8 DEF SkipProject
<1>9. ASSUME NEW p \in Projects, StoreKey(p) PROVE TypeOK'
    BY <1>9 DEF StoreKey
<1>10. CASE EndRotation
    BY <1>10 DEF EndRotation
<1> QED BY <1>1, <1>2, <1>3, <1>4, <1>5, <1>6, <1>7, <1>8, <1>9, <1>10, <1>11 DEF Rotate

\* So does a step of a pass of deploy,
LEMMA DeployType == TypeOK /\ Deploy => TypeOK'
<1> SUFFICES ASSUME TypeOK, Deploy PROVE TypeOK'
    OBVIOUS
<1> USE DEF TypeOK, Contents, PCs, JobStates, Goto, End, Again, Version, Versions, NoVersion,
            command, keys, version, base, tenant, webVars
<1>1. CASE NukeZKClients
    BY <1>1 DEF NukeZKClients, Nothing
<1>2. CASE UnmarkRefresh
    BY <1>2 DEF UnmarkRefresh
<1>3. CASE EnsureZuulWeb
    BY <1>3 DEF EnsureZuulWeb
<1>4. CASE SetupBaseSecrets
  <2>1. Version \in Versions
      OBVIOUS
  <2>2. jobs' \in [Versions -> JobStates]
      BY ONLY <2>1, <1>4, jobs \in [Versions -> JobStates] DEF SetupBaseSecrets, JobStates
  <2>3. pc' \in PCs /\ outcome' \in {"none", "failed", "rotated", "deployed"}
      BY <1>4 DEF SetupBaseSecrets
  <2> QED BY <1>4, <2>2, <2>3 DEF SetupBaseSecrets
<1>5. CASE ChooseReconfigure
    BY <1>5 DEF ChooseReconfigure
<1>6. ASSUME NEW scope \in {"exec-full", "exec-tenant"}, ExecReconfigure(scope) PROVE TypeOK'
    BY <1>6 DEF ExecReconfigure, Reconfigured, NotReconfigured
<1>7. CASE DeleteWeb
    BY <1>7 DEF DeleteWeb, Nothing
<1>8. CASE RecordReconfigure
    BY <1>8 DEF RecordReconfigure
<1> QED BY <1>1, <1>2, <1>3, <1>4, <1>5, <1>6, <1>7, <1>8 DEF Deploy

\* and what happens around the commands.
LEMMA EnvironmentType == TypeOK /\ Environment => TypeOK'
<1> SUFFICES ASSUME TypeOK, Environment PROVE TypeOK'
    OBVIOUS
<1> USE DEF TypeOK, Contents, PCs, JobStates, Goto, End, Again, Version, Versions, NoVersion,
            command, keys, version, base, tenant, webVars
<1>1. CASE Begin
    BY <1>1, BoundsAssumption DEF Begin
<1>2. CASE Crash
    BY <1>2, BoundsAssumption DEF Crash
<1>3. CASE NewPassword
    BY <1>3, BoundsAssumption DEF NewPassword
<1>6. CASE NewSetting
    BY <1>6 DEF NewSetting
<1>4. CASE WebUp
    BY <1>4 DEF WebUp
<1>5. ASSUME NEW v \in Versions, RunJob(v) PROVE TypeOK'
    BY <1>5 DEF RunJob, HandOut, PublicKey, Push
<1>7. ASSUME NEW v \in Versions, FailJob(v) PROVE TypeOK'
    BY <1>7 DEF FailJob
<1>8. ASSUME NEW o \in orphans, FetchKey(o) PROVE TypeOK'
    BY <1>8 DEF FetchKey, HandOut, PublicKey
<1>9. ASSUME NEW o \in orphans, PushLate(o) PROVE TypeOK'
    BY <1>9 DEF PushLate, Push
<1> QED BY <1>1, <1>2, <1>3, <1>4, <1>5, <1>6, <1>7, <1>8, <1>9 DEF Environment

-----------------------------------------------------------------------------
(* Steps keep the invariant *)

\* Keys change only after the record is cleared and the markers are set.
LEMMA RotateKeepsInv == TypeOK /\ KeysInv /\ Rotate => KeysInv'
<1> SUFFICES ASSUME TypeOK, KeysInv, Rotate PROVE KeysInv'
    OBVIOUS
<1> USE DEF KeysInv, RotateInv, PassInv, CacheInv, JobsInv, RecordInv, FullInv, OutcomeInv,
            Made, NoJobs, TypeOK, Contents, PCs, JobStates, Goto, End, Again, Version, Versions, NoVersion,
            command, keys, version, base, tenant, webVars
<1>1. ASSUME NEW v \in Versions, ClearConfigJob(v) PROVE KeysInv'
    BY <1>1 DEF ClearConfigJob
<1>11. CASE ConfigJobCleared
    BY <1>11 DEF ConfigJobCleared
<1>2. CASE ClearRecord
    BY <1>2 DEF ClearRecord
<1>3. CASE MarkRefresh
    BY <1>3 DEF MarkRefresh
<1>4. CASE MarkFullReconfigure
    BY <1>4 DEF MarkFullReconfigure
<1>5. CASE CopyTools
    BY <1>5 DEF CopyTools
<1>6. CASE DeleteInternalKey
    BY <1>6 DEF DeleteInternalKey
<1>7. ASSUME NEW p \in Projects, PushSecrets(p) PROVE KeysInv'
    BY <1>7 DEF PushSecrets
<1>8. ASSUME NEW p \in Projects, SkipProject(p) PROVE KeysInv'
    BY <1>8 DEF SkipProject
<1>9. ASSUME NEW p \in Projects, StoreKey(p) PROVE KeysInv'
    BY <1>9 DEF StoreKey
<1>10. CASE EndRotation
    BY <1>10 DEF EndRotation
<1> QED BY <1>1, <1>2, <1>3, <1>4, <1>5, <1>6, <1>7, <1>8, <1>9, <1>10, <1>11 DEF Rotate

\* The record is written only after scheduler and zuul-web were made to load what
\* the job has done.
LEMMA DeployKeepsInv == TypeOK /\ KeysInv /\ Deploy => KeysInv'
<1> SUFFICES ASSUME TypeOK, KeysInv, Deploy PROVE KeysInv'
    OBVIOUS
<1> USE DEF KeysInv, RotateInv, PassInv, CacheInv, JobsInv, RecordInv, FullInv, OutcomeInv,
            Made, NoJobs, TypeOK, Contents, PCs, JobStates, Goto, End, Again, Version, Versions, NoVersion,
            command, keys, version, base, tenant, webVars
<1>1. CASE NukeZKClients
    BY <1>1 DEF NukeZKClients
<1>2. CASE UnmarkRefresh
    BY <1>2 DEF UnmarkRefresh
<1>3. CASE EnsureZuulWeb
    BY <1>3 DEF EnsureZuulWeb
<1>4. CASE SetupBaseSecrets
    BY <1>4 DEF SetupBaseSecrets
<1>5. CASE ChooseReconfigure
    BY <1>5 DEF ChooseReconfigure
<1>6. ASSUME NEW scope \in {"exec-full", "exec-tenant"}, ExecReconfigure(scope) PROVE KeysInv'
    BY <1>6 DEF ExecReconfigure, Reconfigured, NotReconfigured
<1>7. CASE DeleteWeb
    BY <1>7 DEF DeleteWeb
<1>8. CASE RecordReconfigure
    BY <1>8 DEF RecordReconfigure
<1> QED BY <1>1, <1>2, <1>3, <1>4, <1>5, <1>6, <1>7, <1>8 DEF Deploy

\* A job, a pod that starts, a kill or a new version does not make the record false.
LEMMA EnvironmentKeepsInv == TypeOK /\ KeysInv /\ Environment => KeysInv'
<1> SUFFICES ASSUME TypeOK, KeysInv, Environment PROVE KeysInv'
    OBVIOUS
<1> USE DEF KeysInv, RotateInv, PassInv, CacheInv, JobsInv, RecordInv, FullInv, OutcomeInv,
            Made, NoJobs, TypeOK, Contents, PCs, JobStates, Goto, End, Again, Version, Versions, NoVersion,
            command, keys, version, base, tenant, webVars
<1>1. CASE Begin
    BY <1>1 DEF Begin
<1>2. CASE Crash
    BY <1>2 DEF Crash
<1>3. CASE NewPassword
    BY <1>3, BoundsAssumption DEF NewPassword
<1>6. CASE NewSetting
    BY <1>6 DEF NewSetting
<1>4. CASE WebUp
    BY <1>4 DEF WebUp
<1>5. ASSUME NEW v \in Versions, RunJob(v) PROVE KeysInv'
    BY <1>5 DEF RunJob, HandOut, PublicKey, Push
<1>7. ASSUME NEW v \in Versions, FailJob(v) PROVE KeysInv'
    BY <1>7 DEF FailJob
<1>8. ASSUME NEW o \in orphans, FetchKey(o) PROVE KeysInv'
    BY <1>8 DEF FetchKey, HandOut, PublicKey
<1>9. ASSUME NEW o \in orphans, PushLate(o) PROVE KeysInv'
    BY <1>9 DEF PushLate, Push
<1> QED BY <1>1, <1>2, <1>3, <1>4, <1>5, <1>6, <1>7, <1>8, <1>9 DEF Environment

-----------------------------------------------------------------------------
(* Theorems *)

\* Every step keeps the state well typed, and the invariant.
LEMMA StepKeepsInv == TypeOK /\ KeysInv /\ [Next]_vars => TypeOK' /\ KeysInv'
<1> SUFFICES ASSUME TypeOK, KeysInv, [Next]_vars PROVE TypeOK' /\ KeysInv'
    OBVIOUS
<1>1. CASE Rotate
    BY <1>1, RotateType, RotateKeepsInv
<1>2. CASE Deploy
    BY <1>2, DeployType, DeployKeepsInv
<1>3. CASE Environment
    BY <1>3, EnvironmentType, EnvironmentKeepsInv
<1>4. CASE UNCHANGED vars
    BY <1>4 DEF vars, TypeOK, Contents, Version, NoJobs, Made, KeysInv, RotateInv, PassInv,
                CacheInv, JobsInv, RecordInv, FullInv, OutcomeInv, command, keys, version,
                base, tenant, webVars
<1> QED BY <1>1, <1>2, <1>3, <1>4 DEF Next

\* The invariant holds at the start, and so always.
LEMMA InvariantHolds == Spec => [](TypeOK /\ KeysInv)
<1>1. Init => TypeOK
  <2> SUFFICES ASSUME Init PROVE TypeOK
      OBVIOUS
  <2>1. zkKey \in [Projects \cup {Internal} -> 0..gen] /\ repoKey \in [Projects -> 1..gen]
      BY DEF Init
  <2>2. {repo, loaded, webRepo} \subseteq Contents
      BY DEF Init, Nothing, Contents, Versions, NoVersion
  <2>3. runs \in 0..MaxRuns /\ crashes \in 0..MaxCrashes
      BY BoundsAssumption DEF Init
  <2>4. pc \in PCs /\ todo \subseteq Projects \cup {Internal}
      BY DEF Init, PCs
  <2>5. stale \in BOOLEAN /\ lost \in BOOLEAN /\ full \in BOOLEAN /\ refresh \in BOOLEAN
      BY DEF Init
  <2>6. /\ gen \in Nat \ {0} /\ webKey \in 0..gen /\ newKey \in 0..gen
        /\ Version \in Versions /\ cm \in Versions \cup {NoVersion}
      BY SettingsAssumption, BoundsAssumption DEF Init, Version, Versions
  <2>8. /\ jobs \in [Versions -> JobStates]
        /\ orphans \subseteq [version : Versions, key : 0..gen] /\ overtaken \subseteq Versions
      BY DEF Init, JobStates
  <2>7. /\ outcome \in {"none", "failed", "rotated", "deployed"}
        /\ web \in {"absent", "starting", "up"}
      BY DEF Init
  <2> QED BY <2>1, <2>2, <2>3, <2>4, <2>5, <2>6, <2>7, <2>8 DEF TypeOK
<1>2. Init => KeysInv
    BY DEF Init, KeysInv, RotateInv, PassInv, CacheInv, JobsInv, RecordInv, FullInv, OutcomeInv, NoJobs
<1> QED BY <1>1, <1>2, StepKeepsInv, PTL DEF Spec

\* The state stays well typed: every key and every content there is was made by
\* a step of Zuul or of the script, however often the commands are repeated.
THEOREM TypeCorrect == Spec => []TypeOK
<1> QED BY InvariantHolds, PTL

\* When SetupConfigJob lets deploy succeed, the internal tenant's secrets are of
\* the version it computed, encrypted with Zuul's key, and loaded by scheduler and
\* zuul-web, unless another pod pushed over a version that was done, for any number
\* of projects, commands, kills, settings and jobs of other versions.
THEOREM DeployedSecretsAreLoaded == Spec => []DeployedIsLoaded
<1>1. TypeOK /\ KeysInv => DeployedIsLoaded
  <2> SUFFICES ASSUME TypeOK, KeysInv, outcome = "deployed" PROVE DeployedIsLoaded
      BY DEF DeployedIsLoaded
  <2>1. Version \in Versions /\ Version # NoVersion
      BY DEF TypeOK, Version, Versions, NoVersion
  <2> QED BY <2>1 DEF KeysInv, RecordInv, OutcomeInv, Made, DeployedIsLoaded
<1> QED BY <1>1, InvariantHolds, PTL

\* A deploy that succeeds after a rotation has made Zuul reload every tenant,
\* unless the command itself failed: the record that rotate-projects-private-keys
\* clears first, and the marker it sets before it changes keys, see to it.
THEOREM RotationIsFinished == Spec => []FullyReconfigured
<1>1. TypeOK /\ KeysInv => FullyReconfigured
  <2> SUFFICES ASSUME TypeOK, KeysInv, outcome = "deployed" PROVE ~stale \/ lost
      BY DEF FullyReconfigured
  <2>1. Version # NoVersion
      BY DEF TypeOK, Version, Versions, NoVersion
  <2>2. ~full /\ pc = "idle"
      BY <2>1 DEF KeysInv, FullInv, OutcomeInv
  <2> QED BY <2>2 DEF KeysInv, FullInv
<1> QED BY <1>1, InvariantHolds, PTL
=============================================================================
