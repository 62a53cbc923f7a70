---------------------------- MODULE Reconcile ----------------------------
(***************************************************************************)
(* The `sf-operator deploy` command: StandaloneReconcile and the Step it   *)
(* repeats (controllers/softwarefactory_controller.go), with the Deploy    *)
(* and Ensure functions Step calls, against a cluster that brings          *)
(* workloads up at its own pace, loses them, and whose secrets come and    *)
(* go between two calls of the operator.                                   *)
(*                                                                         *)
(* A workload is one StatefulSet or Deployment (for MariaDB together with  *)
(* its provisioning job; "Config" is the internal tenant: its job and the  *)
(* ConfigMap recording that Zuul loaded it).  Which Kubernetes objects a   *)
(* workload is made of is abstracted to how far along it is.               *)
(***************************************************************************)
EXTENDS Naturals, FiniteSets

CONSTANTS
    CRs,        \* the resources (sf.yaml) the command may be given
    Slow,       \* the workloads whose start may outlast a whole pass
    Fragile,    \* the workloads and secrets the environment may disturb
    Upgrades,   \* sets of workloads that a new operator or CR makes outdated
    MaxAttempt, \* maxAttempt in StandaloneReconcile (60 in the code)
    MaxFaults,  \* bound on the disturbances by the environment
    DryRuns     \* whether commands may be run with --dry-run, without it, or both

Base     == {"GitServer", "MariaDB", "Logserver", "Gateway", "HoundSearch",
             "LogJuicer", "Zookeeper"}
Backends == {"GitServer", "MariaDB", "Zookeeper"}
Nodepool == {"NodePoolLauncher", "NodePoolBuilder"}
Zuul     == {"Scheduler", "Weeder", "Executor", "Web", "Merger"}
Workloads == Base \cup Nodepool \cup Zuul \cup {"Config"}

\* The workloads that are Deployments; the others are StatefulSets (and Config).
Deployments == {"Gateway", "LogJuicer", "NodePoolLauncher", "Weeder", "Web"}

\* The keys of the services map.  The statuses of the Zuul components are
\* merged into it only when Zuul is not ready; here they are always in it,
\* which leaves the conjunction over the values what it is in the code.
Services == (Workloads \ {"Weeder"}) \cup {"Zuul", "ConfigSecrets"}

\* "connections": what the CR's connections refer to; "zuul": the ssh key,
\* keystore password and auth secret; "db": zuul-db-connection; "tls": the
\* ZooKeeper client certificate.
Secrets == {"connections", "zuul", "db", "tls"}

CRType == [standalone : BOOLEAN, codesearch : BOOLEAN, executor : BOOLEAN,
           valid : BOOLEAN]

ASSUME CRsAssumption     == CRs \subseteq CRType /\ CRs # {}
ASSUME BoundsAssumption  == MaxAttempt \in Nat \ {0} /\ MaxFaults \in Nat
ASSUME DryRunAssumption  == DryRuns \subseteq BOOLEAN /\ DryRuns # {}
ASSUME SubsetsAssumption == /\ Slow \subseteq Workloads
                            /\ Fragile \subseteq (Workloads \cup Secrets)
                            /\ Upgrades \subseteq SUBSET Workloads

VARIABLES
    cr,        \* the CR of the current or last command
    dryRun,    \* the command was given --dry-run
    pc,        \* where the command is
    attempt,   \* the attempt counter of StandaloneReconcile
    services,  \* the services map of the current Step
    ready,     \* status.Ready of the last Step
    outcome,   \* how the last command ended
    workload,  \* the cluster: how far along each workload is
    secrets,   \* the cluster: the secrets that exist
    refresh,   \* the cluster: the zk-clients-need-refresh marker exists
    owner,     \* the cluster: the sf-standalone-owner ConfigMap
    disturbed, \* what the environment broke since the operator looked at it
    faults     \* number of disturbances so far

operatorVars == <<cr, dryRun, attempt, ready, outcome>>
clusterVars  == <<secrets, refresh, owner>>
vars == <<cr, dryRun, pc, attempt, services, ready, outcome, workload, secrets,
          refresh, owner, disturbed, faults>>

PCs == {"idle", "cleanup", "validate", "standalone", "secrets", "ZuulSetup",
        "ZuulStatus", "gate", "report", "loop", "record"} \cup Workloads

\* "outdated": it exists, and ensureStatefulset or ensureDeployment finds a
\* difference; "updating": a Deployment that was updated, with a pod of the
\* earlier template still around; "built": the config job succeeded, Zuul has
\* not loaded it yet.
WorkloadStates == {"absent", "outdated", "starting", "updating", "built", "ready"}
Outcomes == {"none", "ok", "dry-run", "failed", "exit", "crashed"}

TypeOK ==
    /\ cr \in CRs
    /\ dryRun \in DryRuns
    /\ pc \in PCs
    /\ attempt \in 0..MaxAttempt
    /\ services \in [Services -> {"none", "waiting", "ok"}]
    /\ ready \in BOOLEAN
    /\ outcome \in Outcomes
    /\ workload \in [Workloads -> WorkloadStates]
    /\ secrets \subseteq Secrets
    /\ refresh \in BOOLEAN
    /\ owner \in {"absent", "stale", "current"}
    /\ disturbed \subseteq Workloads
    /\ faults \in 0..MaxFaults

NoServices == [s \in Services |-> "none"]

\* A namespace nothing was deployed in, with the user's secrets in place or not.
Init ==
    /\ cr \in CRs
    /\ dryRun \in DryRuns
    /\ pc = "idle"
    /\ attempt = 0
    /\ services = NoServices
    /\ ready = FALSE
    /\ outcome = "none"
    /\ workload = [w \in Workloads |-> "absent"]
    /\ secrets \in {{}, {"connections"}}
    /\ refresh = FALSE
    /\ owner = "absent"
    /\ disturbed = {}
    /\ faults = 0

-----------------------------------------------------------------------------
(* What the CR asks for. *)

IsStandalone        == cr.standalone
IsCodesearchEnabled == cr.codesearch
IsExecutorEnabled   == cr.executor

Disabled == IF IsStandalone THEN {}
            ELSE {w \in {"HoundSearch", "Executor"} :
                    \/ w = "HoundSearch" /\ ~IsCodesearchEnabled
                    \/ w = "Executor" /\ ~IsExecutorEnabled}
Required == IF IsStandalone THEN {"Executor"} ELSE Workloads \ Disabled

-----------------------------------------------------------------------------
(* Ensuring a workload, and looking at it. *)

\* The state of a workload that was just created or updated.
Started(w) == IF w \in Slow
              THEN IF w \in Deployments /\ workload[w] = "outdated"
                   THEN "updating" ELSE "starting"
              ELSE IF w = "Config" THEN "built" ELSE "ready"

\* The workload, where it exists, no longer is what the operator computes.
Outdated(changed) == [w \in Workloads |->
    IF w \in changed /\ workload[w] # "absent" THEN "outdated" ELSE workload[w]]

\* Faulty variant: the --dry-run flag is forgotten.
EnsuredInDryRun(w) == IF workload[w] \in {"absent", "outdated"}
                      THEN Started(w) ELSE workload[w]

\* ensureStatefulset / ensureDeployment: create, update, or leave as is.
Ensured(w) == IF workload[w] \in {"absent", "outdated"} /\ ~dryRun
              THEN Started(w) ELSE workload[w]

\* What the Deploy function returns: FALSE after a change, else whether the
\* rollout is over.  A dry run takes whatever exists unchanged for ready.
Observed(w) == IF \/ workload[w] = "ready"
                  \/ dryRun /\ workload[w] \in {"starting", "updating"}
               THEN "ok" ELSE "waiting"

\* The answers the Deploy function may give.  IsDeploymentRolloutDone does not
\* look at UpdatedReplicas, so the pod of the earlier template may be enough
\* for a Deployment (DeploymentRollout); StatefulSets are waited for
\* (StatefulSetRollout).
Rolling(w) == w \in Deployments /\ workload[w] = "updating"
Answers(w) == {Observed(w)} \cup (IF Rolling(w) THEN {"ok"} ELSE {})

Looked(w) == disturbed' = disturbed \ {w}

\* The tail that every Deploy function has, for workload w and key s.
Deploy(w, s, next) ==
    /\ workload' = [workload EXCEPT ![w] = Ensured(w)]
    /\ \E answer \in Answers(w) : services' = [services EXCEPT ![s] = answer]
    /\ Looked(w)
    /\ pc' = next

-----------------------------------------------------------------------------
(* The command up to its first Step. *)

\* EnsureStandaloneOwner, then MkSFController.  The owner is created also in
\* a dry run, and before the connections are found invalid.
Start ==
    /\ pc = "idle" /\ outcome = "none"
    /\ owner' = IF owner = "absent" THEN "current" ELSE owner
    /\ IF cr.valid THEN pc' = "cleanup" /\ outcome' = outcome
                   ELSE pc' = "idle" /\ outcome' = "exit"
    /\ attempt' = 0
    /\ UNCHANGED <<cr, dryRun, services, ready, workload, secrets, refresh,
                   disturbed, faults>>

\* nukeZKClients deletes the workload named after a pod's first container,
\* for every zuul- and nodepool- pod.  The launcher's container is called
\* "launcher", so that Deployment survives.
NukedByName == Zuul \cup {"NodePoolBuilder"}

ZKClients   == NukedByName \cup {"NodePoolLauncher"}

\* Faulty variant: the zk-clients-need-refresh marker is not deleted.
CleanupKeepsMarker ==
    LET nuke == refresh \/ (~IsStandalone /\ "tls" \notin secrets)
    IN  /\ pc = "cleanup"
        /\ workload' = [w \in Workloads |->
                           IF nuke /\ ~dryRun /\ w \in NukedByName
                           THEN "absent" ELSE workload[w]]
        /\ services' = NoServices
        /\ pc' = "validate"
        /\ UNCHANGED <<cr, dryRun, attempt, ready, outcome, secrets, refresh, owner,
                       disturbed, faults>>

\* cleanup: the whole of it, the removal of legacy secrets left out.  A client
\* that is starting may have no pod yet, and is then spared.  The processes of
\* the clients that are not deleted (the launcher, and all of them in a dry
\* run) are sent a signal that may or may not take them down.
Cleanup ==
    LET nukeZK == ~IsStandalone /\ "tls" \notin secrets
        nuke   == nukeZK \/ refresh
        noPod  == {w \in NukedByName : nuke /\ workload[w] = "starting"}
    IN  /\ pc = "cleanup"
        /\ \E spared \in SUBSET noPod, killed \in {{}, ZKClients} :
              LET gone == IF dryRun THEN {}
                          ELSE (IF nuke THEN NukedByName \ spared ELSE {})
                               \cup (IF nukeZK THEN {"Zookeeper"} ELSE {})
                  down == {w \in killed : nuke /\ workload[w] \in {"updating", "ready"}}
              IN  workload' = [w \in Workloads |->
                                 IF w \in gone THEN "absent"
                                 ELSE IF w \in down THEN "starting"
                                 ELSE workload[w]]
        /\ refresh' = (refresh /\ dryRun)
        /\ services' = NoServices
        /\ pc' = "validate"
        /\ UNCHANGED <<cr, dryRun, attempt, ready, outcome, secrets, owner,
                       disturbed, faults>>

\* validateZuulConnectionsSecrets; when it fails Step returns not ready.
ValidateZuulConnectionsSecrets ==
    /\ pc = "validate"
    /\ IF "connections" \in secrets
       THEN pc' = (IF IsStandalone THEN "standalone" ELSE "secrets") /\ ready' = ready
       ELSE pc' = "loop" /\ ready' = FALSE
    /\ UNCHANGED <<cr, dryRun, attempt, services, outcome, workload, clusterVars,
                   disturbed, faults>>

-----------------------------------------------------------------------------
(* deployStandaloneExectorStep *)

DeployStandaloneExecutor ==
    /\ pc = "standalone"
    /\ IF {"zuul", "tls"} \subseteq secrets
       THEN Deploy("Executor", "Zuul", "report")
       ELSE /\ services' = [services EXCEPT !["Zuul"] = "waiting"]
            /\ pc' = "report"
            /\ UNCHANGED <<workload, disturbed>>
    /\ UNCHANGED <<operatorVars, clusterVars, faults>>

-----------------------------------------------------------------------------
(* deploySFStep: backing and companion services *)

\* DeployZuulSecrets and EnsureToolingVolume.  When it is the keystore password
\* that is made anew, its resource version, and with it the version of the
\* config job, is another one.
DeployZuulSecrets ==
    /\ pc = "secrets"
    /\ secrets' = IF dryRun THEN secrets ELSE secrets \cup {"zuul"}
    /\ workload' \in {workload} \cup (IF secrets' # secrets
                                      THEN {Outdated({"Config"})} ELSE {})
    /\ pc' = "GitServer"
    /\ UNCHANGED <<operatorVars, services, refresh, owner, disturbed, faults>>

DeployGitServer ==
    /\ pc = "GitServer"
    /\ Deploy("GitServer", "GitServer", "MariaDB")
    /\ UNCHANGED <<operatorVars, clusterVars, faults>>

\* Once the database runs, a missing connection secret is made anew, and the
\* provisioning job is started again for the new password.
DeployMariadb ==
    /\ pc = "MariaDB"
    /\ IF Observed("MariaDB") = "ok" /\ "db" \notin secrets
       THEN /\ services' = [services EXCEPT !["MariaDB"] = "waiting"]
            /\ workload' = [workload EXCEPT !["MariaDB"] =
                              IF dryRun THEN @ ELSE Started("MariaDB")]
            /\ secrets' = IF dryRun THEN secrets ELSE secrets \cup {"db"}
            /\ Looked("MariaDB")
            /\ pc' = "Logserver"
       ELSE /\ Deploy("MariaDB", "MariaDB", "Logserver")
            /\ secrets' = secrets
    /\ UNCHANGED <<operatorVars, refresh, owner, faults>>

DeployLogserver ==
    /\ pc = "Logserver"
    /\ Deploy("Logserver", "Logserver", "Gateway")
    /\ UNCHANGED <<operatorVars, clusterVars, faults>>

DeployHTTPDGateway ==
    /\ pc = "Gateway"
    /\ Deploy("Gateway", "Gateway", "HoundSearch")
    /\ UNCHANGED <<operatorVars, clusterVars, faults>>

DeployHoundSearch ==
    /\ pc = "HoundSearch" /\ IsCodesearchEnabled
    /\ Deploy("HoundSearch", "HoundSearch", "LogJuicer")
    /\ UNCHANGED <<operatorVars, clusterVars, faults>>

\* Faulty variant: hound-search is left behind.
TerminateHoundSearchNoop ==
    /\ pc = "HoundSearch" /\ ~IsCodesearchEnabled
    /\ pc' = "LogJuicer"
    /\ UNCHANGED <<operatorVars, services, workload, clusterVars, disturbed, faults>>

TerminateHoundSearch ==
    /\ pc = "HoundSearch" /\ ~IsCodesearchEnabled
    /\ workload' = [workload EXCEPT !["HoundSearch"] =
                      IF dryRun THEN @ ELSE "absent"]
    /\ pc' = "LogJuicer"
    /\ UNCHANGED <<operatorVars, services, clusterVars, disturbed, faults>>

EnsureLogJuicer ==
    /\ pc = "LogJuicer"
    /\ Deploy("LogJuicer", "LogJuicer", "Zookeeper")
    /\ UNCHANGED <<operatorVars, clusterVars, faults>>

-----------------------------------------------------------------------------
(* deployZKAndZuulAndNodepool *)

\* Faulty variant: GitServer is not waited for.
DeployZookeeperEarly ==
    /\ pc = "Zookeeper"
    /\ Deploy("Zookeeper", "Zookeeper",
              IF Observed("Zookeeper") = "ok" /\ services["MariaDB"] = "ok"
              THEN "NodePoolLauncher" ELSE "gate")
    /\ secrets' = IF dryRun THEN secrets ELSE secrets \cup {"tls"}
    /\ UNCHANGED <<operatorVars, refresh, owner, faults>>

\* DeployZookeeper with EnsureZookeeperCertificates, and the two early
\* returns: ZooKeeper, GitServer and MariaDB must all be ready to go on.
DeployZookeeper ==
    /\ pc = "Zookeeper"
    /\ Deploy("Zookeeper", "Zookeeper",
              IF /\ Observed("Zookeeper") = "ok"
                 /\ services["GitServer"] = "ok"
                 /\ services["MariaDB"] = "ok"
              THEN "NodePoolLauncher" ELSE "gate")
    /\ secrets' = IF dryRun THEN secrets ELSE secrets \cup {"tls"}
    /\ UNCHANGED <<operatorVars, refresh, owner, faults>>

DeployNodepoolLauncher ==
    /\ pc = "NodePoolLauncher"
    /\ Deploy("NodePoolLauncher", "NodePoolLauncher", "NodePoolBuilder")
    /\ UNCHANGED <<operatorVars, clusterVars, faults>>

DeployNodepoolBuilder ==
    /\ pc = "NodePoolBuilder"
    /\ Deploy("NodePoolBuilder", "NodePoolBuilder", "ZuulSetup")
    /\ UNCHANGED <<operatorVars, clusterVars, faults>>

\* The head of EnsureZuulComponents: remove a disabled executor, then build
\* zuul.conf, which needs the db, keystore and auth secrets.
EnsureZuulConfigSecret ==
    /\ pc = "ZuulSetup"
    /\ workload' = [workload EXCEPT !["Executor"] =
                      IF IsExecutorEnabled \/ dryRun THEN @ ELSE "absent"]
    /\ IF {"db", "zuul"} \subseteq secrets
       THEN /\ services' = [services EXCEPT !["ConfigSecrets"] = "ok"]
            /\ pc' = "Scheduler"
       ELSE /\ services' = [services EXCEPT !["ConfigSecrets"] = "waiting",
                                            !["Zuul"] = "waiting"]
            /\ pc' = "gate"
    /\ UNCHANGED <<operatorVars, clusterVars, disturbed, faults>>

AfterScheduler == IF IsExecutorEnabled THEN "Executor" ELSE "Web"

\* EnsureZuulScheduler goes on to the weeder only when the scheduler is ready,
\* and then returns the weeder's readiness.
EnsureZuulScheduler ==
    /\ pc = "Scheduler"
    /\ Deploy("Scheduler", "Scheduler",
              IF Observed("Scheduler") = "ok" THEN "Weeder" ELSE AfterScheduler)
    /\ UNCHANGED <<operatorVars, clusterVars, faults>>

EnsureZuulWeeder ==
    /\ pc = "Weeder"
    /\ Deploy("Weeder", "Scheduler", AfterScheduler)
    /\ UNCHANGED <<operatorVars, clusterVars, faults>>

EnsureZuulExecutor ==
    /\ pc = "Executor"
    /\ Deploy("Executor", "Executor", "Web")
    /\ UNCHANGED <<operatorVars, clusterVars, faults>>

EnsureZuulWeb ==
    /\ pc = "Web"
    /\ Deploy("Web", "Web", "Merger")
    /\ UNCHANGED <<operatorVars, clusterVars, faults>>

EnsureZuulMerger ==
    /\ pc = "Merger"
    /\ Deploy("Merger", "Merger", "ZuulStatus")
    /\ UNCHANGED <<operatorVars, clusterVars, faults>>

\* The end of EnsureZuulComponents: Zuul is the conjunction of its parts.
ZuulStatus ==
    /\ pc = "ZuulStatus"
    /\ services' = [services EXCEPT !["Zuul"] =
                      IF \A s \in Zuul \ {"Weeder"} : services[s] # "waiting"
                      THEN "ok" ELSE "waiting"]
    /\ pc' = "gate"
    /\ UNCHANGED <<operatorVars, workload, clusterVars, disturbed, faults>>

-----------------------------------------------------------------------------
(* deploySFStep: the internal tenant *)

\* Config is FALSE while Zuul or the logserver is not ready (a key that is
\* not in the Go map reads as false).
ConfigGate ==
    /\ pc = "gate"
    /\ IF services["Zuul"] = "ok" /\ services["Logserver"] = "ok"
       THEN pc' = "Config" /\ services' = services
       ELSE pc' = "report" /\ services' = [services EXCEPT !["Config"] = "waiting"]
    /\ UNCHANGED <<operatorVars, workload, clusterVars, disturbed, faults>>

\* SetupConfigJob: start the job when its version is new.
SetupBaseSecrets ==
    /\ pc = "Config" /\ workload["Config"] # "built"
    /\ Deploy("Config", "Config", "report")
    /\ UNCHANGED <<operatorVars, clusterVars, faults>>

\* Faulty variant: the pass that restarts zuul-web reports the tenant ready.
TenantReconfigureReady ==
    /\ pc = "Config" /\ workload["Config"] = "built"
    /\ workload' = [workload EXCEPT !["Web"] = "absent", !["Config"] = "ready"]
    /\ services' = [services EXCEPT !["Config"] = "ok"]
    /\ Looked("Config")
    /\ pc' = "report"
    /\ UNCHANGED <<operatorVars, clusterVars, faults>>

\* SetupConfigJob, with the job done: reconfigure the internal tenant, delete
\* zuul-web so that it is started anew, record it and return FALSE.  The
\* command run in the scheduler may fail.
TenantReconfigure ==
    /\ pc = "Config" /\ workload["Config"] = "built"
    /\ \/ UNCHANGED workload
       \/ /\ ~dryRun
          /\ workload' = [workload EXCEPT !["Web"] = "absent", !["Config"] = "ready"]
    /\ services' = [services EXCEPT !["Config"] = "waiting"]
    /\ Looked("Config")
    /\ pc' = "report"
    /\ UNCHANGED <<operatorVars, clusterVars, faults>>

-----------------------------------------------------------------------------
(* The end of Step and of the loop in StandaloneReconcile. *)

\* Faulty variant: one ready service is enough.
IsOperatorReadySome == \E s \in Services : services[s] = "ok"

\* isOperatorReady: no value of the map is false.
IsOperatorReady == \A s \in Services : services[s] # "waiting"

Report ==
    /\ pc = "report"
    /\ ready' = IsOperatorReady
    /\ pc' = "loop"
    /\ UNCHANGED <<cr, dryRun, attempt, services, outcome, workload, clusterVars,
                   disturbed, faults>>

\* Faulty variants: the attempts are compared before they are counted, and
\* only counted for a pass that was ready.
LoopEndLate ==
    /\ pc = "loop"
    /\ attempt' = attempt + 1
    /\ \/ /\ attempt = MaxAttempt
          /\ pc' = "idle" /\ outcome' = "failed"
       \/ /\ attempt # MaxAttempt
          /\ pc' = IF ready THEN "record" ELSE "cleanup"
          /\ UNCHANGED outcome
    /\ UNCHANGED <<cr, dryRun, services, ready, workload, clusterVars, disturbed, faults>>

LoopEndUncounted ==
    /\ pc = "loop"
    /\ pc' = IF ready THEN "record" ELSE "cleanup"
    /\ attempt' = IF ready THEN attempt + 1 ELSE attempt
    /\ UNCHANGED <<cr, dryRun, services, ready, outcome, workload, clusterVars,
                   disturbed, faults>>

\* The attempt is counted, and the last one given up, before status.Ready is
\* looked at.
LoopEnd ==
    /\ pc = "loop"
    /\ IF dryRun
       THEN /\ pc' = "idle" /\ outcome' = "dry-run"
            /\ UNCHANGED attempt
       ELSE /\ attempt' = attempt + 1
            /\ \/ /\ attempt' = MaxAttempt
                  /\ pc' = "idle" /\ outcome' = "failed"
               \/ /\ attempt' # MaxAttempt
                  /\ pc' = IF ready THEN "record" ELSE "cleanup"
                  /\ UNCHANGED outcome
    /\ UNCHANGED <<cr, dryRun, services, ready, workload, clusterVars, disturbed, faults>>

\* Record the spec in the owner ConfigMap; one that is gone is only logged.
RecordSuccess ==
    /\ pc = "record"
    /\ owner' = IF owner = "absent" THEN owner ELSE "current"
    /\ outcome' = "ok"
    /\ pc' = "idle"
    /\ UNCHANGED <<cr, dryRun, attempt, services, ready, workload, secrets, refresh,
                   disturbed, faults>>

Step ==
    \/ Start \/ Cleanup \/ ValidateZuulConnectionsSecrets
    \/ DeployStandaloneExecutor
    \/ DeployZuulSecrets \/ DeployGitServer \/ DeployMariadb \/ DeployLogserver
    \/ DeployHTTPDGateway \/ DeployHoundSearch \/ TerminateHoundSearch
    \/ EnsureLogJuicer \/ DeployZookeeper
    \/ DeployNodepoolLauncher \/ DeployNodepoolBuilder
    \/ EnsureZuulConfigSecret \/ EnsureZuulScheduler \/ EnsureZuulWeeder
    \/ EnsureZuulExecutor \/ EnsureZuulWeb \/ EnsureZuulMerger \/ ZuulStatus
    \/ ConfigGate \/ SetupBaseSecrets \/ TenantReconfigure
    \/ Report \/ LoopEnd \/ RecordSuccess

-----------------------------------------------------------------------------
(* The cluster and the people around the command. *)

WorkloadUp(w) ==
    /\ workload[w] \in {"starting", "updating"}
    /\ workload' = [workload EXCEPT ![w] = IF w = "Config" THEN "built" ELSE "ready"]
    /\ UNCHANGED <<pc, operatorVars, services, clusterVars, disturbed, faults>>

\* A running workload fails, or is deleted behind the operator's back.
WorkloadDown(w) ==
    /\ faults < MaxFaults
    /\ w \in Fragile /\ workload[w] \in {"updating", "ready"}
    /\ \E state \in {"absent", "starting"} :
          workload' = [workload EXCEPT ![w] = state]
    /\ disturbed' = disturbed \cup {w}
    /\ faults' = faults + 1
    /\ UNCHANGED <<pc, operatorVars, services, clusterVars>>

\* The keystore password is one of the secrets in "zuul": when it comes or goes
\* the version of the config job changes with it.
Rekeyed(s) ==
    /\ workload' \in {workload} \cup (IF s = "zuul" THEN {Outdated({"Config"})} ELSE {})
    /\ disturbed' = disturbed \cup {w \in Workloads : workload'[w] # workload[w]}

\* A secret is deleted, by hand or by rotate-secrets run from elsewhere.
LoseSecret(s) ==
    /\ faults < MaxFaults
    /\ s \in Fragile \cap secrets
    /\ secrets' = secrets \ {s}
    /\ Rekeyed(s)
    /\ faults' = faults + 1
    /\ UNCHANGED <<pc, operatorVars, services, refresh, owner>>

\* Users provide the connections' secrets; those of a standalone executor are
\* copied from the control plane.
ProvideSecret(s) ==
    /\ s \in IF IsStandalone THEN {"connections", "zuul", "tls"} ELSE {"connections"}
    /\ s \notin secrets
    /\ secrets' = secrets \cup {s}
    /\ Rekeyed(s)
    /\ UNCHANGED <<pc, operatorVars, services, refresh, owner, faults>>

\* rotate-projects-private-keys asks for a restart of the ZooKeeper clients.
AskRefresh ==
    /\ faults < MaxFaults
    /\ ~refresh
    /\ refresh' = TRUE
    /\ faults' = faults + 1
    /\ UNCHANGED <<pc, operatorVars, services, workload, secrets, owner, disturbed>>

\* The owner is deleted: everything it owns goes with it.
DeleteOwner ==
    /\ faults < MaxFaults
    /\ owner # "absent"
    /\ owner' = "absent"
    /\ workload' = [w \in Workloads |-> "absent"]
    /\ disturbed' = Workloads
    /\ secrets' = secrets \cap {"connections"}
    /\ faults' = faults + 1
    /\ UNCHANGED <<pc, operatorVars, services, refresh>>

\* What a process had in memory is gone with it.
Forget == services' = NoServices /\ ready' = FALSE

\* The process is killed, or panics on an error of the API server.
Crash ==
    /\ faults < MaxFaults
    /\ pc # "idle"
    /\ pc' = "idle" /\ outcome' = "crashed"
    /\ Forget
    /\ faults' = faults + 1
    /\ UNCHANGED <<cr, dryRun, attempt, workload, clusterVars, disturbed>>

\* The command is run again, perhaps with another CR or a newer operator.
Rerun ==
    /\ pc = "idle" /\ outcome # "none"
    /\ outcome' = "none"
    /\ dryRun' \in DryRuns
    /\ \E new \in CRs, changed \in Upgrades \cup {{}} :
          /\ cr' = new
          /\ owner' = IF owner # "absent" /\ new # cr THEN "stale" ELSE owner
          /\ workload' = Outdated(changed)
    /\ Forget
    /\ UNCHANGED <<pc, attempt, secrets, refresh, disturbed, faults>>

Environment ==
    \/ \E w \in Workloads : WorkloadUp(w) \/ WorkloadDown(w)
    \/ \E s \in Secrets : LoseSecret(s) \/ ProvideSecret(s)
    \/ AskRefresh \/ DeleteOwner \/ Crash \/ Rerun

Next == Step \/ Environment

Spec == Init /\ [][Next]_vars

\* The command's own steps go on: every wait in it has a deadline.  Kubernetes
\* eventually starts what it was asked to start.
Fairness == /\ WF_vars(Step)
            /\ \A w \in Workloads : WF_vars(WorkloadUp(w))
FairSpec == Spec /\ Fairness

\* The command is run again and again, as a scheduled job of the CI does, and
\* not only as a dry run; the scheduler does not refuse the reconfiguration
\* forever.
RetrySpec == /\ FairSpec
             /\ SF_vars(Rerun /\ ~dryRun')
             /\ SF_vars(TenantReconfigure /\ workload' # workload)

-----------------------------------------------------------------------------
(* Properties *)

\* Everything the CR asks for runs (a Deployment that was updated perhaps still
\* with its earlier template), unless the environment broke it after the
\* operator looked at it, and nothing that the CR disables is left.
Matched ==
    /\ \A w \in Required : workload[w] = "ready" \/ Rolling(w) \/ w \in disturbed
    /\ \A w \in Disabled : workload[w] = "absent"

\* When `deploy` ends without an error, the cluster runs what the CR asks for.
\* Step looks at its components one after the other, changes some behind its
\* own back (cleanup, the restart of zuul-web after a tenant reconfigure), and
\* skips some when others are not ready: none of this may end in a success
\* that a workload it waited for does not back.
SuccessMatchesCR == outcome = "ok" => Matched

Dependents  == Nodepool \cup Zuul \cup {"Config"}
Touched(w)  == /\ workload[w] \in {"absent", "outdated"}
               /\ workload'[w] \notin {"absent", "outdated"}
BackendsRun == \A b \in Backends : workload[b] = "ready" \/ b \in disturbed

\* Zuul, Nodepool and the internal tenant are created or updated only while
\* GitServer, MariaDB and ZooKeeper run (or broke since they were seen
\* running): deployZKAndZuulAndNodepool returns early otherwise.
BackendsFirst ==
    [][\A w \in Dependents : Touched(w) => IsStandalone \/ BackendsRun]_vars

\* A dry run creates, updates and deletes no workload and no secret, and
\* leaves the refresh marker for the next deploy.
DryRunKeepsObjects ==
    [][dryRun /\ Step =>
          /\ \A w \in Workloads : \A state \in {"absent", "outdated"} :
                workload[w] = state <=> workload'[w] = state
          /\ UNCHANGED <<secrets, refresh>>]_vars

\* Every command ends, whatever the cluster does.
CommandEnds == pc # "idle" ~> pc = "idle"

\* When the command is run again and again, Zuul accepts the reconfiguration
\* sooner or later and the users' secrets are there, it succeeds again and
\* again: no state that a crash or a fault leaves behind is a dead end.
Converges == (<>[]("connections" \in secrets)) => []<>(outcome = "ok")
=============================================================================
