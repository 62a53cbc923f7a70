-------------------------- MODULE ReconcileProofs --------------------------
(***************************************************************************)
(* Proofs about the deploy command, for every set of CRs, every number of  *)
(* attempts and faults and every choice of slow and fragile workloads.     *)
(***************************************************************************)
EXTENDS ReconcileInv, TLAPS

\* The names of workloads, services and program points that Step uses.
LEMMA Names ==
    /\ Workloads = {"GitServer", "MariaDB", "Logserver", "Gateway",
                    "HoundSearch", "LogJuicer", "Zookeeper",
                    "NodePoolLauncher", "NodePoolBuilder", "Scheduler",
                    "Weeder", "Executor", "Web", "Merger", "Config"}
    /\ Services = {"GitServer", "MariaDB", "Logserver", "Gateway",
                   "HoundSearch", "LogJuicer", "Zookeeper",
                   "NodePoolLauncher", "NodePoolBuilder", "Scheduler",
                   "Executor", "Web", "Merger", "Config", "Zuul",
                   "ConfigSecrets"}
    /\ Workloads \cap Services = Workloads \ {"Weeder"}
BY DEF Workloads, Services, PCs, Base, Nodepool, Zuul

\* The program points that Step goes to.
LEMMA Points ==
    /\ Workloads \subseteq PCs
    /\ {"idle", "cleanup", "validate", "standalone", "secrets", "ZuulSetup",
        "ZuulStatus", "gate", "report", "loop", "record"} \subseteq PCs
BY DEF PCs

\* Deploy, the tail of every Deploy function, keeps the types of what it
\* touches.
LEMMA DeployType ==
    ASSUME TypeOK, NEW w \in Workloads, NEW s \in Services, NEW next \in PCs,
           Deploy(w, s, next)
    PROVE  /\ workload' \in [Workloads -> WorkloadStates]
           /\ services' \in [Services -> {"none", "waiting", "ok"}]
           /\ disturbed' \subseteq Workloads
           /\ pc' \in PCs
<1>1. Ensured(w) \in WorkloadStates
  BY DEF TypeOK, Ensured, Started, WorkloadStates
<1>2. Answers(w) \subseteq {"none", "waiting", "ok"}
  BY DEF Answers, Observed
<1> QED
  BY <1>1, <1>2 DEF Deploy, Looked, TypeOK

\* An action made of Deploy alone keeps the types.
LEMMA DeployStep ==
    ASSUME TypeOK, AttemptInv, pc # "idle",
           NEW w \in Workloads, NEW s \in Services, NEW next \in PCs,
           Deploy(w, s, next),
           secrets' \subseteq Secrets,
           UNCHANGED <<operatorVars, refresh, owner, faults>>
    PROVE  TypeOK' /\ AttemptInv'
BY DeployType DEF TypeOK, AttemptInv, operatorVars

\* Every step of the command keeps the types.
LEMMA StepType == TypeOK /\ AttemptInv /\ Step => TypeOK' /\ AttemptInv'
<1> SUFFICES ASSUME TypeOK, AttemptInv, Step PROVE TypeOK' /\ AttemptInv'
  OBVIOUS
<1> USE Names, Points, BoundsAssumption, DryRunAssumption
<1>1. CASE Start
  BY <1>1 DEF Start, TypeOK, AttemptInv, operatorVars, clusterVars, Secrets, WorkloadStates, Outcomes, NoServices, Looked
<1>2. CASE Cleanup
  BY <1>2 DEF Cleanup, TypeOK, AttemptInv, operatorVars, clusterVars, Secrets, WorkloadStates, Outcomes, NoServices, Looked
<1>3. CASE ValidateZuulConnectionsSecrets
  BY <1>3 DEF ValidateZuulConnectionsSecrets, TypeOK, AttemptInv, operatorVars, clusterVars, Secrets, WorkloadStates, Outcomes, NoServices, Looked
<1>4. CASE DeployStandaloneExecutor
  <2>1. CASE {"zuul", "tls"} \subseteq secrets
    <3>1. Deploy("Executor", "Zuul", "report") /\ pc = "standalone"
      BY <1>4, <2>1 DEF DeployStandaloneExecutor
    <3>2. UNCHANGED <<operatorVars, clusterVars, faults>>
      BY <1>4 DEF DeployStandaloneExecutor
    <3> QED
      BY <3>1, <3>2, DeployStep DEF TypeOK, clusterVars
  <2>2. CASE ~({"zuul", "tls"} \subseteq secrets)
    <3>1. /\ services' \in [Services -> {"none", "waiting", "ok"}]
          /\ pc' \in PCs /\ pc # "idle"
      BY <1>4, <2>2 DEF DeployStandaloneExecutor, TypeOK
    <3> HIDE Names, Points
    <3> QED
      BY <1>4, <2>2, <3>1 DEF DeployStandaloneExecutor, TypeOK, AttemptInv,
         operatorVars, clusterVars
  <2> QED BY <2>1, <2>2
<1>5. CASE DeployZuulSecrets
  BY <1>5 DEF DeployZuulSecrets, Outdated, TypeOK, AttemptInv, operatorVars, clusterVars, Secrets, WorkloadStates, Outcomes, NoServices, Looked
<1>6. CASE DeployGitServer
  BY <1>6, DeployStep DEF DeployGitServer, TypeOK, clusterVars
<1>7. CASE DeployMariadb
  <2>1. CASE Observed("MariaDB") = "ok" /\ "db" \notin secrets
    <3>1. Started("MariaDB") \in WorkloadStates
      BY DEF Started, WorkloadStates
    <3>2. secrets' \subseteq Secrets
      BY <1>7, <2>1 DEF DeployMariadb, TypeOK, Secrets
    <3>3. services' \in [Services -> {"none", "waiting", "ok"}]
      BY <1>7, <2>1 DEF DeployMariadb, TypeOK
    <3>4. disturbed' \subseteq Workloads /\ pc' \in PCs /\ pc # "idle"
      BY <1>7, <2>1 DEF DeployMariadb, TypeOK, Looked
    <3>5. workload' \in [Workloads -> WorkloadStates]
      BY <1>7, <2>1, <3>1 DEF DeployMariadb, TypeOK
    <3> HIDE Names, Points
    <3> QED
      BY <1>7, <3>2, <3>3, <3>4, <3>5 DEF DeployMariadb, TypeOK, AttemptInv, operatorVars
  <2>2. CASE ~(Observed("MariaDB") = "ok" /\ "db" \notin secrets)
    BY <1>7, <2>2, DeployType DEF DeployMariadb, TypeOK, AttemptInv, operatorVars
  <2> QED BY <2>1, <2>2
<1>8. CASE DeployLogserver
  BY <1>8, DeployStep DEF DeployLogserver, TypeOK, clusterVars
<1>9. CASE DeployHTTPDGateway
  BY <1>9, DeployStep DEF DeployHTTPDGateway, TypeOK, clusterVars
<1>10. CASE DeployHoundSearch
  BY <1>10, DeployStep DEF DeployHoundSearch, TypeOK, clusterVars
<1>11. CASE TerminateHoundSearch
  BY <1>11 DEF TerminateHoundSearch, TypeOK, AttemptInv, operatorVars, clusterVars, Secrets, WorkloadStates, Outcomes, NoServices, Looked
<1>12. CASE EnsureLogJuicer
  BY <1>12, DeployStep DEF EnsureLogJuicer, TypeOK, clusterVars
<1>13. CASE DeployZookeeper
  BY <1>13, DeployStep DEF DeployZookeeper, TypeOK, clusterVars, AfterScheduler, Secrets
<1>14. CASE DeployNodepoolLauncher
  BY <1>14, DeployStep DEF DeployNodepoolLauncher, TypeOK, clusterVars
<1>15. CASE DeployNodepoolBuilder
  BY <1>15, DeployStep DEF DeployNodepoolBuilder, TypeOK, clusterVars
<1>16. CASE EnsureZuulConfigSecret
  BY <1>16 DEF EnsureZuulConfigSecret, TypeOK, AttemptInv, operatorVars, clusterVars, Secrets, WorkloadStates, Outcomes, NoServices, Looked
<1>17. CASE EnsureZuulScheduler
  BY <1>17, DeployStep DEF EnsureZuulScheduler, TypeOK, clusterVars, AfterScheduler, Secrets
<1>18. CASE EnsureZuulWeeder
  BY <1>18, DeployStep DEF EnsureZuulWeeder, TypeOK, clusterVars, AfterScheduler, Secrets
<1>19. CASE EnsureZuulExecutor
  BY <1>19, DeployStep DEF EnsureZuulExecutor, TypeOK, clusterVars
<1>20. CASE EnsureZuulWeb
  BY <1>20, DeployStep DEF EnsureZuulWeb, TypeOK, clusterVars
<1>21. CASE EnsureZuulMerger
  BY <1>21, DeployStep DEF EnsureZuulMerger, TypeOK, clusterVars
<1>22. CASE ZuulStatus
  BY <1>22 DEF ZuulStatus, TypeOK, AttemptInv, operatorVars, clusterVars, Secrets, WorkloadStates, Outcomes, NoServices, Looked
<1>23. CASE ConfigGate
  BY <1>23 DEF ConfigGate, TypeOK, AttemptInv, operatorVars, clusterVars, Secrets, WorkloadStates, Outcomes, NoServices, Looked
<1>24. CASE SetupBaseSecrets
  BY <1>24, DeployStep DEF SetupBaseSecrets, TypeOK, clusterVars
<1>25. CASE TenantReconfigure
  BY <1>25 DEF TenantReconfigure, TypeOK, AttemptInv, operatorVars, clusterVars, Secrets, WorkloadStates, Outcomes, NoServices, Looked
<1>26. CASE Report
  BY <1>26 DEF Report, IsOperatorReady, TypeOK, AttemptInv, operatorVars, clusterVars, Secrets, WorkloadStates, Outcomes, NoServices, Looked
<1>27. CASE LoopEnd
  BY <1>27 DEF LoopEnd, TypeOK, AttemptInv, operatorVars, clusterVars, Secrets, WorkloadStates, Outcomes, NoServices, Looked
<1>28. CASE RecordSuccess
  BY <1>28 DEF RecordSuccess, TypeOK, AttemptInv, operatorVars, clusterVars, Secrets, WorkloadStates, Outcomes, NoServices, Looked
<1> QED
  BY <1>1, <1>2, <1>3, <1>4, <1>5, <1>6, <1>7, <1>8, <1>9, <1>10, <1>11, <1>12, <1>13, <1>14, <1>15, <1>16, <1>17, <1>18, <1>19, <1>20, <1>21, <1>22, <1>23, <1>24, <1>25, <1>26, <1>27, <1>28 DEF Step

\* Every step of the cluster and of the users keeps the types.
LEMMA EnvironmentType == TypeOK /\ AttemptInv /\ Environment => TypeOK' /\ AttemptInv'
<1> SUFFICES ASSUME TypeOK, AttemptInv, Environment PROVE TypeOK' /\ AttemptInv'
  OBVIOUS
<1> USE BoundsAssumption
<1>1. ASSUME NEW w \in Workloads, WorkloadUp(w) PROVE TypeOK' /\ AttemptInv'
  BY <1>1 DEF WorkloadUp, TypeOK, AttemptInv, operatorVars, clusterVars, WorkloadStates
<1>2. ASSUME NEW w \in Workloads, WorkloadDown(w) PROVE TypeOK' /\ AttemptInv'
  BY <1>2 DEF WorkloadDown, TypeOK, AttemptInv, operatorVars, clusterVars, WorkloadStates
<1>3. ASSUME NEW s \in Secrets, LoseSecret(s) PROVE TypeOK' /\ AttemptInv'
  BY <1>3 DEF LoseSecret, Rekeyed, Outdated, WorkloadStates, TypeOK, AttemptInv, operatorVars
<1>4. ASSUME NEW s \in Secrets, ProvideSecret(s) PROVE TypeOK' /\ AttemptInv'
  BY <1>4 DEF ProvideSecret, Rekeyed, Outdated, WorkloadStates, TypeOK, AttemptInv, operatorVars
<1>5. CASE AskRefresh
  BY <1>5 DEF AskRefresh, TypeOK, AttemptInv, operatorVars, clusterVars, WorkloadStates, Outcomes, PCs
<1>6. CASE DeleteOwner
  BY <1>6 DEF DeleteOwner, TypeOK, AttemptInv, operatorVars, clusterVars, WorkloadStates, Outcomes, PCs
<1>7. CASE Crash
  <2>1. services' \in [Services -> {"none", "waiting", "ok"}] /\ ready' \in BOOLEAN
    BY <1>7 DEF Crash, Forget, NoServices
  <2> QED
    BY <1>7, <2>1 DEF Crash, TypeOK, AttemptInv, clusterVars, Outcomes, PCs
<1>8. CASE Rerun
  BY <1>8 DEF Rerun, Forget, NoServices, Outdated, TypeOK, AttemptInv, operatorVars, clusterVars, WorkloadStates, Outcomes, PCs
<1> QED
  BY <1>1, <1>2, <1>3, <1>4, <1>5, <1>6, <1>7, <1>8 DEF Environment

\* The initial states are well typed.
LEMMA InitType == Init => TypeOK /\ AttemptInv
<1> SUFFICES ASSUME Init PROVE TypeOK /\ AttemptInv
  OBVIOUS
<1>1. services \in [Services -> {"none", "waiting", "ok"}]
  BY DEF Init, NoServices
<1>2. workload \in [Workloads -> WorkloadStates]
  BY DEF Init, WorkloadStates
<1>3. secrets \subseteq Secrets
  BY DEF Init, Secrets
<1>4. attempt \in 0..MaxAttempt /\ faults \in 0..MaxFaults
  BY BoundsAssumption DEF Init
<1>5. pc \in PCs /\ outcome \in Outcomes
  BY Points DEF Init, Outcomes
<1> QED
  BY <1>1, <1>2, <1>3, <1>4, <1>5 DEF Init, TypeOK, AttemptInv

\* Type correctness of the deploy command and the cluster around it.
THEOREM TypeCorrect == Spec => []TypeOK
<1>1. Init => TypeOK /\ AttemptInv
  BY InitType
<1>2. TypeOK /\ AttemptInv /\ [Next]_vars => TypeOK' /\ AttemptInv'
  <2>1. TypeOK /\ AttemptInv /\ UNCHANGED vars => TypeOK' /\ AttemptInv'
    BY DEF TypeOK, AttemptInv, vars
  <2> QED
    BY <2>1, StepType, EnvironmentType DEF Next
<1> QED
  BY <1>1, <1>2, PTL DEF Spec

-----------------------------------------------------------------------------
(* The invariant of Step.  The program points and the CR's switches are      *)
(* expanded everywhere below.                                                *)

USE DEF Tail, AfterMerger, AfterWeb, AfterExecutor, AfterWeeder, AfterSetup,
        AfterBuilder, AfterLauncher, AfterBackends, AfterZookeeper,
        AfterLogJuicer, AfterHound, AfterGateway, AfterLogserver,
        AfterMariadb, AfterGitServer, InSF, InStep, Through, Backends,
        IsStandalone, IsExecutorEnabled, IsCodesearchEnabled

\* The parts of StepInv, by what they are about.
ControlInv == AttemptInv /\ PathInv /\ ReadyInv /\ SuccessMatchesCR
MapInv     == FreshInv /\ DecidedInv /\ GateInv
ClusterInv == BackedInv /\ RemovedInv

\* Deploy touches one workload and one key, and reports ready only what is.
LEMMA DeployEffect ==
    ASSUME TypeOK, NEW w \in Workloads, NEW s \in Services, NEW next,
           Deploy(w, s, next)
    PROVE  /\ pc' = next
           /\ \A v \in Workloads \ {w} : workload'[v] = workload[v]
           /\ \A v \in Workloads \ {w} : Good(v) => Good(v)'
           /\ \A t \in Services \ {s} : services'[t] = services[t]
           /\ services'[s] \in {"ok", "waiting"}
           /\ services'[s] = "ok" /\ ~dryRun => Good(w)'
           /\ w \notin Deployments => services'[s] = Observed(w)
BY DEF Deploy, Looked, Good, Rolling, TypeOK, Answers, Observed, Ensured

\* An action in the middle of a pass leaves the conditions on its ends alone.
LEMMA MidStep ==
    ASSUME StepInv, UNCHANGED operatorVars,
           pc \notin {"idle", "loop", "record"},
           pc' \in InStep \ {"report"},
           pc' \in InSF => ~IsStandalone,
           pc' = "standalone" => IsStandalone,
           pc' = "Executor" => IsExecutorEnabled
    PROVE  ControlInv'
BY DEF StepInv, ControlInv, AttemptInv, PathInv, ReadyInv, SuccessMatchesCR, operatorVars

\* DeployGitServer keeps what Step relies on.
LEMMA DeployGitServerInv == TypeOK /\ StepInv /\ DeployGitServer => StepInv'
<1> SUFFICES ASSUME TypeOK, StepInv, DeployGitServer PROVE StepInv'
  OBVIOUS
<1> USE Names
<1>1. ControlInv'
  BY MidStep, DeployEffect DEF DeployGitServer, StepInv, PathInv
<1>2. MapInv'
  BY DeployEffect DEF DeployGitServer, StepInv, MapInv, PathInv, FreshInv, DecidedInv, GateInv, operatorVars
<1>3. ClusterInv'
  BY DeployEffect DEF DeployGitServer, StepInv, ClusterInv, BackedInv, RemovedInv, PathInv, FreshInv, Good, Rolling,
     operatorVars
<1> QED
  BY <1>1, <1>2, <1>3 DEF StepInv, ControlInv, MapInv, ClusterInv

\* DeployLogserver keeps what Step relies on.
LEMMA DeployLogserverInv == TypeOK /\ StepInv /\ DeployLogserver => StepInv'
<1> SUFFICES ASSUME TypeOK, StepInv, DeployLogserver PROVE StepInv'
  OBVIOUS
<1> USE Names
<1>1. ControlInv'
  BY MidStep, DeployEffect DEF DeployLogserver, StepInv, PathInv
<1>2. MapInv'
  BY DeployEffect DEF DeployLogserver, StepInv, MapInv, PathInv, FreshInv, DecidedInv, GateInv, operatorVars
<1>3. ClusterInv'
  BY DeployEffect DEF DeployLogserver, StepInv, ClusterInv, BackedInv, RemovedInv, PathInv, FreshInv, Good, Rolling,
     operatorVars
<1> QED
  BY <1>1, <1>2, <1>3 DEF StepInv, ControlInv, MapInv, ClusterInv

\* DeployHTTPDGateway keeps what Step relies on.
LEMMA DeployHTTPDGatewayInv == TypeOK /\ StepInv /\ DeployHTTPDGateway => StepInv'
<1> SUFFICES ASSUME TypeOK, StepInv, DeployHTTPDGateway PROVE StepInv'
  OBVIOUS
<1> USE Names
<1>1. ControlInv'
  BY MidStep, DeployEffect DEF DeployHTTPDGateway, StepInv, PathInv
<1>2. MapInv'
  BY DeployEffect DEF DeployHTTPDGateway, StepInv, MapInv, PathInv, FreshInv, DecidedInv, GateInv, operatorVars
<1>3. ClusterInv'
  BY DeployEffect DEF DeployHTTPDGateway, StepInv, ClusterInv, BackedInv, RemovedInv, PathInv, FreshInv, Good, Rolling,
     operatorVars
<1> QED
  BY <1>1, <1>2, <1>3 DEF StepInv, ControlInv, MapInv, ClusterInv

\* DeployHoundSearch keeps what Step relies on.
LEMMA DeployHoundSearchInv == TypeOK /\ StepInv /\ DeployHoundSearch => StepInv'
<1> SUFFICES ASSUME TypeOK, StepInv, DeployHoundSearch PROVE StepInv'
  OBVIOUS
<1> USE Names
<1>1. ControlInv'
  BY MidStep, DeployEffect DEF DeployHoundSearch, StepInv, PathInv
<1>2. MapInv'
  BY DeployEffect DEF DeployHoundSearch, StepInv, MapInv, PathInv, FreshInv, DecidedInv, GateInv, operatorVars
<1>3. ClusterInv'
  BY DeployEffect DEF DeployHoundSearch, StepInv, ClusterInv, BackedInv, RemovedInv, PathInv, FreshInv, Good, Rolling,
     operatorVars
<1> QED
  BY <1>1, <1>2, <1>3 DEF StepInv, ControlInv, MapInv, ClusterInv

\* EnsureLogJuicer keeps what Step relies on.
LEMMA EnsureLogJuicerInv == TypeOK /\ StepInv /\ EnsureLogJuicer => StepInv'
<1> SUFFICES ASSUME TypeOK, StepInv, EnsureLogJuicer PROVE StepInv'
  OBVIOUS
<1> USE Names
<1>1. ControlInv'
  BY MidStep, DeployEffect DEF EnsureLogJuicer, StepInv, PathInv
<1>2. MapInv'
  BY DeployEffect DEF EnsureLogJuicer, StepInv, MapInv, PathInv, FreshInv, DecidedInv, GateInv, operatorVars
<1>3. ClusterInv'
  BY DeployEffect DEF EnsureLogJuicer, StepInv, ClusterInv, BackedInv, RemovedInv, PathInv, FreshInv, Good, Rolling,
     operatorVars
<1> QED
  BY <1>1, <1>2, <1>3 DEF StepInv, ControlInv, MapInv, ClusterInv

\* DeployZookeeper keeps what Step relies on.
LEMMA DeployZookeeperInv == TypeOK /\ StepInv /\ DeployZookeeper => StepInv'
<1> SUFFICES ASSUME TypeOK, StepInv, DeployZookeeper PROVE StepInv'
  OBVIOUS
<1> USE Names
<1>1. ControlInv'
  BY MidStep, DeployEffect DEF DeployZookeeper, Deployments, StepInv, PathInv
<1>2. MapInv'
  BY DeployEffect DEF DeployZookeeper, Deployments, StepInv, MapInv, PathInv, FreshInv, DecidedInv, GateInv, operatorVars
<1>3. ClusterInv'
  BY DeployEffect DEF DeployZookeeper, Deployments, StepInv, ClusterInv, BackedInv, RemovedInv, PathInv, FreshInv, Good, Rolling,
     operatorVars
<1> QED
  BY <1>1, <1>2, <1>3 DEF StepInv, ControlInv, MapInv, ClusterInv

\* DeployNodepoolLauncher keeps what Step relies on.
LEMMA DeployNodepoolLauncherInv == TypeOK /\ StepInv /\ DeployNodepoolLauncher => StepInv'
<1> SUFFICES ASSUME TypeOK, StepInv, DeployNodepoolLauncher PROVE StepInv'
  OBVIOUS
<1> USE Names
<1>1. ControlInv'
  BY MidStep, DeployEffect DEF DeployNodepoolLauncher, StepInv, PathInv
<1>2. MapInv'
  BY DeployEffect DEF DeployNodepoolLauncher, StepInv, MapInv, PathInv, FreshInv, DecidedInv, GateInv, operatorVars
<1>3. ClusterInv'
  BY DeployEffect DEF DeployNodepoolLauncher, StepInv, ClusterInv, BackedInv, RemovedInv, PathInv, FreshInv, Good, Rolling,
     operatorVars
<1> QED
  BY <1>1, <1>2, <1>3 DEF StepInv, ControlInv, MapInv, ClusterInv

\* DeployNodepoolBuilder keeps what Step relies on.
LEMMA DeployNodepoolBuilderInv == TypeOK /\ StepInv /\ DeployNodepoolBuilder => StepInv'
<1> SUFFICES ASSUME TypeOK, StepInv, DeployNodepoolBuilder PROVE StepInv'
  OBVIOUS
<1> USE Names
<1>1. ControlInv'
  BY MidStep, DeployEffect DEF DeployNodepoolBuilder, StepInv, PathInv
<1>2. MapInv'
  BY DeployEffect DEF DeployNodepoolBuilder, StepInv, MapInv, PathInv, FreshInv, DecidedInv, GateInv, operatorVars
<1>3. ClusterInv'
  BY DeployEffect DEF DeployNodepoolBuilder, StepInv, ClusterInv, BackedInv, RemovedInv, PathInv, FreshInv, Good, Rolling,
     operatorVars
<1> QED
  BY <1>1, <1>2, <1>3 DEF StepInv, ControlInv, MapInv, ClusterInv

\* EnsureZuulScheduler keeps what Step relies on.
LEMMA EnsureZuulSchedulerInv == TypeOK /\ StepInv /\ EnsureZuulScheduler => StepInv'
<1> SUFFICES ASSUME TypeOK, StepInv, EnsureZuulScheduler PROVE StepInv'
  OBVIOUS
<1> USE Names
<1>1. ControlInv'
  BY MidStep, DeployEffect DEF EnsureZuulScheduler, Deployments, StepInv, PathInv, AfterScheduler
<1>2. MapInv'
  BY DeployEffect DEF EnsureZuulScheduler, Deployments, StepInv, MapInv, PathInv, FreshInv, DecidedInv, GateInv, operatorVars, AfterScheduler
<1>3. ClusterInv'
  BY DeployEffect DEF EnsureZuulScheduler, Deployments, StepInv, ClusterInv, BackedInv, RemovedInv, PathInv, FreshInv, Good, Rolling,
     operatorVars, AfterScheduler
<1> QED
  BY <1>1, <1>2, <1>3 DEF StepInv, ControlInv, MapInv, ClusterInv

\* EnsureZuulWeeder keeps what Step relies on.
LEMMA EnsureZuulWeederInv == TypeOK /\ StepInv /\ EnsureZuulWeeder => StepInv'
<1> SUFFICES ASSUME TypeOK, StepInv, EnsureZuulWeeder PROVE StepInv'
  OBVIOUS
<1> USE Names
<1>1. ControlInv'
  BY MidStep, DeployEffect DEF EnsureZuulWeeder, StepInv, PathInv, AfterScheduler
<1>2. MapInv'
  BY DeployEffect DEF EnsureZuulWeeder, StepInv, MapInv, PathInv, FreshInv, DecidedInv, GateInv, operatorVars, AfterScheduler
<1>3. ClusterInv'
  BY DeployEffect DEF EnsureZuulWeeder, StepInv, ClusterInv, BackedInv, RemovedInv, PathInv, FreshInv, Good, Rolling,
     operatorVars, AfterScheduler
<1> QED
  BY <1>1, <1>2, <1>3 DEF StepInv, ControlInv, MapInv, ClusterInv

\* EnsureZuulExecutor keeps what Step relies on.
LEMMA EnsureZuulExecutorInv == TypeOK /\ StepInv /\ EnsureZuulExecutor => StepInv'
<1> SUFFICES ASSUME TypeOK, StepInv, EnsureZuulExecutor PROVE StepInv'
  OBVIOUS
<1> USE Names
<1>1. ControlInv'
  BY MidStep, DeployEffect DEF EnsureZuulExecutor, StepInv, PathInv
<1>2. MapInv'
  BY DeployEffect DEF EnsureZuulExecutor, StepInv, MapInv, PathInv, FreshInv, DecidedInv, GateInv, operatorVars
<1>3. ClusterInv'
  BY DeployEffect DEF EnsureZuulExecutor, StepInv, ClusterInv, BackedInv, RemovedInv, PathInv, FreshInv, Good, Rolling,
     operatorVars
<1> QED
  BY <1>1, <1>2, <1>3 DEF StepInv, ControlInv, MapInv, ClusterInv

\* EnsureZuulWeb keeps what Step relies on.
LEMMA EnsureZuulWebInv == TypeOK /\ StepInv /\ EnsureZuulWeb => StepInv'
<1> SUFFICES ASSUME TypeOK, StepInv, EnsureZuulWeb PROVE StepInv'
  OBVIOUS
<1> USE Names
<1>1. ControlInv'
  BY MidStep, DeployEffect DEF EnsureZuulWeb, StepInv, PathInv
<1>2. MapInv'
  BY DeployEffect DEF EnsureZuulWeb, StepInv, MapInv, PathInv, FreshInv, DecidedInv, GateInv, operatorVars
<1>3. ClusterInv'
  BY DeployEffect DEF EnsureZuulWeb, StepInv, ClusterInv, BackedInv, RemovedInv, PathInv, FreshInv, Good, Rolling,
     operatorVars
<1> QED
  BY <1>1, <1>2, <1>3 DEF StepInv, ControlInv, MapInv, ClusterInv

\* EnsureZuulMerger keeps what Step relies on.
LEMMA EnsureZuulMergerInv == TypeOK /\ StepInv /\ EnsureZuulMerger => StepInv'
<1> SUFFICES ASSUME TypeOK, StepInv, EnsureZuulMerger PROVE StepInv'
  OBVIOUS
<1> USE Names
<1>1. ControlInv'
  BY MidStep, DeployEffect DEF EnsureZuulMerger, StepInv, PathInv
<1>2. MapInv'
  BY DeployEffect DEF EnsureZuulMerger, StepInv, MapInv, PathInv, FreshInv, DecidedInv, GateInv, operatorVars
<1>3. ClusterInv'
  BY DeployEffect DEF EnsureZuulMerger, StepInv, ClusterInv, BackedInv, RemovedInv, PathInv, FreshInv, Good, Rolling,
     operatorVars
<1> QED
  BY <1>1, <1>2, <1>3 DEF StepInv, ControlInv, MapInv, ClusterInv

\* DeployMariadb keeps what Step relies on.
LEMMA DeployMariadbInv == TypeOK /\ StepInv /\ DeployMariadb => StepInv'
<1> SUFFICES ASSUME TypeOK, StepInv, DeployMariadb PROVE StepInv'
  OBVIOUS
<1> USE Names
<1>0. /\ pc' = "Logserver"
      /\ \A v \in Workloads \ {"MariaDB"} : workload'[v] = workload[v]
      /\ \A v \in Workloads \ {"MariaDB"} : Good(v) => Good(v)'
      /\ \A t \in Services \ {"MariaDB"} : services'[t] = services[t]
      /\ services'["MariaDB"] \in {"ok", "waiting"}
      /\ services'["MariaDB"] = "ok" /\ ~dryRun => Good("MariaDB")'
  <2>1. CASE Observed("MariaDB") = "ok" /\ "db" \notin secrets
    BY <2>1 DEF DeployMariadb, TypeOK, Looked, Good, Rolling
  <2>2. CASE ~(Observed("MariaDB") = "ok" /\ "db" \notin secrets)
    BY <2>2, DeployEffect DEF DeployMariadb
  <2> QED
    BY <2>1, <2>2
<1>1. ControlInv'
  BY <1>0, MidStep DEF DeployMariadb, StepInv, PathInv
<1>2. MapInv'
  BY <1>0 DEF DeployMariadb, StepInv, MapInv, PathInv, FreshInv, DecidedInv, GateInv, operatorVars
<1>3. ClusterInv'
  BY <1>0 DEF DeployMariadb, StepInv, ClusterInv, BackedInv, RemovedInv, PathInv, FreshInv, Good, Rolling, operatorVars
<1> QED
  BY <1>1, <1>2, <1>3 DEF StepInv, ControlInv, MapInv, ClusterInv

\* DeployZuulSecrets keeps what Step relies on.
LEMMA DeployZuulSecretsInv == TypeOK /\ StepInv /\ DeployZuulSecrets => StepInv'
<1> SUFFICES ASSUME TypeOK, StepInv, DeployZuulSecrets PROVE StepInv'
  OBVIOUS
<1> USE Names
<1>1. ControlInv'
  BY MidStep DEF DeployZuulSecrets, StepInv, PathInv
<1>2. MapInv'
  BY DEF DeployZuulSecrets, TypeOK, StepInv, MapInv, PathInv, FreshInv, DecidedInv, GateInv, operatorVars
<1>3. ClusterInv'
  <2>1. \A w \in Workloads \ {"Config"} : Good(w) => Good(w)'
    BY DEF DeployZuulSecrets, Outdated, TypeOK, Good, Rolling
  <2> QED
    BY <2>1 DEF DeployZuulSecrets, TypeOK, StepInv, ClusterInv, BackedInv, RemovedInv, PathInv,
       FreshInv, operatorVars
<1> QED
  BY <1>1, <1>2, <1>3 DEF StepInv, ControlInv, MapInv, ClusterInv

\* TerminateHoundSearch keeps what Step relies on.
LEMMA TerminateHoundSearchInv == TypeOK /\ StepInv /\ TerminateHoundSearch => StepInv'
<1> SUFFICES ASSUME TypeOK, StepInv, TerminateHoundSearch PROVE StepInv'
  OBVIOUS
<1> USE Names
<1>1. ControlInv'
  BY MidStep DEF TerminateHoundSearch, StepInv, PathInv
<1>2. MapInv'
  BY DEF TerminateHoundSearch, TypeOK, StepInv, MapInv, PathInv, FreshInv, DecidedInv, GateInv, operatorVars
<1>3. ClusterInv'
  BY DEF TerminateHoundSearch, TypeOK, StepInv, ClusterInv, BackedInv, RemovedInv, PathInv, FreshInv, Good, Rolling, operatorVars
<1> QED
  BY <1>1, <1>2, <1>3 DEF StepInv, ControlInv, MapInv, ClusterInv

\* EnsureZuulConfigSecret keeps what Step relies on.
LEMMA EnsureZuulConfigSecretInv == TypeOK /\ StepInv /\ EnsureZuulConfigSecret => StepInv'
<1> SUFFICES ASSUME TypeOK, StepInv, EnsureZuulConfigSecret PROVE StepInv'
  OBVIOUS
<1> USE Names
<1>1. ControlInv'
  BY MidStep DEF EnsureZuulConfigSecret, StepInv, PathInv
<1>2. MapInv'
  BY DEF EnsureZuulConfigSecret, TypeOK, StepInv, MapInv, PathInv, FreshInv, DecidedInv, GateInv, operatorVars
<1>3. ClusterInv'
  BY DEF EnsureZuulConfigSecret, TypeOK, StepInv, ClusterInv, BackedInv, RemovedInv, PathInv, FreshInv, Good, Rolling, operatorVars
<1> QED
  BY <1>1, <1>2, <1>3 DEF StepInv, ControlInv, MapInv, ClusterInv

\* ZuulStatus keeps what Step relies on.
LEMMA ZuulStatusInv == TypeOK /\ StepInv /\ ZuulStatus => StepInv'
<1> SUFFICES ASSUME TypeOK, StepInv, ZuulStatus PROVE StepInv'
  OBVIOUS
<1> USE Names
<1>1. ControlInv'
  BY MidStep DEF ZuulStatus, StepInv, PathInv
<1>2. MapInv'
  BY DEF ZuulStatus, TypeOK, StepInv, MapInv, PathInv, FreshInv, DecidedInv, GateInv, operatorVars, Zuul
<1>3. ClusterInv'
  BY DEF ZuulStatus, TypeOK, StepInv, ClusterInv, BackedInv, RemovedInv, PathInv, FreshInv, Good, Rolling, operatorVars
<1> QED
  BY <1>1, <1>2, <1>3 DEF StepInv, ControlInv, MapInv, ClusterInv

\* ConfigGate keeps what Step relies on.
LEMMA ConfigGateInv == TypeOK /\ StepInv /\ ConfigGate => StepInv'
<1> SUFFICES ASSUME TypeOK, StepInv, ConfigGate PROVE StepInv'
  OBVIOUS
<1> USE Names
<1>1. ControlInv'
  BY DEF ConfigGate, StepInv, ControlInv, AttemptInv, PathInv, ReadyInv, SuccessMatchesCR, TypeOK, operatorVars
<1>2. MapInv'
  <2>1. FreshInv'
    BY DEF ConfigGate, TypeOK, StepInv, FreshInv, operatorVars
  <2>2. DecidedInv'
    BY DEF ConfigGate, TypeOK, StepInv, DecidedInv, operatorVars
  <2>3. GateInv'
    BY DEF ConfigGate, TypeOK, StepInv, FreshInv, GateInv, Zuul, operatorVars
  <2> QED
    BY <2>1, <2>2, <2>3 DEF MapInv
<1>3. ClusterInv'
  BY DEF ConfigGate, TypeOK, StepInv, ClusterInv, BackedInv, RemovedInv, PathInv, FreshInv, Good, Rolling, operatorVars
<1> QED
  BY <1>1, <1>2, <1>3 DEF StepInv, ControlInv, MapInv, ClusterInv

\* SetupBaseSecrets keeps what Step relies on.
LEMMA SetupBaseSecretsInv == TypeOK /\ StepInv /\ SetupBaseSecrets => StepInv'
<1> SUFFICES ASSUME TypeOK, StepInv, SetupBaseSecrets PROVE StepInv'
  OBVIOUS
<1> USE Names
<1>1. ControlInv'
  BY DeployEffect DEF SetupBaseSecrets, StepInv, ControlInv, AttemptInv, PathInv, ReadyInv, SuccessMatchesCR, operatorVars
<1>2. MapInv'
  <2>1. FreshInv'
    BY DeployEffect DEF SetupBaseSecrets, StepInv, FreshInv, operatorVars
  <2>2. DecidedInv'
    BY DeployEffect DEF SetupBaseSecrets, StepInv, DecidedInv, operatorVars
  <2>3. GateInv'
    BY DeployEffect DEF SetupBaseSecrets, StepInv, FreshInv, GateInv, Zuul, operatorVars
  <2> QED
    BY <2>1, <2>2, <2>3 DEF MapInv
<1>3. ClusterInv'
  BY DeployEffect DEF SetupBaseSecrets, StepInv, ClusterInv, BackedInv, RemovedInv, PathInv, FreshInv, Good, Rolling, operatorVars
<1> QED
  BY <1>1, <1>2, <1>3 DEF StepInv, ControlInv, MapInv, ClusterInv

\* TenantReconfigure keeps what Step relies on.
LEMMA TenantReconfigureInv == TypeOK /\ StepInv /\ TenantReconfigure => StepInv'
<1> SUFFICES ASSUME TypeOK, StepInv, TenantReconfigure PROVE StepInv'
  OBVIOUS
<1> USE Names
<1>1. ControlInv'
  BY DEF TenantReconfigure, StepInv, ControlInv, AttemptInv, PathInv, ReadyInv, SuccessMatchesCR, operatorVars
<1>2. MapInv'
  BY DEF TenantReconfigure, TypeOK, StepInv, MapInv, PathInv, FreshInv, DecidedInv, GateInv, operatorVars
<1>3. ClusterInv'
  BY DEF TenantReconfigure, TypeOK, Looked, StepInv, ClusterInv, BackedInv, RemovedInv, PathInv, FreshInv, Good, Rolling, operatorVars
<1> QED
  BY <1>1, <1>2, <1>3 DEF StepInv, ControlInv, MapInv, ClusterInv

\* DeployStandaloneExecutor keeps what Step relies on.
LEMMA DeployStandaloneExecutorInv == TypeOK /\ StepInv /\ DeployStandaloneExecutor => StepInv'
<1> SUFFICES ASSUME TypeOK, StepInv, DeployStandaloneExecutor PROVE StepInv'
  OBVIOUS
<1> USE Names
<1>0. /\ pc' = "report"
      /\ \A v \in Workloads \ {"Executor"} : workload'[v] = workload[v]
      /\ \A v \in Workloads \ {"Executor"} : Good(v) => Good(v)'
      /\ \A t \in Services \ {"Zuul"} : services'[t] = services[t]
      /\ services'["Zuul"] \in {"ok", "waiting"}
      /\ services'["Zuul"] = "ok" /\ ~dryRun => Good("Executor")'
      /\ \/ workload'["Executor"] = workload["Executor"] /\ disturbed' = disturbed
         \/ services'["Zuul"] = Observed("Executor")
  <2>1. CASE {"zuul", "tls"} \subseteq secrets
    BY <2>1, DeployEffect DEF DeployStandaloneExecutor, Deployments
  <2>2. CASE ~({"zuul", "tls"} \subseteq secrets)
    BY <2>2 DEF DeployStandaloneExecutor, TypeOK, Good, Rolling
  <2> QED
    BY <2>1, <2>2
<1>1. ControlInv'
  BY <1>0 DEF DeployStandaloneExecutor, StepInv, ControlInv, AttemptInv, PathInv, ReadyInv, SuccessMatchesCR, operatorVars
<1>2. MapInv'
  BY <1>0 DEF DeployStandaloneExecutor, StepInv, MapInv, PathInv, FreshInv, DecidedInv, GateInv, operatorVars
<1>3. ClusterInv'
  BY <1>0 DEF DeployStandaloneExecutor, StepInv, ClusterInv, BackedInv, RemovedInv, PathInv, FreshInv, NoServices, Good, Rolling, operatorVars
<1> QED
  BY <1>1, <1>2, <1>3 DEF StepInv, ControlInv, MapInv, ClusterInv

\* Start keeps what Step relies on.
LEMMA StartInv == TypeOK /\ StepInv /\ Start => StepInv'
<1> SUFFICES ASSUME TypeOK, StepInv, Start PROVE StepInv'
  OBVIOUS
<1> USE Names
<1>1. ControlInv'
  BY BoundsAssumption DEF Start, TypeOK, StepInv, ControlInv, AttemptInv, PathInv, ReadyInv, SuccessMatchesCR, operatorVars, Matched, Rolling, Required, Disabled
<1>2. MapInv'
  BY DEF Start, StepInv, MapInv, PathInv, FreshInv, DecidedInv, GateInv
<1>3. ClusterInv'
  BY DEF Start, StepInv, ClusterInv, BackedInv, RemovedInv, PathInv, FreshInv
<1> QED
  BY <1>1, <1>2, <1>3 DEF StepInv, ControlInv, MapInv, ClusterInv

\* Cleanup keeps what Step relies on.
LEMMA CleanupInv == TypeOK /\ StepInv /\ Cleanup => StepInv'
<1> SUFFICES ASSUME TypeOK, StepInv, Cleanup PROVE StepInv'
  OBVIOUS
<1> USE Names
<1>1. ControlInv'
  BY DEF Cleanup, StepInv, ControlInv, AttemptInv, PathInv, ReadyInv, SuccessMatchesCR, operatorVars
<1>2. MapInv'
  BY DEF Cleanup, StepInv, MapInv, PathInv, FreshInv, DecidedInv, GateInv, NoServices
<1>3. ClusterInv'
  BY DEF Cleanup, StepInv, ClusterInv, BackedInv, RemovedInv, PathInv, FreshInv, NoServices
<1> QED
  BY <1>1, <1>2, <1>3 DEF StepInv, ControlInv, MapInv, ClusterInv

\* ValidateZuulConnectionsSecrets keeps what Step relies on.
LEMMA ValidateZuulConnectionsSecretsInv == TypeOK /\ StepInv /\ ValidateZuulConnectionsSecrets => StepInv'
<1> SUFFICES ASSUME TypeOK, StepInv, ValidateZuulConnectionsSecrets PROVE StepInv'
  OBVIOUS
<1> USE Names
<1>1. ControlInv'
  BY DEF ValidateZuulConnectionsSecrets, TypeOK, StepInv, ControlInv, AttemptInv, PathInv, ReadyInv, SuccessMatchesCR, operatorVars
<1>2. MapInv'
  BY DEF ValidateZuulConnectionsSecrets, StepInv, MapInv, PathInv, FreshInv, DecidedInv, GateInv, NoServices
<1>3. ClusterInv'
  BY DEF ValidateZuulConnectionsSecrets, StepInv, ClusterInv, BackedInv, RemovedInv, PathInv, FreshInv, NoServices
<1> QED
  BY <1>1, <1>2, <1>3 DEF StepInv, ControlInv, MapInv, ClusterInv

\* Report keeps what Step relies on.
LEMMA ReportInv == TypeOK /\ StepInv /\ Report => StepInv'
<1> SUFFICES ASSUME TypeOK, StepInv, Report PROVE StepInv'
  OBVIOUS
<1> USE Names
<1>0. ASSUME IsOperatorReady, ~dryRun PROVE Matched
  <2>0. pc = "report"
    BY DEF Report
  <2>1. CASE IsStandalone
    BY <1>0, <2>0, <2>1 DEF IsOperatorReady, TypeOK, StepInv, ReadyInv, BackedInv,
       Matched, Rolling, Required, Disabled, Good
  <2>2. CASE ~IsStandalone
    <3>1. \A s \in Services : services[s] = "ok" \/ services[s] = "none"
      BY <1>0 DEF IsOperatorReady, TypeOK
    <3>2. services["Config"] = "ok" /\ services["Zuul"] = "ok"
      BY <2>0, <2>2, <3>1 DEF StepInv, DecidedInv, GateInv
    <3>3. \A w \in (Workloads \cap Services) \ Disabled : services[w] = "ok"
      BY <2>0, <2>2, <3>1, <3>2 DEF StepInv, DecidedInv, Disabled
    <3>4. \A w \in Workloads \ Disabled : Good(w)
      BY <1>0, <2>0, <3>2, <3>3 DEF StepInv, BackedInv, Disabled
    <3>5. \A w \in Disabled : workload[w] = "absent"
      BY <1>0, <2>0, <2>2, <3>2 DEF StepInv, RemovedInv, Disabled
    <3> QED
      BY <2>2, <3>4, <3>5 DEF Matched, Required, Good, Rolling
  <2> QED
    BY <2>1, <2>2
<1>1. ControlInv'
  BY <1>0 DEF Report, StepInv, ControlInv, AttemptInv, PathInv, ReadyInv, SuccessMatchesCR, operatorVars, Matched, Rolling, clusterVars, Required, Disabled
<1>2. MapInv'
  BY DEF Report, StepInv, MapInv, PathInv, FreshInv, DecidedInv, GateInv
<1>3. ClusterInv'
  BY DEF Report, StepInv, ClusterInv, BackedInv, RemovedInv, PathInv, FreshInv
<1> QED
  BY <1>1, <1>2, <1>3 DEF StepInv, ControlInv, MapInv, ClusterInv

\* LoopEnd keeps what Step relies on.
LEMMA LoopEndInv == TypeOK /\ StepInv /\ LoopEnd => StepInv'
<1> SUFFICES ASSUME TypeOK, StepInv, LoopEnd PROVE StepInv'
  OBVIOUS
<1> USE Names
<1>1. ControlInv'
  BY BoundsAssumption DEF LoopEnd, TypeOK, StepInv, ControlInv, AttemptInv, PathInv, ReadyInv, SuccessMatchesCR, operatorVars, Matched, Rolling, clusterVars, Required, Disabled
<1>2. MapInv'
  BY DEF LoopEnd, StepInv, MapInv, PathInv, FreshInv, DecidedInv, GateInv
<1>3. ClusterInv'
  BY DEF LoopEnd, StepInv, ClusterInv, BackedInv, RemovedInv, PathInv, FreshInv
<1> QED
  BY <1>1, <1>2, <1>3 DEF StepInv, ControlInv, MapInv, ClusterInv

\* RecordSuccess keeps what Step relies on.
LEMMA RecordSuccessInv == TypeOK /\ StepInv /\ RecordSuccess => StepInv'
<1> SUFFICES ASSUME TypeOK, StepInv, RecordSuccess PROVE StepInv'
  OBVIOUS
<1> USE Names
<1>1. ControlInv'
  BY DEF RecordSuccess, TypeOK, StepInv, ControlInv, AttemptInv, PathInv, ReadyInv, SuccessMatchesCR, operatorVars, Matched, Rolling, Required, Disabled
<1>2. MapInv'
  BY DEF RecordSuccess, StepInv, MapInv, PathInv, FreshInv, DecidedInv, GateInv
<1>3. ClusterInv'
  BY DEF RecordSuccess, StepInv, ClusterInv, BackedInv, RemovedInv, PathInv, FreshInv
<1> QED
  BY <1>1, <1>2, <1>3 DEF StepInv, ControlInv, MapInv, ClusterInv

\* A step of the environment that neither stops nor starts a command only
\* breaks what it then owns up to, and brings back nothing that was removed.
LEMMA AmbientInv ==
    ASSUME TypeOK, StepInv, UNCHANGED <<pc, operatorVars, services>>,
           \A w \in Workloads : Good(w) => Good(w)',
           \A w \in Workloads : workload[w] = "absent" => workload'[w] = "absent"
    PROVE  StepInv'
<1> USE Names
<1>0. Matched => Matched'
  BY DEF Matched, Rolling, Required, Disabled, Good, operatorVars
<1>1. ControlInv'
  BY <1>0 DEF StepInv, ControlInv, AttemptInv, PathInv, ReadyInv, SuccessMatchesCR, operatorVars
<1>2. MapInv'
  BY DEF StepInv, MapInv, FreshInv, DecidedInv, GateInv, operatorVars
<1>3. ClusterInv'
  BY DEF StepInv, ClusterInv, BackedInv, RemovedInv, operatorVars
<1> QED
  BY <1>1, <1>2, <1>3 DEF StepInv, ControlInv, MapInv, ClusterInv

\* No step of the cluster or its users breaks what Step relies on.
LEMMA EnvironmentInv == TypeOK /\ StepInv /\ Environment => StepInv'
<1> SUFFICES ASSUME TypeOK, StepInv, Environment PROVE StepInv'
  OBVIOUS
<1>1. ASSUME NEW w \in Workloads, WorkloadUp(w) PROVE StepInv'
  BY <1>1, AmbientInv DEF WorkloadUp, TypeOK, Good, Rolling, Deployments
<1>2. ASSUME NEW w \in Workloads, WorkloadDown(w) PROVE StepInv'
  BY <1>2, AmbientInv DEF WorkloadDown, TypeOK, Good, Rolling
<1>3. ASSUME NEW s \in Secrets, LoseSecret(s) \/ ProvideSecret(s) PROVE StepInv'
  <2>1. \A w \in Workloads : Good(w) => Good(w)'
    BY <1>3 DEF LoseSecret, ProvideSecret, Rekeyed, TypeOK, Good, Rolling
  <2>2. \A w \in Workloads : workload[w] = "absent" => workload'[w] = "absent"
    BY <1>3 DEF LoseSecret, ProvideSecret, Rekeyed, Outdated
  <2> QED
    BY <1>3, <2>1, <2>2, AmbientInv DEF LoseSecret, ProvideSecret
<1>4. CASE AskRefresh
  BY <1>4, AmbientInv DEF AskRefresh, Good, Rolling
<1>5. CASE DeleteOwner
  BY <1>5, AmbientInv DEF DeleteOwner, TypeOK, Good, Rolling
<1>6. CASE Crash
  BY <1>6 DEF Crash, StepInv, AttemptInv, PathInv, FreshInv, DecidedInv, GateInv,
     BackedInv, RemovedInv, ReadyInv, SuccessMatchesCR
<1>7. CASE Rerun
  BY <1>7 DEF Rerun, StepInv, AttemptInv, PathInv, FreshInv, DecidedInv, GateInv,
     BackedInv, RemovedInv, ReadyInv, SuccessMatchesCR
<1> QED
  BY <1>1, <1>2, <1>3, <1>4, <1>5, <1>6, <1>7 DEF Environment

\* No step of the command breaks what Step relies on.
LEMMA StepKeepsInv == TypeOK /\ StepInv /\ Step => StepInv'
BY
   StartInv, CleanupInv, ValidateZuulConnectionsSecretsInv,
   DeployStandaloneExecutorInv, DeployZuulSecretsInv, DeployGitServerInv,
   DeployMariadbInv, DeployLogserverInv, DeployHTTPDGatewayInv,
   DeployHoundSearchInv, TerminateHoundSearchInv, EnsureLogJuicerInv,
   DeployZookeeperInv, DeployNodepoolLauncherInv,
   DeployNodepoolBuilderInv, EnsureZuulConfigSecretInv,
   EnsureZuulSchedulerInv, EnsureZuulWeederInv, EnsureZuulExecutorInv,
   EnsureZuulWebInv, EnsureZuulMergerInv, ZuulStatusInv, ConfigGateInv,
   SetupBaseSecretsInv, TenantReconfigureInv, ReportInv, LoopEndInv,
   RecordSuccessInv
   DEF Step

\* What Step relies on holds at each of its points: the services map tells the
\* truth about the cluster but for what the environment broke since.
THEOREM StepInvariant == Spec => [](TypeOK /\ StepInv)
<1>1. Init => TypeOK /\ StepInv
  <2>1. Init => TypeOK
    BY InitType
  <2>2. Init => StepInv
    BY DEF Init, StepInv, AttemptInv, PathInv, FreshInv, DecidedInv, GateInv,
       BackedInv, RemovedInv, ReadyInv, SuccessMatchesCR
  <2> QED
    BY <2>1, <2>2
<1>2. TypeOK /\ StepInv /\ [Next]_vars => TypeOK' /\ StepInv'
  <2>1. TypeOK /\ StepInv /\ UNCHANGED vars => TypeOK' /\ StepInv'
    BY AmbientInv DEF TypeOK, Good, Rolling, vars, operatorVars
  <2>2. TypeOK /\ StepInv /\ Next => TypeOK'
    BY StepType, EnvironmentType DEF Next, StepInv
  <2> QED
    BY <2>1, <2>2, StepKeepsInv, EnvironmentInv DEF Next
<1> QED
  BY <1>1, <1>2, PTL DEF Spec

\* A deploy that ends without an error leaves the cluster as the CR asks for.
THEOREM SuccessIsReal == Spec => []SuccessMatchesCR
<1>1. TypeOK /\ StepInv => SuccessMatchesCR
  BY DEF StepInv
<1> QED
  BY <1>1, StepInvariant, PTL

-----------------------------------------------------------------------------
(* What a step may not do. *)

\* In the Zuul part of a pass the backends run, or broke since.
LEMMA BackendsGood ==
    ASSUME TypeOK, StepInv, ~dryRun, ~IsStandalone,
           pc \in AfterBackends \cup {"Config"}
    PROVE  \A b \in Backends : Good(b)
BY Names DEF StepInv, GateInv, FreshInv, BackedInv

\* Deploy changes an absent or outdated workload only outside a dry run, and
\* only the one it is called for.
LEMMA DeployCreates ==
    ASSUME TypeOK, NEW w \in Workloads, NEW s \in Services, NEW next,
           Deploy(w, s, next), NEW v \in Workloads,
           workload[v] \in {"absent", "outdated"}, workload'[v] # workload[v]
    PROVE  v = w /\ ~dryRun
BY DEF Deploy, TypeOK, Ensured

\* Zuul, Nodepool and the internal tenant are only touched over running
\* backends, in every interleaving with the cluster.
THEOREM BackendsComeFirst == Spec => BackendsFirst
<1>1. ASSUME TypeOK, StepInv, [Next]_vars, NEW w \in Dependents, Touched(w)
      PROVE  IsStandalone \/ BackendsRun
  <2> USE Names DEF Dependents, Touched
  <2>0. w \in Workloads /\ workload'[w] # workload[w]
    BY <1>1 DEF Workloads
  <2>1. SUFFICES ASSUME ~IsStandalone
                 PROVE  pc \in AfterBackends \cup {"Config"} /\ ~dryRun
    BY <1>1, BackendsGood DEF Good, Rolling, Deployments, BackendsRun
  <2>2. Step
    BY <1>1, <2>0 DEF Next, Environment, vars, WorkloadUp, WorkloadDown, LoseSecret,
       ProvideSecret, Rekeyed, Outdated, AskRefresh, DeleteOwner, Crash, Rerun, TypeOK
  <2>3. w \notin Base
    BY <1>1 DEF Nodepool, Zuul, Base
  <2>4. CASE DeployGitServer \/ DeployLogserver \/ DeployHTTPDGateway \/ DeployHoundSearch
             \/ EnsureLogJuicer \/ DeployZookeeper
    BY <1>1, <2>0, <2>3, <2>4, DeployCreates DEF DeployGitServer, DeployLogserver,
       DeployHTTPDGateway, DeployHoundSearch, EnsureLogJuicer, DeployZookeeper, Base
  <2>5. CASE DeployMariadb
    <3>1. CASE Observed("MariaDB") = "ok" /\ "db" \notin secrets
      BY <1>1, <2>0, <2>3, <2>5, <3>1 DEF DeployMariadb, TypeOK, Base
    <3>2. CASE ~(Observed("MariaDB") = "ok" /\ "db" \notin secrets)
      BY <1>1, <2>0, <2>3, <2>5, <3>2, DeployCreates DEF DeployMariadb, Base
    <3> QED BY <3>1, <3>2
  <2>6. CASE DeployNodepoolLauncher \/ DeployNodepoolBuilder \/ EnsureZuulScheduler
             \/ EnsureZuulWeeder \/ EnsureZuulExecutor \/ EnsureZuulWeb \/ EnsureZuulMerger
             \/ SetupBaseSecrets
    <3>1. pc \in AfterBackends \cup {"Config"}
      BY <2>6 DEF DeployNodepoolLauncher, DeployNodepoolBuilder, EnsureZuulScheduler,
         EnsureZuulWeeder, EnsureZuulExecutor, EnsureZuulWeb, EnsureZuulMerger,
         SetupBaseSecrets
    <3>2. PICK v \in Workloads, s \in Services : \E next : Deploy(v, s, next)
      BY <2>6 DEF DeployNodepoolLauncher, DeployNodepoolBuilder, EnsureZuulScheduler,
         EnsureZuulWeeder, EnsureZuulExecutor, EnsureZuulWeb, EnsureZuulMerger,
         SetupBaseSecrets
    <3>3. ~dryRun
      BY <1>1, <2>0, <3>2, DeployCreates
    <3> QED
      BY <3>1, <3>3
  <2>7. CASE TerminateHoundSearch \/ EnsureZuulConfigSecret \/ TenantReconfigure \/ Cleanup
    BY <1>1, <2>0, <2>7 DEF TerminateHoundSearch, EnsureZuulConfigSecret,
       TenantReconfigure, Cleanup, TypeOK
  <2>8. CASE Start \/ ValidateZuulConnectionsSecrets \/ DeployZuulSecrets \/ ZuulStatus
             \/ ConfigGate \/ Report \/ LoopEnd \/ RecordSuccess
    BY <1>1, <2>0, <2>8 DEF Start, ValidateZuulConnectionsSecrets, DeployZuulSecrets, Outdated,
       ZuulStatus, ConfigGate, Report, LoopEnd, RecordSuccess
  <2>9. CASE DeployStandaloneExecutor
    BY <1>1, <2>1, <2>9 DEF DeployStandaloneExecutor, StepInv, PathInv
  <2> QED
    BY <2>2, <2>4, <2>5, <2>6, <2>7, <2>8, <2>9 DEF Step
<1>2. TypeOK /\ StepInv /\ [Next]_vars =>
        [\A w \in Dependents : Touched(w) => IsStandalone \/ BackendsRun]_vars
  BY <1>1
<1> QED
  BY <1>2, StepInvariant, PTL DEF Spec, BackendsFirst

\* A dry run creates, updates and deletes no workload and no secret.
THEOREM DryRunIsSafe == Spec => DryRunKeepsObjects
<1>1. ASSUME TypeOK, dryRun, Step
      PROVE  /\ \A w \in Workloads : \A state \in {"absent", "outdated"} :
                   workload[w] = state <=> workload'[w] = state
             /\ UNCHANGED <<secrets, refresh>>
  <2> USE Names
  <2>1. CASE Cleanup
    BY <1>1, <2>1 DEF Cleanup, TypeOK
  <2>2. CASE \E w \in Workloads, s \in Services : \E next : Deploy(w, s, next)
    <3>1. workload' = workload
      BY <1>1, <2>2 DEF Deploy, Ensured, TypeOK
    <3>2. UNCHANGED <<secrets, refresh>>
      BY <1>1, <2>2 DEF Step, Deploy, clusterVars, Start, Cleanup,
         ValidateZuulConnectionsSecrets, DeployStandaloneExecutor, DeployZuulSecrets,
         DeployGitServer, DeployMariadb, DeployLogserver, DeployHTTPDGateway,
         DeployHoundSearch, TerminateHoundSearch, EnsureLogJuicer, DeployZookeeper,
         DeployNodepoolLauncher, DeployNodepoolBuilder, EnsureZuulConfigSecret,
         EnsureZuulScheduler, EnsureZuulWeeder, EnsureZuulExecutor, EnsureZuulWeb,
         EnsureZuulMerger, ZuulStatus, ConfigGate, SetupBaseSecrets,
         TenantReconfigure, Report, LoopEnd, RecordSuccess, TypeOK
    <3> QED
      BY <3>1, <3>2
  <2>3. CASE DeployMariadb \/ DeployStandaloneExecutor \/ TerminateHoundSearch
             \/ EnsureZuulConfigSecret \/ TenantReconfigure
    BY <1>1, <2>2, <2>3 DEF DeployMariadb, DeployStandaloneExecutor, TerminateHoundSearch,
       EnsureZuulConfigSecret, TenantReconfigure, clusterVars, TypeOK
  <2>4. CASE Start \/ ValidateZuulConnectionsSecrets \/ DeployZuulSecrets \/ ZuulStatus
             \/ ConfigGate \/ Report \/ LoopEnd \/ RecordSuccess
    BY <1>1, <2>4 DEF Start, ValidateZuulConnectionsSecrets, DeployZuulSecrets,
       ZuulStatus, ConfigGate, Report, LoopEnd, RecordSuccess, clusterVars
  <2>5. CASE DeployGitServer \/ DeployLogserver \/ DeployHTTPDGateway \/ DeployHoundSearch
             \/ EnsureLogJuicer \/ DeployZookeeper \/ DeployNodepoolLauncher
             \/ DeployNodepoolBuilder \/ EnsureZuulScheduler \/ EnsureZuulWeeder
             \/ EnsureZuulExecutor \/ EnsureZuulWeb \/ EnsureZuulMerger \/ SetupBaseSecrets
    BY <2>2, <2>5 DEF DeployGitServer, DeployLogserver, DeployHTTPDGateway,
       DeployHoundSearch, EnsureLogJuicer, DeployZookeeper, DeployNodepoolLauncher,
       DeployNodepoolBuilder, EnsureZuulScheduler, EnsureZuulWeeder,
       EnsureZuulExecutor, EnsureZuulWeb, EnsureZuulMerger, SetupBaseSecrets
  <2> QED
    BY <1>1, <2>1, <2>3, <2>4, <2>5 DEF Step
<1>2. TypeOK /\ StepInv /\ [Next]_vars =>
        [dryRun /\ Step =>
          /\ \A w \in Workloads : \A state \in {"absent", "outdated"} :
                workload[w] = state <=> workload'[w] = state
          /\ UNCHANGED <<secrets, refresh>>]_vars
  BY <1>1
<1> QED
  BY <1>2, StepInvariant, PTL DEF Spec, DryRunKeepsObjects

-----------------------------------------------------------------------------
(* Implementation of the abstract command. *)

\* A step in the middle of a command, or around it, is work of the command.
LEMMA WorkStep ==
    ASSUME TypeOK, StepInv, pc # "idle", pc' # "idle",
           UNCHANGED <<attempt, outcome>>
    PROVE  Command!Work
<1>1. Matched' \in BOOLEAN
  BY DEF Matched
<1>2. attempt < MaxAttempt
  BY DEF StepInv, AttemptInv
<1> QED
  BY <1>1, <1>2 DEF Command!Work

\* While no command runs, a success stays backed.
LEMMA DriftStep ==
    ASSUME TypeOK, StepInv', pc = "idle", pc' = "idle",
           UNCHANGED <<attempt, outcome>>
    PROVE  Command!Drift
<1>1. Matched' \in BOOLEAN
  BY DEF Matched
<1>2. outcome = "ok" => Matched'
  BY DEF StepInv, SuccessMatchesCR
<1> QED
  BY <1>1, <1>2 DEF Command!Drift

\* The deploy command implements DeployCommand: it succeeds only on a cluster
\* that matches the CR, and makes at most MaxAttempt passes.
THEOREM DeployImplementsCommand == Spec => ImplementsCommand
<1>1. Init => Command!Init
  <2>1. Matched \in BOOLEAN
    BY DEF Matched
  <2> QED
    BY <2>1 DEF Init, Command!Init
<1>2. TypeOK /\ StepInv /\ StepInv' /\ [Next]_vars => [Command!Next]_(Command!vars)
  <2> SUFFICES ASSUME TypeOK, StepInv, StepInv', [Next]_vars
               PROVE  Command!Next \/ UNCHANGED Command!vars
    BY DEF Command!vars
  <2> USE DEF Command!Next
  <2>1. CASE Start
    <3>1. Matched' = Matched
      BY <2>1 DEF Start, Matched, Rolling, Required, Disabled
    <3> QED
      BY <2>1, <3>1 DEF Start, Command!Begin, Command!Refuse
  <2>2. CASE LoopEnd
    <3>1. Matched' = Matched
      BY <2>2 DEF LoopEnd, Matched, Rolling, Required, Disabled
    <3>2. Matched' \in BOOLEAN
      BY DEF Matched
    <3>3. attempt < MaxAttempt /\ attempt \in Nat /\ MaxAttempt \in Nat
      BY <2>2, BoundsAssumption DEF LoopEnd, TypeOK, StepInv, AttemptInv
    <3> QED
      BY <2>2, <3>1, <3>2, <3>3 DEF LoopEnd, Command!GiveUp, Command!Work, Command!Break
  <2>3. CASE RecordSuccess
    <3>1. Matched' = Matched
      BY <2>3 DEF RecordSuccess, Matched, Rolling, Required, Disabled
    <3> QED
      BY <2>3, <3>1 DEF RecordSuccess, Command!Succeed, StepInv, PathInv, ReadyInv
  <2>4. CASE Crash
    <3>1. Matched' = Matched
      BY <2>4 DEF Crash, Matched, Rolling, Required, Disabled, clusterVars
    <3> QED
      BY <2>4, <3>1 DEF Crash, Command!Break
  <2>5. CASE Rerun
    <3>1. Matched' \in BOOLEAN
      BY DEF Matched
    <3> QED
      BY <2>5, <3>1 DEF Rerun, Command!Again
  <2>6. CASE Step /\ ~(Start \/ LoopEnd \/ RecordSuccess)
    <3>1. pc # "idle" /\ pc' # "idle" /\ UNCHANGED <<attempt, outcome>>
      BY <2>6 DEF Step, Deploy, operatorVars, AfterScheduler, Cleanup,
         ValidateZuulConnectionsSecrets, DeployStandaloneExecutor, DeployZuulSecrets,
         DeployGitServer, DeployMariadb, DeployLogserver, DeployHTTPDGateway,
         DeployHoundSearch, TerminateHoundSearch, EnsureLogJuicer, DeployZookeeper,
         DeployNodepoolLauncher, DeployNodepoolBuilder, EnsureZuulConfigSecret,
         EnsureZuulScheduler, EnsureZuulWeeder, EnsureZuulExecutor, EnsureZuulWeb,
         EnsureZuulMerger, ZuulStatus, ConfigGate, SetupBaseSecrets,
         TenantReconfigure, Report
    <3> QED
      BY <3>1, WorkStep
  <2>7. CASE Environment /\ ~(Crash \/ Rerun)
    <3>1. UNCHANGED <<pc, attempt, outcome>>
      BY <2>7 DEF Environment, operatorVars, WorkloadUp, WorkloadDown, LoseSecret,
         ProvideSecret, AskRefresh, DeleteOwner
    <3> QED
      BY <3>1, WorkStep, DriftStep
  <2>8. CASE UNCHANGED vars
    BY <2>8 DEF vars, Command!vars, Matched, Rolling, Required, Disabled
  <2> QED
    BY <2>1, <2>2, <2>3, <2>4, <2>5, <2>6, <2>7, <2>8 DEF Next
<1> QED
  BY <1>1, <1>2, StepInvariant, PTL DEF Spec, ImplementsCommand, Command!Spec

=============================================================================
