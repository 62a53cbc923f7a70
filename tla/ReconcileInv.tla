--------------------------- MODULE ReconcileInv ---------------------------
(***************************************************************************)
(* The inductive invariant behind SuccessMatchesCR and BackendsFirst: what *)
(* the services map of Step is worth at each point of a pass.  Also the    *)
(* mapping by which Reconcile implements DeployCommand.                    *)
(***************************************************************************)
EXTENDS Reconcile

\* The points of Step after a component was looked at, on the way through the
\* Zuul part; at the points of Tail the Zuul part may have been skipped.
Tail            == {"gate", "Config", "report"}
AfterMerger     == {"ZuulStatus"}
AfterWeb        == AfterMerger \cup {"Merger"}
AfterExecutor   == AfterWeb \cup {"Web"}
AfterWeeder     == AfterExecutor \cup {"Executor"}
AfterSetup      == AfterWeeder \cup {"Scheduler", "Weeder"}
AfterBuilder    == AfterSetup \cup {"ZuulSetup"}
AfterLauncher   == AfterBuilder \cup {"NodePoolBuilder"}
AfterBackends   == AfterLauncher \cup {"NodePoolLauncher"}
AfterZookeeper  == AfterBackends \cup Tail
AfterLogJuicer  == AfterZookeeper \cup {"Zookeeper"}
AfterHound      == AfterLogJuicer \cup {"LogJuicer"}
AfterGateway    == AfterHound \cup {"HoundSearch"}
AfterLogserver  == AfterGateway \cup {"Gateway"}
AfterMariadb    == AfterLogserver \cup {"Logserver"}
AfterGitServer  == AfterMariadb \cup {"MariaDB"}
InSF            == AfterGitServer \cup {"GitServer", "secrets"}
InStep          == InSF \cup {"validate", "standalone"}

Good(w) == workload[w] = "ready" \/ Rolling(w) \/ w \in disturbed

\* The Zuul part was gone through up to one of these points, or all of it
\* with success.
Through(points) == pc \in points \/ (pc \in Tail /\ services["Zuul"] = "ok")

\* A command that goes on has attempts left.
AttemptInv == pc # "idle" => attempt < MaxAttempt

\* Which path the command is on, and how the outcome relates to it.
PathInv ==
    /\ pc \in InSF \ {"report"} => ~IsStandalone
    /\ pc = "standalone" => IsStandalone
    /\ pc = "Executor" => IsExecutorEnabled
    /\ pc # "idle" => outcome = "none"
    /\ pc = "record" => ~dryRun /\ attempt > 0

\* Keys that the pass has not reached, or will not set, are not in the map.
FreshInv ==
    /\ pc \in {"validate", "standalone"} => services = NoServices
    /\ pc \in InStep \ {"report"} => services["Config"] = "none"
    /\ pc \in InStep \ Tail => services["Zuul"] = "none"
    /\ pc \in InStep /\ ~IsExecutorEnabled => services["Executor"] = "none"
    /\ pc \in InStep /\ ~IsCodesearchEnabled => services["HoundSearch"] = "none"
    /\ pc = "Weeder" => services["Scheduler"] = "ok"

\* Keys that the pass went by are in the map.
DecidedInv == ~IsStandalone =>
    /\ pc \in AfterGitServer => services["GitServer"] # "none"
    /\ pc \in AfterMariadb => services["MariaDB"] # "none"
    /\ pc \in AfterLogserver => services["Logserver"] # "none"
    /\ pc \in AfterGateway => services["Gateway"] # "none"
    /\ pc \in AfterHound /\ IsCodesearchEnabled => services["HoundSearch"] # "none"
    /\ pc \in AfterLogJuicer => services["LogJuicer"] # "none"
    /\ pc \in AfterZookeeper => services["Zookeeper"] # "none"
    /\ Through(AfterLauncher) => services["NodePoolLauncher"] # "none"
    /\ Through(AfterBuilder) => services["NodePoolBuilder"] # "none"
    /\ Through(AfterWeeder) => services["Scheduler"] # "none"
    /\ Through(AfterExecutor) /\ IsExecutorEnabled => services["Executor"] # "none"
    /\ Through(AfterWeb) => services["Web"] # "none"
    /\ Through(AfterMerger) => services["Merger"] # "none"
    /\ pc = "report" => services["Config"] # "none"

\* Zuul and the internal tenant are only reached over what they build on.
GateInv == ~IsStandalone =>
    /\ Through(AfterBackends) => \A b \in Backends : services[b] = "ok"
    /\ pc \in Tail /\ services["Zuul"] = "ok" =>
          \A s \in Zuul \ {"Weeder"} :
             services[s] = "ok" \/ (s = "Executor" /\ ~IsExecutorEnabled)
    /\ pc = "Config" => services["Zuul"] = "ok"
    /\ pc = "report" /\ services["Config"] = "ok" => services["Zuul"] = "ok"

\* What the map says is ready is ready, or broke since.  The one step that
\* breaks it is the restart of zuul-web, which reports Config as waiting.
BackedInv == pc \in InStep /\ ~dryRun /\ services["Config"] # "waiting" =>
    /\ \A w \in Workloads \cap Services : services[w] = "ok" => Good(w)
    /\ services["Scheduler"] = "ok" /\ pc # "Weeder" => Good("Weeder")
    /\ IsStandalone /\ services["Zuul"] = "ok" => Good("Executor")

\* What the CR disables is gone once the pass went by it.
RemovedInv == ~IsStandalone /\ ~dryRun =>
    /\ pc \in AfterHound /\ ~IsCodesearchEnabled => workload["HoundSearch"] = "absent"
    /\ Through(AfterSetup) /\ ~IsExecutorEnabled => workload["Executor"] = "absent"

\* Between the end of a ready pass and the end of the command.
ReadyInv ==
    /\ IsStandalone /\ pc = "report" => services["Zuul"] # "none"
    /\ pc = "loop" /\ ready /\ ~dryRun => Matched
    /\ pc = "record" => Matched

\* What Step relies on at each of its points when it takes the services map
\* for the state of the cluster.
StepInv == /\ AttemptInv /\ PathInv /\ FreshInv /\ DecidedInv /\ GateInv
           /\ BackedInv /\ RemovedInv /\ ReadyInv /\ SuccessMatchesCR

-----------------------------------------------------------------------------
(* Implementation of the abstract command. *)

Command == INSTANCE DeployCommand WITH
    MaxPasses <- MaxAttempt,
    phase     <- IF pc = "idle" THEN "idle" ELSE "running",
    passes    <- attempt,
    result    <- outcome,
    matched   <- Matched

\* StandaloneReconcile implements the command its users are promised: success
\* only on a matching cluster, after at least one pass and before the last
\* attempt; failure only when the attempts are used up.
ImplementsCommand == Command!Spec

=============================================================================
