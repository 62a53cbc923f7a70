------------------------- MODULE DeploymentRollout -------------------------
(***************************************************************************)
(* How the operator updates a Deployment and finds out that its rollout is *)
(* over: ensureDeployment and IsDeploymentReady (controllers/utils.go),    *)
(* IsDeploymentRolloutDone (controllers/libs/base/base.go).  Unlike for a  *)
(* StatefulSet, the pods are not listed and nothing is waited for: what    *)
(* the status says is the answer.  Kubernetes' Deployment and ReplicaSet   *)
(* controllers are modelled as far as that status depends on them: each    *)
(* writes what it last saw of the objects of the other.  The operator      *)
(* creates every Deployment with one replica.                              *)
(***************************************************************************)
EXTENDS Naturals, FiniteSets

CONSTANTS
    MaxRevision,  \* bound on the revisions of the pod template
    MaxFaults     \* bound on the pods that stop being ready

ASSUME CountsAssumption == MaxRevision \in Nat \ {0} /\ MaxFaults \in Nat

VARIABLES
    recreate, \* the strategy: Recreate (logjuicer), else the rolling default
    want,    \* the revision of the template that the operator computes
    spec,    \* the Deployment: its generation and revision; 0 before it exists
    status,  \* its status: observed generation, replicas, ready replicas
    sets,    \* the ReplicaSet of each revision: the replicas it wants, and the
             \* replicas and ready replicas of its status
    pods,    \* the pod of each ReplicaSet: "none", "starting" or "ready"
    answer,  \* what the last call returned: the Deployment is ready or not
    faults

vars == <<recreate, want, spec, status, sets, pods, answer, faults>>

Revisions == 1..MaxRevision

TypeOK ==
    /\ recreate \in BOOLEAN
    /\ want \in Revisions
    /\ spec \in [generation : 0..MaxRevision, revision : 0..MaxRevision]
    /\ status \in [observed : 0..spec.generation, replicas : 0..MaxRevision,
                ready : 0..MaxRevision]
    /\ sets \in [Revisions -> [wants : 0..1, replicas : 0..1, ready : 0..1]]
    /\ pods \in [Revisions -> {"none", "starting", "ready"}]
    /\ answer \in BOOLEAN
    /\ faults \in 0..MaxFaults

Init ==
    /\ recreate \in BOOLEAN
    /\ want = 1
    /\ spec = [generation |-> 0, revision |-> 0]
    /\ status = [observed |-> 0, replicas |-> 0, ready |-> 0]
    /\ sets = [r \in Revisions |-> [wants |-> 0, replicas |-> 0, ready |-> 0]]
    /\ pods = [r \in Revisions |-> "none"]
    /\ answer = FALSE
    /\ faults = 0

-----------------------------------------------------------------------------
(* The operator *)

\* Faulty variant: it waits for one more change than there was.
RolloutDoneStrict ==
    status.observed > spec.generation /\ status.replicas = status.ready

\* A pod that is ready is available: minReadySeconds is left at 0.
IsDeploymentRolloutDone ==
    status.observed >= spec.generation /\ status.replicas = status.ready

\* At least one replica up is enough.
IsDeploymentReady == IsDeploymentRolloutDone /\ status.ready > 0

\* Faulty variant: the Deployment is updated though nothing changed.
EnsureDeploymentAlways ==
    /\ spec' = [generation |-> spec.generation + 1, revision |-> want]
    /\ answer' = FALSE
    /\ UNCHANGED <<recreate, want, status, sets, pods, faults>>

\* Create or update, and report that it is not ready; or report what the
\* object that was just read says.
EnsureDeployment ==
    /\ \/ /\ spec.revision # want
          /\ spec' = [generation |-> spec.generation + 1, revision |-> want]
          /\ answer' = FALSE
       \/ /\ spec.revision = want
          /\ answer' = IsDeploymentReady
          /\ UNCHANGED spec
    /\ UNCHANGED <<recreate, want, status, sets, pods, faults>>

-----------------------------------------------------------------------------
(* Kubernetes *)

Older       == {r \in Revisions : r # spec.revision}
ScaleTo(S, n) == [r \in Revisions |-> IF r \in S THEN [sets[r] EXCEPT !.wants = n] ELSE sets[r]]

\* A pass of the Deployment controller scales one way or the other and writes
\* the status from the status of the ReplicaSets as it found them: each has one
\* replica at most, and the status counts those that have it.
SyncDeployment ==
    /\ spec.generation # 0
    /\ sets' = IF recreate
               THEN IF \E r \in Older : sets[r].wants = 1 THEN ScaleTo(Older, 0)
                    ELSE IF \A r \in Older : pods[r] = "none" THEN ScaleTo({spec.revision}, 1)
                    ELSE sets
               ELSE IF sets[spec.revision].wants = 0 THEN ScaleTo({spec.revision}, 1)
                    ELSE IF sets[spec.revision].ready = 1 THEN ScaleTo(Older, 0)
                    ELSE sets
    /\ status' = [observed |-> spec.generation,
                  replicas |-> Cardinality({r \in Revisions : sets[r].replicas = 1}),
                  ready    |-> Cardinality({r \in Revisions : sets[r].ready = 1})]
    /\ UNCHANGED <<recreate, want, spec, pods, answer, faults>>

\* A pass of the ReplicaSet controller makes or deletes the pod.
SyncPod(r) ==
    /\ pods' = [pods EXCEPT ![r] = IF sets[r].wants = 0 THEN "none"
                                   ELSE IF @ = "none" THEN "starting" ELSE @]
    /\ pods' # pods
    /\ UNCHANGED <<recreate, want, spec, status, sets, answer, faults>>

\* It counts the pods in the status of the ReplicaSet.
SyncCount(r) ==
    /\ sets' = [sets EXCEPT ![r].replicas = IF pods[r] = "none" THEN 0 ELSE 1,
                            ![r].ready    = IF pods[r] = "ready" THEN 1 ELSE 0]
    /\ UNCHANGED <<recreate, want, spec, status, pods, answer, faults>>

PodReady(r) ==
    /\ pods[r] = "starting"
    /\ pods' = [pods EXCEPT ![r] = "ready"]
    /\ UNCHANGED <<recreate, want, spec, status, sets, answer, faults>>

PodFault(r) ==
    /\ faults < MaxFaults /\ pods[r] = "ready"
    /\ pods' = [pods EXCEPT ![r] = "starting"]
    /\ faults' = faults + 1
    /\ UNCHANGED <<recreate, want, spec, status, sets, answer>>

Kubernetes ==
    \/ SyncDeployment
    \/ \E r \in Revisions : SyncPod(r) \/ SyncCount(r) \/ PodReady(r) \/ PodFault(r)

NewRevision ==
    /\ want < MaxRevision
    /\ want' = want + 1 /\ answer' = FALSE
    /\ UNCHANGED <<recreate, spec, status, sets, pods, faults>>

Next == EnsureDeployment \/ Kubernetes \/ NewRevision

Spec == Init /\ [][Next]_vars

\* Passes of the operator follow each other; controllers and kubelet run.
FairSpec == /\ Spec
            /\ WF_vars(EnsureDeployment) /\ WF_vars(SyncDeployment)
            /\ \A r \in Revisions : /\ WF_vars(SyncPod(r)) /\ WF_vars(SyncCount(r))
                                    /\ WF_vars(PodReady(r))

-----------------------------------------------------------------------------
(* Properties *)

\* The only pod is one of the template that the operator computed.
RolledOut == pods = [r \in Revisions |-> IF r = want THEN "ready" ELSE "none"]

\* Once templates and pods no longer change, the operator reports the
\* Deployment as ready for good, and by then only the last template runs: an
\* answer that came too early is transient.
RolloutSettles == <>[](answer /\ RolledOut)

\* What the comment on IsDeploymentRolloutDone promises, and the code does not
\* keep, as it does not look at UpdatedReplicas (README, section 6): when the
\* operator reports the Deployment as ready, a pod of the template it asked
\* for exists, and no other does.
ReadyMeansUpdated == answer => \A r \in Revisions : (pods[r] # "none") <=> (r = want)
=============================================================================
