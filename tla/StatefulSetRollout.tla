------------------------ MODULE StatefulSetRollout ------------------------
(***************************************************************************)
(* How the operator updates a StatefulSet and finds out that its rollout   *)
(* is over: ensureStatefulset, waitStatefulset, IsStatefulSetReady and     *)
(* getPods (controllers/utils.go), IsStatefulSetRolloutDone                *)
(* (controllers/libs/base/base.go).  The StatefulSet controller and the    *)
(* kubelet, which are Kubernetes', are modelled as far as the operator     *)
(* depends on them: status is what the controller last wrote, pods are     *)
(* replaced one at a time from the highest ordinal down, and a pod that is *)
(* being stopped stays listed for a while.                                 *)
(***************************************************************************)
EXTENDS Naturals, FiniteSets

CONSTANTS
    MaxReplicas,  \* the largest replica count
    MaxRevision,  \* bound on the revisions of the pod template
    MaxFaults,    \* bound on the failures and deletions of pods
    Overlap       \* a change of the replica count may meet one of the template

ASSUME CountsAssumption  == {MaxReplicas, MaxRevision} \subseteq Nat \ {0} /\ MaxFaults \in Nat
ASSUME OverlapAssumption == Overlap \in BOOLEAN

VARIABLES
    forced,     \* the replica count is forced to 1 (zookeeper), else it is left
    want,       \* the revision of the template that the operator computes
    spec,       \* the StatefulSet: its generation, revision and replicas
    status,     \* its status: observed generation, ready and current replicas,
                \* and the revision that counts as current
    pods,       \* the pod of each ordinal: its revision and phase
    pc,         \* the operator: "ensure", "wait" or "list"
    answer,     \* what the last call returned: the workload is ready or not
    faults

vars == <<forced, want, spec, status, pods, pc, answer, faults>>

Ordinals  == 0..(MaxReplicas - 1)
Revisions == 0..MaxRevision

\* "stopping" and "stopped" pods were deleted: the first still pass their
\* readiness probe, the second do not and are still listed.
Phases == {"none", "starting", "ready", "stopping", "stopped"}

TypeOK ==
    /\ forced \in BOOLEAN
    /\ want \in Revisions
    /\ spec \in [generation : Nat, revision : Revisions, replicas : 0..MaxReplicas]
    /\ status \in [observed : 0..spec.generation, ready : 0..MaxReplicas, current : 0..MaxReplicas,
                   revision : Revisions]
    /\ pods \in [Ordinals -> [revision : Revisions, phase : Phases]]
    /\ pc \in {"ensure", "wait", "list"}
    /\ answer \in BOOLEAN
    /\ faults \in 0..MaxFaults

\* The StatefulSet does not exist yet: generation and revision 0.
Init ==
    /\ forced \in BOOLEAN
    /\ want = 1
    /\ spec = [generation |-> 0, revision |-> 0, replicas |-> 0]
    /\ status = [observed |-> 0, ready |-> 0, current |-> 0, revision |-> 0]
    /\ pods = [i \in Ordinals |-> [revision |-> 0, phase |-> "none"]]
    /\ pc = "ensure" /\ answer = FALSE
    /\ faults = 0

-----------------------------------------------------------------------------
(* The operator *)

\* A difference in the template, or in a replica count that is forced.
NeedUpdate == spec.revision # want \/ (forced /\ spec.replicas # 1)

\* Faulty variant: the StatefulSet is deleted and made anew to be changed.
EnsureStatefulsetRecreate ==
    /\ pc = "ensure" /\ NeedUpdate
    /\ spec' = [generation |-> 1, revision |-> want, replicas |-> 1]
    /\ answer' = FALSE
    /\ UNCHANGED <<forced, want, status, pods, pc, faults>>

\* ensureStatefulset: create or update, and do not wait; or leave it and wait.
EnsureStatefulset ==
    /\ pc = "ensure"
    /\ \/ /\ NeedUpdate
          /\ spec' = [generation |-> spec.generation + 1, revision |-> want,
                      replicas |-> IF forced \/ spec.generation = 0 THEN 1 ELSE spec.replicas]
          /\ status' = IF spec.generation = 0 THEN [status EXCEPT !.revision = want] ELSE status
          /\ answer' = FALSE
          /\ UNCHANGED pc
       \/ /\ ~NeedUpdate
          /\ pc' = "wait"
          /\ UNCHANGED <<spec, status, answer>>
    /\ UNCHANGED <<forced, want, pods, faults>>

\* Faulty variant: it is not checked that the controller saw the last change.
RolloutDoneUnobserved ==
    status.ready = spec.replicas /\ status.current = spec.replicas

\* Faulty variant: it waits for one more change than there was.
RolloutDoneStrict ==
    /\ status.observed > spec.generation
    /\ status.ready = spec.replicas /\ status.current = spec.replicas

IsStatefulSetRolloutDone ==
    /\ status.observed >= spec.generation
    /\ status.ready = spec.replicas
    /\ status.current = spec.replicas

\* An iteration of waitStatefulset: get the StatefulSet, and go on to its pods
\* if the rollout is over and there are any.
PollStatus ==
    /\ pc = "wait"
    /\ \/ /\ IsStatefulSetRolloutDone /\ spec.replicas > 0
          /\ pc' = "list" /\ UNCHANGED answer
       \/ /\ IsStatefulSetRolloutDone /\ spec.replicas = 0
          /\ pc' = "ensure" /\ answer' = TRUE
    /\ UNCHANGED <<forced, want, spec, status, pods, faults>>

\* getPods: every pod that is listed runs, with its containers ready.
ListPods ==
    /\ pc = "list"
    /\ IF \A i \in Ordinals : pods[i].phase \in {"none", "ready", "stopping"}
       THEN pc' = "ensure" /\ answer' = TRUE
       ELSE pc' = "wait" /\ UNCHANGED answer
    /\ UNCHANGED <<forced, want, spec, status, pods, faults>>

\* The deadline passed, or a pod is in CrashLoopBackOff.
GiveUp ==
    /\ pc = "wait"
    /\ pc' = "ensure" /\ answer' = FALSE
    /\ UNCHANGED <<forced, want, spec, status, pods, faults>>

Operator == EnsureStatefulset \/ PollStatus \/ ListPods \/ GiveUp

-----------------------------------------------------------------------------
(* The StatefulSet controller *)

Stopping(i) == pods[i].phase \in {"stopping", "stopped"}
Replicas    == {i \in Ordinals : i < spec.replicas}
Condemned   == {i \in Ordinals : i >= spec.replicas /\ pods[i].phase # "none"}

\* The pods of revision r that count in the status, once those of S are deleted.
CountOf(r, S) == Cardinality({i \in Ordinals \ S : /\ pods[i].phase \in {"starting", "ready"}
                                                   /\ pods[i].revision = r})
ReadyCount == Cardinality({i \in Ordinals : pods[i].phase \in {"ready", "stopping"}})

\* The status that a pass of the controller writes when it deletes the pods
\* of S and creates those of C with revision r: the rolling update is complete
\* when all replicas are updated and ready, and only then counts as current.
WriteStatus(S, C, r) ==
    LET old     == CountOf(status.revision, S)
                   + (IF r = status.revision THEN Cardinality(C) ELSE 0)
        updated == CountOf(spec.revision, S)
                   + (IF r = spec.revision THEN Cardinality(C) ELSE 0)
        over    == /\ updated = spec.replicas /\ ReadyCount = spec.replicas
                   /\ \A i \in Ordinals \ Replicas : pods[i].phase = "none"
    IN  status' = [observed |-> spec.generation, ready |-> ReadyCount,
                   current  |-> IF over THEN updated ELSE old,
                   revision |-> IF over THEN spec.revision ELSE status.revision]

\* One pass: the first of these that applies.  A missing pod is made, with the
\* current revision if the status says that so many are wanted; a pod that is
\* not ready is waited for; then pods beyond the replica count are deleted;
\* then the highest pod that is not updated is.
SyncStatefulSet ==
    LET unfit    == {i \in Replicas : pods[i].phase # "ready"}
        first    == CHOOSE i \in unfit : \A j \in unfit : i <= j
        outdated == {i \in Replicas : pods[i].revision # spec.revision}
        last(S)  == CHOOSE i \in S : \A j \in S : i >= j
        revision == IF first < status.current THEN status.revision ELSE spec.revision
        Stop(i)  == /\ pods' = [pods EXCEPT ![i].phase =
                                   IF @ = "ready" THEN "stopping" ELSE "stopped"]
                    /\ WriteStatus({i}, {}, 0)
        Wait     == pods' = pods /\ WriteStatus({}, {}, 0)
    IN  /\ spec.generation # 0
        /\ IF unfit # {} /\ pods[first].phase = "none"
           THEN /\ pods' = [pods EXCEPT ![first] = [revision |-> revision, phase |-> "starting"]]
                /\ WriteStatus({}, {first}, revision)
           ELSE IF unfit # {} THEN Wait
           ELSE IF \E i \in Condemned : Stopping(i) THEN Wait
           ELSE IF Condemned # {} THEN Stop(last(Condemned))
           ELSE IF outdated # {} THEN Stop(last(outdated))
           ELSE Wait
        /\ UNCHANGED <<forced, want, spec, pc, answer, faults>>

-----------------------------------------------------------------------------
(* The kubelet, the users and the operator's releases *)

SetPhase(i, from, to) ==
    /\ pods[i].phase = from
    /\ pods' = [pods EXCEPT ![i].phase = to]
    /\ UNCHANGED <<forced, want, spec, status, pc, answer>>

PodReady(i)   == SetPhase(i, "starting", "ready") /\ UNCHANGED faults
PodStopped(i) == SetPhase(i, "stopping", "stopped") /\ UNCHANGED faults
PodGone(i)    == SetPhase(i, "stopped", "none") /\ UNCHANGED faults
PodFault(i)   == /\ faults < MaxFaults
                 /\ faults' = faults + 1
                 /\ \/ SetPhase(i, "ready", "starting")
                    \/ SetPhase(i, "ready", "stopping")

\* Replicas are being removed, or will be.
Shrinking == Condemned # {} \/ (forced /\ spec.replicas # 1)

\* Every replica runs the template that is wanted.
Updated   == /\ spec.revision = want /\ status.observed = spec.generation
             /\ \A i \in Replicas : pods[i] = [revision |-> want, phase |-> "ready"]

NewRevision ==
    /\ want < MaxRevision
    /\ Overlap \/ ~Shrinking
    /\ want' = want + 1 /\ pc' = "ensure" /\ answer' = FALSE
    /\ UNCHANGED <<forced, spec, status, pods, faults>>

UserScale(n) ==
    /\ spec.generation \in 1..MaxRevision
    /\ n # spec.replicas
    /\ Overlap \/ (n > spec.replicas /\ ~forced) \/ Updated
    /\ spec' = [spec EXCEPT !.generation = @ + 1, !.replicas = n]
    /\ answer' = FALSE
    /\ UNCHANGED <<forced, want, status, pods, pc, faults>>

Environment ==
    \/ \E i \in Ordinals : PodReady(i) \/ PodStopped(i) \/ PodGone(i) \/ PodFault(i)
    \/ NewRevision
    \/ \E n \in 0..MaxReplicas : UserScale(n)

Next == Operator \/ SyncStatefulSet \/ Environment

Spec == Init /\ [][Next]_vars

\* Passes follow each other, and Kubernetes does its part; a wait is not cut
\* short every time the rollout is found to be over.
FairSpec == /\ Spec
            /\ WF_vars(EnsureStatefulset) /\ SF_vars(PollStatus) /\ WF_vars(ListPods)
            /\ WF_vars(SyncStatefulSet)
            /\ \A i \in Ordinals : WF_vars(PodReady(i)) /\ WF_vars(PodStopped(i))
                                   /\ WF_vars(PodGone(i))

-----------------------------------------------------------------------------
(* Properties *)

\* "rolled out when all of its replicas are updated": when the operator
\* reports the StatefulSet as ready, no replica runs an older template, though
\* status and pods are read at different times and the controller writes the
\* status before its deletions take effect.
ReadyMeansUpdated == answer =>
    /\ spec.revision = want
    /\ \A i \in Replicas : pods[i].phase # "none" => pods[i].revision = spec.revision

\* With the last revision, the operator ends up reporting the StatefulSet as
\* ready, whatever pods failed on the way.
RolloutReported == []<>answer
=============================================================================
