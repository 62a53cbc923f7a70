---------------------- MODULE DeploymentRolloutProofs ----------------------
(***************************************************************************)
(* The types of DeploymentRollout, for any number of revisions and faults. *)
(***************************************************************************)
EXTENDS DeploymentRollout, FiniteSetTheorems, TLAPS

\* The operator updates a Deployment at most once for each revision of its
\* template: this keeps the generation, and what the status has seen of it,
\* within their bounds.
GenerationInv ==
    /\ spec.generation <= spec.revision
    /\ spec.revision <= want
    /\ spec.generation # 0 => spec.revision \in Revisions

Inv == TypeOK /\ GenerationInv

\* The status counts no more ReplicaSets than there are revisions.
LEMMA CountsAreBounded ==
    ASSUME NEW S \in SUBSET Revisions
    PROVE  Cardinality(S) \in 0..MaxRevision
<1>1. MaxRevision \in Nat
  BY CountsAssumption
<1>2. IsFiniteSet(Revisions) /\ Cardinality(Revisions) = MaxRevision
  <2>1. Cardinality(1..MaxRevision) = IF 1 > MaxRevision THEN 0 ELSE MaxRevision - 1 + 1
    BY <1>1, FS_Interval
  <2>2. IsFiniteSet(1..MaxRevision)
    BY <1>1, FS_Interval
  <2> QED BY <2>1, <2>2, CountsAssumption DEF Revisions
<1>3. IsFiniteSet(S) /\ Cardinality(S) <= Cardinality(Revisions)
  BY <1>2, FS_Subset
<1>4. Cardinality(S) \in Nat
  BY <1>3, FS_CardinalityType
<1> QED BY <1>1, <1>2, <1>3, <1>4

LEMMA ScaleKeepsTypes ==
    ASSUME TypeOK, NEW S, NEW n \in 0..1
    PROVE  ScaleTo(S, n) \in [Revisions -> [wants : 0..1, replicas : 0..1, ready : 0..1]]
<1> DEFINE Set == [wants : 0..1, replicas : 0..1, ready : 0..1]
<1>1. ASSUME NEW r \in Revisions PROVE sets[r] \in Set
  BY DEF TypeOK
<1>2. ASSUME NEW s \in Set PROVE [s EXCEPT !.wants = n] \in Set
  OBVIOUS
<1>3. ASSUME NEW r \in Revisions
      PROVE  (IF r \in S THEN [sets[r] EXCEPT !.wants = n] ELSE sets[r]) \in Set
  BY <1>1, <1>2
<1> HIDE DEF Set
<1>4. ScaleTo(S, n) \in [Revisions -> Set]
  BY <1>3 DEF ScaleTo
<1> QED BY <1>4 DEF Set

LEMMA InitInv == Init => Inv
<1> SUFFICES ASSUME Init PROVE Inv
  OBVIOUS
<1>1. 1 \in Revisions /\ MaxRevision \in Nat /\ MaxFaults \in Nat
  BY CountsAssumption DEF Revisions
<1>2. sets \in [Revisions -> [wants : 0..1, replicas : 0..1, ready : 0..1]]
  <2>1. [wants |-> 0, replicas |-> 0, ready |-> 0]
           \in [wants : 0..1, replicas : 0..1, ready : 0..1]
    OBVIOUS
  <2> QED BY <2>1 DEF Init
<1>3. pods \in [Revisions -> {"none", "starting", "ready"}]
  BY DEF Init
<1>4. want = 1 /\ spec = [generation |-> 0, revision |-> 0] /\ faults = 0
  BY DEF Init
<1>5. spec \in [generation : 0..MaxRevision, revision : 0..MaxRevision] /\ faults \in 0..MaxFaults
  BY <1>1, <1>4
<1>6. status \in [observed : 0..spec.generation, replicas : 0..MaxRevision,
                  ready : 0..MaxRevision]
  BY <1>1, <1>4 DEF Init
<1>7. GenerationInv
  BY <1>4 DEF GenerationInv
<1> QED BY <1>1, <1>2, <1>3, <1>4, <1>5, <1>6, <1>7 DEF Init, Inv, TypeOK

LEMMA NextInv == Inv /\ [Next]_vars => Inv'
<1> SUFFICES ASSUME Inv, [Next]_vars PROVE Inv'
  OBVIOUS
<1>0. TypeOK /\ GenerationInv /\ MaxRevision \in Nat \ {0} /\ MaxFaults \in Nat
  BY CountsAssumption DEF Inv
<1> USE <1>0
<1>1. CASE EnsureDeployment
  <2>1. CASE spec.revision # want
    <3>1. /\ spec' = [generation |-> spec.generation + 1, revision |-> want]
          /\ answer' = FALSE
      BY <1>1, <2>1 DEF EnsureDeployment
    <3>2. spec.generation + 1 <= want /\ spec.generation + 1 \in 1..MaxRevision
      BY <2>1 DEF TypeOK, GenerationInv, Revisions
    <3>3. spec' \in [generation : 0..MaxRevision, revision : 0..MaxRevision] /\ GenerationInv'
      BY <1>1, <3>1, <3>2 DEF EnsureDeployment, TypeOK, GenerationInv, Revisions
    <3>4. status' \in [observed : 0..spec'.generation, replicas : 0..MaxRevision,
                       ready : 0..MaxRevision]
      BY <1>1, <3>1, <3>2 DEF EnsureDeployment, TypeOK
    <3> QED BY <1>1, <3>1, <3>3, <3>4 DEF EnsureDeployment, Inv, TypeOK
  <2>2. CASE spec.revision = want
    BY <1>1, <2>2
       DEF EnsureDeployment, IsDeploymentReady, IsDeploymentRolloutDone, Inv, TypeOK,
           GenerationInv, Revisions
  <2> QED BY <2>1, <2>2
<1>2. CASE SyncDeployment
  <2>1. sets' \in [Revisions -> [wants : 0..1, replicas : 0..1, ready : 0..1]]
    <3>1. \/ sets' = sets \/ sets' = ScaleTo(Older, 0) \/ sets' = ScaleTo({spec.revision}, 1)
      BY <1>2 DEF SyncDeployment
    <3> QED BY <3>1, ScaleKeepsTypes DEF TypeOK
  <2>2. status' \in [observed : 0..spec.generation, replicas : 0..MaxRevision,
                     ready : 0..MaxRevision]
    <3>1. /\ Cardinality({r \in Revisions : sets[r].replicas = 1}) \in 0..MaxRevision
          /\ Cardinality({r \in Revisions : sets[r].ready = 1}) \in 0..MaxRevision
      BY CountsAreBounded
    <3>2. spec.generation \in 0..spec.generation
      BY DEF TypeOK
    <3> QED BY <1>2, <3>1, <3>2 DEF SyncDeployment
  <2> QED BY <1>2, <2>1, <2>2 DEF SyncDeployment, Inv, TypeOK, GenerationInv
<1>3. ASSUME NEW r \in Revisions, SyncPod(r) PROVE Inv'
  BY <1>3 DEF SyncPod, Inv, TypeOK, GenerationInv
<1>4. ASSUME NEW r \in Revisions, SyncCount(r) PROVE Inv'
  <2> DEFINE Set == [wants : 0..1, replicas : 0..1, ready : 0..1]
  <2>1. sets[r] \in Set
    BY DEF TypeOK
  <2>2. ASSUME NEW a \in 0..1, NEW b \in 0..1
        PROVE  [sets EXCEPT ![r].replicas = a, ![r].ready = b] \in [Revisions -> Set]
    BY <2>1 DEF TypeOK
  <2>3. (IF pods[r] = "none" THEN 0 ELSE 1) \in 0..1 /\ (IF pods[r] = "ready" THEN 1 ELSE 0) \in 0..1
    OBVIOUS
  <2>4. sets' \in [Revisions -> Set]
    BY <1>4, <2>2, <2>3 DEF SyncCount
  <2> QED BY <1>4, <2>4 DEF SyncCount, Inv, TypeOK, GenerationInv
<1>5. ASSUME NEW r \in Revisions, PodReady(r) PROVE Inv'
  BY <1>5 DEF PodReady, Inv, TypeOK, GenerationInv
<1>6. ASSUME NEW r \in Revisions, PodFault(r) PROVE Inv'
  BY <1>6 DEF PodFault, Inv, TypeOK, GenerationInv
<1>7. CASE NewRevision
  <2>1. want' \in Revisions /\ GenerationInv'
    BY <1>7 DEF NewRevision, TypeOK, GenerationInv, Revisions
  <2> QED BY <1>7, <2>1 DEF NewRevision, Inv, TypeOK
<1>8. CASE UNCHANGED vars
  BY <1>8 DEF vars, Inv, TypeOK, GenerationInv
<1> QED BY <1>1, <1>2, <1>3, <1>4, <1>5, <1>6, <1>7, <1>8 DEF Next, Kubernetes

\* Every variable keeps its type: the operator updates a Deployment no more than
\* once for each revision, and the status never runs ahead of the generation.
THEOREM TypeCorrect == Spec => []TypeOK
<1>1. Inv => TypeOK
  BY DEF Inv
<1> QED BY <1>1, InitInv, NextInv, PTL DEF Spec
=============================================================================
