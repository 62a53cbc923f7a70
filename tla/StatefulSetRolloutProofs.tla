--------------------- MODULE StatefulSetRolloutProofs ---------------------
(***************************************************************************)
(* Proofs about StatefulSetRollout, for any replica count, any number of   *)
(* revisions and of faults.                                                *)
(***************************************************************************)
EXTENDS StatefulSetRollout, FiniteSetTheorems, WellFoundedInduction, TLAPS

-----------------------------------------------------------------------------
(* The inductive invariant *)

\* Revisions only go up; before it is created the StatefulSet has no pods.
OrderInv ==
    /\ want # 0 /\ status.revision <= spec.revision /\ spec.revision <= want
    /\ spec.generation = 0 => /\ spec.revision = 0 /\ spec.replicas = 0
                              /\ \A i \in Ordinals : pods[i].phase = "none"

AllUpdated == \A i \in Ordinals : pods[i].phase # "none" => pods[i].revision = spec.revision

\* The revision that counts as current in the status has no outdated pod beside it.
CurrentInv == status.revision = spec.revision => AllUpdated

\* Without Overlap: while replicas are removed no pod is outdated, and the
\* controller will not make one.
NoOutdated ==
    /\ spec.revision = want /\ AllUpdated
    /\ status.revision = spec.revision \/ status.current = 0

ShrinkInv == spec.generation # 0 /\ Shrinking => NoOutdated

\* What the controller counted as current when it last looked is there still.
CountInv ==
    /\ spec.generation # 0 /\ status.observed = spec.generation
    /\ status.revision # spec.revision
    /\ \A i \in Replicas : pods[i].revision # status.revision
    => status.current = 0

\* A rollout that is over by its status is over.
Complete == status.revision = spec.revision \/ spec.replicas = 0

DoneInv ==
    /\ spec.generation # 0 /\ status.observed = spec.generation
    /\ status.ready = spec.replicas /\ status.current = spec.replicas
    => Complete

\* And so it is where the operator goes on from it.
OperatorInv ==
    /\ pc \in {"wait", "list"} => spec.revision = want
    /\ pc = "list" => status.revision = spec.revision
    /\ answer => spec.revision = want /\ Complete

Inv == OrderInv /\ CurrentInv /\ ShrinkInv /\ CountInv /\ DoneInv /\ OperatorInv

-----------------------------------------------------------------------------
(* Numbers and finite sets *)

\* A set of numbers that is not empty has a smallest one.
LEMMA Smallest ==
    ASSUME NEW T, T \subseteq Nat, T # {}
    PROVE  \E x \in T : \A y \in T : x <= y
<1>1. PICK x \in T : \A y \in T : ~ (<<y, x>> \in OpToRel(<, Nat))
  BY NatLessThanWellFounded, WFMin
<1>2. ASSUME NEW y \in T PROVE x <= y
  <2>1. ~ (<<y, x>> \in OpToRel(<, Nat))
    BY <1>1
  <2>2. x \in Nat /\ y \in Nat
    OBVIOUS
  <2>3. ~ (y < x)
    BY <2>1, <2>2 DEF OpToRel
  <2> QED BY <2>2, <2>3
<1> QED BY <1>2

\* And a largest one, if it is bounded.
LEMMA Largest ==
    ASSUME NEW n \in Nat, NEW T, T \subseteq 0..n, T # {}
    PROVE  \E x \in T : \A y \in T : x >= y
<1> DEFINE U == {n - x : x \in T}
<1>1. U \subseteq Nat /\ U # {}
  <2>1. \A x \in T : n - x \in Nat
    OBVIOUS
  <2> QED BY <2>1
<1>2. PICK u \in U : \A v \in U : u <= v
  <2> HIDE DEF U
  <2> QED BY <1>1, Smallest
<1>3. PICK x \in T : u = n - x
  OBVIOUS
<1>4. ASSUME NEW y \in T PROVE x >= y
  <2>1. n - x <= n - y
    BY <1>2, <1>3
  <2>2. x \in 0..n /\ y \in 0..n
    OBVIOUS
  <2> QED BY <2>1, <2>2
<1> QED BY <1>4

\* The ordinals, and those of the replicas.
LEMMA OrdinalsFinite ==
    ASSUME TypeOK
    PROVE  /\ IsFiniteSet(Ordinals) /\ Cardinality(Ordinals) = MaxReplicas
           /\ IsFiniteSet(Replicas) /\ Cardinality(Replicas) = spec.replicas
           /\ Ordinals \subseteq Nat
<1>1. MaxReplicas \in Nat \ {0}
  BY CountsAssumption
<1>2. spec.replicas \in 0..MaxReplicas
  BY DEF TypeOK
<1>3. IsFiniteSet(Ordinals) /\ Cardinality(Ordinals) = MaxReplicas
  BY <1>1, FS_Interval DEF Ordinals
<1>4. Replicas = 0..(spec.replicas - 1)
  BY <1>1, <1>2 DEF Replicas, Ordinals
<1>5. IsFiniteSet(Replicas) /\ Cardinality(Replicas) = spec.replicas
  <2>1. CASE spec.replicas = 0
    <3>1. Replicas = {}
      BY <1>4, <2>1
    <3> QED BY <2>1, <3>1, FS_EmptySet
  <2>2. ASSUME NEW k \in Nat \ {0}
        PROVE  IsFiniteSet(0..(k - 1)) /\ Cardinality(0..(k - 1)) = k
    BY FS_Interval
  <2> QED BY <1>1, <1>2, <1>4, <2>1, <2>2
<1> QED BY <1>1, <1>3, <1>5 DEF Ordinals

\* As many replicas as there are, are all of them.
LEMMA AllReplicas ==
    ASSUME TypeOK, NEW Q, Q \subseteq Replicas, Cardinality(Q) = spec.replicas
    PROVE  Q = Replicas
BY OrdinalsFinite, FS_Subset

\* Fewer, if one is missing.
LEMMA NotAllReplicas ==
    ASSUME TypeOK, NEW Q, Q \subseteq Replicas, NEW i \in Replicas, i \notin Q
    PROVE  Cardinality(Q) # spec.replicas
BY AllReplicas

-----------------------------------------------------------------------------
(* A pass of the StatefulSet controller *)

\* It makes a pod that is missing, ...
Makes(i, r) ==
    /\ i \in Replicas /\ pods[i].phase = "none"
    /\ r = spec.revision \/ (r = status.revision /\ i < status.current)
    /\ pods' = [pods EXCEPT ![i] = [revision |-> r, phase |-> "starting"]]
    /\ WriteStatus({}, {i}, r)

\* ... or stops one that is not wanted or outdated, ...
Stops(i) ==
    /\ i \in Replicas \/ i \in Condemned
    /\ pods[i].phase # "none"
    /\ pods' = [pods EXCEPT ![i].phase = IF @ = "ready" THEN "stopping" ELSE "stopped"]
    /\ WriteStatus({i}, {}, 0)

\* ... or waits, for a replica, for one that is being removed, or for nothing.
Waits ==
    /\ \/ \E i \in Replicas : pods[i].phase \notin {"none", "ready"}
       \/ Condemned # {}
       \/ \A i \in Replicas : pods[i].phase = "ready" /\ pods[i].revision = spec.revision
    /\ pods' = pods
    /\ WriteStatus({}, {}, 0)

\* That is all a pass does.
LEMMA PassOf ==
    ASSUME TypeOK, SyncStatefulSet
    PROVE  \/ Waits \/ \E i \in Ordinals : Stops(i)
           \/ \E i \in Ordinals, r \in Revisions : Makes(i, r)
<1> DEFINE unfit    == {i \in Replicas : pods[i].phase # "ready"}
           first    == CHOOSE i \in unfit : \A j \in unfit : i <= j
           outdated == {i \in Replicas : pods[i].revision # spec.revision}
           last(T)  == CHOOSE i \in T : \A j \in T : i >= j
           revision == IF first < status.current THEN status.revision ELSE spec.revision
           Stop(i)  == /\ pods' = [pods EXCEPT ![i].phase =
                                      IF @ = "ready" THEN "stopping" ELSE "stopped"]
                       /\ WriteStatus({i}, {}, 0)
           Wait     == pods' = pods /\ WriteStatus({}, {}, 0)
<1>1. /\ unfit \subseteq Replicas /\ outdated \subseteq Replicas
      /\ Replicas \subseteq Ordinals /\ Condemned \subseteq Ordinals /\ Ordinals \subseteq Nat
  BY OrdinalsFinite DEF Replicas, Condemned
<1>2. unfit # {} => first \in unfit
  <2>1. unfit # {} => \E i \in unfit : \A j \in unfit : i <= j
    <3> HIDE DEF unfit
    <3> QED BY <1>1, Smallest
  <2> HIDE DEF unfit
  <2> QED BY <2>1
<1>3. ASSUME NEW T, T \subseteq Ordinals, T # {}
      PROVE  last(T) \in T
  <2>1. MaxReplicas - 1 \in Nat
    BY CountsAssumption
  <2>2. \E i \in T : \A j \in T : i >= j
    BY <1>3, <2>1, Largest DEF Ordinals
  <2> QED BY <2>2
<1>4. IF unfit # {} /\ pods[first].phase = "none"
      THEN /\ pods' = [pods EXCEPT ![first] = [revision |-> revision, phase |-> "starting"]]
           /\ WriteStatus({}, {first}, revision)
      ELSE IF unfit # {} THEN Wait
      ELSE IF \E i \in Condemned : Stopping(i) THEN Wait
      ELSE IF Condemned # {} THEN Stop(last(Condemned))
      ELSE IF outdated # {} THEN Stop(last(outdated))
      ELSE Wait
  BY DEF SyncStatefulSet
<1>5. first \in unfit => first \in Replicas /\ pods[first].phase # "ready"
  OBVIOUS
<1>6. unfit = {} => \A i \in Replicas : pods[i].phase = "ready"
  OBVIOUS
<1>7. outdated = {} => \A i \in Replicas : pods[i].revision = spec.revision
  OBVIOUS
<1>8. \A i \in Condemned : pods[i].phase # "none"
  BY DEF Condemned
<1>9. /\ revision \in Revisions
      /\ revision = spec.revision \/ (revision = status.revision /\ first < status.current)
  <2> HIDE DEF first
  <2> QED BY DEF TypeOK
<1> HIDE DEF unfit, first, outdated, last, revision
<1>10. CASE unfit # {} /\ pods[first].phase = "none"
  <2>1. Makes(first, revision)
    BY <1>2, <1>4, <1>5, <1>9, <1>10 DEF Makes
  <2> QED BY <1>1, <1>2, <1>9, <1>10, <2>1
<1>11. CASE unfit # {} /\ pods[first].phase # "none"
  <2>1. Wait
    BY <1>4, <1>11
  <2>2. first \in Replicas /\ pods[first].phase \notin {"none", "ready"}
    BY <1>2, <1>5, <1>11
  <2> QED BY <2>1, <2>2 DEF Waits
<1>12. CASE unfit = {} /\ \E i \in Condemned : Stopping(i)
  <2>1. Wait /\ Condemned # {}
    BY <1>4, <1>12
  <2> QED BY <2>1 DEF Waits
<1>13. CASE unfit = {} /\ ~(\E i \in Condemned : Stopping(i)) /\ Condemned # {}
  <2>1. Stop(last(Condemned))
    BY <1>4, <1>13
  <2>2. last(Condemned) \in Condemned
    BY <1>1, <1>3, <1>13
  <2>3. Stops(last(Condemned))
    BY <2>1, <2>2, <1>8 DEF Stops
  <2> QED BY <1>1, <2>2, <2>3
<1>14. CASE unfit = {} /\ Condemned = {} /\ outdated # {}
  <2>1. Stop(last(outdated))
    BY <1>4, <1>14
  <2>2. last(outdated) \in outdated
    BY <1>1, <1>3, <1>14
  <2>3. last(outdated) \in Replicas /\ pods[last(outdated)].phase # "none"
    BY <1>1, <1>6, <1>14, <2>2
  <2>4. Stops(last(outdated))
    BY <2>1, <2>3 DEF Stops
  <2> QED BY <1>1, <2>3, <2>4
<1>15. CASE unfit = {} /\ Condemned = {} /\ outdated = {}
  <2>1. Wait
    BY <1>4, <1>15
  <2> QED BY <1>6, <1>7, <1>15, <2>1 DEF Waits
<1> QED BY <1>10, <1>11, <1>12, <1>13, <1>14, <1>15

\* The pods of revision q that count once S is deleted and C made with revision r.
Counted(q, S, C, r) ==
    {i \in Ordinals \ S : pods[i].phase \in {"starting", "ready"} /\ pods[i].revision = q}
    \cup (IF r = q THEN C ELSE {})

Running == {i \in Ordinals : pods[i].phase \in {"ready", "stopping"}}

\* Only a pod that is missing is made.
Fits(S, C) == /\ S \subseteq Ordinals
              /\ C = {} \/ \E i \in Replicas : C = {i} /\ pods[i].phase = "none"

\* The sums of WriteStatus are sizes of sets.
LEMMA CountIs ==
    ASSUME TypeOK, NEW S, NEW C, Fits(S, C), NEW q, NEW r
    PROVE  /\ Cardinality(Counted(q, S, C, r))
                 = CountOf(q, S) + (IF r = q THEN Cardinality(C) ELSE 0)
           /\ Cardinality(Counted(q, S, C, r)) \in 0..MaxReplicas
<1> DEFINE K == {i \in Ordinals \ S : /\ pods[i].phase \in {"starting", "ready"}
                                      /\ pods[i].revision = q}
<1>1. IsFiniteSet(K) /\ Cardinality(K) \in Nat /\ CountOf(q, S) = Cardinality(K)
  <2>1. K \subseteq Ordinals
    OBVIOUS
  <2>2. CountOf(q, S) = Cardinality(K)
    BY DEF CountOf
  <2> HIDE DEF K
  <2> QED BY <2>1, <2>2, OrdinalsFinite, FS_Subset, FS_CardinalityType
<1>2. Counted(q, S, C, r) \subseteq Ordinals
  BY DEF Counted, Fits, Replicas
<1>3. Cardinality(Counted(q, S, C, r)) \in 0..MaxReplicas
  <2>1. MaxReplicas \in Nat
    BY CountsAssumption
  <2> QED BY <1>2, <2>1, OrdinalsFinite, FS_Subset, FS_CardinalityType
<1>4. CASE r # q \/ C = {}
  <2>1. Counted(q, S, C, r) = K
    BY <1>4 DEF Counted
  <2>2. (IF r = q THEN Cardinality(C) ELSE 0) = 0
    BY <1>4, FS_EmptySet
  <2> HIDE DEF K
  <2> QED BY <1>1, <1>3, <2>1, <2>2
<1>5. CASE r = q /\ C # {}
  <2>1. PICK i \in Ordinals : C = {i} /\ pods[i].phase = "none"
    BY <1>5 DEF Fits, Replicas
  <2>2. Counted(q, S, C, r) = K \cup {i} /\ i \notin K
    BY <1>5, <2>1 DEF Counted
  <2>3. (IF r = q THEN Cardinality(C) ELSE 0) = 1
    BY <1>5, <2>1, FS_Singleton
  <2> HIDE DEF K
  <2> QED BY <1>1, <1>3, <2>2, <2>3, FS_AddElement
<1> QED BY <1>4, <1>5

\* What the status says after a pass: either the rollout is over, and every
\* replica is updated and alone, or it counts what is left of the old.
LEMMA Written ==
    ASSUME TypeOK, NEW S, NEW C, Fits(S, C), NEW r, WriteStatus(S, C, r)
    PROVE  /\ status'.observed = spec.generation
           /\ status'.ready = Cardinality(Running)
           /\ status' \in [observed : 0..spec.generation, ready : 0..MaxReplicas,
                           current : 0..MaxReplicas, revision : Revisions]
           /\ \/ /\ status'.revision = spec.revision
                 /\ Counted(spec.revision, S, C, r) = Replicas
                 /\ \A i \in Ordinals \ Replicas : pods[i].phase = "none"
              \/ /\ status'.revision = status.revision
                 /\ status'.current = Cardinality(Counted(status.revision, S, C, r))
<1> DEFINE old     == CountOf(status.revision, S)
                      + (IF r = status.revision THEN Cardinality(C) ELSE 0)
           updated == CountOf(spec.revision, S)
                      + (IF r = spec.revision THEN Cardinality(C) ELSE 0)
           over    == /\ updated = spec.replicas /\ ReadyCount = spec.replicas
                      /\ \A i \in Ordinals \ Replicas : pods[i].phase = "none"
<1>1. status' = [observed |-> spec.generation, ready |-> ReadyCount,
                 current  |-> IF over THEN updated ELSE old,
                 revision |-> IF over THEN spec.revision ELSE status.revision]
  BY DEF WriteStatus
<1>2. /\ old = Cardinality(Counted(status.revision, S, C, r)) /\ old \in 0..MaxReplicas
      /\ updated = Cardinality(Counted(spec.revision, S, C, r)) /\ updated \in 0..MaxReplicas
  <2>1. \A q : /\ Cardinality(Counted(q, S, C, r))
                   = CountOf(q, S) + (IF r = q THEN Cardinality(C) ELSE 0)
               /\ Cardinality(Counted(q, S, C, r)) \in 0..MaxReplicas
    BY CountIs
  <2>2. /\ old = Cardinality(Counted(status.revision, S, C, r))
        /\ Cardinality(Counted(status.revision, S, C, r)) \in 0..MaxReplicas
    BY <2>1
  <2>3. /\ updated = Cardinality(Counted(spec.revision, S, C, r))
        /\ Cardinality(Counted(spec.revision, S, C, r)) \in 0..MaxReplicas
    BY <2>1
  <2> HIDE DEF old, updated
  <2> QED BY <2>2, <2>3
<1>3. ReadyCount = Cardinality(Running) /\ ReadyCount \in 0..MaxReplicas
  <2>1. ReadyCount = Cardinality(Running)
    BY DEF ReadyCount, Running
  <2>2. Running \subseteq Ordinals
    BY DEF Running
  <2>3. MaxReplicas \in Nat
    BY CountsAssumption
  <2> QED BY <2>1, <2>2, <2>3, OrdinalsFinite, FS_Subset, FS_CardinalityType
<1>4. /\ spec.generation \in Nat /\ spec.revision \in Revisions /\ status.revision \in Revisions
  BY DEF TypeOK
<1>5. over => Counted(spec.revision, S, C, r) = Replicas
  <2> SUFFICES ASSUME over
               PROVE  Counted(spec.revision, S, C, r) = Replicas
    OBVIOUS
  <2>1. C \subseteq Replicas
    BY DEF Fits
  <2>2. Counted(spec.revision, S, C, r) \subseteq Replicas
    BY <2>1 DEF Counted
  <2>3. Cardinality(Counted(spec.revision, S, C, r)) = spec.replicas
    BY <1>2
  <2> QED BY <2>2, <2>3, AllReplicas
<1>6. over => \A i \in Ordinals \ Replicas : pods[i].phase = "none"
  OBVIOUS
<1> HIDE DEF old, updated, over
<1>7. CASE over
  BY <1>1, <1>2, <1>3, <1>4, <1>5, <1>6, <1>7
<1>8. CASE ~over
  BY <1>1, <1>2, <1>3, <1>4, <1>8
<1> QED BY <1>7, <1>8

PodsType == [Ordinals -> [revision : Revisions, phase : Phases]]

\* A pass that stops the pods of S and makes those of C with revision r.
Pass(S, C, r) ==
    /\ Fits(S, C) /\ WriteStatus(S, C, r)
    /\ C # {} => S = {} /\ (r = spec.revision \/ (r = status.revision /\ status.current # 0))
    /\ S # {} => \E i \in Replicas \cup Condemned : S = {i}
    /\ S = {} /\ C = {} =>
          \/ \E i \in Replicas : pods[i].phase \notin {"none", "ready"}
          \/ Condemned # {}
          \/ \A i \in Replicas : pods[i].phase = "ready" /\ pods[i].revision = spec.revision
    /\ \A i \in C : pods'[i].revision = r
    /\ \A i \in Ordinals \ C : /\ pods'[i].revision = pods[i].revision
                               /\ pods'[i].phase # "none" => pods[i].phase # "none"
    /\ pods' \in PodsType
    /\ UNCHANGED <<forced, want, spec, pc, answer, faults>>

\* In these terms, what PassOf says.
LEMMA SyncIsPass ==
    ASSUME TypeOK, SyncStatefulSet
    PROVE  spec.generation # 0 /\ \E S, C : \E r \in Revisions : Pass(S, C, r)
<1>1. spec.generation # 0 /\ UNCHANGED <<forced, want, spec, pc, answer, faults>>
  BY DEF SyncStatefulSet
<1>2. 0 \in Revisions /\ pods \in PodsType /\ spec.revision \in Revisions
      /\ status.revision \in Revisions /\ status.current \in Nat
  BY CountsAssumption DEF TypeOK, Revisions, PodsType
<1>3. CASE Waits
  <2>1. Pass({}, {}, 0)
    BY <1>1, <1>2, <1>3 DEF Waits, Pass, Fits
  <2> QED BY <1>1, <1>2, <2>1
<1>4. ASSUME NEW i \in Ordinals, Stops(i)
      PROVE  Pass({i}, {}, 0)
  <2>1. pods' \in PodsType
    BY <1>2, <1>4 DEF Stops, PodsType, Phases
  <2>2. \A j \in Ordinals : /\ pods'[j].revision = pods[j].revision
                            /\ pods'[j].phase # "none" => pods[j].phase # "none"
    BY <1>2, <1>4 DEF Stops, PodsType
  <2> QED BY <1>1, <1>4, <2>1, <2>2 DEF Stops, Pass, Fits
<1>5. ASSUME NEW i \in Ordinals, NEW r \in Revisions, Makes(i, r)
      PROVE  Pass({}, {i}, r)
  <2>1. pods' \in PodsType
    BY <1>2, <1>5 DEF Makes, PodsType, Phases
  <2>2. \A j \in Ordinals \ {i} : pods'[j] = pods[j]
    BY <1>2, <1>5 DEF Makes, PodsType
  <2>3. pods'[i].revision = r
    BY <1>2, <1>5 DEF Makes, PodsType
  <2>4. i < status.current => status.current # 0
    BY <1>2, OrdinalsFinite
  <2> QED BY <1>1, <1>5, <2>1, <2>2, <2>3, <2>4 DEF Makes, Pass, Fits
<1> QED BY <1>1, <1>2, <1>3, <1>4, <1>5, PassOf

\* The types.
LEMMA PassTypes ==
    ASSUME TypeOK, NEW S, NEW C, NEW r \in Revisions, Pass(S, C, r)
    PROVE  TypeOK'
<1>1. status' \in [observed : 0..spec.generation, ready : 0..MaxReplicas,
                   current : 0..MaxReplicas, revision : Revisions]
  BY Written DEF Pass
<1> QED BY <1>1 DEF Pass, TypeOK, PodsType

\* Nothing that is counted is missing, and what is removed was there.
LEMMA PassPods ==
    ASSUME TypeOK, NEW S, NEW C, NEW r \in Revisions, Pass(S, C, r)
    PROVE  /\ C \subseteq Replicas /\ \A i \in C : pods[i].phase = "none"
           /\ Condemned' \subseteq Condemned
           /\ \A i \in Ordinals : pods[i].phase # "none" => i \in Replicas \/ i \in Condemned
<1>1. C \subseteq Replicas /\ \A i \in C : pods[i].phase = "none"
  BY DEF Pass, Fits
<1>2. Condemned' \subseteq Condemned
  <2> SUFFICES ASSUME NEW i \in Condemned'
               PROVE  i \in Condemned
    OBVIOUS
  <2>1. i \in Ordinals /\ i >= spec.replicas /\ pods'[i].phase # "none"
    BY DEF Condemned, Pass
  <2>2. i \notin C
    BY <1>1, <2>1, OrdinalsFinite DEF Replicas, TypeOK
  <2> QED BY <2>1, <2>2 DEF Pass, Condemned
<1>3. \A i \in Ordinals : i < spec.replicas \/ i >= spec.replicas
  BY OrdinalsFinite DEF TypeOK
<1> QED BY <1>1, <1>2, <1>3 DEF Condemned, Replicas

\* What counts as current in the new status has no outdated pod beside it: a
\* rollout that is over has all its replicas updated, and no other pod.
LEMMA PassCurrent ==
    ASSUME TypeOK, CurrentInv, NEW S, NEW C, NEW r \in Revisions, Pass(S, C, r)
    PROVE  CurrentInv'
<1> SUFFICES ASSUME status'.revision = spec.revision, NEW i \in Ordinals, pods'[i].phase # "none"
             PROVE  pods'[i].revision = spec.revision
  BY DEF CurrentInv, AllUpdated, Pass
<1>1. CASE /\ Counted(spec.revision, S, C, r) = Replicas
           /\ \A j \in Ordinals \ Replicas : pods[j].phase = "none"
  BY <1>1, PassPods DEF Counted, Pass
<1>2. CASE status'.revision = status.revision
  <2>1. AllUpdated
    BY <1>2 DEF CurrentInv
  <2> QED BY <1>2, <2>1 DEF AllUpdated, Pass
<1> QED BY <1>1, <1>2, Written DEF Pass

\* The controller makes no outdated pod while replicas are removed.
LEMMA PassShrink ==
    ASSUME TypeOK, ShrinkInv, NEW S, NEW C, NEW r \in Revisions, Pass(S, C, r)
    PROVE  ShrinkInv'
<1> SUFFICES ASSUME spec.generation # 0, Shrinking'
             PROVE  NoOutdated'
  BY DEF ShrinkInv, Pass
<1>1. Shrinking
  BY PassPods DEF Shrinking, Pass
<1>2. NoOutdated
  BY <1>1 DEF ShrinkInv
<1>3. C # {} => r = spec.revision
  BY <1>2 DEF NoOutdated, Pass
<1>4. AllUpdated'
  BY <1>2, <1>3 DEF NoOutdated, AllUpdated, Pass
<1>5. status'.revision = spec.revision \/ status'.current = 0
  <2> SUFFICES ASSUME status'.revision # spec.revision
               PROVE  status'.current = 0
    OBVIOUS
  <2>1. /\ status'.revision = status.revision
        /\ status'.current = Cardinality(Counted(status.revision, S, C, r))
    BY Written DEF Pass
  <2>2. Counted(status.revision, S, C, r) = {}
    BY <1>2, <1>3, <2>1 DEF NoOutdated, AllUpdated, Counted
  <2> QED BY <2>1, <2>2, FS_EmptySet
<1> QED BY <1>2, <1>4, <1>5 DEF NoOutdated, Pass

\* What it counts as current is among the replicas.
LEMMA PassCount ==
    ASSUME TypeOK, ShrinkInv, NEW S, NEW C, NEW r \in Revisions, Pass(S, C, r)
    PROVE  CountInv'
<1> SUFFICES ASSUME spec.generation # 0, status'.revision # spec.revision,
                    \A i \in Replicas : pods'[i].revision # status'.revision
             PROVE  status'.current = 0
  BY DEF CountInv, Pass, Replicas
<1>1. /\ status'.revision = status.revision
      /\ status'.current = Cardinality(Counted(status.revision, S, C, r))
  BY Written DEF Pass
<1>2. ASSUME NEW i \in Counted(status.revision, S, C, r)
      PROVE  FALSE
  <2>1. CASE i \in C
    BY <1>1, <1>2, <2>1, PassPods DEF Counted, Pass
  <2>2. CASE i \notin C
    <3>1. i \in Ordinals /\ pods[i].phase # "none" /\ pods[i].revision = status.revision
          /\ pods'[i].revision = pods[i].revision
      BY <1>2, <2>2 DEF Counted, Pass
    <3>2. i \in Condemned
      BY <1>1, <3>1, PassPods
    <3>3. NoOutdated
      BY <3>2 DEF Shrinking, ShrinkInv
    <3> QED BY <1>1, <3>1, <3>3 DEF NoOutdated, AllUpdated
  <2> QED BY <2>1, <2>2
<1>3. Counted(status.revision, S, C, r) = {}
  BY <1>2
<1> QED BY <1>1, <1>3, FS_EmptySet

\* A status that says that the rollout is over says so of the template in spec: as
\* many pods of an older one, as many ready, leave nothing that the pass could have
\* made or stopped, nor waited for.
LEMMA PassDone ==
    ASSUME TypeOK, ShrinkInv, NEW S, NEW C, NEW r \in Revisions, Pass(S, C, r)
    PROVE  DoneInv'
<1> SUFFICES ASSUME spec.generation # 0, status'.ready = spec.replicas,
                    status'.current = spec.replicas, status'.revision # spec.revision
             PROVE  spec.replicas = 0
  BY DEF DoneInv, Complete, Pass
<1>1. /\ status'.revision = status.revision /\ status'.ready = Cardinality(Running)
      /\ status'.current = Cardinality(Counted(status.revision, S, C, r))
  BY Written DEF Pass
<1>2. CASE Condemned # {}
  <2>1. NoOutdated
    BY <1>2 DEF Shrinking, ShrinkInv
  <2>2. C # {} => r = spec.revision
    BY <2>1 DEF NoOutdated, Pass
  <2>3. Counted(status.revision, S, C, r) = {}
    BY <1>1, <2>1, <2>2 DEF NoOutdated, AllUpdated, Counted
  <2> QED BY <1>1, <2>3, FS_EmptySet
<1>3. CASE Condemned = {}
  <2>1. Counted(status.revision, S, C, r) = Replicas
    <3>1. Counted(status.revision, S, C, r) \subseteq Replicas
      BY <1>3, PassPods DEF Counted
    <3> QED BY <1>1, <3>1, AllReplicas
  <2>2. Running = Replicas
    <3>1. Running \subseteq Replicas
      BY <1>3, PassPods DEF Running
    <3> QED BY <1>1, <3>1, AllReplicas
  <2>3. C = {}
    BY <2>2, PassPods DEF Running
  <2>4. S = {}
    BY <1>3, <2>1, <2>3 DEF Counted, Pass
  <2>5. \A i \in Replicas : pods[i].phase = "ready" /\ pods[i].revision = status.revision
    BY <2>1, <2>2, <2>3 DEF Counted, Running
  <2>6. \A i \in Replicas : pods[i].revision = spec.revision
    BY <1>3, <2>3, <2>4, <2>5 DEF Pass
  <2>7. Replicas = {}
    BY <1>1, <2>5, <2>6
  <2> QED BY <2>7, OrdinalsFinite, FS_EmptySet
<1> QED BY <1>2, <1>3

\* What the operator goes on from stays true.
LEMMA PassOperator ==
    ASSUME TypeOK, OrderInv, OperatorInv, spec.generation # 0,
           NEW S, NEW C, NEW r \in Revisions, Pass(S, C, r)
    PROVE  OrderInv' /\ OperatorInv'
<1>1. status'.revision \in {status.revision, spec.revision}
  BY Written DEF Pass
<1>2. spec.revision \in Nat /\ status.revision \in Nat
  BY DEF TypeOK, Revisions
<1> QED BY <1>1, <1>2 DEF OrderInv, OperatorInv, Complete, Pass

-----------------------------------------------------------------------------
(* The other steps *)

\* The kubelet changes the phase of a pod that is there.
Kubelet(i) == PodReady(i) \/ PodStopped(i) \/ PodGone(i) \/ PodFault(i)

LEMMA KubeletSteps ==
    ASSUME TypeOK, NEW i \in Ordinals, Kubelet(i)
    PROVE  /\ UNCHANGED <<forced, want, spec, status, pc, answer>>
           /\ pods' \in PodsType /\ faults' \in 0..MaxFaults
           /\ \A j \in Ordinals : /\ pods'[j].revision = pods[j].revision
                                  /\ pods'[j].phase # "none" => pods[j].phase # "none"
<1>1. faults' \in 0..MaxFaults /\ pods \in PodsType
  BY CountsAssumption DEF Kubelet, PodReady, PodStopped, PodGone, PodFault, TypeOK, PodsType
<1>2. PICK to \in Phases : /\ pods[i].phase # "none"
                           /\ pods' = [pods EXCEPT ![i].phase = to]
                           /\ UNCHANGED <<forced, want, spec, status, pc, answer>>
  BY DEF Kubelet, PodReady, PodStopped, PodGone, PodFault, SetPhase, Phases
<1>3. \A j \in Ordinals : /\ pods'[j].revision = pods[j].revision
                          /\ pods'[j].phase # "none" => pods[j].phase # "none"
  BY <1>1, <1>2 DEF PodsType
<1>4. pods' \in PodsType
  BY <1>1, <1>2 DEF PodsType
<1> QED BY <1>1, <1>2, <1>3, <1>4

\* A step keeps the types.
LEMMA TypeStep == TypeOK /\ [Next]_vars => TypeOK'
<1> SUFFICES ASSUME TypeOK, [Next]_vars
             PROVE  TypeOK'
  OBVIOUS
<1>0. /\ MaxReplicas \in Nat \ {0} /\ MaxRevision \in Nat \ {0} /\ MaxFaults \in Nat
  BY CountsAssumption
<1>1. CASE EnsureStatefulset
  <2>1. CASE NeedUpdate /\ spec' = [generation |-> spec.generation + 1, revision |-> want,
                      replicas |-> IF forced \/ spec.generation = 0 THEN 1 ELSE spec.replicas]
    <3>1. spec' \in [generation : Nat, revision : Revisions, replicas : 0..MaxReplicas]
      BY <1>0, <2>1 DEF TypeOK
    <3>2. status' \in [observed : 0..spec'.generation, ready : 0..MaxReplicas,
                       current : 0..MaxReplicas, revision : Revisions]
      <4>1. spec'.generation = spec.generation + 1 /\ spec.generation \in Nat
        BY <2>1 DEF TypeOK
      <4>2. 0..spec.generation \subseteq 0..spec'.generation
        BY <4>1
      <4>3. status' = [status EXCEPT !.revision = want] \/ status' = status
        <5>1. CASE spec.generation = 0
          BY <1>1, <2>1, <5>1 DEF EnsureStatefulset
        <5>2. CASE spec.generation # 0
          BY <1>1, <2>1, <5>2 DEF EnsureStatefulset
        <5> QED BY <5>1, <5>2
      <4> QED BY <4>2, <4>3 DEF TypeOK
    <3> QED BY <1>1, <3>1, <3>2, <2>1 DEF EnsureStatefulset, TypeOK
  <2>2. CASE ~NeedUpdate
    BY <1>1, <2>2 DEF EnsureStatefulset, TypeOK
  <2> QED BY <1>1, <2>1, <2>2 DEF EnsureStatefulset
<1>2. CASE PollStatus
  BY <1>2 DEF PollStatus, TypeOK
<1>3. CASE ListPods
  BY <1>3 DEF ListPods, TypeOK
<1>4. CASE GiveUp
  BY <1>4 DEF GiveUp, TypeOK
<1>5. CASE SyncStatefulSet
  BY <1>5, SyncIsPass, PassTypes
<1>6. ASSUME NEW i \in Ordinals, Kubelet(i) PROVE TypeOK'
  BY <1>6, KubeletSteps DEF TypeOK, PodsType
<1>7. CASE NewRevision
  <2>1. want' \in Revisions
    BY <1>0, <1>7 DEF NewRevision, TypeOK, Revisions
  <2> QED BY <1>7, <2>1 DEF NewRevision, TypeOK
<1>8. ASSUME NEW n \in 0..MaxReplicas, UserScale(n) PROVE TypeOK'
  <2>1. spec' \in [generation : Nat, revision : Revisions, replicas : 0..MaxReplicas]
    <3>1. spec \in [generation : Nat, revision : Revisions, replicas : 0..MaxReplicas]
      BY DEF TypeOK
    <3>2. spec' = [generation |-> spec.generation + 1, revision |-> spec.revision,
                   replicas |-> n]
      BY <1>8, <3>1 DEF UserScale
    <3> QED BY <3>1, <3>2
  <2>2. spec'.generation = spec.generation + 1 /\ spec.generation \in Nat
    BY <1>8 DEF UserScale, TypeOK
  <2>3. 0..spec.generation \subseteq 0..spec'.generation
    BY <2>2
  <2> QED BY <1>8, <2>1, <2>3 DEF UserScale, TypeOK
<1>9. CASE UNCHANGED vars
  BY <1>9 DEF vars, TypeOK
<1> QED BY <1>1, <1>2, <1>3, <1>4, <1>5, <1>6, <1>7, <1>8, <1>9
       DEF Next, Operator, Environment, Kubelet

\* The numbers in the state.
LEMMA Numbers ==
    ASSUME TypeOK
    PROVE  /\ spec.generation \in Nat /\ spec.revision \in Nat /\ spec.replicas \in Nat
           /\ status.observed \in Nat /\ status.observed <= spec.generation
           /\ status.revision \in Nat /\ want \in Nat
           /\ \A i \in Ordinals : i \in Nat /\ (i \in Replicas \/ i >= spec.replicas)
BY OrdinalsFinite DEF TypeOK, Revisions, Replicas

\* Every pod is that of a replica, when none is condemned.
LEMMA NoneCondemned ==
    ASSUME TypeOK, Condemned = {}, NEW i \in Ordinals, pods[i].phase # "none"
    PROVE  i \in Replicas
BY Numbers DEF Condemned

\* An update of the StatefulSet makes the status stale.
LEMMA UpdateKeepsInv ==
    ASSUME TypeOK, Inv, EnsureStatefulset, NeedUpdate
    PROVE  Inv'
<1>1. /\ spec'.generation = spec.generation + 1 /\ spec'.revision = want
      /\ spec'.replicas = IF forced \/ spec.generation = 0 THEN 1 ELSE spec.replicas
      /\ answer' = FALSE /\ pc' = "ensure"
      /\ UNCHANGED <<forced, want, pods>>
  BY DEF EnsureStatefulset
<1>2. status'.observed = status.observed /\ status'.current = status.current
      /\ status'.revision = IF spec.generation = 0 THEN want ELSE status.revision
  BY DEF EnsureStatefulset, TypeOK
<1>3. status'.observed # spec'.generation /\ spec'.generation # 0
  BY <1>1, <1>2, Numbers
<1>4. OrderInv'
  BY <1>1, <1>2, <1>3, Numbers DEF Inv, OrderInv
<1>5. CurrentInv'
  BY <1>1, <1>2, Numbers DEF Inv, OrderInv, CurrentInv, AllUpdated
<1>6. ShrinkInv'
  <2>1. CASE spec.generation = 0
    <3>1. spec'.replicas = 1
      BY <1>1, <2>1
    <3>2. Condemned' = {}
      BY <1>1, <2>1 DEF Inv, OrderInv, Condemned
    <3> QED BY <1>1, <3>1, <3>2 DEF ShrinkInv, Shrinking
  <2>2. CASE spec.generation # 0 /\ Shrinking
    BY <1>1, <1>2, <2>2 DEF Inv, ShrinkInv, NoOutdated, AllUpdated
  <2>3. CASE spec.generation # 0 /\ ~Shrinking
    <3>1. spec'.replicas = spec.replicas /\ (forced => spec'.replicas = 1)
      BY <1>1, <2>3 DEF Shrinking
    <3>2. Condemned' = Condemned
      BY <1>1, <3>1 DEF Condemned
    <3> QED BY <1>1, <2>3, <3>1, <3>2 DEF ShrinkInv, Shrinking
  <2> QED BY <2>1, <2>2, <2>3
<1>7. CountInv' /\ DoneInv'
  BY <1>3 DEF CountInv, DoneInv
<1>8. OperatorInv'
  BY <1>1 DEF OperatorInv
<1> QED BY <1>4, <1>5, <1>6, <1>7, <1>8 DEF Inv

\* Replicas are only removed when the rollout before it is over.
LEMMA ScaleKeepsInv ==
    ASSUME ~Overlap, TypeOK, Inv, NEW n \in 0..MaxReplicas, UserScale(n)
    PROVE  Inv'
<1>1. /\ spec'.generation = spec.generation + 1 /\ spec'.revision = spec.revision
      /\ spec'.replicas = n /\ spec.generation # 0
      /\ answer' = FALSE
      /\ UNCHANGED <<forced, want, status, pods, pc>>
  BY DEF UserScale, TypeOK
<1>2. status.observed # spec'.generation /\ spec'.generation # 0
  BY <1>1, Numbers
<1>3. OrderInv' /\ CurrentInv' /\ OperatorInv'
  BY <1>1, <1>2 DEF Inv, OrderInv, CurrentInv, AllUpdated, OperatorInv
<1>4. CountInv' /\ DoneInv'
  BY <1>1, <1>2 DEF CountInv, DoneInv
<1>5. NoOutdated => NoOutdated'
  BY <1>1 DEF NoOutdated, AllUpdated
<1>6. ShrinkInv'
  <2>1. CASE Shrinking
    BY <1>1, <1>5, <2>1 DEF Inv, ShrinkInv
  <2>2. CASE ~Shrinking /\ n > spec.replicas /\ ~forced
    <3>1. MaxReplicas \in Nat /\ n \in Nat
      BY CountsAssumption
    <3>2. Condemned' \subseteq Condemned
      BY <1>1, <2>2, <3>1, Numbers DEF Condemned
    <3> QED BY <1>1, <2>2, <3>2 DEF ShrinkInv, Shrinking
  <2>3. CASE ~Shrinking /\ Updated
    <3>1. \A i \in Replicas : pods[i].revision = spec.revision
      BY <2>3 DEF Updated
    <3>2. AllUpdated
      BY <2>3, <3>1, NoneCondemned DEF AllUpdated, Shrinking
    <3>3. status.revision # spec.revision => status.current = 0
      BY <1>1, <2>3, <3>1 DEF Inv, CountInv, Updated
    <3>4. NoOutdated
      BY <2>3, <3>2, <3>3 DEF NoOutdated, Updated
    <3> QED BY <1>5, <3>4 DEF ShrinkInv
  <2> QED BY <2>1, <2>2, <2>3 DEF UserScale
<1> QED BY <1>3, <1>4, <1>6 DEF Inv

\* A status that says so is believed only after the template was found unchanged.
LEMMA PollKeepsInv ==
    ASSUME TypeOK, Inv, PollStatus
    PROVE  Inv'
<1>1. /\ spec.revision = want /\ spec.generation # 0
      /\ UNCHANGED <<forced, want, spec, status, pods>>
  BY DEF PollStatus, Inv, OperatorInv, OrderInv
<1>2. Complete
  <2>1. IsStatefulSetRolloutDone
    BY DEF PollStatus
  <2> QED BY <1>1, <2>1, Numbers DEF IsStatefulSetRolloutDone, Inv, DoneInv
<1>3. OperatorInv'
  BY <1>1, <1>2, Numbers DEF PollStatus, Inv, OperatorInv, Complete
<1> QED BY <1>1, <1>3 DEF Inv, OrderInv, CurrentInv, AllUpdated, ShrinkInv, Shrinking, Condemned,
       NoOutdated, CountInv, Replicas, DoneInv, Complete

\* Without Overlap, a step keeps the invariant.
LEMMA InvStep == ~Overlap /\ TypeOK /\ Inv /\ [Next]_vars => Inv'
<1> SUFFICES ASSUME ~Overlap, TypeOK, Inv, [Next]_vars
             PROVE  Inv'
  OBVIOUS
<1>1. CASE EnsureStatefulset
  <2>1. CASE NeedUpdate
    BY <1>1, <2>1, UpdateKeepsInv
  <2>2. CASE ~NeedUpdate
    <3>1. spec.revision = want /\ pc' = "wait"
          /\ UNCHANGED <<forced, want, spec, status, pods, answer>>
      BY <1>1, <2>2 DEF EnsureStatefulset, NeedUpdate
    <3> QED BY <3>1 DEF Inv, OrderInv, CurrentInv, AllUpdated, ShrinkInv, Shrinking, Condemned,
           NoOutdated, CountInv, Replicas, DoneInv, Complete, OperatorInv
  <2> QED BY <2>1, <2>2
<1>2. CASE PollStatus
  BY <1>2, PollKeepsInv
<1>3. CASE ListPods
  BY <1>3 DEF ListPods, Inv, OrderInv, CurrentInv, AllUpdated, ShrinkInv, Shrinking, Condemned,
     NoOutdated, CountInv, Replicas, DoneInv, Complete, OperatorInv
<1>4. CASE GiveUp
  BY <1>4 DEF GiveUp, Inv, OrderInv, CurrentInv, AllUpdated, ShrinkInv, Shrinking, Condemned,
     NoOutdated, CountInv, Replicas, DoneInv, Complete, OperatorInv
<1>5. CASE SyncStatefulSet
  <2>1. PICK S, C : \E r \in Revisions : Pass(S, C, r)
    BY <1>5, SyncIsPass
  <2>2. PICK r \in Revisions : Pass(S, C, r)
    BY <2>1
  <2>3. spec.generation # 0
    BY <1>5, SyncIsPass
  <2> QED BY <2>2, <2>3, PassCurrent, PassShrink, PassCount, PassDone, PassOperator DEF Inv
<1>6. ASSUME NEW i \in Ordinals, Kubelet(i) PROVE Inv'
  <2>1. /\ UNCHANGED <<forced, want, spec, status, pc, answer>>
        /\ \A j \in Ordinals : /\ pods'[j].revision = pods[j].revision
                               /\ pods'[j].phase # "none" => pods[j].phase # "none"
    BY <1>6, KubeletSteps
  <2>2. AllUpdated => AllUpdated'
    BY <2>1 DEF AllUpdated
  <2>3. Shrinking' => Shrinking
    BY <2>1 DEF Shrinking, Condemned
  <2>4. Replicas' = Replicas /\ \A j \in Replicas : pods'[j].revision = pods[j].revision
    BY <2>1 DEF Replicas
  <2>5. OrderInv' /\ CurrentInv'
    BY <2>1, <2>2 DEF Inv, OrderInv, CurrentInv
  <2>6. ShrinkInv'
    BY <2>1, <2>2, <2>3 DEF Inv, ShrinkInv, NoOutdated
  <2>7. CountInv'
    BY <2>1, <2>4 DEF Inv, CountInv
  <2>8. DoneInv' /\ OperatorInv'
    BY <2>1 DEF Inv, DoneInv, OperatorInv, Complete
  <2> QED BY <2>5, <2>6, <2>7, <2>8 DEF Inv
<1>7. CASE NewRevision
  <2>1. /\ want' = want + 1 /\ pc' = "ensure" /\ answer' = FALSE /\ ~Shrinking
        /\ UNCHANGED <<forced, spec, status, pods>>
    BY <1>7 DEF NewRevision
  <2>2. OrderInv' /\ CurrentInv' /\ OperatorInv'
    BY <2>1, Numbers DEF Inv, OrderInv, CurrentInv, AllUpdated, OperatorInv
  <2>3. ShrinkInv'
    BY <2>1 DEF ShrinkInv, Shrinking, Condemned
  <2>4. CountInv' /\ DoneInv'
    BY <2>1 DEF Inv, CountInv, DoneInv, Complete, Replicas
  <2> QED BY <2>2, <2>3, <2>4 DEF Inv
<1>8. ASSUME NEW n \in 0..MaxReplicas, UserScale(n) PROVE Inv'
  BY <1>8, ScaleKeepsInv
<1>9. CASE UNCHANGED vars
  BY <1>9 DEF vars, Inv, OrderInv, CurrentInv, AllUpdated, ShrinkInv, Shrinking, Condemned,
     NoOutdated, CountInv, Replicas, DoneInv, Complete, OperatorInv
<1> QED BY <1>1, <1>2, <1>3, <1>4, <1>5, <1>6, <1>7, <1>8, <1>9
       DEF Next, Operator, Environment, Kubelet

-----------------------------------------------------------------------------
(* The theorems *)

\* The StatefulSet does not exist at first.
LEMMA InitInv == Init => TypeOK /\ Inv
<1> SUFFICES ASSUME Init
             PROVE  TypeOK /\ Inv
  OBVIOUS
<1>1. /\ MaxReplicas \in Nat \ {0} /\ MaxRevision \in Nat \ {0} /\ MaxFaults \in Nat
  BY CountsAssumption
<1>2. want \in Revisions /\ 0 \in Revisions /\ 0 \in 0..MaxReplicas /\ 0 \in 0..MaxFaults
  BY <1>1 DEF Init, Revisions
<1>3. spec \in [generation : Nat, revision : Revisions, replicas : 0..MaxReplicas]
  BY <1>2 DEF Init
<1>4. status \in [observed : 0..spec.generation, ready : 0..MaxReplicas, current : 0..MaxReplicas,
                  revision : Revisions]
  BY <1>2 DEF Init
<1>5. pods \in [Ordinals -> [revision : Revisions, phase : Phases]]
  BY <1>2 DEF Init, Phases
<1>6. TypeOK
  BY <1>2, <1>3, <1>4, <1>5 DEF Init, TypeOK
<1>7. /\ \A i \in Ordinals : pods[i].phase = "none"
      /\ want = 1 /\ spec.generation = 0 /\ spec.revision = 0 /\ spec.replicas = 0
      /\ status.revision = 0 /\ pc = "ensure" /\ answer = FALSE
  BY DEF Init
<1>8. Inv
  BY <1>7 DEF Inv, OrderInv, CurrentInv, AllUpdated, ShrinkInv, CountInv, DoneInv, OperatorInv
<1> QED BY <1>6, <1>8

\* The types: the counts of the status stay within those of the ordinals, whatever
\* pods fail between its passes.
THEOREM TypeCorrect == Spec => []TypeOK
<1>1. Init => TypeOK
  BY InitInv
<1> QED BY <1>1, TypeStep, PTL DEF Spec

\* When no change of the replica count meets one of the template, a StatefulSet
\* that the operator reports as ready runs the template it computed, in every
\* replica: IsStatefulSetRolloutDone, which compares counts that the controller
\* wrote at one time, and getPods, which looks at pods at another, are enough.
THEOREM ReadyReplicasAreUpdated == ~Overlap => (Spec => []ReadyMeansUpdated)
<1> SUFFICES ASSUME ~Overlap
             PROVE  Spec => []ReadyMeansUpdated
  OBVIOUS
<1>1. TypeOK /\ Inv => ReadyMeansUpdated
  <2> SUFFICES ASSUME TypeOK, Inv, answer
               PROVE  /\ spec.revision = want
                      /\ \A i \in Replicas :
                            pods[i].phase # "none" => pods[i].revision = spec.revision
    BY DEF ReadyMeansUpdated
  <2>1. spec.revision = want /\ Complete
    BY DEF Inv, OperatorInv
  <2>2. CASE status.revision = spec.revision
    BY <2>1, <2>2 DEF Inv, CurrentInv, AllUpdated, Replicas
  <2>3. CASE spec.replicas = 0
    <3>1. Replicas = {}
      BY <2>3, OrdinalsFinite, FS_EmptySet
    <3> QED BY <2>1, <3>1
  <2> QED BY <2>1, <2>2, <2>3 DEF Complete
<1>2. TypeOK /\ Inv /\ [Next]_vars => TypeOK' /\ Inv'
  BY TypeStep, InvStep
<1> QED BY <1>1, <1>2, InitInv, PTL DEF Spec
=============================================================================
