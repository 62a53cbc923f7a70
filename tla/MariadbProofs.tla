--------------------------- MODULE MariadbProofs ---------------------------
(***************************************************************************)
(* Proofs about Mariadb, for any number of commands, of volumes, of late   *)
(* pods and of faults.                                                     *)
(***************************************************************************)
EXTENDS Mariadb, TLAPS

-----------------------------------------------------------------------------
(* The inductive invariants. *)

\* A command has a password from the time it has read the secret to the end of
\* its pass, and knows at that end whether the job has succeeded.  A
\* dry run does not begin with a rotation.
LocalInv == \A c \in Commands :
    /\ pc[c] \in {"create-secret", "job", "delete-job", "create-job"} => password[c] # 0
    /\ pc[c] \in {"idle", "ok", "rotate", "root", "create-root", "config", "sts"} =>
          password[c] = 0
    /\ provisioned[c] => pc[c] = "pvc" /\ password[c] # 0
    /\ pc[c] = "rotate" => ~dry[c]

BaseInv == TypeOK /\ LocalInv

\* With FirstAlone: until the database is initialized only one command runs, so
\* that the secrets it makes agree before there is a StatefulSet to use them.
RootInv ==
    /\ rootUser = 0 => \A c, d \in Commands : Running(c) /\ Running(d) => c = d
    /\ rootUser # 0 => rootUser = rootSecret /\ sts # "absent"
    /\ sts # "absent" => rootSecret # 0 /\ initSecret = rootSecret
    /\ \A c \in Commands :
       /\ pc[c] \in {"create-root", "config"} => sts = "absent" /\ root[c] # 0
       /\ pc[c] = "create-root" => rootSecret = 0
       /\ pc[c] = "config" /\ ~dry[c] => rootSecret = root[c]
       /\ pc[c] = "sts" /\ sts = "absent" /\ ~dry[c] =>
             rootSecret # 0 /\ initSecret = rootSecret

\* A job has at most one pod, which has yet to run while it has not succeeded;
\* after that only a pod of a replaced job can have set another password.
JobInv ==
    /\ \A p \in pods : p.owned => ~job.deleting /\ ~job.succeeded /\ p.sets = job.cfg
    /\ job.succeeded => overrun \/ zuulUser = job.cfg

\* What a command has read still holds, unless another wrote since.
ReadInv == \A c \in Commands : c \in meddled \/ dry[c] \/
    /\ pc[c] = "create-secret" => zuulSecret = 0
    /\ pc[c] \in {"job", "delete-job", "create-job"} => password[c] = zuulSecret
    /\ provisioned[c] => /\ password[c] = zuulSecret
                         /\ overrun \/ zuulUser = password[c]
                         /\ \A p \in pods : ~p.owned

\* The database has the password of the secret, and no job will change that.
InStep ==
    /\ zuulSecret # 0 => overrun \/ zuulUser = zuulSecret
    /\ \A p \in pods : p.owned => p.sets = zuulSecret

\* The command has yet to look at the job with the password of the secret: it
\* does so in this pass, or goes through another.
Concerned(c) ==
    /\ Running(c) /\ ~dry[c] /\ ~provisioned[c]
    /\ pc[c] = "create-secret" => zuulSecret = 0
    /\ pc[c] = "job" => password[c] = zuulSecret

\* Who puts them out of step is concerned, and nobody succeeds in between.
RestInv == ~cut => InStep \/ \E c \in Commands : Concerned(c)

-----------------------------------------------------------------------------
(* What a step keeps. *)

\* The first command that is not running is started, and is in a pass of its own.
LEMMA StartedIsFree ==
    ASSUME NEW c \in Commands, Start(c)
    PROVE  ~Running(c)
<1>1. \E d \in Commands : ~Running(d)
  BY DEF Start
<1>2. c = CHOOSE d \in Commands : ~Running(d)
  BY DEF Start
<1> HIDE DEF Running
<1> QED BY <1>1, <1>2, Zenon

\* It is a deploy or a dry run, or a rotation.
LEMMA StartSets ==
    ASSUME TypeOK, NEW c \in Commands, Start(c)
    PROVE  /\ \E to \in {"root", "rotate"}, b \in BOOLEAN :
                 /\ pc' = [pc EXCEPT ![c] = to] /\ dry' = [dry EXCEPT ![c] = b]
                 /\ to = "rotate" => ~b
           /\ \E s \in [Volumes -> Sizes] : size' = [size EXCEPT ![c] = s]
           /\ rotations' \in 0..MaxRotations
<1> PICK kind \in {"deploy", "rotate", "dry-run"}, s \in [Volumes -> Sizes] :
          /\ kind = "rotate" => rotations < MaxRotations
          /\ pc' = Set(pc, c, IF kind = "rotate" THEN "rotate" ELSE "root")
          /\ dry' = Set(dry, c, kind = "dry-run")
          /\ size' = Set(size, c, s)
          /\ rotations' = IF kind = "rotate" THEN rotations + 1 ELSE rotations
  BY Zenon DEF Start
<1>1. rotations' \in 0..MaxRotations
  BY BoundsAssumption DEF TypeOK
<1>2. \E to \in {"root", "rotate"}, b \in BOOLEAN :
         /\ pc' = [pc EXCEPT ![c] = to] /\ dry' = [dry EXCEPT ![c] = b]
         /\ to = "rotate" => ~b
  <2>1. CASE kind = "rotate"
    <3>1. pc' = [pc EXCEPT ![c] = "rotate"] /\ dry' = [dry EXCEPT ![c] = FALSE]
      BY <2>1 DEF Set
    <3> QED BY <3>1
  <2>2. CASE kind # "rotate"
    <3>1. pc' = [pc EXCEPT ![c] = "root"] /\ dry' = [dry EXCEPT ![c] = (kind = "dry-run")]
      BY <2>2 DEF Set
    <3> QED BY <3>1
  <2> QED BY <2>1, <2>2
<1> QED BY <1>1, <1>2 DEF Set

\* The volumes, as TypeOK has them.
PVC == [request : Nat, capacity : Nat, resizing : BOOLEAN]

\* What a CR asks for is a size.
LEMMA SizeIsNat ==
    ASSUME TypeOK, NEW c \in Commands, NEW v \in Volumes
    PROVE  size[c][v] \in Sizes \cup {0} /\ size[c][v] \in Nat
<1>1. size \in [Commands -> [Volumes -> Sizes \cup {0}]]
  BY DEF TypeOK
<1>2. size[c] \in [Volumes -> Sizes \cup {0}]
  BY <1>1
<1>3. size[c][v] \in Sizes \cup {0}
  BY <1>2
<1>4. \A s \in Sizes \cup {0} : s \in Nat
  <2>1. 0 \in Nat
    OBVIOUS
  <2> QED BY <2>1, SizesAssumption, Zenon
<1> QED BY <1>3, <1>4, Zenon

\* A command that is over has no options.
LEMMA Forgotten ==
    ASSUME TypeOK, NEW c \in Commands, Forget(c)
    PROVE  /\ dry' \in [Commands -> BOOLEAN]
           /\ size' \in [Commands -> [Volumes -> Sizes \cup {0}]]
<1>1. size \in [Commands -> [Volumes -> Sizes \cup {0}]] /\ dry \in [Commands -> BOOLEAN]
  BY DEF TypeOK
<1>2. [v \in Volumes |-> 0] \in [Volumes -> Sizes \cup {0}]
  OBVIOUS
<1> QED BY <1>1, <1>2 DEF Forget, Set

\* A claim gets a size (BaseGetStorageConfOrDefault).
LEMMA StorageConfIsNat ==
    ASSUME TypeOK, NEW c \in Commands, NEW v \in Volumes
    PROVE  StorageConf(size[c][v]) \in Nat
BY SizeIsNat DEF StorageConf, DefaultSize

\* The pods that DeleteJob leaves behind belong to no job.
LEMMA Disowned ==
    ASSUME TypeOK, NEW late, late \subseteq {[p EXCEPT !.owned = FALSE] : p \in pods}
    PROVE  late \subseteq [sets : Nat \ {0}, owned : BOOLEAN] /\ \A p \in late : ~p.owned
<1>1. pods \subseteq [sets : Nat \ {0}, owned : BOOLEAN]
  BY DEF TypeOK
<1>2. ASSUME NEW p \in pods
      PROVE  /\ [p EXCEPT !.owned = FALSE] \in [sets : Nat \ {0}, owned : BOOLEAN]
             /\ ~[p EXCEPT !.owned = FALSE].owned
  <2>1. p \in [sets : Nat \ {0}, owned : BOOLEAN]
    BY <1>1
  <2> QED BY <2>1
<1> QED BY <1>2

\* The pod of a new job sets a password.
LEMMA PodAdded ==
    ASSUME TypeOK, NEW n \in Nat \ {0},
           pods' = pods \/ pods' = pods \cup {[sets |-> n, owned |-> TRUE]}
    PROVE  pods' \subseteq [sets : Nat \ {0}, owned : BOOLEAN]
<1>1. pods \subseteq [sets : Nat \ {0}, owned : BOOLEAN]
  BY DEF TypeOK
<1>2. [sets |-> n, owned |-> TRUE] \in [sets : Nat \ {0}, owned : BOOLEAN]
  OBVIOUS
<1> QED BY <1>1, <1>2

\* A volume that has been resized is a volume.
LEMMA Resized ==
    ASSUME TypeOK, NEW v \in Volumes, EndResize(v)
    PROVE  pvc' \in [Volumes -> PVC]
<1>1. pvc \in [Volumes -> PVC]
  BY DEF TypeOK, PVC
<1>2. pvc[v] \in PVC
  BY <1>1
<1>3. [[pvc[v] EXCEPT !.resizing = FALSE] EXCEPT !.capacity = pvc[v].request] \in PVC
  BY <1>2 DEF PVC
<1>4. pvc' = [pvc EXCEPT ![v] = [[pvc[v] EXCEPT !.resizing = FALSE]
                                    EXCEPT !.capacity = pvc[v].request]]
  <2>1. pvc' = [pvc EXCEPT ![v].resizing = FALSE, ![v].capacity = pvc[v].request]
    BY DEF EndResize
  <2> QED BY <1>1, <2>1, Zenon
<1> QED BY <1>1, <1>3, <1>4

\* A step keeps the types.
LEMMA TypeStep ==
    TypeOK /\ LocalInv /\ [Next]_vars => TypeOK'
<1> SUFFICES ASSUME TypeOK, LocalInv, [Next]_vars
             PROVE  TypeOK'
  OBVIOUS
<1> USE DEF Goto, Set, local, secrets, jobs, database, storage, history, counts,
            TypeOK, LocalInv, PCs
<1>1. ASSUME NEW c \in Commands, Start(c) PROVE TypeOK'
  <2>1. pc' \in [Commands -> PCs]
    BY <1>1, StartSets
  <2>2. dry' \in [Commands -> BOOLEAN]
    BY <1>1, StartSets
  <2>3. size' \in [Commands -> [Volumes -> Sizes \cup {0}]]
    <3>1. \A s \in [Volumes -> Sizes] : s \in [Volumes -> Sizes \cup {0}]
      OBVIOUS
    <3>2. PICK s \in [Volumes -> Sizes] : size' = [size EXCEPT ![c] = s]
      BY <1>1, StartSets
    <3> QED BY <3>1, <3>2
  <2>4. runs' \in 0..MaxRuns /\ rotations' \in 0..MaxRotations
    BY <1>1, StartSets, BoundsAssumption DEF Start
  <2> QED BY <1>1, <2>1, <2>2, <2>3, <2>4 DEF Start
<1>2. ASSUME NEW c \in Commands, Rotate(c) PROVE TypeOK'
  BY <1>2 DEF Rotate, Meddle
<1>3. ASSUME NEW c \in Commands, EnsureRootSecret(c) PROVE TypeOK'
  <2>1. CASE rootSecret # 0
    BY <1>3, <2>1 DEF EnsureRootSecret, NewUUID
  <2>2. CASE rootSecret = 0
    <3>1. pc' = [pc EXCEPT ![c] = "create-root"] /\ root' = [root EXCEPT ![c] = gen + 1]
      BY <1>3, <2>2 DEF EnsureRootSecret, NewUUID
    <3>2. gen' \in Nat /\ UNCHANGED initSecret
      BY <1>3, <2>2 DEF EnsureRootSecret, NewUUID
    <3> QED BY <1>3, <3>1, <3>2 DEF EnsureRootSecret
  <2> QED BY <2>1, <2>2
<1>4. ASSUME NEW c \in Commands, CreateRootSecret(c) PROVE TypeOK'
  BY <1>4 DEF CreateRootSecret
<1>5. ASSUME NEW c \in Commands, EnsureConfigSecrets(c) PROVE TypeOK'
  BY <1>5 DEF EnsureConfigSecrets
<1>6. ASSUME NEW c \in Commands, CreateStatefulSet(c) PROVE TypeOK'
  <2>1. pvc' \in [Volumes -> [request : Nat, capacity : Nat, resizing : BOOLEAN]]
    <3>1. CASE dry[c]
      BY <1>6, <3>1 DEF CreateStatefulSet
    <3>2. CASE ~dry[c]
      <4>1. \A v \in Volumes : StorageConf(size[c][v]) \in Nat
        BY StorageConfIsNat
      <4>2. pvc' = [v \in Volumes |-> [NoPVC EXCEPT !.request = StorageConf(size[c][v])]]
        BY <1>6, <3>2 DEF CreateStatefulSet
      <4> QED BY <4>1, <4>2 DEF NoPVC
    <3> QED BY <3>1, <3>2
  <2>2. dry' \in [Commands -> BOOLEAN] /\ size' \in [Commands -> [Volumes -> Sizes \cup {0}]]
    BY <1>6, Forgotten DEF CreateStatefulSet
  <2>3. pc' \in [Commands -> PCs] /\ sts' \in {"absent", "starting", "ready"}
    BY <1>6 DEF CreateStatefulSet
  <2> QED BY <1>6, <2>1, <2>2, <2>3 DEF CreateStatefulSet
<1>7. ASSUME NEW c \in Commands, GiveUp(c) PROVE TypeOK'
  BY <1>7 DEF GiveUp
<1>8. ASSUME NEW c \in Commands, ReadZuulSecret(c) PROVE TypeOK'
  <2>1. /\ \E to \in PCs : pc' = [pc EXCEPT ![c] = to]
        /\ \E n \in Nat : password' = [password EXCEPT ![c] = n]
        /\ gen' \in Nat
    <3>1. CASE zuulSecret # 0
      BY <1>8, <3>1 DEF ReadZuulSecret
    <3>2. CASE zuulSecret = 0
      BY <1>8, <3>2 DEF ReadZuulSecret, NewUUID
    <3> QED BY <3>1, <3>2
  <2> QED BY <1>8, <2>1 DEF ReadZuulSecret
<1>9. ASSUME NEW c \in Commands, CreateZuulSecret(c) PROVE TypeOK'
  BY <1>9 DEF CreateZuulSecret, Meddle
<1>10. ASSUME NEW c \in Commands, ReadJob(c) PROVE TypeOK'
  BY <1>10 DEF ReadJob
<1>11. ASSUME NEW c \in Commands, DeleteJob(c) PROVE TypeOK'
  <2>1. pods' \subseteq [sets : Nat \ {0}, owned : BOOLEAN]
    <3>1. CASE dry[c] \/ job = NoJob
      BY <1>11, <3>1 DEF DeleteJob
    <3>2. CASE ~(dry[c] \/ job = NoJob)
      <4>1. pods' \subseteq {[p EXCEPT !.owned = FALSE] : p \in pods}
        BY <1>11, <3>2 DEF DeleteJob
      <4> QED BY <4>1, Disowned
    <3> QED BY <3>1, <3>2
  <2>2. job' \in [cfg : Nat, succeeded : BOOLEAN, deleting : BOOLEAN]
    BY <1>11 DEF DeleteJob
  <2> QED BY <1>11, <2>1, <2>2 DEF DeleteJob, Meddle
<1>12. ASSUME NEW c \in Commands, CreateJob(c) PROVE TypeOK'
  <2>1. pods' \subseteq [sets : Nat \ {0}, owned : BOOLEAN]
    <3>1. password[c] \in Nat \ {0}
      BY <1>12 DEF CreateJob
    <3>2. pods' = pods \/ pods' = pods \cup {[sets |-> password[c], owned |-> TRUE]}
      BY <1>12 DEF CreateJob
    <3> QED BY <3>1, <3>2, PodAdded
  <2>2. job' \in [cfg : Nat, succeeded : BOOLEAN, deleting : BOOLEAN]
    BY <1>12 DEF CreateJob, NoJob
  <2> QED BY <1>12, <2>1, <2>2 DEF CreateJob, Meddle
<1>13. ASSUME NEW c \in Commands, Finish(c) PROVE TypeOK'
  <2>1. pc' \in [Commands -> PCs]
    BY <1>13 DEF Finish
  <2>2. pvc' \in [Volumes -> [request : Nat, capacity : Nat, resizing : BOOLEAN]]
    <3>1. pvc' = [v \in Volumes |-> IF MustExpand(size[c][v], pvc[v])
                                    THEN [pvc[v] EXCEPT !.request = size[c][v]] ELSE pvc[v]]
      BY <1>13 DEF Finish
    <3>2. \A v \in Volumes : size[c][v] \in Nat
      BY SizeIsNat
    <3> QED BY <3>1, <3>2
  <2>3. dry' \in [Commands -> BOOLEAN] /\ size' \in [Commands -> [Volumes -> Sizes \cup {0}]]
    <3>1. UNCHANGED <<dry, size>> \/ Forget(c)
      BY <1>13 DEF Finish
    <3> QED BY <3>1, Forgotten
  <2>4. cut' \in BOOLEAN
    BY <1>13 DEF Finish
  <2> QED BY <1>13, <2>1, <2>2, <2>3, <2>4 DEF Finish
<1>14. ASSUME NEW c \in Commands, Kill(c) PROVE TypeOK'
  BY <1>14, BoundsAssumption DEF Kill, Stop, Forget
<1>15. CASE PodUp
  BY <1>15 DEF PodUp
<1>16. CASE PodDown
  BY <1>16, BoundsAssumption DEF PodDown
<1>17. CASE JobGone
  BY <1>17 DEF JobGone, NoJob
<1>18. ASSUME NEW p \in pods, RunJobPod(p) PROVE TypeOK'
  BY <1>18 DEF RunJobPod
<1>19. ASSUME NEW v \in Volumes, Provision(v) PROVE TypeOK'
  <2>1. pvc' \in [Volumes -> [request : Nat, capacity : Nat, resizing : BOOLEAN]]
    <3>1. CASE Bind(v)
      BY <3>1 DEF Bind
    <3>2. CASE BeginResize(v)
      BY <3>2 DEF BeginResize
    <3>3. CASE EndResize(v)
      BY <3>3, Resized DEF PVC
    <3> QED BY <1>19, <3>1, <3>2, <3>3 DEF Provision
  <2> QED BY <1>19, <2>1 DEF Provision
<1>20. CASE UNCHANGED vars
  BY <1>20 DEF vars
<1>21. ASSUME NEW c \in Commands, Exhausted(c) PROVE TypeOK'
  BY <1>21 DEF Exhausted, Stop, Forget
<1>22. ASSUME NEW p \in pods, FailJobPod(p) PROVE TypeOK'
  <2>1. faults' \in 0..MaxFaults
    BY <1>22, BoundsAssumption DEF FailJobPod
  <2>2. pods' \subseteq pods /\ zuulUser' \in Nat /\ overrun' \in BOOLEAN
    BY <1>22 DEF FailJobPod
  <2>3. UNCHANGED <<pc, local, secrets, job, sts, rootUser, storage, history, runs, rotations>>
    BY <1>22 DEF FailJobPod
  <2> QED BY <2>1, <2>2, <2>3
<1> QED BY <1>1, <1>2, <1>3, <1>4, <1>5, <1>6, <1>7, <1>8, <1>9, <1>10,
          <1>11, <1>12, <1>13, <1>14, <1>15, <1>16, <1>17, <1>18, <1>19, <1>20,
          <1>21, <1>22
       DEF Next, Pass

\* It keeps what a command goes on with.
LEMMA LocalStep ==
    TypeOK /\ LocalInv /\ [Next]_vars => LocalInv'
<1> SUFFICES ASSUME TypeOK, LocalInv, [Next]_vars
             PROVE  LocalInv'
  OBVIOUS
<1> USE DEF Goto, Set, local, secrets, jobs, database, storage, history, counts,
            TypeOK, LocalInv
<1>1. ASSUME NEW c \in Commands, Start(c) PROVE LocalInv'
  <2>1. pc[c] \in {"idle", "ok"}
    BY <1>1, StartedIsFree DEF Running
  <2>2. PICK to \in {"root", "rotate"}, b \in BOOLEAN :
           /\ pc' = [pc EXCEPT ![c] = to] /\ dry' = [dry EXCEPT ![c] = b]
           /\ to = "rotate" => ~b
    BY <1>1, StartSets
  <2>4. UNCHANGED <<root, password, provisioned, secrets, jobs, database, storage,
                    history, faults>>
    BY <1>1 DEF Start
  <2> QED BY <2>1, <2>2, <2>4
<1>2. ASSUME NEW c \in Commands, Rotate(c) PROVE LocalInv'
  BY <1>2 DEF Rotate, Meddle
<1>3. ASSUME NEW c \in Commands, EnsureRootSecret(c) PROVE LocalInv'
  BY <1>3 DEF EnsureRootSecret, NewUUID
<1>4. ASSUME NEW c \in Commands, CreateRootSecret(c) PROVE LocalInv'
  BY <1>4 DEF CreateRootSecret
<1>5. ASSUME NEW c \in Commands, EnsureConfigSecrets(c) PROVE LocalInv'
  BY <1>5 DEF EnsureConfigSecrets
<1>6. ASSUME NEW c \in Commands, CreateStatefulSet(c) PROVE LocalInv'
  BY <1>6 DEF CreateStatefulSet, Forget
<1>7. ASSUME NEW c \in Commands, GiveUp(c) PROVE LocalInv'
  BY <1>7 DEF GiveUp
<1>8. ASSUME NEW c \in Commands, ReadZuulSecret(c) PROVE LocalInv'
  BY <1>8 DEF ReadZuulSecret, NewUUID
<1>9. ASSUME NEW c \in Commands, CreateZuulSecret(c) PROVE LocalInv'
  BY <1>9 DEF CreateZuulSecret, Meddle
<1>10. ASSUME NEW c \in Commands, ReadJob(c) PROVE LocalInv'
  BY <1>10 DEF ReadJob
<1>11. ASSUME NEW c \in Commands, DeleteJob(c) PROVE LocalInv'
  BY <1>11 DEF DeleteJob, Meddle
<1>12. ASSUME NEW c \in Commands, CreateJob(c) PROVE LocalInv'
  BY <1>12 DEF CreateJob, Meddle, NoJob
<1>13. ASSUME NEW c \in Commands, Finish(c) PROVE LocalInv'
  BY <1>13 DEF Finish, Forget
<1>14. ASSUME NEW c \in Commands, Kill(c) PROVE LocalInv'
  BY <1>14 DEF Kill, Stop, Forget
<1>15. CASE PodUp
  BY <1>15 DEF PodUp
<1>16. CASE PodDown
  BY <1>16 DEF PodDown
<1>17. CASE JobGone
  BY <1>17 DEF JobGone, NoJob
<1>18. ASSUME NEW p \in pods, RunJobPod(p) PROVE LocalInv'
  BY <1>18 DEF RunJobPod
<1>19. ASSUME NEW v \in Volumes, Provision(v) PROVE LocalInv'
  BY <1>19 DEF Provision, Bind, BeginResize, EndResize
<1>20. CASE UNCHANGED vars
  BY <1>20 DEF vars
<1>21. ASSUME NEW c \in Commands, Exhausted(c) PROVE LocalInv'
  BY <1>21 DEF Exhausted, Stop, Forget
<1>22. ASSUME NEW p \in pods, FailJobPod(p) PROVE LocalInv'
  BY <1>22 DEF FailJobPod
<1> QED BY <1>1, <1>2, <1>3, <1>4, <1>5, <1>6, <1>7, <1>8, <1>9, <1>10,
          <1>11, <1>12, <1>13, <1>14, <1>15, <1>16, <1>17, <1>18, <1>19, <1>20,
          <1>21, <1>22
       DEF Next, Pass

\* With FirstAlone, it keeps the root passwords in agreement.
LEMMA RootStep ==
    FirstAlone /\ BaseInv /\ RootInv /\ [Next]_vars => RootInv'
<1> SUFFICES ASSUME FirstAlone, BaseInv, RootInv, [Next]_vars
             PROVE  RootInv'
  OBVIOUS
<1> USE DEF Goto, Set, local, secrets, jobs, database, storage, history, counts,
            BaseInv, TypeOK, LocalInv, RootInv, Running
<1>1. ASSUME NEW c \in Commands, Start(c) PROVE RootInv'
  <2>1. pc[c] \in {"idle", "ok"}
    BY <1>1, StartedIsFree DEF Running
  <2>2. PICK to \in {"root", "rotate"}, b \in BOOLEAN :
           /\ pc' = [pc EXCEPT ![c] = to] /\ dry' = [dry EXCEPT ![c] = b]
           /\ to = "rotate" => ~b
    BY <1>1, StartSets
  <2>4. UNCHANGED <<root, password, provisioned, secrets, jobs, database, storage,
                    history, faults>>
    BY <1>1 DEF Start
  <2>5. \A d \in Commands : Running(d) => rootUser # 0
    BY <1>1 DEF Start
  <2> QED BY <2>1, <2>2, <2>4, <2>5
<1>2. ASSUME NEW c \in Commands, Rotate(c) PROVE RootInv'
  BY <1>2 DEF Rotate, Meddle
<1>3. ASSUME NEW c \in Commands, EnsureRootSecret(c) PROVE RootInv'
  <2>1. CASE rootSecret # 0
    BY <1>3, <2>1 DEF EnsureRootSecret, NewUUID
  <2>2. CASE rootSecret = 0
    <3>1. /\ pc' = [pc EXCEPT ![c] = "create-root"] /\ pc[c] = "root"
          /\ root' = [root EXCEPT ![c] = gen + 1] /\ gen + 1 # 0
          /\ UNCHANGED <<initSecret, rootSecret, sts, rootUser, dry>>
      BY <1>3, <2>2 DEF EnsureRootSecret, NewUUID
    <3>2. sts = "absent" /\ rootUser = 0
      BY <2>2
    <3> QED BY <3>1, <3>2, <2>2
  <2> QED BY <2>1, <2>2
<1>4. ASSUME NEW c \in Commands, CreateRootSecret(c) PROVE RootInv'
  BY <1>4 DEF CreateRootSecret
<1>5. ASSUME NEW c \in Commands, EnsureConfigSecrets(c) PROVE RootInv'
  BY <1>5 DEF EnsureConfigSecrets
<1>6. ASSUME NEW c \in Commands, CreateStatefulSet(c) PROVE RootInv'
  BY <1>6 DEF CreateStatefulSet, Forget
<1>7. ASSUME NEW c \in Commands, GiveUp(c) PROVE RootInv'
  BY <1>7 DEF GiveUp
<1>8. ASSUME NEW c \in Commands, ReadZuulSecret(c) PROVE RootInv'
  <2>1. CASE zuulSecret # 0
    BY <1>8, <2>1 DEF ReadZuulSecret, NewUUID
  <2>2. CASE ~(zuulSecret # 0)
    BY <1>8, <2>2 DEF ReadZuulSecret, NewUUID
  <2> QED BY <2>1, <2>2
<1>9. ASSUME NEW c \in Commands, CreateZuulSecret(c) PROVE RootInv'
  BY <1>9 DEF CreateZuulSecret, Meddle
<1>10. ASSUME NEW c \in Commands, ReadJob(c) PROVE RootInv'
  BY <1>10 DEF ReadJob
<1>11. ASSUME NEW c \in Commands, DeleteJob(c) PROVE RootInv'
  BY <1>11 DEF DeleteJob, Meddle
<1>12. ASSUME NEW c \in Commands, CreateJob(c) PROVE RootInv'
  BY <1>12 DEF CreateJob, Meddle, NoJob
<1>13. ASSUME NEW c \in Commands, Finish(c) PROVE RootInv'
  BY <1>13 DEF Finish, Forget
<1>14. ASSUME NEW c \in Commands, Kill(c) PROVE RootInv'
  BY <1>14 DEF Kill, Stop, Forget
<1>15. CASE PodUp
  BY <1>15 DEF PodUp
<1>16. CASE PodDown
  BY <1>16 DEF PodDown
<1>17. CASE JobGone
  BY <1>17 DEF JobGone, NoJob
<1>18. ASSUME NEW p \in pods, RunJobPod(p) PROVE RootInv'
  BY <1>18 DEF RunJobPod
<1>19. ASSUME NEW v \in Volumes, Provision(v) PROVE RootInv'
  BY <1>19 DEF Provision, Bind, BeginResize, EndResize
<1>20. CASE UNCHANGED vars
  BY <1>20 DEF vars
<1>21. ASSUME NEW c \in Commands, Exhausted(c) PROVE RootInv'
  BY <1>21 DEF Exhausted, Stop, Forget
<1>22. ASSUME NEW p \in pods, FailJobPod(p) PROVE RootInv'
  BY <1>22 DEF FailJobPod
<1> QED BY <1>1, <1>2, <1>3, <1>4, <1>5, <1>6, <1>7, <1>8, <1>9, <1>10,
          <1>11, <1>12, <1>13, <1>14, <1>15, <1>16, <1>17, <1>18, <1>19, <1>20,
          <1>21, <1>22
       DEF Next, Pass

\* It keeps the pods with their job.
LEMMA JobStep ==
    BaseInv /\ JobInv /\ [Next]_vars => JobInv'
<1> SUFFICES ASSUME BaseInv, JobInv, [Next]_vars
             PROVE  JobInv'
  OBVIOUS
<1> USE DEF Goto, Set, local, secrets, jobs, database, storage, history, counts,
            BaseInv, TypeOK, LocalInv, JobInv
<1>1. ASSUME NEW c \in Commands, Start(c) PROVE JobInv'
  BY <1>1 DEF Start
<1>2. ASSUME NEW c \in Commands, Rotate(c) PROVE JobInv'
  BY <1>2 DEF Rotate, Meddle
<1>3. ASSUME NEW c \in Commands, EnsureRootSecret(c) PROVE JobInv'
  BY <1>3 DEF EnsureRootSecret, NewUUID
<1>4. ASSUME NEW c \in Commands, CreateRootSecret(c) PROVE JobInv'
  BY <1>4 DEF CreateRootSecret
<1>5. ASSUME NEW c \in Commands, EnsureConfigSecrets(c) PROVE JobInv'
  BY <1>5 DEF EnsureConfigSecrets
<1>6. ASSUME NEW c \in Commands, CreateStatefulSet(c) PROVE JobInv'
  BY <1>6 DEF CreateStatefulSet, Forget
<1>7. ASSUME NEW c \in Commands, GiveUp(c) PROVE JobInv'
  BY <1>7 DEF GiveUp
<1>8. ASSUME NEW c \in Commands, ReadZuulSecret(c) PROVE JobInv'
  BY <1>8 DEF ReadZuulSecret, NewUUID
<1>9. ASSUME NEW c \in Commands, CreateZuulSecret(c) PROVE JobInv'
  BY <1>9 DEF CreateZuulSecret, Meddle
<1>10. ASSUME NEW c \in Commands, ReadJob(c) PROVE JobInv'
  BY <1>10 DEF ReadJob
<1>11. ASSUME NEW c \in Commands, DeleteJob(c) PROVE JobInv'
  BY <1>11 DEF DeleteJob, Meddle
<1>12. ASSUME NEW c \in Commands, CreateJob(c) PROVE JobInv'
  <2>1. CASE dry[c] \/ job # NoJob
    BY <1>12, <2>1 DEF CreateJob
  <2>2. CASE ~(dry[c] \/ job # NoJob)
    <3>1. /\ pods' = pods \cup {[sets |-> password[c], owned |-> TRUE]}
          /\ job' = [cfg |-> password[c], succeeded |-> FALSE, deleting |-> FALSE]
      BY <1>12, <2>2 DEF CreateJob, NoJob
    <3>2. ASSUME NEW p \in pods PROVE ~p.owned
      <4>1. p.sets # 0 /\ job.cfg = 0
        BY <2>2 DEF NoJob
      <4> QED BY <4>1
    <3> QED BY <3>1, <3>2
  <2> QED BY <2>1, <2>2
<1>13. ASSUME NEW c \in Commands, Finish(c) PROVE JobInv'
  BY <1>13 DEF Finish, Forget
<1>14. ASSUME NEW c \in Commands, Kill(c) PROVE JobInv'
  BY <1>14 DEF Kill, Stop, Forget
<1>15. CASE PodUp
  BY <1>15 DEF PodUp
<1>16. CASE PodDown
  BY <1>16 DEF PodDown
<1>17. CASE JobGone
  BY <1>17 DEF JobGone, NoJob
<1>18. ASSUME NEW p \in pods, RunJobPod(p) PROVE JobInv'
  BY <1>18 DEF RunJobPod
<1>19. ASSUME NEW v \in Volumes, Provision(v) PROVE JobInv'
  BY <1>19 DEF Provision, Bind, BeginResize, EndResize
<1>20. CASE UNCHANGED vars
  BY <1>20 DEF vars
<1>21. ASSUME NEW c \in Commands, Exhausted(c) PROVE JobInv'
  BY <1>21 DEF Exhausted, Stop, Forget
<1>22. ASSUME NEW p \in pods, FailJobPod(p) PROVE JobInv'
  BY <1>22 DEF FailJobPod
<1> QED BY <1>1, <1>2, <1>3, <1>4, <1>5, <1>6, <1>7, <1>8, <1>9, <1>10,
          <1>11, <1>12, <1>13, <1>14, <1>15, <1>16, <1>17, <1>18, <1>19, <1>20,
          <1>21, <1>22
       DEF Next, Pass

\* It keeps what was read, or adds its readers to the meddled.
LEMMA ReadStep ==
    BaseInv /\ JobInv /\ ReadInv /\ [Next]_vars => ReadInv'
<1> SUFFICES ASSUME BaseInv, JobInv, ReadInv, [Next]_vars
             PROVE  ReadInv'
  OBVIOUS
<1> USE DEF Goto, Set, local, secrets, jobs, database, storage, history, counts,
            BaseInv, TypeOK, LocalInv, JobInv, ReadInv
<1>1. ASSUME NEW c \in Commands, Start(c) PROVE ReadInv'
  <2>1. pc[c] \in {"idle", "ok"}
    BY <1>1, StartedIsFree DEF Running
  <2>2. PICK to \in {"root", "rotate"}, b \in BOOLEAN :
           /\ pc' = [pc EXCEPT ![c] = to] /\ dry' = [dry EXCEPT ![c] = b]
           /\ to = "rotate" => ~b
    BY <1>1, StartSets
  <2>4. UNCHANGED <<root, password, provisioned, secrets, jobs, database, storage,
                    history, faults>>
    BY <1>1 DEF Start
  <2> QED BY <2>1, <2>2, <2>4
<1>2. ASSUME NEW c \in Commands, Rotate(c) PROVE ReadInv'
  <2>1. /\ pc' = [pc EXCEPT ![c] = "root"] /\ pc[c] = "rotate"
        /\ zuulSecret' = 0
        /\ UNCHANGED <<local, rootSecret, initSecret, gen, jobs, database>>
    BY <1>2 DEF Rotate
  <2>2. meddled' = IF dry[c] THEN meddled
                   ELSE meddled \cup {d \in Commands \ {c} : password[d] # 0}
    BY <1>2 DEF Rotate, Meddle
  <2>3. ASSUME NEW d \in Commands, d \notin meddled', ~dry'[d]
        PROVE  pc'[d] \notin {"create-secret", "job", "delete-job", "create-job"}
               /\ ~provisioned'[d]
    <3>1. CASE d = c
      BY <2>1, <2>3, <3>1
    <3>2. CASE d # c
      <4>1. ~dry[c]
        BY <2>1
      <4> QED BY <4>1, <2>1, <2>2, <2>3, <3>2
    <3> QED BY <3>1, <3>2
  <2> QED BY <2>3
<1>3. ASSUME NEW c \in Commands, EnsureRootSecret(c) PROVE ReadInv'
  BY <1>3 DEF EnsureRootSecret, NewUUID
<1>4. ASSUME NEW c \in Commands, CreateRootSecret(c) PROVE ReadInv'
  BY <1>4 DEF CreateRootSecret
<1>5. ASSUME NEW c \in Commands, EnsureConfigSecrets(c) PROVE ReadInv'
  BY <1>5 DEF EnsureConfigSecrets
<1>6. ASSUME NEW c \in Commands, CreateStatefulSet(c) PROVE ReadInv'
  BY <1>6 DEF CreateStatefulSet, Forget
<1>7. ASSUME NEW c \in Commands, GiveUp(c) PROVE ReadInv'
  BY <1>7 DEF GiveUp
<1>8. ASSUME NEW c \in Commands, ReadZuulSecret(c) PROVE ReadInv'
  BY <1>8 DEF ReadZuulSecret, NewUUID
<1>9. ASSUME NEW c \in Commands, CreateZuulSecret(c) PROVE ReadInv'
  BY <1>9 DEF CreateZuulSecret, Meddle
<1>10. ASSUME NEW c \in Commands, ReadJob(c) PROVE ReadInv'
  BY <1>10 DEF ReadJob
<1>11. ASSUME NEW c \in Commands, DeleteJob(c) PROVE ReadInv'
  BY <1>11 DEF DeleteJob, Meddle
<1>12. ASSUME NEW c \in Commands, CreateJob(c) PROVE ReadInv'
  BY <1>12 DEF CreateJob, Meddle, NoJob
<1>13. ASSUME NEW c \in Commands, Finish(c) PROVE ReadInv'
  BY <1>13 DEF Finish, Forget
<1>14. ASSUME NEW c \in Commands, Kill(c) PROVE ReadInv'
  BY <1>14 DEF Kill, Stop, Forget
<1>15. CASE PodUp
  BY <1>15 DEF PodUp
<1>16. CASE PodDown
  BY <1>16 DEF PodDown
<1>17. CASE JobGone
  BY <1>17 DEF JobGone, NoJob
<1>18. ASSUME NEW p \in pods, RunJobPod(p) PROVE ReadInv'
  BY <1>18 DEF RunJobPod
<1>19. ASSUME NEW v \in Volumes, Provision(v) PROVE ReadInv'
  BY <1>19 DEF Provision, Bind, BeginResize, EndResize
<1>20. CASE UNCHANGED vars
  BY <1>20 DEF vars
<1>21. ASSUME NEW c \in Commands, Exhausted(c) PROVE ReadInv'
  BY <1>21 DEF Exhausted, Stop, Forget
<1>22. ASSUME NEW p \in pods, FailJobPod(p) PROVE ReadInv'
  BY <1>22 DEF FailJobPod
<1> QED BY <1>1, <1>2, <1>3, <1>4, <1>5, <1>6, <1>7, <1>8, <1>9, <1>10,
          <1>11, <1>12, <1>13, <1>14, <1>15, <1>16, <1>17, <1>18, <1>19, <1>20,
          <1>21, <1>22
       DEF Next, Pass

\* While no command is cut short, one is concerned or the database is in step.
LEMMA RestStep ==
    BaseInv /\ JobInv /\ ReadInv /\ RestInv /\ [Next]_vars => RestInv'
<1> SUFFICES ASSUME BaseInv, JobInv, ReadInv, RestInv, [Next]_vars
             PROVE  RestInv'
  OBVIOUS
<1> USE DEF Goto, Set, local, secrets, jobs, database, storage, history, counts,
            BaseInv, TypeOK, LocalInv, JobInv, ReadInv, RestInv, InStep, Concerned, Running
<1>1. ASSUME NEW c \in Commands, Start(c) PROVE RestInv'
  <2>1. pc[c] \in {"idle", "ok"}
    BY <1>1, StartedIsFree DEF Running
  <2>2. PICK to \in {"root", "rotate"}, b \in BOOLEAN :
           /\ pc' = [pc EXCEPT ![c] = to] /\ dry' = [dry EXCEPT ![c] = b]
           /\ to = "rotate" => ~b
    BY <1>1, StartSets
  <2>4. UNCHANGED <<root, password, provisioned, secrets, jobs, database, storage,
                    history, faults>>
    BY <1>1 DEF Start
  <2> QED BY <2>1, <2>2, <2>4
<1>2. ASSUME NEW c \in Commands, Rotate(c) PROVE RestInv'
  BY <1>2 DEF Rotate, Meddle
<1>3. ASSUME NEW c \in Commands, EnsureRootSecret(c) PROVE RestInv'
  BY <1>3 DEF EnsureRootSecret, NewUUID
<1>4. ASSUME NEW c \in Commands, CreateRootSecret(c) PROVE RestInv'
  BY <1>4 DEF CreateRootSecret
<1>5. ASSUME NEW c \in Commands, EnsureConfigSecrets(c) PROVE RestInv'
  BY <1>5 DEF EnsureConfigSecrets
<1>6. ASSUME NEW c \in Commands, CreateStatefulSet(c) PROVE RestInv'
  BY <1>6 DEF CreateStatefulSet, Forget
<1>7. ASSUME NEW c \in Commands, GiveUp(c) PROVE RestInv'
  BY <1>7 DEF GiveUp
<1>8. ASSUME NEW c \in Commands, ReadZuulSecret(c) PROVE RestInv'
  BY <1>8 DEF ReadZuulSecret, NewUUID
<1>9. ASSUME NEW c \in Commands, CreateZuulSecret(c) PROVE RestInv'
  BY <1>9 DEF CreateZuulSecret, Meddle
<1>10. ASSUME NEW c \in Commands, ReadJob(c) PROVE RestInv'
  BY <1>10 DEF ReadJob
<1>11. ASSUME NEW c \in Commands, DeleteJob(c) PROVE RestInv'
  BY <1>11 DEF DeleteJob, Meddle
<1>12. ASSUME NEW c \in Commands, CreateJob(c) PROVE RestInv'
  BY <1>12 DEF CreateJob, Meddle, NoJob
<1>13. ASSUME NEW c \in Commands, Finish(c) PROVE RestInv'
  BY <1>13 DEF Finish, Forget
<1>14. ASSUME NEW c \in Commands, Kill(c) PROVE RestInv'
  BY <1>14 DEF Kill, Stop, Forget
<1>15. CASE PodUp
  BY <1>15 DEF PodUp
<1>16. CASE PodDown
  BY <1>16 DEF PodDown
<1>17. CASE JobGone
  BY <1>17 DEF JobGone, NoJob
<1>18. ASSUME NEW p \in pods, RunJobPod(p) PROVE RestInv'
  BY <1>18 DEF RunJobPod
<1>19. ASSUME NEW v \in Volumes, Provision(v) PROVE RestInv'
  BY <1>19 DEF Provision, Bind, BeginResize, EndResize
<1>20. CASE UNCHANGED vars
  BY <1>20 DEF vars
<1>21. ASSUME NEW c \in Commands, Exhausted(c) PROVE RestInv'
  BY <1>21 DEF Exhausted, Stop, Forget
<1>22. ASSUME NEW p \in pods, FailJobPod(p) PROVE RestInv'
  BY <1>22 DEF FailJobPod
<1> QED BY <1>1, <1>2, <1>3, <1>4, <1>5, <1>6, <1>7, <1>8, <1>9, <1>10,
          <1>11, <1>12, <1>13, <1>14, <1>15, <1>16, <1>17, <1>18, <1>19, <1>20,
          <1>21, <1>22
       DEF Next, Pass

-----------------------------------------------------------------------------
(* The theorems *)

\* The job at first, if there is one.
LEMMA FirstJob ==
    ASSUME Init
    PROVE  \/ job = [cfg |-> 0, succeeded |-> FALSE, deleting |-> FALSE]
           \/ job = [cfg |-> 2, succeeded |-> TRUE, deleting |-> FALSE] /\ zuulSecret = 2
<1>1. CASE job = NoJob
  BY <1>1 DEF NoJob
<1>2. CASE job = [NoJob EXCEPT !.cfg = 2, !.succeeded = TRUE] /\ zuulSecret = 2
  BY <1>2 DEF NoJob
<1> QED BY <1>1, <1>2, Zenon DEF Init

\* And the volumes.
LEMMA FirstVolumes ==
    ASSUME Init
    PROVE  pvc \in [Volumes -> [request : Nat, capacity : Nat, resizing : BOOLEAN]]
<1>1. CASE pvc = [v \in Volumes |-> NoPVC]
  BY <1>1 DEF NoPVC
<1>2. CASE pvc = [v \in Volumes |-> [NoPVC EXCEPT !.request = DefaultSize,
                                                 !.capacity = DefaultSize]]
  <2>1. [[NoPVC EXCEPT !.request = 1] EXCEPT !.capacity = 1]
           \in [request : Nat, capacity : Nat, resizing : BOOLEAN]
    BY DEF NoPVC
  <2> QED BY <1>2, <2>1 DEF DefaultSize
<1> QED BY <1>1, <1>2, Zenon DEF Init

\* Nothing is deployed, or a database that is settled.
LEMMA InitBase == Init => BaseInv
<1> SUFFICES ASSUME Init
             PROVE  BaseInv
  OBVIOUS
<1>1. job \in [cfg : Nat, succeeded : BOOLEAN, deleting : BOOLEAN]
  <2>1. CASE job = [cfg |-> 0, succeeded |-> FALSE, deleting |-> FALSE]
    BY <2>1
  <2>2. CASE job = [cfg |-> 2, succeeded |-> TRUE, deleting |-> FALSE]
    BY <2>2
  <2> QED BY FirstJob, <2>1, <2>2
<1>2. pvc \in [Volumes -> [request : Nat, capacity : Nat, resizing : BOOLEAN]]
  BY FirstVolumes
<1> USE DEF Init
<1>3. pc \in [Commands -> PCs] /\ dry \in [Commands -> BOOLEAN]
      /\ provisioned \in [Commands -> BOOLEAN]
  BY DEF PCs
<1>4. size \in [Commands -> [Volumes -> Sizes \cup {0}]]
  OBVIOUS
<1>5. root \in [Commands -> Nat] /\ password \in [Commands -> Nat]
  OBVIOUS
<1>6. rootSecret \in Nat /\ initSecret \in Nat /\ zuulSecret \in Nat /\ gen \in Nat
      /\ rootUser \in Nat /\ zuulUser \in Nat
  OBVIOUS
<1>7. sts \in {"absent", "starting", "ready"} /\ pods = {}
      /\ overrun \in BOOLEAN /\ expandable \in BOOLEAN
      /\ meddled \subseteq Commands /\ cut \in BOOLEAN
  OBVIOUS
<1>8. runs \in 0..MaxRuns /\ rotations \in 0..MaxRotations /\ faults \in 0..MaxFaults
  BY BoundsAssumption
<1>9. TypeOK
  BY <1>1, <1>2, <1>3, <1>4, <1>5, <1>6, <1>7, <1>8 DEF TypeOK
<1>10. LocalInv
  BY DEF LocalInv
<1> QED BY <1>9, <1>10 DEF BaseInv

\* What holds of each command by itself.
LEMMA BaseInvariant == Spec => []BaseInv
<1>1. BaseInv /\ [Next]_vars => BaseInv'
  BY TypeStep, LocalStep DEF BaseInv
<1> QED BY InitBase, <1>1, PTL DEF Spec

\* The types, whatever commands run at once and are killed.
THEOREM TypeCorrect == Spec => []TypeOK
<1>1. BaseInv => TypeOK
  BY DEF BaseInv
<1> QED BY BaseInvariant, <1>1, PTL

\* When no two commands run before the database is initialized, the root password
\* of mariadb-root-password is that of the database: the probes and the job of
\* every pass log in with it.
THEOREM RootLogsIn == FirstAlone => (Spec => []RootCanLogIn)
<1> SUFFICES ASSUME FirstAlone
             PROVE  Spec => []RootCanLogIn
  OBVIOUS
<1>1. Init => RootInv
  <2> SUFFICES ASSUME Init
               PROVE  RootInv
    OBVIOUS
  <2>1. \A c \in Commands : pc[c] = "idle"
    BY DEF Init
  <2>2. rootUser # 0 => rootUser = rootSecret /\ sts # "absent"
    BY DEF Init
  <2>3. sts # "absent" => rootSecret # 0 /\ initSecret = rootSecret
    BY DEF Init
  <2> QED BY <2>1, <2>2, <2>3 DEF RootInv, Running
<1>2. BaseInv /\ RootInv /\ [Next]_vars => RootInv'
  BY RootStep
<1>3. RootInv => RootCanLogIn
  BY DEF RootInv, RootCanLogIn
<1> QED BY <1>1, <1>2, <1>3, BaseInvariant, PTL DEF Spec

\* The job, what the commands have read, and who is concerned.
LEMMA RestInvariant == Spec => [](BaseInv /\ JobInv /\ ReadInv /\ RestInv)
<1>1. Init => JobInv /\ ReadInv /\ RestInv
  <2> SUFFICES ASSUME Init
               PROVE  JobInv /\ ReadInv /\ RestInv
    OBVIOUS
  <2>1. pods = {} /\ zuulUser = zuulSecret
    BY DEF Init
  <2>2. job.succeeded => zuulUser = job.cfg
    BY <2>1, FirstJob
  <2>3. \A c \in Commands : pc[c] = "idle" /\ ~provisioned[c]
    BY DEF Init
  <2> QED BY <2>1, <2>2, <2>3 DEF JobInv, ReadInv, RestInv, InStep
<1>2. BaseInv /\ JobInv /\ ReadInv /\ RestInv /\ [Next]_vars => JobInv' /\ ReadInv' /\ RestInv'
  BY JobStep, ReadStep, RestStep
<1> QED BY <1>1, <1>2, BaseInvariant, PTL DEF Spec

\* Once all have ended and none was cut short, the password of zuul-db-connection
\* is that of Zuul's user in the database, for any number of commands that raced
\* to rotate it, to create it and to replace the job (EnsureProvisionDBJob).
THEOREM DatabaseAgreesAtRest == Spec => []AgreeAtRest
<1>1. RestInv => AgreeAtRest
  BY DEF RestInv, InStep, Concerned, AgreeAtRest
<1> QED BY <1>1, RestInvariant, PTL

\* A command ends with success only at the end of a pass that found all ready.
LEMMA SuccessIsReady ==
    ASSUME BaseInv, [Next]_vars, NEW c \in Commands, Succeeds(c)
    PROVE  /\ Finish(c) /\ pc[c] = "pvc" /\ ~dry[c] /\ provisioned[c]
           /\ \A v \in Volumes : Settled(size[c][v], pvc[v])
<1> USE DEF BaseInv, TypeOK, Succeeds, Goto, Set
<1>1. ~ UNCHANGED vars
  BY DEF vars
<1>2. ASSUME NEW d \in Commands, d # c
      PROVE  ~(Start(d) \/ Pass(d) \/ Kill(d) \/ Exhausted(d))
  <2>1. ASSUME Start(d) PROVE FALSE
    BY <1>2, <2>1, StartSets
  <2>2. ASSUME Pass(d) PROVE FALSE
    BY <1>2, <2>2 DEF Pass, Rotate, EnsureRootSecret, CreateRootSecret,
          EnsureConfigSecrets, CreateStatefulSet, GiveUp, ReadZuulSecret, CreateZuulSecret,
          ReadJob, DeleteJob, CreateJob, Finish
  <2>3. ASSUME Kill(d) \/ Exhausted(d) PROVE FALSE
    BY <1>2, <2>3 DEF Kill, Exhausted, Stop
  <2> QED BY <2>1, <2>2, <2>3
<1>3. ~Start(c) /\ ~Kill(c) /\ ~Exhausted(c)
  <2>1. ASSUME Start(c) PROVE FALSE
    BY <2>1, StartSets
  <2>2. ASSUME Kill(c) \/ Exhausted(c) PROVE FALSE
    BY <2>2 DEF Kill, Exhausted, Stop
  <2> QED BY <2>1, <2>2
<1>4. UNCHANGED pc => FALSE
  OBVIOUS
<1>5. Pass(c)
  BY <1>1, <1>2, <1>3, <1>4 DEF Next, PodUp, PodDown, JobGone, RunJobPod, FailJobPod,
                                    Provision
<1>6. Finish(c)
  BY <1>5 DEF Pass, Rotate, EnsureRootSecret, CreateRootSecret,
          EnsureConfigSecrets, CreateStatefulSet, GiveUp, ReadZuulSecret, CreateZuulSecret,
          ReadJob, DeleteJob, CreateJob
<1>7. ~dry[c] /\ provisioned[c] /\ \A v \in Volumes : Settled(size[c][v], pvc[v])
  BY <1>6 DEF Finish
<1> QED BY <1>6, <1>7 DEF Finish

\* A command that reports success has given Zuul a login: the password that it
\* hands on to zuul.conf is that of the secret and of the database, unless another
\* wrote since it read the secret or a pod of a replaced job came late.
THEOREM SuccessLogsIn == Spec => SuccessCanLogIn
<1>1. BaseInv /\ ReadInv /\ [Next]_vars =>
         [\A c \in Commands : Succeeds(c) =>
             \/ c \in meddled \/ overrun
             \/ zuulUser = zuulSecret /\ password[c] = zuulSecret]_vars
  <2> SUFFICES ASSUME BaseInv, ReadInv, [Next]_vars, NEW c \in Commands, Succeeds(c)
               PROVE  \/ c \in meddled \/ overrun
                      \/ zuulUser = zuulSecret /\ password[c] = zuulSecret
    OBVIOUS
  <2>1. ~dry[c] /\ provisioned[c]
    BY SuccessIsReady
  <2> QED BY <2>1 DEF ReadInv
<1> QED BY <1>1, RestInvariant, PTL DEF Spec, SuccessCanLogIn

\* And its volumes have the size that was asked for, if they can be expanded
\* (reconcileExpandPVC), while other commands may ask for other sizes.
THEOREM SuccessFindsSpace == Spec => SuccessHasSpace
<1>1. BaseInv /\ [Next]_vars =>
         [\A c \in Commands : Succeeds(c) =>
             \A v \in Volumes : expandable => pvc'[v].capacity >= size[c][v]]_vars
  <2> SUFFICES ASSUME BaseInv, [Next]_vars, NEW c \in Commands, Succeeds(c),
                      NEW v \in Volumes, expandable
               PROVE  pvc'[v].capacity >= size[c][v]
    OBVIOUS
  <2>1. Settled(size[c][v], pvc[v]) /\ Finish(c)
    BY SuccessIsReady
  <2>2. size[c][v] \in Nat /\ pvc[v].capacity \in Nat
    BY SizeIsNat DEF BaseInv, TypeOK
  <2>3. pvc'[v].capacity = pvc[v].capacity
    BY <2>1 DEF Finish, BaseInv, TypeOK
  <2> QED BY <2>1, <2>2, <2>3 DEF Settled
<1> QED BY <1>1, BaseInvariant, PTL DEF Spec, SuccessHasSpace
=============================================================================
