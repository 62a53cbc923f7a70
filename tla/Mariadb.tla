------------------------------ MODULE Mariadb ------------------------------
(***************************************************************************)
(* DeployMariadb (controllers/mariadb.go): the secrets, the StatefulSet,   *)
(* the job that gives Zuul its database user, and the volumes, as seen by  *)
(* several `deploy` and `rotate-secrets` commands that may run at once and *)
(* may be killed, and by dry runs.                                         *)
(*                                                                         *)
(* A password is the generation it was made in, 0 stands for none.  An     *)
(* action makes at most one change that another command can see, after     *)
(* the readings that lead to it, so that commands meet between what one    *)
(* of them has read and what it writes later.                              *)
(***************************************************************************)
EXTENDS Naturals, FiniteSets

CONSTANTS
    Commands,     \* the commands that may run at the same time
    Volumes,      \* the volumes of the database's pod
    Sizes,        \* the sizes that a CR asks for; 0: it asks for none
    FirstAlone,   \* no two commands run before the database is initialized
    MaxRuns,      \* bound on the number of commands started
    MaxRotations, \* bound on the number of rotations among them
    MaxLate,      \* bound on the pods of replaced jobs that are yet to run
    MaxFaults     \* bound on the commands killed and on the failures of pods

ASSUME SizesAssumption  == Sizes \subseteq Nat
ASSUME FirstAssumption  == FirstAlone \in BOOLEAN
ASSUME BoundsAssumption == /\ MaxRuns \in Nat /\ MaxRotations \in Nat
                           /\ MaxLate \in Nat /\ MaxFaults \in Nat

DefaultSize == 1 \* utils.Qty1Gi

VARIABLES
    pc,          \* where each command is
    dry,         \* it was started with --dry-run
    size,        \* what its CR asks of each volume
    root,        \* the root password it goes on with
    password,    \* the password of Zuul it goes on with
    provisioned, \* what EnsureProvisionDBJob returned
    rootSecret,  \* mariadb-root-password
    initSecret,  \* the root password in mariadb-initdb-secrets
    zuulSecret,  \* zuul-db-connection
    gen,         \* the last password made
    job,         \* the job zuul-db-provision
    pods,        \* the pods of that job, and of those before it, yet to run
    sts,         \* the StatefulSet and its pod
    rootUser,    \* root's password in the database; 0: not initialized
    zuulUser,    \* Zuul's password in the database
    overrun,     \* a pod of a replaced job was the last to set it
    pvc,         \* the volumes
    expandable,  \* their storage class allows expansion
    meddled,     \* the commands since whose reading of zuulSecret another wrote
    cut,         \* a command was killed, and none has succeeded on its own since
    runs, rotations, faults

local    == <<dry, size, root, password, provisioned>>
secrets  == <<rootSecret, initSecret, zuulSecret, gen>>
jobs     == <<job, pods>>
database == <<sts, rootUser, zuulUser, overrun>>
storage  == <<pvc, expandable>>
history  == <<meddled, cut>>
counts   == <<runs, rotations, faults>>
vars     == <<pc, local, secrets, jobs, database, storage, history, counts>>

NoJob == [cfg |-> 0, succeeded |-> FALSE, deleting |-> FALSE]
NoPVC == [request |-> 0, capacity |-> 0, resizing |-> FALSE]

PCs == {"idle", "rotate", "root", "create-root", "config", "sts", "create-secret",
        "job", "delete-job", "create-job", "pvc", "ok"}

TypeOK ==
    /\ pc \in [Commands -> PCs]
    /\ dry \in [Commands -> BOOLEAN]
    /\ size \in [Commands -> [Volumes -> Sizes \cup {0}]]
    /\ root \in [Commands -> Nat] /\ password \in [Commands -> Nat]
    /\ provisioned \in [Commands -> BOOLEAN]
    /\ rootSecret \in Nat /\ initSecret \in Nat /\ zuulSecret \in Nat /\ gen \in Nat
    /\ job \in [cfg : Nat, succeeded : BOOLEAN, deleting : BOOLEAN]
    /\ pods \subseteq [sets : Nat \ {0}, owned : BOOLEAN]
    /\ sts \in {"absent", "starting", "ready"}
    /\ rootUser \in Nat /\ zuulUser \in Nat /\ overrun \in BOOLEAN
    /\ pvc \in [Volumes -> [request : Nat, capacity : Nat, resizing : BOOLEAN]]
    /\ expandable \in BOOLEAN
    /\ meddled \subseteq Commands /\ cut \in BOOLEAN
    /\ runs \in 0..MaxRuns /\ rotations \in 0..MaxRotations
    /\ faults \in 0..MaxFaults

\* Nothing is deployed yet, or a CR that asked for no size was deployed before.
Init ==
    /\ pc = [c \in Commands |-> "idle"]
    /\ dry = [c \in Commands |-> FALSE]
    /\ size = [c \in Commands |-> [v \in Volumes |-> 0]]
    /\ root = [c \in Commands |-> 0] /\ password = [c \in Commands |-> 0]
    /\ provisioned = [c \in Commands |-> FALSE]
    /\ \/ /\ rootSecret = 0 /\ zuulSecret = 0 /\ gen = 0
          /\ job = NoJob /\ sts = "absent"
          /\ pvc = [v \in Volumes |-> NoPVC]
       \/ /\ rootSecret = 1 /\ zuulSecret = 2 /\ gen = 2
          /\ job = [NoJob EXCEPT !.cfg = 2, !.succeeded = TRUE] /\ sts = "ready"
          /\ pvc = [v \in Volumes |-> [NoPVC EXCEPT !.request = DefaultSize,
                                                    !.capacity = DefaultSize]]
    /\ initSecret = rootSecret /\ rootUser = rootSecret /\ zuulUser = zuulSecret
    /\ pods = {} /\ overrun = FALSE /\ expandable \in BOOLEAN
    /\ meddled = {} /\ cut = FALSE
    /\ runs = 0 /\ rotations = 0 /\ faults = 0

-----------------------------------------------------------------------------
(* Steps of a command. *)

Running(c)        == pc[c] \notin {"idle", "ok"}
Goto(c, from, to) == pc[c] = from /\ pc' = [pc EXCEPT ![c] = to]
Set(f, c, x)      == [f EXCEPT ![c] = x]

\* The command c wrote what the others may have read.
Meddle(c) == /\ meddled' = IF dry[c] THEN meddled
                            ELSE meddled \cup {d \in Commands \ {c} : password[d] # 0}
             /\ UNCHANGED cut

\* A new password, for a local variable.  The ones of a dry run are never seen.
NewUUID(c, variable) == /\ variable' = Set(variable, c, gen + 1)
                        /\ gen' = IF dry[c] THEN gen ELSE gen + 1

\* The command is over, and what it was started with.
Forget(c) == dry' = Set(dry, c, FALSE) /\ size' = Set(size, c, [v \in Volumes |-> 0])

\* `deploy`, or `rotate-secrets`, which goes on into deploy, or a dry run.  A
\* dry run has nobody to meet: it is run alone.  Commands are alike: the first
\* that is free is started.
Start(c) ==
    /\ \E d \in Commands : ~Running(d)
    /\ c = CHOOSE d \in Commands : ~Running(d)
    /\ runs < MaxRuns
    /\ \A d \in Commands : Running(d) => ~dry[d] /\ (FirstAlone => rootUser # 0)
    /\ \E kind \in {"deploy", "rotate", "dry-run"}, s \in [Volumes -> Sizes] :
          /\ kind = "dry-run" => \A d \in Commands : ~Running(d)
          /\ kind = "rotate" => rotations < MaxRotations
          /\ pc' = Set(pc, c, IF kind = "rotate" THEN "rotate" ELSE "root")
          /\ dry' = Set(dry, c, kind = "dry-run")
          /\ size' = Set(size, c, s)
          /\ rotations' = IF kind = "rotate" THEN rotations + 1 ELSE rotations
    /\ runs' = runs + 1
    /\ UNCHANGED <<root, password, provisioned, secrets, jobs, database, storage,
                   history, faults>>

\* rotateZuulDBConnectionSecret
Rotate(c) ==
    /\ Goto(c, "rotate", "root")
    /\ zuulSecret' = 0 /\ Meddle(c)
    /\ UNCHANGED <<local, rootSecret, initSecret, gen, jobs, database, storage, counts>>

\* Faulty variant: the password is made anew in each pass.
EnsureRootSecretAnew(c) ==
    /\ Goto(c, "root", "create-root") /\ NewUUID(c, root)
    /\ UNCHANGED <<dry, size, password, provisioned, rootSecret, initSecret, zuulSecret,
                   jobs, database, storage, history, counts>>

\* EnsureSecretUUID(MariadbAdminPass).  A secret that exists leads on to
\* EnsureSecret of mariadb-config-secrets and mariadb-initdb-secrets.
EnsureRootSecret(c) ==
    /\ IF rootSecret # 0
       THEN /\ Goto(c, "root", "sts")
            /\ initSecret' = IF dry[c] THEN initSecret ELSE rootSecret
            /\ UNCHANGED <<root, gen>>
       ELSE Goto(c, "root", "create-root") /\ NewUUID(c, root) /\ UNCHANGED initSecret
    /\ UNCHANGED <<dry, size, password, provisioned, rootSecret, zuulSecret,
                   jobs, database, storage, history, counts>>

\* CreateR: if the secret exists by now it stays, and nobody is told.
CreateRootSecret(c) ==
    /\ Goto(c, "create-root", "config")
    /\ rootSecret' = IF rootSecret = 0 /\ ~dry[c] THEN root[c] ELSE rootSecret
    /\ UNCHANGED <<local, initSecret, zuulSecret, gen, jobs, database, storage,
                   history, counts>>

\* The same, after the secret was created.
EnsureConfigSecrets(c) ==
    /\ Goto(c, "config", "sts")
    /\ initSecret' = IF dry[c] THEN initSecret ELSE root[c]
    /\ root' = Set(root, c, 0) \* not used from here on
    /\ UNCHANGED <<dry, size, password, provisioned, rootSecret, zuulSecret, gen, jobs,
                   database, storage, history, counts>>

\* BaseGetStorageConfOrDefault
StorageConf(s) == IF s = 0 THEN DefaultSize ELSE s

\* ensureStatefulset creates the StatefulSet: the claims get their sizes, and
\* the pass is over.
CreateStatefulSet(c) ==
    /\ sts = "absent"
    /\ Goto(c, "sts", IF dry[c] THEN "idle" ELSE "root")
    /\ IF dry[c] THEN UNCHANGED <<sts, pvc>>
       ELSE /\ sts' = "starting"
            /\ pvc' = [v \in Volumes |-> [NoPVC EXCEPT !.request = StorageConf(size[c][v])]]
    /\ IF dry[c] THEN Forget(c) ELSE UNCHANGED <<dry, size>>
    /\ UNCHANGED <<root, password, provisioned, secrets, jobs, rootUser, zuulUser, overrun,
                   expandable, history, counts>>

\* waitStatefulset gives up, if the pod is not ready in time.
GiveUp(c) ==
    /\ sts = "starting"
    /\ Goto(c, "sts", "pvc") /\ provisioned' = Set(provisioned, c, FALSE)
    /\ UNCHANGED <<dry, size, root, password, secrets, jobs, database, storage,
                   history, counts>>

\* Faulty variant: the secret is taken to be there.
ReadZuulSecretOnly(c) ==
    /\ sts = "ready"
    /\ Goto(c, "sts", "job") /\ password' = Set(password, c, zuulSecret)
    /\ meddled' = meddled \ {c}
    /\ UNCHANGED <<dry, size, root, provisioned, secrets, jobs, database, storage, cut,
                   counts>>

\* The pod is ready: the password of zuul-db-connection, or a new one if there
\* is no such secret.
ReadZuulSecret(c) ==
    /\ sts = "ready"
    /\ IF zuulSecret # 0
       THEN Goto(c, "sts", "job") /\ password' = Set(password, c, zuulSecret) /\ UNCHANGED gen
       ELSE Goto(c, "sts", "create-secret") /\ NewUUID(c, password)
    /\ meddled' = meddled \ {c}
    /\ UNCHANGED <<dry, size, root, provisioned, rootSecret, initSecret, zuulSecret, jobs,
                   database, storage, cut, counts>>

CreateZuulSecret(c) ==
    /\ Goto(c, "create-secret", "job")
    /\ zuulSecret' = IF zuulSecret = 0 /\ ~dry[c] THEN password[c] ELSE zuulSecret
    /\ Meddle(c)
    /\ UNCHANGED <<local, rootSecret, initSecret, gen, jobs, database, storage, counts>>

-----------------------------------------------------------------------------
(* EnsureProvisionDBJob *)

\* Faulty variant: it is not looked at which password the job was made for.
ReadJobByName(c) ==
    /\ IF job = NoJob
       THEN Goto(c, "job", "create-job") /\ UNCHANGED provisioned
       ELSE Goto(c, "job", "pvc") /\ provisioned' = Set(provisioned, c, job.succeeded)
    /\ UNCHANGED <<dry, size, root, password, secrets, jobs, database, storage,
                   history, counts>>

\* Faulty variant: a job that was made for another password is waited for.
ReadJobWaits(c) ==
    /\ IF job = NoJob
       THEN Goto(c, "job", "create-job") /\ UNCHANGED provisioned
       ELSE /\ Goto(c, "job", "pvc")
            /\ provisioned' = Set(provisioned, c, job.succeeded /\ job.cfg = password[c])
    /\ UNCHANGED <<dry, size, root, password, secrets, jobs, database, storage,
                   history, counts>>

\* A job that was made for another password is replaced.
ReadJob(c) ==
    /\ IF job = NoJob
       THEN Goto(c, "job", "create-job") /\ UNCHANGED provisioned
       ELSE IF job.cfg # password[c]
       THEN Goto(c, "job", "delete-job") /\ UNCHANGED provisioned
       ELSE Goto(c, "job", "pvc") /\ provisioned' = Set(provisioned, c, job.succeeded)
    /\ UNCHANGED <<dry, size, root, password, secrets, jobs, database, storage,
                   history, counts>>

\* DeleteR asks for no propagation: Kubernetes keeps the pods of the job, and
\* the job itself until it has disowned them.  At most MaxLate of those that
\* have not run will do so.
DeleteJob(c) ==
    /\ Goto(c, "delete-job", "create-job")
    /\ IF dry[c] \/ job = NoJob THEN UNCHANGED jobs
       ELSE /\ job' = [job EXCEPT !.deleting = TRUE]
            /\ pods' \in {late \in SUBSET {[p EXCEPT !.owned = FALSE] : p \in pods} :
                             Cardinality(late) <= MaxLate}
    /\ Meddle(c)
    /\ UNCHANGED <<local, secrets, database, storage, counts>>

\* Faulty variant: a job that was just created counts as done.
CreateJobDone(c) ==
    /\ Goto(c, "create-job", "pvc")
    /\ provisioned' = Set(provisioned, c, TRUE)
    /\ IF dry[c] \/ job # NoJob THEN UNCHANGED jobs
       ELSE /\ job' = [NoJob EXCEPT !.cfg = password[c]]
            /\ pods' = pods \cup {[sets |-> password[c], owned |-> TRUE]}
    /\ Meddle(c)
    /\ UNCHANGED <<dry, size, root, password, secrets, database, storage, counts>>

\* CreateR does nothing while the old job is there.
CreateJob(c) ==
    /\ Goto(c, "create-job", "pvc")
    /\ provisioned' = Set(provisioned, c, FALSE)
    /\ IF dry[c] \/ job # NoJob THEN UNCHANGED jobs
       ELSE /\ job' = [NoJob EXCEPT !.cfg = password[c]]
            /\ pods' = pods \cup {[sets |-> password[c], owned |-> TRUE]}
    /\ Meddle(c)
    /\ UNCHANGED <<dry, size, root, password, secrets, database, storage, counts>>

-----------------------------------------------------------------------------
(* reconcileExpandPVC, and the end of the pass *)

\* Faulty variant: a volume is settled once its expansion is requested.
SettledEarly(s, p) ==
    \/ s = 0
    \/ p.capacity # 0 /\ (s <= p.request \/ ~expandable)

\* It is ready, and asks for nothing.
Settled(s, p) ==
    \/ s = 0
    \/ p.capacity # 0 /\ ~p.resizing /\ (s <= p.capacity \/ ~expandable)

\* It asks for a larger volume, whether the run is dry or not.  The API server
\* refuses a request that is smaller than the last one.
MustExpand(s, p) ==
    /\ p.capacity # 0 /\ ~p.resizing
    /\ s > p.capacity /\ s >= p.request /\ expandable

\* isReady.  A dry run ends with its pass, another command with one that found
\* all ready.
Finish(c) ==
    LET ready == provisioned[c] /\ \A v \in Volumes : Settled(size[c][v], pvc[v])
    IN  /\ Goto(c, "pvc", IF dry[c] THEN "idle" ELSE IF ready THEN "ok" ELSE "root")
        /\ pvc' = [v \in Volumes |-> IF MustExpand(size[c][v], pvc[v])
                                     THEN [pvc[v] EXCEPT !.request = size[c][v]] ELSE pvc[v]]
        /\ password' = Set(password, c, 0) /\ provisioned' = Set(provisioned, c, FALSE)
        /\ IF pc'[c] = "root" THEN UNCHANGED <<dry, size>> ELSE Forget(c)
        /\ cut' = (cut /\ (\/ pc'[c] # "ok" \/ c \in meddled
                           \/ \E d \in Commands \ {c} : Running(d)))
        /\ meddled' = meddled \ {c}
        /\ UNCHANGED <<root, secrets, jobs, database, expandable, counts>>

Pass(c) ==
    \/ Rotate(c) \/ EnsureRootSecret(c) \/ CreateRootSecret(c) \/ EnsureConfigSecrets(c)
    \/ CreateStatefulSet(c) \/ GiveUp(c) \/ ReadZuulSecret(c) \/ CreateZuulSecret(c)
    \/ ReadJob(c) \/ DeleteJob(c) \/ CreateJob(c) \/ Finish(c)

\* The command ends without success, and what it knew is gone.
Stop(c) ==
    /\ pc' = Set(pc, c, "idle") /\ cut' = TRUE
    /\ root' = Set(root, c, 0) /\ password' = Set(password, c, 0)
    /\ provisioned' = Set(provisioned, c, FALSE) /\ meddled' = meddled \ {c}
    /\ Forget(c)
    /\ UNCHANGED <<secrets, jobs, database, storage, runs, rotations>>

\* It is killed, or has waited in vain for what was slow.
Kill(c) == Running(c) /\ faults < MaxFaults /\ faults' = faults + 1 /\ Stop(c)

\* The job has used up its retries: nothing runs it again, and EnsureProvisionDBJob
\* replaces it only for another password.
JobFailed ==
    /\ job # NoJob /\ ~job.succeeded /\ ~job.deleting
    /\ \A p \in pods : ~p.owned

\* The attempts of a command that waits for such a job are used up.
Exhausted(c) ==
    /\ pc[c] = "pvc" /\ ~dry[c] /\ JobFailed /\ job.cfg = password[c]
    /\ Stop(c) /\ UNCHANGED faults

-----------------------------------------------------------------------------
(* Kubernetes, MariaDB and the storage. *)

\* The pod starts.  The first one initializes the database, with the password
\* in mariadb-initdb-secrets; the probes of every one log in with the same.
PodUp ==
    /\ sts = "starting" /\ \A v \in Volumes : pvc[v].capacity # 0
    /\ rootUser \in {0, initSecret}
    /\ sts' = "ready" /\ rootUser' = initSecret
    /\ UNCHANGED <<pc, local, secrets, jobs, zuulUser, overrun, storage, history, counts>>

PodDown ==
    /\ sts = "ready" /\ faults < MaxFaults
    /\ sts' = "starting" /\ faults' = faults + 1
    /\ UNCHANGED <<pc, local, secrets, jobs, rootUser, zuulUser, overrun, storage, history,
                   runs, rotations>>

\* The script of CreateDBInitContainer succeeds in one of its attempts: it logs
\* in with the root password of the secret and sets the password of Zuul.
RunJobPod(p) ==
    /\ p \in pods /\ sts = "ready" /\ rootUser = rootSecret
    /\ zuulUser' = p.sets /\ overrun' = ~p.owned
    /\ pods' = pods \ {p}
    /\ job' = IF p.owned THEN [job EXCEPT !.succeeded = TRUE] ELSE job
    /\ UNCHANGED <<pc, local, secrets, sts, rootUser, storage, history, counts>>

\* Every attempt of every retry fails, the last perhaps after it has set the
\* password.
FailJobPod(p) ==
    /\ p \in pods /\ p.owned /\ faults < MaxFaults /\ faults' = faults + 1
    /\ \/ UNCHANGED <<zuulUser, overrun>>
       \/ sts = "ready" /\ rootUser = rootSecret /\ zuulUser' = p.sets /\ overrun' = FALSE
    /\ pods' = pods \ {p}
    /\ UNCHANGED <<pc, local, secrets, job, sts, rootUser, storage, history, runs, rotations>>

\* A job that was deleted is gone for good.
JobGone ==
    /\ job.deleting /\ job' = NoJob
    /\ UNCHANGED <<pc, local, secrets, pods, database, storage, history, counts>>

\* A volume is bound, and begins or ends to be resized.
Bind(v) ==
    /\ pvc[v].capacity = 0 /\ pvc[v].request # 0
    /\ pvc' = [pvc EXCEPT ![v].capacity = pvc[v].request]

BeginResize(v) ==
    /\ pvc[v].capacity # 0 /\ pvc[v].request > pvc[v].capacity /\ ~pvc[v].resizing
    /\ pvc' = [pvc EXCEPT ![v].resizing = TRUE]

EndResize(v) ==
    /\ pvc[v].resizing
    /\ pvc' = [pvc EXCEPT ![v].resizing = FALSE, ![v].capacity = pvc[v].request]

Provision(v) ==
    /\ Bind(v) \/ BeginResize(v) \/ EndResize(v)
    /\ UNCHANGED <<pc, local, secrets, jobs, database, expandable, history, counts>>

Next ==
    \/ \E c \in Commands : Start(c) \/ Pass(c) \/ Kill(c) \/ Exhausted(c)
    \/ PodUp \/ PodDown \/ JobGone
    \/ \E p \in pods : RunJobPod(p) \/ FailJobPod(p)
    \/ \E v \in Volumes : Provision(v)

\* The commands go on, and attempt no more than 60 passes; Kubernetes starts pods, runs the pod of the job there is,
\* removes what was deleted and provides storage.
Fairness ==
    /\ \A c \in Commands : WF_vars(Pass(c)) /\ SF_vars(Exhausted(c))
    /\ WF_vars(PodUp) /\ WF_vars(JobGone)
    /\ WF_vars(\E p \in pods : p.owned /\ RunJobPod(p))
    /\ \A v \in Volumes : WF_vars(Provision(v))

Spec == Init /\ [][Next]_vars /\ Fairness

-----------------------------------------------------------------------------
(* Properties *)

Succeeds(c) == pc[c] # "ok" /\ pc'[c] = "ok"

\* When DeployMariadb reports that it is ready, Zuul can log in to the database
\* with the password of zuul-db-connection, which the same pass hands on to
\* zuul.conf, although other commands rotate the secret and replace the job at
\* any time.  Excepted are those who wrote since it read the secret, and pods
\* of replaced jobs.
SuccessCanLogIn ==
    [][\A c \in Commands : Succeeds(c) =>
          \/ c \in meddled \/ overrun
          \/ zuulUser = zuulSecret /\ password[c] = zuulSecret]_vars

\* Once every command has ended, and none was cut short after the last success,
\* the database and the secret agree, however the commands were interleaved: a
\* command that lost a race to create the secret or the job puts right, in its
\* next pass, what it has made of its own password.
AgreeAtRest ==
    (~cut /\ zuulSecret # 0 /\ \A c \in Commands : ~Running(c)) =>
       overrun \/ zuulUser = zuulSecret

\* The root password of the secret is that of the database: the job depends on
\* it, and nothing sets it again after the first start of the database.
RootCanLogIn == rootUser # 0 => rootUser = rootSecret

\* After a deploy, a volume has the size that the CR asks for, if its storage
\* class allows expansion; requesting it is not enough.
SuccessHasSpace ==
    [][\A c \in Commands : Succeeds(c) =>
          \A v \in Volumes : expandable => pvc'[v].capacity >= size[c][v]]_vars

\* All commands end: two of them that want different passwords do not undo each
\* other's work for ever, and waiting for a job that another command has deleted
\* is no dead end.
CommandsEnd == []<>(\A c \in Commands : ~Running(c))
====
