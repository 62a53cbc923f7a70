--------------------------- MODULE BackupRestore ---------------------------
(***************************************************************************)
(* `sf-operator SF backup` and `SF restore` (controllers/backup.go) and    *)
(* `dev wipe sf` (controllers/clean.go), with `deploy` and `rotate-secrets`*)
(* as far as they touch what is backed up: the secrets, the keys of the    *)
(* projects in ZooKeeper, encrypted with the keystore's password, and the  *)
(* builds in the database.                                                 *)
(*                                                                         *)
(* What the operator creates belongs to the ConfigMap sf-standalone-owner; *)
(* when that is deleted, Kubernetes deletes what belonged to it, later.    *)
(* Contents, keys, builds and owners are numbered as they are made.        *)
(***************************************************************************)
EXTENDS Naturals, FiniteSets

CONSTANTS
    Mishaps,    \* what the people who run the commands do not avoid
    MaxRuns,    \* bound on the number of commands
    MaxCrashes, \* bound on the number of commands cut short
    MaxBuilds   \* bound on the builds in the database

\* "gc-lag": a command is run before what the last owner left is deleted;
\* "mixed-backup": a directory is restored that a backup which failed shares
\*   with the files of an earlier one;
\* "keep-data": a new owner is made over the data of a wiped deployment, after
\*   a wipe without --rm-data or one that was cut short;
\* "rotate-in-backup": the keystore's password is rotated during a backup.
MishapKinds == {"gc-lag", "mixed-backup", "keep-data", "rotate-in-backup"}

ASSUME MishapsAssumption == Mishaps \subseteq MishapKinds
ASSUME BoundsAssumption  == MaxRuns \in Nat /\ MaxCrashes \in Nat /\ MaxBuilds \in Nat

\* SecretsToBackup: zuul-keystore-password, and "ssh" for the others; "user"
\* stands for the secrets of the connections (CRSecrets), made by the user.
OperatorSecrets == {"keystore", "ssh"}
Secrets         == OperatorSecrets \cup {"user"}

VARIABLES
    pc, command, outcome,
    owner,   \* the current sf-standalone-owner; 0: there is none
    secret,  \* the content of each secret; 0: it does not exist
    ownedBy, \* the owner of each secret; 0: it has none
    zuul,    \* the workloads of Zuul and of ZooKeeper exist
    conf,    \* the password of the keystore in zuul.conf
    keys,    \* the project's key in ZooKeeper, and what it is encrypted with
    builds,  \* the builds in the database
    archive, \* what the files of the backup directory hold
    todo,    \* the secrets that the command has yet to save or to restore
    backup,  \* what the backups into the directory left
    gen, runs, crashes

data    == <<keys, builds>>
objects == <<owner, secret, ownedBy, zuul, conf>>
counts  == <<gen, runs, crashes>>
vars    == <<pc, command, outcome, objects, data, archive, todo, backup, counts>>

Commands   == {"deploy", "backup", "wipe", "restore"}
BackupPCs  == {"save-secrets", "save-keys", "save-db"}
RestorePCs == {"restore-owner", "restore-secrets", "backends", "import-keys",
               "drop-db", "load-db"}
WipePCs    == {"nuke", "wipe-owner", "wipe-services", "wipe-data"}
DeployPCs  == {"owner", "secrets", "services"}

Keystore == [key : Nat, pw : Nat]
NoKeys   == [key |-> 0, pw |-> 0]

Readable(store, password) == store.key = 0 \/ store.pw = password

TypeOK ==
    /\ pc \in {"idle"} \cup BackupPCs \cup RestorePCs \cup WipePCs \cup DeployPCs
    /\ command \in Commands
    /\ outcome \in {"none", "ok", "failed"}
    /\ owner \in Nat /\ zuul \in BOOLEAN /\ conf \in Nat
    /\ secret \in [Secrets -> Nat]
    /\ ownedBy \in [Secrets -> Nat]
    /\ keys \in Keystore
    /\ builds \subseteq Nat
    /\ archive \in [secret : [Secrets -> Nat], keys : Keystore, builds : SUBSET Nat,
                   files : SUBSET {"keys", "db"}]
    /\ todo \subseteq Secrets
    /\ todo # {} => pc \in {"save-secrets", "restore-owner", "restore-secrets"}
    /\ backup \in {"none", "first", "whole", "mixed"}
    /\ gen \in Nat /\ runs \in 0..MaxRuns /\ crashes \in 0..MaxCrashes

\* Nothing is deployed; the user may have made the secrets of the connections.
Init ==
    /\ pc = "idle" /\ command = "deploy" /\ outcome = "none"
    /\ owner = 0 /\ zuul = FALSE /\ conf = 0
    /\ secret \in [Secrets -> {0, 1}] /\ \A s \in OperatorSecrets : secret[s] = 0
    /\ ownedBy = [s \in Secrets |-> 0]
    /\ keys = NoKeys /\ builds = {}
    /\ archive = [secret |-> [s \in Secrets |-> 0], keys |-> NoKeys, builds |-> {},
                  files |-> {}]
    /\ todo = {} /\ backup = "none"
    /\ gen = 1 /\ runs = 0 /\ crashes = 0

-----------------------------------------------------------------------------
(* Steps of a command. *)

Goto(from, to) == pc = from /\ pc' = to /\ UNCHANGED <<command, outcome, runs, crashes>>
End(from, how) == /\ pc = from /\ pc' = "idle" /\ outcome' = how
                  /\ UNCHANGED <<command, runs, crashes>>
Fail(from)     == /\ End(from, "failed") /\ todo' = {}
                  /\ UNCHANGED <<objects, data, archive, backup, gen>>

\* CreateR of the secrets of S: one that exists is left as it is, silently.
CreateR(S, content) ==
    LET new == {s \in S : secret[s] = 0}
    IN  /\ secret' = [s \in Secrets |-> IF s \in new THEN content[s] ELSE secret[s]]
        /\ ownedBy' = [s \in Secrets |-> IF s \in new THEN owner ELSE ownedBy[s]]

\* Faulty variant: the secrets are made anew each time.
EnsureSecretsAnew(S) ==
    /\ secret' = [s \in Secrets |-> IF s \in S THEN gen + 1 ELSE secret[s]]
    /\ ownedBy' = [s \in Secrets |-> IF s \in S THEN owner ELSE ownedBy[s]]
    /\ gen' = gen + 1

\* EnsureSecretUUID, EnsureSSHKeySecret and their kin.
EnsureSecrets(S) ==
    /\ CreateR(S, [s \in Secrets |-> gen + 1])
    /\ gen' = IF \E s \in S : secret[s] = 0 THEN gen + 1 ELSE gen

EnsureStandaloneOwner ==
    IF owner = 0 THEN owner' = gen + 1 /\ gen' = gen + 1
                 ELSE UNCHANGED <<owner, gen>>

-----------------------------------------------------------------------------
(* DoBackup.  Each file of the directory is replaced as it is written. *)

\* Faulty variants: the loop returns after the first secret; a file that exists
\* is not replaced.
SaveOneSecret == \E s \in todo :
    /\ owner # 0 /\ secret[s] # 0
    /\ Goto("save-secrets", "save-keys")
    /\ archive' = [archive EXCEPT !.secret[s] = secret[s]]
    /\ todo' = todo \ {s}
    /\ UNCHANGED <<objects, data, backup, gen>>

SaveNewSecret == \E s \in todo :
    /\ owner # 0 /\ secret[s] # 0
    /\ Goto("save-secrets", IF todo = {s} THEN "save-keys" ELSE "save-secrets")
    /\ archive' = [archive EXCEPT !.secret[s] = IF @ = 0 THEN secret[s] ELSE @]
    /\ todo' = todo \ {s}
    /\ UNCHANGED <<objects, data, backup, gen>>

\* createSecretBackup, one secret.
SaveSecret ==
    \/ /\ owner = 0 \/ \E s \in todo : secret[s] = 0
       /\ Fail("save-secrets")
    \/ \E s \in todo :
       /\ owner # 0 /\ secret[s] # 0
       /\ Goto("save-secrets", IF todo = {s} THEN "save-keys" ELSE "save-secrets")
       /\ archive' = [archive EXCEPT !.secret[s] = secret[s]]
       /\ todo' = todo \ {s}
       /\ UNCHANGED <<objects, data, backup, gen>>

\* The zuul-kazoo pod reaches ZooKeeper, which comes and goes with Zuul.
KazooConnects == zuul

\* createZuulKeypairBackup: the keys leave ZooKeeper as they are, encrypted.
SaveKeys ==
    \/ ~KazooConnects /\ Fail("save-keys")
    \/ /\ KazooConnects
       /\ Goto("save-keys", "save-db")
       /\ archive' = [archive EXCEPT !.keys = keys, !.files = @ \cup {"keys"}]
       /\ UNCHANGED <<objects, data, todo, backup, gen>>

\* createMySQLBackup
SaveDB ==
    /\ End("save-db", "ok")
    /\ archive' = [archive EXCEPT !.builds = builds, !.files = @ \cup {"db"}]
    /\ backup' = "whole"
    /\ UNCHANGED <<objects, data, todo, gen>>

Backup == SaveSecret \/ SaveKeys \/ SaveDB

-----------------------------------------------------------------------------
(* restoreCmd and DoRestore *)

\* Faulty variant: restore runs over a deployment.
RestoreOwnerUnchecked ==
    /\ Goto("restore-owner", "restore-secrets")
    /\ EnsureStandaloneOwner
    /\ UNCHANGED <<secret, ownedBy, zuul, conf, data, archive, todo, backup>>

RestoreOwner ==
    \/ owner # 0 /\ Fail("restore-owner")
    \/ /\ owner = 0
       /\ Goto("restore-owner", "restore-secrets")
       /\ EnsureStandaloneOwner
       /\ UNCHANGED <<secret, ownedBy, zuul, conf, data, archive, todo, backup>>

\* Faulty variant: what is not a secret of a connection is not restored.
RestoreUserSecret ==
    /\ Goto("restore-secrets", "backends")
    /\ CreateR({"user"}, archive.secret)
    /\ todo' = {}
    /\ UNCHANGED <<owner, zuul, conf, data, archive, backup, gen>>

\* restoreSecret, one secret.
RestoreSecret ==
    \/ (\E s \in todo : archive.secret[s] = 0) /\ Fail("restore-secrets")
    \/ \E s \in todo :
       /\ archive.secret[s] # 0
       /\ Goto("restore-secrets", IF todo = {s} THEN "backends" ELSE "restore-secrets")
       /\ CreateR({s}, archive.secret)
       /\ todo' = todo \ {s}
       /\ UNCHANGED <<owner, zuul, conf, data, archive, backup, gen>>

\* DeployMariadb, DeployZookeeper, DeployZuulSecrets, EnsureZuulConfigSecret and
\* the pod from which the keys are imported; Zuul is not deployed yet.
DeployBackends ==
    /\ Goto("backends", "import-keys")
    /\ EnsureSecrets(OperatorSecrets)
    /\ conf' = secret'["keystore"]
    /\ UNCHANGED <<owner, zuul, data, archive, todo, backup>>

\* restoreZuul: import-keys --force
ImportKeys ==
    \/ "keys" \notin archive.files /\ Fail("import-keys")
    \/ /\ "keys" \in archive.files
       /\ Goto("import-keys", "drop-db")
       /\ keys' = archive.keys
       /\ UNCHANGED <<objects, builds, archive, todo, backup, gen>>

\* restoreDB: the database is dropped before the dump is read.
DropDB ==
    /\ Goto("drop-db", "load-db")
    /\ builds' = {}
    /\ UNCHANGED <<objects, keys, archive, todo, backup, gen>>

LoadDB ==
    \/ "db" \notin archive.files /\ Fail("load-db")
    \/ /\ "db" \in archive.files
       /\ Goto("load-db", "owner")
       /\ builds' = builds \cup archive.builds
       /\ UNCHANGED <<objects, keys, archive, todo, backup, gen>>

Restore == \/ RestoreOwner \/ RestoreSecret \/ DeployBackends
           \/ ImportKeys \/ DropDB \/ LoadDB

-----------------------------------------------------------------------------
(* devWipe: CleanSFInstance and CleanPVCs *)

NukeZK ==
    /\ Goto("nuke", "wipe-owner")
    /\ zuul' = FALSE
    /\ UNCHANGED <<owner, secret, ownedBy, conf, data, archive, todo, backup, gen>>

\* The owner is deleted at once, without waiting for what belongs to it.
WipeOwner ==
    /\ Goto("wipe-owner", "wipe-services")
    /\ owner' = 0
    /\ UNCHANGED <<secret, ownedBy, zuul, conf, data, archive, todo, backup, gen>>

WipeServices ==
    /\ Goto("wipe-services", "wipe-data")
    /\ zuul' = FALSE
    /\ UNCHANGED <<owner, secret, ownedBy, conf, data, archive, todo, backup, gen>>

CleanPVCs ==
    /\ End("wipe-data", "ok")
    /\ \/ keys' = NoKeys /\ builds' = {}
       \/ "keep-data" \in Mishaps /\ UNCHANGED data
    /\ UNCHANGED <<objects, archive, todo, backup, gen>>

Wipe == NukeZK \/ WipeOwner \/ WipeServices \/ CleanPVCs

-----------------------------------------------------------------------------
(* StandaloneReconcile *)

DeployOwner ==
    /\ Goto("owner", "secrets")
    /\ EnsureStandaloneOwner
    /\ UNCHANGED <<secret, ownedBy, zuul, conf, data, archive, todo, backup>>

\* Without the secrets of the connections nothing is ever ready.
DeploySecrets ==
    \/ secret["user"] = 0 /\ Fail("secrets")
    \/ /\ secret["user"] # 0
       /\ Goto("secrets", "services")
       /\ EnsureSecrets(OperatorSecrets)
       /\ UNCHANGED <<owner, zuul, conf, data, archive, todo, backup>>

\* zuul.conf is written and Zuul deployed with it.  A secret that vanished
\* meanwhile takes another pass.
DeployServices ==
    IF \E s \in Secrets : secret[s] = 0
    THEN /\ Goto("services", "secrets")
         /\ UNCHANGED <<objects, data, archive, todo, backup, gen>>
    ELSE /\ End("services", "ok")
         /\ conf' = secret["keystore"]
         /\ zuul' = TRUE
         /\ UNCHANGED <<owner, secret, ownedBy, data, archive, todo, backup, gen>>

Deploy == DeployOwner \/ DeploySecrets \/ DeployServices

-----------------------------------------------------------------------------
(* Around the command. *)

Dangling(s) == secret[s] # 0 /\ ownedBy[s] \notin {0, owner}
Garbage     == \E s \in Secrets : Dangling(s)

FirstPC == [deploy |-> "owner", backup |-> "save-secrets", wipe |-> "nuke",
            restore |-> "restore-owner"]

Begin(cmd) ==
    /\ pc = "idle" /\ runs < MaxRuns
    /\ "gc-lag" \in Mishaps \/ ~Garbage
    /\ cmd \in {"deploy", "restore"} /\ owner = 0 =>
          data = <<NoKeys, {}>> \/ "keep-data" \in Mishaps
    /\ cmd = "restore" => backup # "mixed" \/ "mixed-backup" \in Mishaps
    /\ command' = cmd /\ outcome' = "none"
    /\ pc' = FirstPC[cmd]
    /\ todo' = IF cmd \in {"backup", "restore"} THEN Secrets ELSE {}
    /\ backup' = IF cmd # "backup" THEN backup
                 ELSE IF backup = "none" THEN "first" ELSE "mixed"
    /\ runs' = runs + 1
    /\ UNCHANGED <<objects, data, archive, gen, crashes>>

\* The command is killed, or what it runs in a pod fails and it gives up.
Crash ==
    /\ pc # "idle" /\ crashes < MaxCrashes
    /\ pc' = "idle" /\ outcome' = "failed"
    /\ crashes' = crashes + 1
    /\ todo' = {}
    /\ UNCHANGED <<command, objects, data, archive, backup, gen, runs>>

\* Kubernetes deletes what belongs to an owner that is gone.
CollectSecret(s) ==
    /\ Dangling(s)
    /\ secret' = [secret EXCEPT ![s] = 0]
    /\ ownedBy' = [ownedBy EXCEPT ![s] = 0]
    /\ UNCHANGED <<pc, command, outcome, owner, zuul, conf, data, archive, todo, backup, counts>>

\* Zuul makes the key of a project that has none, and records builds.
Work ==
    /\ zuul /\ Cardinality(builds) < MaxBuilds
    /\ gen' = gen + 1
    /\ keys' = IF keys.key = 0 THEN [key |-> gen + 1, pw |-> conf] ELSE keys
    /\ builds' = builds \cup {gen + 1}
    /\ UNCHANGED <<pc, command, outcome, objects, archive, todo, backup, runs, crashes>>

\* A whole run of rotate-secrets that succeeds (see SecretRotation).
RotateSecrets ==
    /\ pc = "idle" \/ ("rotate-in-backup" \in Mishaps /\ pc \in BackupPCs)
    /\ runs < MaxRuns
    /\ owner # 0 /\ zuul /\ ~Garbage
    /\ secret["keystore"] # 0 /\ Readable(keys, secret["keystore"])
    /\ gen' = gen + 1
    /\ secret' = [secret EXCEPT !["keystore"] = gen + 1]
    /\ conf' = gen + 1
    /\ keys' = IF keys.key = 0 THEN keys ELSE [keys EXCEPT !.pw = gen + 1]
    /\ runs' = runs + 1
    /\ outcome' = "none"
    /\ UNCHANGED <<pc, command, owner, ownedBy, zuul, builds, archive, todo, backup, crashes>>

\* The user makes the secret of a connection that is missing.
ProvideSecret ==
    /\ pc = "idle" /\ secret["user"] = 0
    /\ secret' = [secret EXCEPT !["user"] = gen + 1]
    /\ ownedBy' = [ownedBy EXCEPT !["user"] = 0]
    /\ gen' = gen + 1
    /\ UNCHANGED <<pc, command, outcome, owner, zuul, conf, data, archive, todo, backup,
                   runs, crashes>>

Environment ==
    \/ \E cmd \in Commands : Begin(cmd)
    \/ Crash
    \/ \E s \in Secrets : CollectSecret(s)
    \/ Work \/ RotateSecrets \/ ProvideSecret

Next == Backup \/ Restore \/ Wipe \/ Deploy \/ Environment

Spec == Init /\ [][Next]_vars

-----------------------------------------------------------------------------
(* Properties *)

\* The files of a backup that succeeded, and of the first one at any time, belong
\* together: although DoBackup writes them one after the other while Zuul is at
\* work, over those of an earlier backup, the keys can be read with the password
\* saved next to them.
ArchiveReadable == backup # "mixed" => Readable(archive.keys, archive.secret["keystore"])

\* After a restore that succeeded the backup was whole, and the operator's
\* secrets, the keys and the builds in it are there: DoRestore puts the secrets back before the
\* services that would make new ones, although CreateR ignores what exists,
\* and however the wipes and restores before it were cut short.
RestoreIsFaithful == outcome = "ok" /\ command = "restore" =>
    /\ backup # "first"
    /\ \A s \in OperatorSecrets : secret[s] = archive.secret[s]
    /\ archive.keys.key # 0 => keys = archive.keys
    /\ archive.builds \subseteq builds

\* After every deploy or restore that succeeded, Zuul can read the keys in
\* ZooKeeper: wherever a restore or a wipe stopped, what the next command
\* makes anew does not leave keys behind that nobody can read.
KeysReadable == outcome = "ok" /\ command \in {"deploy", "restore"} =>
    Readable(keys, secret["keystore"])

\* A restore destroys no key and no build that is not in the backup: it refuses
\* to run where sf-standalone-owner exists, and nothing is at work elsewhere.
RestoreLosesNothing ==
    [][Restore => /\ keys' # keys => keys = NoKeys \/ keys = archive.keys
                  /\ builds \subseteq builds' \cup archive.builds]_vars
=============================================================================
