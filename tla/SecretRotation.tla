-------------------------- MODULE SecretRotation --------------------------
(***************************************************************************)
(* The `sf-operator rotate-secrets` command (controllers/secrets.go), the  *)
(* part of `deploy` that makes the missing secrets again and restarts what *)
(* uses them, and what may happen in between: the command is killed, and   *)
(* is run again or not; pods start when they can; Zuul adds keys to the    *)
(* keystore it keeps, encrypted, in ZooKeeper.                             *)
(*                                                                         *)
(* The content of a secret is a generation: 0 is no secret, and no two     *)
(* contents made at different times are the same.                          *)
(***************************************************************************)
EXTENDS Naturals

CONSTANTS
    UserDeletes, \* the secrets a user may delete between two commands
    NewProjects, \* projects are added to Zuul while commands are running
    MaxRuns,     \* bound on the number of commands
    MaxCrashes   \* bound on the number of killed commands

Certificates == {"client", "server"}
ZuulSecrets  == {"keystore", "auth", "db"}
Secrets      == ZuulSecrets \cup Certificates \cup {"keystore-new"}

\* "zuul" stands for all that nukeZKClients deletes by name, nodepool-builder
\* included; the launcher's container is called "launcher", and no Deployment is.
Clients      == {"zuul", "launcher"}
Services     == Clients \cup {"zookeeper"}

ASSUME UserAssumption   == UserDeletes \subseteq Certificates \cup {"auth", "db"}
ASSUME QuietAssumption  == NewProjects \in BOOLEAN
ASSUME BoundsAssumption == MaxRuns \in Nat /\ MaxCrashes \in Nat

VARIABLES
    pc,       \* where the command is
    command,  \* the current or last command
    begun,    \* the last generation made before it
    outcome,  \* how it ended
    secret,   \* the content of each secret
    gen,      \* the last generation made
    keystore, \* the passwords that keys in ZooKeeper are encrypted with
    exists,   \* the services whose StatefulSet or Deployment exists
    started,  \* the certificate each service was started with; 0: not running
    conf,     \* the secrets in zuul.conf (the zuul-config secret)
    zuulConf, \* the zuul.conf that Zuul was started with
    runs, crashes

cluster == <<secret, gen, keystore, exists, started, conf, zuulConf>>
vars    == <<pc, command, begun, outcome, cluster, runs, crashes>>

RotatePCs == {"keystore", "exec", "update", "delete-new", "nuke", "auth",
              "auth-new", "db", "tls", "tls-server", "restart"}
DeployPCs == {"cleanup", "secrets", "certs", "certs-server", "certs-client",
              "certs-end", "zookeeper", "clients"}

TypeOK ==
    /\ pc \in {"idle"} \cup RotatePCs \cup DeployPCs
    /\ command \in {"deploy", "rotate"}
    /\ outcome \in {"none", "ok", "failed", "crashed"}
    /\ gen \in Nat /\ begun \in Nat
    /\ secret \in [Secrets -> Nat]
    /\ keystore \subseteq Nat
    /\ exists \subseteq Services
    /\ started \in [Services -> Nat]
    /\ conf \in [ZuulSecrets -> Nat]
    /\ zuulConf \in [ZuulSecrets -> Nat]
    /\ runs \in 0..MaxRuns
    /\ crashes \in 0..MaxCrashes

Init ==
    /\ pc = "idle" /\ command = "deploy" /\ outcome = "none"
    /\ gen = 0 /\ begun = 0
    /\ secret = [s \in Secrets |-> 0]
    /\ keystore = {}
    /\ exists = {}
    /\ started = [s \in Services |-> 0]
    /\ conf = [s \in ZuulSecrets |-> 0]
    /\ zuulConf = [s \in ZuulSecrets |-> 0]
    /\ runs = 0 /\ crashes = 0

-----------------------------------------------------------------------------
(* Steps of a command. *)

Goto(from, to) == pc = from /\ pc' = to /\ UNCHANGED <<command, begun, outcome, runs, crashes>>
Fail(from) == /\ pc = from /\ pc' = "idle" /\ outcome' = "failed"
              /\ UNCHANGED <<command, begun, cluster, runs, crashes>>

Delete(s) == /\ secret' = [secret EXCEPT ![s] = 0]
             /\ UNCHANGED <<gen, keystore, exists, started, conf, zuulConf>>

\* EnsureSecretUUID and its kin: every secret of S that is missing is made.
Make(S) == /\ gen' = gen + 1
           /\ secret' = [s \in Secrets |->
                           IF s \in S /\ secret[s] = 0 THEN gen + 1 ELSE secret[s]]
           /\ UNCHANGED <<keystore, exists, started, conf, zuulConf>>

\* nukeZK.  What has no pod yet is spared; the launcher is sent a signal that
\* may or may not take it down.
NukeZK ==
    \E spared \in SUBSET ({"zuul"} \cap {s \in exists : started[s] = 0}),
       killed \in SUBSET {"launcher"} :
       /\ exists' = exists \ ({"zookeeper", "zuul"} \ spared)
       /\ started' = [s \in Services |->
                        IF s \in {"zookeeper", "zuul"} \cup killed THEN 0 ELSE started[s]]
       /\ UNCHANGED <<secret, gen, keystore, conf, zuulConf>>

-----------------------------------------------------------------------------
(* DoRotateSecrets *)

\* Faulty variant: a leftover of a rotation that was cut short is replaced.
RotateKeystorePasswordForced ==
    /\ Goto("keystore", "exec")
    /\ gen' = gen + 1
    /\ secret' = [secret EXCEPT !["keystore-new"] = gen + 1]
    /\ UNCHANGED <<keystore, exists, started, conf, zuulConf>>

\* rotateKeystorePassword up to the new password.
RotateKeystorePassword ==
    \/ /\ secret["keystore-new"] # 0 \/ secret["keystore"] = 0
       /\ Fail("keystore")
    \/ /\ secret["keystore-new"] = 0 /\ secret["keystore"] # 0
       /\ Goto("keystore", "exec")
       /\ Make({"keystore-new"})

\* rotate-keystore.py: read every key with the old password, write them all
\* with the new one.  It fails before it writes if it cannot read one of them,
\* or if ZooKeeper is not there; it may fail half way; and its success may not
\* come back to the command.
RotateKeystore ==
    LET readable == started["zookeeper"] # 0 /\ keystore \subseteq {secret["keystore"]}
        written  == IF keystore = {} THEN {} ELSE {secret["keystore-new"]}
    IN  /\ pc = "exec"
        /\ keystore' \in IF readable THEN {keystore, keystore \cup written, written}
                                     ELSE {keystore}
        /\ \/ pc' = "idle" /\ outcome' = "failed"
           \/ readable /\ keystore' = written /\ pc' = "update" /\ outcome' = outcome
        /\ UNCHANGED <<command, begun, secret, gen, exists, started, conf, zuulConf,
                       runs, crashes>>

UpdateKeystoreSecret ==
    /\ Goto("update", "delete-new")
    /\ secret' = [secret EXCEPT !["keystore"] = secret["keystore-new"]]
    /\ UNCHANGED <<gen, keystore, exists, started, conf, zuulConf>>

DeleteNewPassword == Goto("delete-new", "nuke") /\ Delete("keystore-new")

KillClients == Goto("nuke", "auth") /\ NukeZK

\* Faulty variant: the secret is ensured, not deleted first.
RotateZuulAuthenticatorEnsured ==
    Goto("auth", "db") /\ UNCHANGED cluster

RotateZuulAuthenticatorSecret ==
    \/ secret["auth"] = 0 /\ Fail("auth")
    \/ secret["auth"] # 0 /\ Goto("auth", "auth-new") /\ Delete("auth")
    \/ Goto("auth-new", "db") /\ Make({"auth"})

RotateZuulDBConnectionSecret ==
    \/ secret["db"] = 0 /\ Fail("db")
    \/ secret["db"] # 0 /\ Goto("db", "tls") /\ Delete("db")

RotateZookeeperTLSSecrets ==
    \/ (\E s \in Certificates : secret[s] = 0) /\ Fail("tls")
    \/ (\A s \in Certificates : secret[s] # 0) /\ Goto("tls", "tls-server") /\ Delete("client")
    \/ Goto("tls-server", "restart") /\ Delete("server")

\* The pods of the scheduler and of zuul-web that were listed at the start; a
\* pod that was replaced since has another name, or the same.
RestartPods ==
    /\ Goto("restart", "cleanup")
    /\ started' \in {started, [started EXCEPT !["zuul"] = 0]}
    /\ UNCHANGED <<secret, gen, keystore, exists, conf, zuulConf>>

Rotate ==
    \/ RotateKeystorePassword \/ RotateKeystore \/ UpdateKeystoreSecret
    \/ DeleteNewPassword \/ KillClients \/ RotateZuulAuthenticatorSecret
    \/ RotateZuulDBConnectionSecret \/ RotateZookeeperTLSSecrets \/ RestartPods

-----------------------------------------------------------------------------
(* StandaloneReconcile, as far as it deals with these secrets. *)

\* Faulty variant: nothing is terminated when the certificates are missing.
CleanupNothing == Goto("cleanup", "secrets") /\ UNCHANGED cluster

Cleanup ==
    /\ Goto("cleanup", "secrets")
    /\ IF secret["client"] = 0 THEN NukeZK ELSE UNCHANGED cluster

\* DeployZuulSecrets, and the database's secret in DeployMariadb.
EnsureSecrets ==
    /\ Goto("secrets", "certs")
    /\ IF \E s \in ZuulSecrets : secret[s] = 0 THEN Make(ZuulSecrets) ELSE UNCHANGED cluster

\* Faulty variant: only the client's certificate is looked for.
EnsureByClientCertificate ==
    \/ /\ secret["client"] # 0
       /\ Goto("certs", "zookeeper")
       /\ UNCHANGED cluster
    \/ /\ secret["client"] = 0
       /\ Goto("certs", "certs-server")
       /\ Delete("client")
    \/ Goto("certs-server", "certs-client") /\ Delete("server")
    \/ Goto("certs-client", "certs-end") /\ Make({"client"})
    \/ /\ Goto("certs-end", "zookeeper")
       /\ secret' = [secret EXCEPT !["server"] = gen]
       /\ UNCHANGED <<gen, keystore, exists, started, conf, zuulConf>>

\* Both certificates are made again, from a new authority, if one is missing.
EnsureZookeeperCertificates ==
    \/ /\ \A s \in Certificates : secret[s] # 0
       /\ Goto("certs", "zookeeper")
       /\ UNCHANGED cluster
    \/ /\ \E s \in Certificates : secret[s] = 0
       /\ Goto("certs", "certs-server")
       /\ Delete("client")
    \/ Goto("certs-server", "certs-client") /\ Delete("server")
    \/ Goto("certs-client", "certs-end") /\ Make({"client"})
    \/ /\ Goto("certs-end", "zookeeper")
       /\ secret' = [secret EXCEPT !["server"] = gen]
       /\ UNCHANGED <<gen, keystore, exists, started, conf, zuulConf>>

\* The next pass begins while ZooKeeper is not ready.
DeployZookeeper ==
    /\ Goto("zookeeper", IF started["zookeeper"] # 0 THEN "clients" ELSE "cleanup")
    /\ exists' = exists \cup {"zookeeper"}
    /\ UNCHANGED <<secret, gen, keystore, started, conf, zuulConf>>

\* DeployNodepool and DeployZuul: zuul.conf is written, and a change of it
\* restarts Zuul; the command is over when every client is ready.
DeployClients ==
    LET settings == [s \in ZuulSecrets |-> secret[s]]
        ready    == conf = settings /\ \A c \in Clients : started[c] # 0
    IN  /\ pc = "clients"
        /\ pc' = IF ready THEN "idle" ELSE "cleanup"
        /\ outcome' = IF ready THEN "ok" ELSE outcome
        /\ conf' = settings
        /\ exists' = exists \cup Clients
        /\ started' = IF conf = settings THEN started ELSE [started EXCEPT !["zuul"] = 0]
        /\ UNCHANGED <<command, begun, secret, gen, keystore, zuulConf, runs, crashes>>

Deploy == \/ Cleanup \/ EnsureSecrets \/ EnsureZookeeperCertificates
          \/ DeployZookeeper \/ DeployClients

-----------------------------------------------------------------------------
(* Around the command. *)

Begin(cmd) ==
    /\ pc = "idle" /\ runs < MaxRuns
    /\ command' = cmd /\ begun' = gen /\ outcome' = "none"
    /\ pc' = IF cmd = "rotate" THEN "keystore" ELSE "cleanup"
    /\ runs' = runs + 1
    /\ UNCHANGED <<cluster, crashes>>

Crash ==
    /\ pc # "idle" /\ crashes < MaxCrashes
    /\ pc' = "idle" /\ outcome' = "crashed"
    /\ crashes' = crashes + 1
    /\ UNCHANGED <<command, begun, cluster, runs>>

\* A pod starts once the secrets it mounts are there, and reads them then.
Up(s) ==
    /\ s \in exists /\ started[s] = 0
    /\ secret["client"] # 0 /\ (s = "zookeeper" => secret["server"] # 0)
    /\ started' = [started EXCEPT ![s] = IF s = "zookeeper" THEN secret["server"]
                                                            ELSE secret["client"]]
    /\ zuulConf' = IF s = "zuul" THEN conf ELSE zuulConf
    /\ UNCHANGED <<pc, command, begun, outcome, secret, gen, keystore, exists, conf,
                   runs, crashes>>

\* Zuul makes the keys of a new project.
AddKeys ==
    /\ NewProjects \/ outcome = "ok"
    /\ started["zuul"] # 0 /\ started["zookeeper"] # 0
    /\ keystore' = keystore \cup {zuulConf["keystore"]}
    /\ UNCHANGED <<pc, command, begun, outcome, secret, gen, exists, started, conf,
                   zuulConf, runs, crashes>>

\* docs/deployment/backing_services.md: delete the secrets, then deploy.  The
\* password of the keystore is the one that must not be lost.
UserDelete(s) ==
    /\ pc = "idle" /\ runs < MaxRuns
    /\ secret[s] # 0
    /\ outcome' = "none"
    /\ Delete(s)
    /\ UNCHANGED <<pc, command, begun, runs, crashes>>

Environment ==
    \/ \E cmd \in {"deploy", "rotate"} : Begin(cmd)
    \/ Crash
    \/ \E s \in Services : Up(s)
    \/ AddKeys
    \/ \E s \in UserDeletes : UserDelete(s)

Next == Rotate \/ Deploy \/ Environment

Spec == Init /\ [][Next]_vars

\* The command goes on by itself, and Kubernetes starts what can be started.
FairSpec == /\ Spec
            /\ WF_vars(Rotate \/ Deploy)
            /\ \A s \in Services : WF_vars(Up(s))

-----------------------------------------------------------------------------
(* Properties *)

\* No key in ZooKeeper is ever encrypted with a password that the cluster does
\* not hold: rotateKeystorePassword stores the new password before it is used
\* and keeps it until the secret is updated, whenever the command dies and
\* however often it is run.
KeystoreKept == keystore \subseteq {secret["keystore"], secret["keystore-new"]} \ {0}

\* After a successful command ZooKeeper and its clients were started with
\* certificates of the same authority, and Zuul with the zuul.conf that the
\* secrets call for: cleanup, EnsureZookeeperCertificates and the checksum of
\* zuul.conf restart, between them, everything that has to be.  The launcher,
\* which nukeZKClients does not find by its name, is left out.
SuccessIsConsistent == outcome = "ok" =>
    /\ started["zookeeper"] = secret["server"]
    /\ secret["server"] = secret["client"]
    /\ started["zuul"] \in {0, secret["client"]}
    /\ started["zuul"] # 0 => zuulConf = [s \in ZuulSecrets |-> secret[s]]

\* rotate-secrets rotates "all the secrets at once": when it succeeds, each of
\* them was made by that command, and no key of the keystore can be read with
\* a password that predates it.
RotatesAll == outcome = "ok" /\ command = "rotate" =>
    /\ \A s \in ZuulSecrets \cup Certificates : secret[s] > begun
    /\ \A p \in keystore : p > begun

\* Every command ends: a rotation that was cut short anywhere is no obstacle
\* to the deploy that has to finish it.
CommandEnds == pc # "idle" ~> pc = "idle"

-----------------------------------------------------------------------------
(* The inductive invariant behind KeystoreKept and RotatesAll. *)

\* The points of rotate-secrets from which on a secret was dealt with; those of
\* deploy follow all of them.
Over       == DeployPCs \cup {"restart"}
AfterTLS   == Over \cup {"tls-server"}
AfterDB    == AfterTLS \cup {"tls"}
AfterAuth  == AfterDB \cup {"auth-new", "db"}
AfterStore == AfterAuth \cup {"delete-new", "nuke", "auth"}

AfterEnsure == DeployPCs \ {"cleanup", "secrets"}

\* The new password is stored before it is used, and kept until the secret
\* holds it.
PasswordInv ==
    /\ KeystoreKept
    /\ pc \in {"exec", "update"} => secret["keystore"] # 0 /\ secret["keystore-new"] # 0
    /\ pc = "update" => keystore \subseteq {secret["keystore-new"]}
    /\ pc = "delete-new" => keystore \subseteq {secret["keystore"]}

\* What deploy goes by is there, and what Zuul runs with is what was deployed.
ConfInv ==
    /\ pc \in AfterEnsure => \A s \in ZuulSecrets : secret[s] # 0
    /\ pc = "certs-end" => secret["client"] # 0 /\ gen # 0
    /\ pc \in {"zookeeper", "clients"} => \A s \in Certificates : secret[s] # 0
    /\ pc # "idle" => outcome = "none"
    /\ outcome = "ok" => \A s \in ZuulSecrets : conf[s] = secret[s] /\ secret[s] # 0
    /\ started["zuul"] # 0 => zuulConf = conf

Renewed(s) == secret[s] = 0 \/ secret[s] > begun

\* What rotate-secrets went by is gone, or newer than the command.
RenewedInv == begun <= gen /\ (command = "rotate" =>
    /\ pc \in {"exec", "update"} => secret["keystore-new"] > begun
    /\ pc \in AfterStore => Renewed("keystore") /\ keystore \subseteq {secret["keystore"]}
    /\ pc \in AfterAuth => Renewed("auth")
    /\ pc \in AfterDB => Renewed("db")
    /\ pc \in AfterTLS => Renewed("client")
    /\ pc \in Over => Renewed("server")
    /\ pc = "certs-end" => gen > begun)

\* What each step of a rotation relies on, whichever steps were cut off before.
RotationInv == PasswordInv /\ ConfInv /\ RenewedInv /\ RotatesAll
=============================================================================
