----------------------- MODULE SecretRotationProofs -----------------------
(***************************************************************************)
(* Proofs about SecretRotation, for any number of commands and of crashes. *)
(***************************************************************************)
EXTENDS SecretRotation, TLAPS

USE DEF Certificates, ZuulSecrets, Secrets, Clients, Services, RotatePCs, DeployPCs

\* Every step of the command and around it keeps the state well typed.
LEMMA StepType == TypeOK /\ [Next]_vars => TypeOK'
<1> SUFFICES ASSUME TypeOK, [Next]_vars PROVE TypeOK'
    OBVIOUS
<1> USE BoundsAssumption DEF TypeOK, Goto, Fail, cluster
<1>1. ASSUME NEW s \in Secrets, Delete(s)
      PROVE  /\ secret' \in [Secrets -> Nat] /\ gen' \in Nat /\ keystore' \subseteq Nat
             /\ exists' \subseteq Services /\ started' \in [Services -> Nat]
             /\ conf' \in [ZuulSecrets -> Nat] /\ zuulConf' \in [ZuulSecrets -> Nat]
    BY <1>1 DEF Delete
<1>2. ASSUME NEW S \in SUBSET Secrets, Make(S)
      PROVE  /\ secret' \in [Secrets -> Nat] /\ gen' \in Nat /\ keystore' \subseteq Nat
             /\ exists' \subseteq Services /\ started' \in [Services -> Nat]
             /\ conf' \in [ZuulSecrets -> Nat] /\ zuulConf' \in [ZuulSecrets -> Nat]
    BY <1>2 DEF Make
<1>3. ASSUME NukeZK
      PROVE  /\ secret' \in [Secrets -> Nat] /\ gen' \in Nat /\ keystore' \subseteq Nat
             /\ exists' \subseteq Services /\ started' \in [Services -> Nat]
             /\ conf' \in [ZuulSecrets -> Nat] /\ zuulConf' \in [ZuulSecrets -> Nat]
    BY <1>3 DEF NukeZK
<1>4. CASE Rotate
  <2>1. CASE RotateKeystorePassword
      BY <2>1, <1>2 DEF RotateKeystorePassword
  <2>2. CASE RotateKeystore
      BY <2>2 DEF RotateKeystore
  <2>3. CASE UpdateKeystoreSecret
      BY <2>3 DEF UpdateKeystoreSecret
  <2>4. CASE DeleteNewPassword
      BY <2>4, <1>1 DEF DeleteNewPassword
  <2>5. CASE KillClients
      BY <2>5, <1>3 DEF KillClients
  <2>6. CASE RotateZuulAuthenticatorSecret
      BY <2>6, <1>1, <1>2 DEF RotateZuulAuthenticatorSecret
  <2>7. CASE RotateZuulDBConnectionSecret
      BY <2>7, <1>1 DEF RotateZuulDBConnectionSecret
  <2>8. CASE RotateZookeeperTLSSecrets
      BY <2>8, <1>1 DEF RotateZookeeperTLSSecrets
  <2>9. CASE RestartPods
      BY <2>9 DEF RestartPods
  <2> QED BY <1>4, <2>1, <2>2, <2>3, <2>4, <2>5, <2>6, <2>7, <2>8, <2>9 DEF Rotate
<1>5. CASE Deploy
  <2>1. CASE Cleanup
      BY <2>1, <1>3 DEF Cleanup
  <2>2. CASE EnsureSecrets
      BY <2>2, <1>2 DEF EnsureSecrets
  <2>3. CASE EnsureZookeeperCertificates
      BY <2>3, <1>1, <1>2 DEF EnsureZookeeperCertificates
  <2>4. CASE DeployZookeeper
      BY <2>4 DEF DeployZookeeper
  <2>5. CASE DeployClients
      BY <2>5 DEF DeployClients
  <2> QED BY <1>5, <2>1, <2>2, <2>3, <2>4, <2>5 DEF Deploy
<1>6. CASE Environment
  <2>1. ASSUME NEW cmd \in {"deploy", "rotate"}, Begin(cmd) PROVE TypeOK'
      BY <2>1 DEF Begin
  <2>2. CASE Crash
      BY <2>2 DEF Crash
  <2>3. ASSUME NEW s \in Services, Up(s) PROVE TypeOK'
      BY <2>3 DEF Up
  <2>4. CASE AddKeys
      BY <2>4 DEF AddKeys
  <2>5. ASSUME NEW s \in UserDeletes, UserDelete(s) PROVE TypeOK'
      BY <2>5, <1>1, UserAssumption DEF UserDelete
  <2> QED BY <1>6, <2>1, <2>2, <2>3, <2>4, <2>5 DEF Environment
<1>7. CASE UNCHANGED vars
    BY <1>7 DEF vars
<1> QED BY <1>4, <1>5, <1>6, <1>7 DEF Next

USE DEF Over, AfterTLS, AfterDB, AfterAuth, AfterStore, AfterEnsure

\* What making the missing secrets of S does to each of them.
LEMMA MakeEffect ==
    ASSUME TypeOK, NEW S \in SUBSET Secrets, Make(S)
    PROVE  /\ gen' = gen + 1
           /\ \A s \in Secrets : s \notin S => secret'[s] = secret[s]
           /\ \A s \in S : secret[s] = 0 => secret'[s] = gen + 1
           /\ \A s \in S : secret[s] # 0 => secret'[s] = secret[s]
           /\ UNCHANGED <<keystore, exists, started, conf, zuulConf>>
<1> QED BY DEF Make, TypeOK

\* A step of rotate-secrets keeps what the later ones rely on.
LEMMA RotateKeepsInv == TypeOK /\ RotationInv /\ Rotate => RotationInv'
<1> SUFFICES ASSUME TypeOK, RotationInv, Rotate PROVE RotationInv'
    OBVIOUS
<1> USE DEF TypeOK, RotationInv, PasswordInv, ConfInv, RenewedInv, Renewed, RotatesAll,
            KeystoreKept, Goto, Fail, cluster
<1>1. CASE RotateKeystorePassword
  <2>1. CASE Fail("keystore")
      BY <2>1
  <2>2. CASE Goto("keystore", "exec") /\ Make({"keystore-new"})
    <3>1. PICK S \in SUBSET Secrets : S = {"keystore-new"} /\ Make(S)
        BY <2>2
    <3> HIDE DEF TypeOK
    <3>2. /\ secret["keystore-new"] = 0 /\ secret["keystore"] # 0 
          /\ pc = "keystore" /\ pc' = "exec"
          /\ UNCHANGED <<command, begun, outcome, keystore, started, conf, zuulConf>>
        BY <1>1, <2>2, <3>1, MakeEffect DEF RotateKeystorePassword
    <3>3. /\ gen' = gen + 1 /\ secret'["keystore-new"] = gen + 1
          /\ \A s \in ZuulSecrets \cup Certificates : secret'[s] = secret[s]
        BY <3>1, <3>2, MakeEffect
    <3> QED BY <3>2, <3>3 DEF TypeOK
  <2> QED BY <1>1, <2>1, <2>2 DEF RotateKeystorePassword
<1>2. CASE RotateKeystore
    BY <1>2 DEF RotateKeystore
<1>3. CASE UpdateKeystoreSecret
    BY <1>3 DEF UpdateKeystoreSecret
<1>4. CASE DeleteNewPassword
    BY <1>4 DEF DeleteNewPassword, Delete
<1>5. CASE KillClients
    BY <1>5 DEF KillClients, NukeZK
<1>6. CASE RotateZuulAuthenticatorSecret
  <2>1. CASE Fail("auth")
      BY <2>1
  <2>2. CASE Goto("auth", "auth-new") /\ Delete("auth")
      BY <2>2 DEF Delete
  <2>3. CASE Goto("auth-new", "db") /\ Make({"auth"})
    <3>1. PICK S \in SUBSET Secrets : S = {"auth"} /\ Make(S)
        BY <2>3
    <3>2. /\ gen' = gen + 1 /\ secret'["auth"] \in {gen + 1, secret["auth"]}
          /\ secret'["auth"] = secret["auth"] \/ secret["auth"] = 0
          /\ \A s \in Secrets \ {"auth"} : secret'[s] = secret[s]
          /\ UNCHANGED <<keystore, started, conf, zuulConf>>
        BY <3>1, MakeEffect
    <3> QED BY <2>3, <3>2
  <2> QED BY <1>6, <2>1, <2>2, <2>3 DEF RotateZuulAuthenticatorSecret
<1>7. CASE RotateZuulDBConnectionSecret
    BY <1>7 DEF RotateZuulDBConnectionSecret, Delete
<1>8. CASE RotateZookeeperTLSSecrets
    BY <1>8 DEF RotateZookeeperTLSSecrets, Delete
<1>9. CASE RestartPods
    BY <1>9 DEF RestartPods
<1> QED BY <1>1, <1>2, <1>3, <1>4, <1>5, <1>6, <1>7, <1>8, <1>9 DEF Rotate

\* A step of deploy keeps it, and ends with success only when all of it is new.
LEMMA DeployKeepsInv == TypeOK /\ RotationInv /\ Deploy => RotationInv'
<1> SUFFICES ASSUME TypeOK, RotationInv, Deploy PROVE RotationInv'
    OBVIOUS
<1> USE DEF TypeOK, RotationInv, PasswordInv, ConfInv, RenewedInv, Renewed, RotatesAll,
            KeystoreKept, Goto, Fail, cluster
<1>1. CASE Cleanup
    BY <1>1 DEF Cleanup, NukeZK
<1>2. CASE EnsureSecrets
  <2>1. CASE \E s \in ZuulSecrets : secret[s] = 0
    <3>1. PICK S \in SUBSET Secrets : S = ZuulSecrets /\ Make(S)
        BY <1>2, <2>1 DEF EnsureSecrets
    <3>2. /\ gen' = gen + 1
          /\ \A s \in Secrets \ ZuulSecrets : secret'[s] = secret[s]
          /\ \A s \in ZuulSecrets : secret[s] = 0 => secret'[s] = gen + 1
          /\ \A s \in ZuulSecrets : secret[s] # 0 => secret'[s] = secret[s]
          /\ UNCHANGED <<keystore, started, conf, zuulConf>>
        BY <3>1, MakeEffect
    <3>3. pc = "secrets" /\ pc' = "certs" /\ UNCHANGED <<command, begun, outcome>>
        BY <1>2 DEF EnsureSecrets
    <3> QED BY <3>2, <3>3
  <2>2. CASE ~ \E s \in ZuulSecrets : secret[s] = 0
      BY <1>2, <2>2 DEF EnsureSecrets
  <2> QED BY <2>1, <2>2
<1>3. CASE EnsureZookeeperCertificates
  <2>1. CASE Goto("certs", "zookeeper") /\ UNCHANGED cluster /\ \A s \in Certificates : secret[s] # 0
      BY <2>1
  <2>2. CASE Goto("certs", "certs-server") /\ Delete("client")
      BY <2>2 DEF Delete
  <2>3. CASE Goto("certs-server", "certs-client") /\ Delete("server")
      BY <2>3 DEF Delete
  <2>4. CASE Goto("certs-client", "certs-end") /\ Make({"client"})
    <3>1. PICK S \in SUBSET Secrets : S = {"client"} /\ Make(S)
        BY <2>4
    <3>2. /\ gen' = gen + 1 /\ secret'["client"] \in {gen + 1, secret["client"]} \ {0}
          /\ \A s \in Secrets \ {"client"} : secret'[s] = secret[s]
          /\ UNCHANGED <<keystore, started, conf, zuulConf>>
        BY <3>1, MakeEffect
    <3> QED BY <2>4, <3>2
  <2>5. CASE /\ Goto("certs-end", "zookeeper")
             /\ secret' = [secret EXCEPT !["server"] = gen]
             /\ UNCHANGED <<gen, keystore, exists, started, conf, zuulConf>>
      BY <2>5
  <2> QED BY <1>3, <2>1, <2>2, <2>3, <2>4, <2>5 DEF EnsureZookeeperCertificates
<1>4. CASE DeployZookeeper
    BY <1>4 DEF DeployZookeeper
<1>5. CASE DeployClients
    BY <1>5 DEF DeployClients
<1> QED BY <1>1, <1>2, <1>3, <1>4, <1>5 DEF Deploy

\* So does everything around the command, while projects are added to Zuul
\* only between commands.
LEMMA EnvironmentKeepsInv ==
    TypeOK /\ RotationInv /\ ~NewProjects /\ Environment => RotationInv'
<1> SUFFICES ASSUME TypeOK, RotationInv, ~NewProjects, Environment PROVE RotationInv'
    OBVIOUS
<1> USE DEF TypeOK, RotationInv, PasswordInv, ConfInv, RenewedInv, Renewed, RotatesAll,
            KeystoreKept, cluster
<1>1. ASSUME NEW cmd \in {"deploy", "rotate"}, Begin(cmd) PROVE RotationInv'
    BY <1>1 DEF Begin
<1>2. CASE Crash
    BY <1>2 DEF Crash
<1>3. ASSUME NEW s \in Services, Up(s) PROVE RotationInv'
    BY <1>3 DEF Up
<1>4. CASE AddKeys
    BY <1>4 DEF AddKeys
<1>5. ASSUME NEW s \in UserDeletes, UserDelete(s) PROVE RotationInv'
    BY <1>5, UserAssumption DEF UserDelete, Delete
<1> QED BY <1>1, <1>2, <1>3, <1>4, <1>5 DEF Environment

\* The inductive invariant holds however many commands are run and killed.
THEOREM RotationInvariant == ~NewProjects => (Spec => [](TypeOK /\ RotationInv))
<1> SUFFICES ASSUME ~NewProjects PROVE Spec => [](TypeOK /\ RotationInv)
    OBVIOUS
<1>1. Init => TypeOK /\ RotationInv
    BY BoundsAssumption DEF Init, TypeOK, RotationInv, PasswordInv, ConfInv, RenewedInv,
                            Renewed, RotatesAll, KeystoreKept
<1>2. TypeOK /\ RotationInv /\ [Next]_vars => (TypeOK /\ RotationInv)'
  <2> SUFFICES ASSUME TypeOK, RotationInv, [Next]_vars PROVE RotationInv'
      BY StepType
  <2>1. CASE UNCHANGED vars
      BY <2>1 DEF vars, cluster, RotationInv, PasswordInv, ConfInv, RenewedInv, Renewed,
                  RotatesAll, KeystoreKept
  <2> QED BY <2>1, RotateKeepsInv, DeployKeepsInv, EnvironmentKeepsInv DEF Next
<1> QED BY <1>1, <1>2, PTL DEF Spec

\* rotate-secrets never loses the password of a key in ZooKeeper, wherever it
\* is killed and however often it is run again.
THEOREM PasswordsAreKept == ~NewProjects => (Spec => []KeystoreKept)
<1> SUFFICES ASSUME ~NewProjects PROVE Spec => []KeystoreKept
    OBVIOUS
<1>1. RotationInv => KeystoreKept
    BY DEF RotationInv, PasswordInv
<1> QED BY <1>1, RotationInvariant, PTL

\* When rotate-secrets succeeds, every secret it is documented to rotate is
\* new, and so is the password of every key, whatever the commands before left.
THEOREM RotationIsComplete == ~NewProjects => (Spec => []RotatesAll)
<1> SUFFICES ASSUME ~NewProjects PROVE Spec => []RotatesAll
    OBVIOUS
<1>1. RotationInv => RotatesAll
    BY DEF RotationInv
<1> QED BY <1>1, RotationInvariant, PTL

-----------------------------------------------------------------------------
(* That a successful command leaves services that agree with the secrets, if  *)
(* one command was killed at most and no one deletes the server's certificate. *)

\* ZooKeeper is gone, and Zuul has no pod.
Dark == /\ "zookeeper" \notin exists
        /\ started["zookeeper"] = 0 /\ started["zuul"] = 0

\* The points of rotate-secrets after nukeZK.
AfterNuke == {"auth", "auth-new", "db", "tls", "tls-server", "restart"}

\* How far the certificates are: with both, they are of one authority and no one
\* runs with another; a pass that makes them again does so in the dark; and a
\* pass that was killed between the two has left nothing behind that could start
\* with the first.
CertificatesInv ==
    LET client == secret["client"]
        server == secret["server"]
    IN  /\ client # 0 /\ server # 0 =>
              /\ server = client
              /\ started["zookeeper"] \in {0, client} /\ started["zuul"] \in {0, client}
        /\ client # 0 /\ server = 0 /\ pc # "certs-end" =>
              crashes # 0 /\ Dark /\ "zuul" \notin exists
        /\ pc \in {"tls-server", "restart", "certs-server", "certs-client"} => client = 0
        /\ pc = "restart" => server = 0
        /\ pc \in {"secrets", "certs", "certs-server", "certs-client"} /\ client = 0 => Dark
        /\ pc \in {"certs-client", "certs-end"} => server = 0
        /\ pc = "certs-end" => /\ client = gen
                               /\ "zookeeper" \notin exists /\ started["zookeeper"] = 0
                               /\ started["zuul"] \in {0, client}
        /\ pc = "clients" \/ outcome = "ok" =>
              client # 0 /\ server # 0 /\ started["zookeeper"] # 0

\* There is no pod without its StatefulSet or Deployment.
PodInv == "zuul" \notin exists => started["zuul"] = 0

\* Before the first kill, Zuul has no pod only while deploy waits for it or after
\* it was deleted with its StatefulSet: nukeZK spares nothing.
SparedInv == crashes = 0 =>
    /\ pc \in AfterNuke \cup {"certs-server", "certs-client", "certs-end"} => "zuul" \notin exists
    /\ pc \in {"secrets", "certs"} /\ secret["client"] = 0 => "zuul" \notin exists
    /\ pc \notin DeployPCs \/ secret["client"] = 0 =>
          ("zuul" \in exists => started["zuul"] # 0)

ConsistencyInv == ConfInv /\ PodInv /\ CertificatesInv /\ SparedInv

\* A step of rotate-secrets keeps it.
LEMMA RotateKeepsConsistency == TypeOK /\ ConsistencyInv /\ Rotate => ConsistencyInv'
<1> SUFFICES ASSUME TypeOK, ConsistencyInv, Rotate PROVE ConsistencyInv'
    OBVIOUS
<1> USE DEF TypeOK, ConsistencyInv, ConfInv, PodInv, CertificatesInv, SparedInv, Dark, AfterNuke,
            Goto, Fail, cluster
<1>1. CASE RotateKeystorePassword
  <2>1. CASE Fail("keystore")
      BY <2>1
  <2>2. CASE Goto("keystore", "exec") /\ Make({"keystore-new"})
    <3>1. PICK S \in SUBSET Secrets : S = {"keystore-new"} /\ Make(S)
        BY <2>2
    <3>2. /\ \A s \in ZuulSecrets \cup Certificates : secret'[s] = secret[s]
          /\ UNCHANGED <<exists, started, conf, zuulConf>>
        BY <3>1, MakeEffect
    <3> QED BY <2>2, <3>2
  <2> QED BY <1>1, <2>1, <2>2 DEF RotateKeystorePassword
<1>2. CASE RotateKeystore
    BY <1>2 DEF RotateKeystore
<1>3. CASE UpdateKeystoreSecret
    BY <1>3 DEF UpdateKeystoreSecret
<1>4. CASE DeleteNewPassword
    BY <1>4 DEF DeleteNewPassword, Delete
<1>5. CASE KillClients
    BY <1>5 DEF KillClients, NukeZK
<1>6. CASE RotateZuulAuthenticatorSecret
  <2>1. CASE Fail("auth")
      BY <2>1
  <2>2. CASE Goto("auth", "auth-new") /\ Delete("auth")
      BY <2>2 DEF Delete
  <2>3. CASE Goto("auth-new", "db") /\ Make({"auth"})
    <3>1. PICK S \in SUBSET Secrets : S = {"auth"} /\ Make(S)
        BY <2>3
    <3>2. /\ \A s \in Secrets \ {"auth"} : secret'[s] = secret[s]
          /\ UNCHANGED <<exists, started, conf, zuulConf>>
        BY <3>1, MakeEffect
    <3> QED BY <2>3, <3>2
  <2> QED BY <1>6, <2>1, <2>2, <2>3 DEF RotateZuulAuthenticatorSecret
<1>7. CASE RotateZuulDBConnectionSecret
    BY <1>7 DEF RotateZuulDBConnectionSecret, Delete
<1>8. CASE RotateZookeeperTLSSecrets
    BY <1>8 DEF RotateZookeeperTLSSecrets, Delete
<1>9. CASE RestartPods
    BY <1>9 DEF RestartPods
<1> QED BY <1>1, <1>2, <1>3, <1>4, <1>5, <1>6, <1>7, <1>8, <1>9 DEF Rotate

\* A step of deploy keeps it: the certificates are made again in the dark.
LEMMA DeployKeepsConsistency == TypeOK /\ ConsistencyInv /\ Deploy => ConsistencyInv'
<1> SUFFICES ASSUME TypeOK, ConsistencyInv, Deploy PROVE ConsistencyInv'
    OBVIOUS
<1> USE DEF TypeOK, ConsistencyInv, ConfInv, PodInv, CertificatesInv, SparedInv, Dark, AfterNuke,
            Goto, Fail, cluster
<1>1. CASE Cleanup
    BY <1>1 DEF Cleanup, NukeZK
<1>2. CASE EnsureSecrets
  <2>1. CASE \E s \in ZuulSecrets : secret[s] = 0
    <3>1. PICK S \in SUBSET Secrets : S = ZuulSecrets /\ Make(S)
        BY <1>2, <2>1 DEF EnsureSecrets
    <3>2. /\ \A s \in Secrets \ ZuulSecrets : secret'[s] = secret[s]
          /\ \A s \in ZuulSecrets : secret'[s] # 0
          /\ UNCHANGED <<exists, started, conf, zuulConf>>
        BY <3>1, MakeEffect
    <3>3. pc = "secrets" /\ pc' = "certs" /\ UNCHANGED <<outcome, crashes>>
        BY <1>2 DEF EnsureSecrets
    <3> QED BY <3>2, <3>3
  <2>2. CASE ~ \E s \in ZuulSecrets : secret[s] = 0
      BY <1>2, <2>2 DEF EnsureSecrets
  <2> QED BY <2>1, <2>2
<1>3. CASE EnsureZookeeperCertificates
  <2>1. CASE Goto("certs", "zookeeper") /\ UNCHANGED cluster /\ \A s \in Certificates : secret[s] # 0
      BY <2>1
  <2>2. CASE /\ Goto("certs", "certs-server") /\ Delete("client")
             /\ \E s \in Certificates : secret[s] = 0
      BY <2>2 DEF Delete
  <2>3. CASE Goto("certs-server", "certs-client") /\ Delete("server")
      BY <2>3 DEF Delete
  <2>4. CASE Goto("certs-client", "certs-end") /\ Make({"client"})
    <3>1. PICK S \in SUBSET Secrets : S = {"client"} /\ Make(S)
        BY <2>4
    <3>2. /\ gen' = gen + 1 /\ secret'["client"] = gen + 1
          /\ \A s \in Secrets \ {"client"} : secret'[s] = secret[s]
          /\ UNCHANGED <<exists, started, conf, zuulConf>>
        BY <2>4, <3>1, MakeEffect
    <3> QED BY <2>4, <3>2
  <2>5. CASE /\ Goto("certs-end", "zookeeper")
             /\ secret' = [secret EXCEPT !["server"] = gen]
             /\ UNCHANGED <<gen, keystore, exists, started, conf, zuulConf>>
      BY <2>5
  <2> QED BY <1>3, <2>1, <2>2, <2>3, <2>4, <2>5 DEF EnsureZookeeperCertificates
<1>4. CASE DeployZookeeper
    BY <1>4 DEF DeployZookeeper
<1>5. CASE DeployClients
    BY <1>5 DEF DeployClients
<1> QED BY <1>1, <1>2, <1>3, <1>4, <1>5 DEF Deploy

\* So does everything around the command, up to the first kill.
LEMMA EnvironmentKeepsConsistency ==
    ASSUME MaxCrashes <= 1, "server" \notin UserDeletes,
           TypeOK, ConsistencyInv, Environment
    PROVE  ConsistencyInv'
<1> USE BoundsAssumption DEF TypeOK, ConsistencyInv, ConfInv, PodInv, CertificatesInv, SparedInv, Dark,
                             AfterNuke, cluster
<1>1. ASSUME NEW cmd \in {"deploy", "rotate"}, Begin(cmd) PROVE ConsistencyInv'
    BY <1>1 DEF Begin
<1>2. CASE Crash
  <2>1. /\ crashes = 0 /\ crashes' = 1 /\ pc # "idle" /\ pc' = "idle" /\ outcome' = "crashed"
        /\ UNCHANGED cluster
      BY <1>2 DEF Crash
  <2>2. ConfInv'
      BY <2>1
  <2>3. SparedInv' /\ PodInv'
      BY <2>1
  <2>4. CertificatesInv'
    <3>1. CASE pc = "certs-end"
        BY <2>1, <3>1
    <3>2. CASE pc # "certs-end"
        BY <2>1, <3>2
    <3> QED BY <3>1, <3>2
  <2> QED BY <2>2, <2>3, <2>4
<1>3. ASSUME NEW s \in Services, Up(s) PROVE ConsistencyInv'
    BY <1>3 DEF Up
<1>4. CASE AddKeys
    BY <1>4 DEF AddKeys
<1>5. ASSUME NEW s \in UserDeletes, UserDelete(s) PROVE ConsistencyInv'
    BY <1>5, UserAssumption DEF UserDelete, Delete
<1> QED BY <1>1, <1>2, <1>3, <1>4, <1>5 DEF Environment

\* After a command that succeeds ZooKeeper and Zuul run with certificates of one
\* authority, and Zuul with the zuul.conf that the secrets call for: for any
\* number of commands and of secrets deleted by hand, projects added or not, as
\* long as no more than one command is killed and the server's certificate is not
\* among what users delete.
THEOREM SuccessAgrees ==
    MaxCrashes <= 1 /\ "server" \notin UserDeletes => (Spec => []SuccessIsConsistent)
<1> SUFFICES ASSUME MaxCrashes <= 1, "server" \notin UserDeletes
             PROVE  Spec => []SuccessIsConsistent
    OBVIOUS
<1>1. Init => TypeOK /\ ConsistencyInv
    BY BoundsAssumption DEF Init, TypeOK, ConsistencyInv, ConfInv, PodInv, CertificatesInv, SparedInv,
                            AfterNuke
<1>2. TypeOK /\ ConsistencyInv /\ [Next]_vars => (TypeOK /\ ConsistencyInv)'
  <2> SUFFICES ASSUME TypeOK, ConsistencyInv, [Next]_vars PROVE ConsistencyInv'
      BY StepType
  <2>1. CASE UNCHANGED vars
      BY <2>1 DEF vars, cluster, ConsistencyInv, ConfInv, PodInv, CertificatesInv, SparedInv, Dark
  <2> QED BY <2>1, RotateKeepsConsistency, DeployKeepsConsistency, EnvironmentKeepsConsistency
          DEF Next
<1>3. TypeOK /\ ConsistencyInv => SuccessIsConsistent
  <2> SUFFICES ASSUME TypeOK, ConsistencyInv, outcome = "ok" PROVE SuccessIsConsistent
      BY DEF SuccessIsConsistent
  <2>1. /\ started["zookeeper"] = secret["server"] /\ secret["server"] = secret["client"]
        /\ started["zuul"] \in {0, secret["client"]}
      BY DEF ConsistencyInv, CertificatesInv, TypeOK
  <2>2. started["zuul"] # 0 => zuulConf = [s \in ZuulSecrets |-> secret[s]]
      BY DEF ConsistencyInv, ConfInv, TypeOK
  <2> QED BY <2>1, <2>2 DEF SuccessIsConsistent
<1> QED BY <1>1, <1>2, <1>3, PTL DEF Spec
=============================================================================
