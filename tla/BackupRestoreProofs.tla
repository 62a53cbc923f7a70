------------------------ MODULE BackupRestoreProofs ------------------------
(***************************************************************************)
(* Proofs about BackupRestore, for any number of commands, of commands cut *)
(* short and of builds.  Each result excludes the mishaps that break it,   *)
(* and no other.                                                           *)
(***************************************************************************)
EXTENDS BackupRestore, TLAPS

USE DEF OperatorSecrets, Secrets, Commands, BackupPCs, RestorePCs, WipePCs, DeployPCs,
        Keystore, NoKeys

-----------------------------------------------------------------------------
(* The inductive invariant, in four layers. *)

\* Whose step it is, and how far the command has come.
ControlInv ==
    /\ outcome # "none" => pc = "idle"
    /\ pc \in BackupPCs => command = "backup" /\ backup \in {"first", "mixed"}
    /\ pc \in RestorePCs => command = "restore"
    /\ pc \in WipePCs => command = "wipe"
    /\ pc \in DeployPCs => command \in {"deploy", "restore"}

\* The owner exists while things are made that belong to it; Zuul only runs where
\* it does; the operator's secrets always have one; a dump of the database is
\* the last file of a backup.
OwnerInv ==
    /\ pc \in (RestorePCs \ {"restore-owner"}) \cup {"secrets", "services"} => owner # 0
    /\ outcome = "ok" /\ command \in {"deploy", "restore"} => owner # 0
    /\ zuul => owner # 0
    /\ pc \in (RestorePCs \ {"restore-owner"}) \cup {"wipe-owner"} => ~zuul
    /\ \A s \in OperatorSecrets : secret[s] # 0 => ownedBy[s] # 0
    /\ backup \in {"none", "first"} => "db" \notin archive.files

BaseInv == TypeOK /\ ControlInv /\ OwnerInv

\* Without "gc-lag": nothing that a restore or a deploy finds is about to be deleted.
GarbageInv == owner # 0 \/ pc \in {"owner", "restore-owner"} => ~Garbage

\* Then a restore finds none of the operator's secrets, and brings them back in
\* turn, then the keys, then the builds.
AtOrAfter(pcs) == pc \in pcs \/ (command = "restore" /\ (pc \in DeployPCs \/ outcome = "ok"))

RestoreInv ==
    /\ pc = "restore-owner" => todo = Secrets
    /\ pc = "restore-secrets" => \A s \in OperatorSecrets :
          IF s \in todo THEN secret[s] = 0
                        ELSE secret[s] = archive.secret[s] /\ secret[s] # 0
    /\ AtOrAfter({"backends", "import-keys", "drop-db", "load-db"}) =>
          \A s \in OperatorSecrets : secret[s] = archive.secret[s] /\ secret[s] # 0
    /\ AtOrAfter({"drop-db", "load-db"}) => (archive.keys.key # 0 => keys = archive.keys)
    /\ AtOrAfter({}) => "db" \in archive.files /\ archive.builds \subseteq builds

\* Without "keep-data": no owner is made over the data of another.
DataInv ==
    /\ pc \in {"owner", "restore-owner"} /\ owner = 0 => keys = NoKeys /\ builds = {}
    /\ pc \in {"restore-secrets", "backends", "import-keys"} => keys = NoKeys /\ builds = {}
    /\ pc \in {"drop-db", "load-db"} => builds = {}

\* Without any mishap: where there is an owner, the keys are encrypted with the
\* password in the secret, which is also the one that Zuul has.
PasswordInv ==
    /\ owner # 0 /\ keys.key # 0 => keys.pw = secret["keystore"] /\ secret["keystore"] # 0
    /\ zuul => conf = secret["keystore"] /\ secret["keystore"] # 0
    /\ pc \in RestorePCs => backup # "mixed"

\* And the password is saved before the keys, and not changed in between.
ArchiveInv ==
    /\ ArchiveReadable
    /\ pc \in BackupPCs /\ "keystore" \notin todo =>
          owner # 0 /\ archive.secret["keystore"] = secret["keystore"]
    /\ pc = "save-db" => Readable(archive.keys, archive.secret["keystore"])
    /\ backup = "none" \/ (backup = "first" /\ pc \in {"save-secrets", "save-keys"}) =>
          archive.keys = NoKeys

-----------------------------------------------------------------------------
(* Layer by layer, what a step keeps. *)

\* A step of the commands or of what is around them keeps the types.
LEMMA TypeStep ==
    TypeOK /\ [Next]_vars => TypeOK'
<1> SUFFICES ASSUME TypeOK, [Next]_vars
             PROVE  TypeOK'
  OBVIOUS
<1> USE DEF Goto, End, Fail, objects, data, counts, TypeOK
<1>1. CASE SaveSecret
  BY <1>1 DEF SaveSecret
<1>2. CASE SaveKeys
  <2>1. CASE ~KazooConnects /\ Fail("save-keys")
    BY <2>1
  <2>2. CASE ~(~KazooConnects /\ Fail("save-keys"))
    <3>1. archive' = [archive EXCEPT !.keys = keys, !.files = @ \cup {"keys"}]
      BY <1>2, <2>2 DEF SaveKeys
    <3>2. /\ Goto("save-keys", "save-db")
          /\ UNCHANGED <<objects, data, todo, backup, gen>>
      BY <1>2, <2>2 DEF SaveKeys
    <3> QED BY <3>1, <3>2
  <2> QED BY <2>1, <2>2
<1>3. CASE SaveDB
  BY <1>3 DEF SaveDB
<1>4. CASE RestoreOwner
  <2>1. CASE owner # 0
    BY <1>4, <2>1 DEF RestoreOwner
  <2>2. CASE owner = 0
    <3>1. owner' = gen + 1 /\ gen' = gen + 1
      BY <1>4, <2>2 DEF RestoreOwner, EnsureStandaloneOwner
    <3>2. /\ Goto("restore-owner", "restore-secrets")
          /\ UNCHANGED <<secret, ownedBy, zuul, conf, data, archive, todo, backup>>
      BY <1>4, <2>2 DEF RestoreOwner
    <3> QED BY <3>1, <3>2
  <2> QED BY <2>1, <2>2
<1>5. CASE RestoreSecret
  <2>1. CASE Fail("restore-secrets")
    BY <2>1
  <2>2. ASSUME NEW s \in todo,
               Goto("restore-secrets", IF todo = {s} THEN "backends" ELSE "restore-secrets"),
               CreateR({s}, archive.secret),
               todo' = todo \ {s},
               UNCHANGED <<owner, zuul, conf, data, archive, backup, gen>>
        PROVE  TypeOK'
    BY <2>2 DEF CreateR
  <2> QED BY <1>5, <2>1, <2>2 DEF RestoreSecret
<1>6. CASE DeployBackends
  BY <1>6 DEF DeployBackends, EnsureSecrets, CreateR
<1>7. CASE ImportKeys
  BY <1>7 DEF ImportKeys
<1>8. CASE DropDB
  BY <1>8 DEF DropDB
<1>9. CASE LoadDB
  BY <1>9 DEF LoadDB
<1>10. CASE NukeZK
  BY <1>10 DEF NukeZK
<1>11. CASE WipeOwner
  BY <1>11 DEF WipeOwner
<1>12. CASE WipeServices
  BY <1>12 DEF WipeServices
<1>13. CASE CleanPVCs
  <2>1. keys' \in Keystore /\ builds' \subseteq Nat
    <3>1. CASE keys' = NoKeys /\ builds' = {}
      BY <3>1
    <3>2. CASE UNCHANGED data
      BY <3>2
    <3> QED BY <1>13, <3>1, <3>2 DEF CleanPVCs
  <2> QED BY <1>13, <2>1 DEF CleanPVCs
<1>14. CASE DeployOwner
  BY <1>14 DEF DeployOwner, EnsureStandaloneOwner
<1>15. CASE DeploySecrets
  <2>1. CASE Fail("secrets")
    BY <2>1
  <2>2. CASE ~Fail("secrets")
    <3>1. /\ Goto("secrets", "services")
          /\ EnsureSecrets(OperatorSecrets)
          /\ UNCHANGED <<owner, zuul, conf, data, archive, todo, backup>>
      BY <1>15, <2>2 DEF DeploySecrets
    <3> QED BY <3>1 DEF EnsureSecrets, CreateR
  <2> QED BY <2>1, <2>2
<1>16. CASE DeployServices
  BY <1>16 DEF DeployServices
<1>17. ASSUME NEW cmd \in Commands, Begin(cmd) PROVE TypeOK'
  BY <1>17, BoundsAssumption DEF Begin, FirstPC
<1>18. CASE Crash
  BY <1>18, BoundsAssumption DEF Crash
<1>19. ASSUME NEW s \in Secrets, CollectSecret(s) PROVE TypeOK'
  BY <1>19 DEF CollectSecret, Dangling
<1>20. CASE Work
  BY <1>20 DEF Work
<1>21. CASE RotateSecrets
  BY <1>21, BoundsAssumption DEF RotateSecrets
<1>22. CASE ProvideSecret
  BY <1>22 DEF ProvideSecret
<1>23. CASE UNCHANGED vars
  BY <1>23 DEF vars
<1> QED BY <1>1, <1>2, <1>3, <1>4, <1>5, <1>6, <1>7, <1>8, <1>9, <1>10, <1>11, <1>12,
          <1>13, <1>14, <1>15, <1>16, <1>17, <1>18, <1>19, <1>20, <1>21, <1>22, <1>23
       DEF Next, Backup, Restore, Wipe, Deploy, Environment

\* It keeps the control state in order.
LEMMA ControlStep ==
    TypeOK /\ ControlInv /\ [Next]_vars => ControlInv'
<1> SUFFICES ASSUME TypeOK /\ ControlInv, [Next]_vars
             PROVE  ControlInv'
  OBVIOUS
<1> USE DEF Goto, End, Fail, objects, data, counts, TypeOK, ControlInv
<1>1. CASE SaveSecret
  BY <1>1 DEF SaveSecret
<1>2. CASE SaveKeys
  BY <1>2 DEF SaveKeys, KazooConnects
<1>3. CASE SaveDB
  BY <1>3 DEF SaveDB
<1>4. CASE RestoreOwner
  BY <1>4 DEF RestoreOwner, EnsureStandaloneOwner
<1>5. CASE RestoreSecret
  BY <1>5 DEF RestoreSecret, CreateR
<1>6. CASE DeployBackends
  BY <1>6 DEF DeployBackends, EnsureSecrets, CreateR
<1>7. CASE ImportKeys
  BY <1>7 DEF ImportKeys
<1>8. CASE DropDB
  BY <1>8 DEF DropDB
<1>9. CASE LoadDB
  BY <1>9 DEF LoadDB
<1>10. CASE NukeZK
  BY <1>10 DEF NukeZK
<1>11. CASE WipeOwner
  BY <1>11 DEF WipeOwner
<1>12. CASE WipeServices
  BY <1>12 DEF WipeServices
<1>13. CASE CleanPVCs
  BY <1>13 DEF CleanPVCs
<1>14. CASE DeployOwner
  BY <1>14 DEF DeployOwner, EnsureStandaloneOwner
<1>15. CASE DeploySecrets
  BY <1>15 DEF DeploySecrets, EnsureSecrets, CreateR
<1>16. CASE DeployServices
  BY <1>16 DEF DeployServices
<1>17. ASSUME NEW cmd \in Commands, Begin(cmd) PROVE ControlInv'
  BY <1>17 DEF Begin, FirstPC
<1>18. CASE Crash
  BY <1>18 DEF Crash
<1>19. ASSUME NEW s \in Secrets, CollectSecret(s) PROVE ControlInv'
  BY <1>19 DEF CollectSecret, Dangling
<1>20. CASE Work
  BY <1>20 DEF Work
<1>21. CASE RotateSecrets
  BY <1>21 DEF RotateSecrets
<1>22. CASE ProvideSecret
  BY <1>22 DEF ProvideSecret
<1>23. CASE UNCHANGED vars
  BY <1>23 DEF vars
<1> QED BY <1>1, <1>2, <1>3, <1>4, <1>5, <1>6, <1>7, <1>8, <1>9, <1>10, <1>11, <1>12,
          <1>13, <1>14, <1>15, <1>16, <1>17, <1>18, <1>19, <1>20, <1>21, <1>22, <1>23
       DEF Next, Backup, Restore, Wipe, Deploy, Environment

\* It keeps the operator's secrets owned, and Zuul where an owner is.
LEMMA OwnerStep ==
    BaseInv /\ [Next]_vars => OwnerInv'
<1> SUFFICES ASSUME BaseInv, [Next]_vars
             PROVE  OwnerInv'
  OBVIOUS
<1> USE DEF Goto, End, Fail, objects, data, counts, BaseInv, TypeOK, ControlInv, OwnerInv
<1>1. CASE SaveSecret
  BY <1>1 DEF SaveSecret
<1>2. CASE SaveKeys
  <2>1. CASE ~KazooConnects /\ Fail("save-keys")
    BY <2>1
  <2>2. CASE ~(~KazooConnects /\ Fail("save-keys"))
    <3>1. archive' = [archive EXCEPT !.keys = keys, !.files = @ \cup {"keys"}]
      BY <1>2, <2>2 DEF SaveKeys
    <3>2. /\ Goto("save-keys", "save-db")
          /\ UNCHANGED <<objects, data, todo, backup, gen>>
      BY <1>2, <2>2 DEF SaveKeys
    <3> QED BY <3>1, <3>2
  <2> QED BY <2>1, <2>2
<1>3. CASE SaveDB
  BY <1>3 DEF SaveDB
<1>4. CASE RestoreOwner
  BY <1>4 DEF RestoreOwner, EnsureStandaloneOwner
<1>5. CASE RestoreSecret
  BY <1>5 DEF RestoreSecret, CreateR
<1>6. CASE DeployBackends
  BY <1>6 DEF DeployBackends, EnsureSecrets, CreateR
<1>7. CASE ImportKeys
  BY <1>7 DEF ImportKeys
<1>8. CASE DropDB
  BY <1>8 DEF DropDB
<1>9. CASE LoadDB
  BY <1>9 DEF LoadDB
<1>10. CASE NukeZK
  BY <1>10 DEF NukeZK
<1>11. CASE WipeOwner
  BY <1>11 DEF WipeOwner
<1>12. CASE WipeServices
  BY <1>12 DEF WipeServices
<1>13. CASE CleanPVCs
  BY <1>13 DEF CleanPVCs
<1>14. CASE DeployOwner
  BY <1>14 DEF DeployOwner, EnsureStandaloneOwner
<1>15. CASE DeploySecrets
  BY <1>15 DEF DeploySecrets, EnsureSecrets, CreateR
<1>16. CASE DeployServices
  BY <1>16 DEF DeployServices
<1>17. ASSUME NEW cmd \in Commands, Begin(cmd) PROVE OwnerInv'
  BY <1>17 DEF Begin, FirstPC
<1>18. CASE Crash
  BY <1>18 DEF Crash
<1>19. ASSUME NEW s \in Secrets, CollectSecret(s) PROVE OwnerInv'
  BY <1>19 DEF CollectSecret, Dangling
<1>20. CASE Work
  BY <1>20 DEF Work
<1>21. CASE RotateSecrets
  BY <1>21 DEF RotateSecrets
<1>22. CASE ProvideSecret
  BY <1>22 DEF ProvideSecret
<1>23. CASE UNCHANGED vars
  BY <1>23 DEF vars
<1> QED BY <1>1, <1>2, <1>3, <1>4, <1>5, <1>6, <1>7, <1>8, <1>9, <1>10, <1>11, <1>12,
          <1>13, <1>14, <1>15, <1>16, <1>17, <1>18, <1>19, <1>20, <1>21, <1>22, <1>23
       DEF Next, Backup, Restore, Wipe, Deploy, Environment

\* Without "gc-lag", nothing dangles where an owner is or is about to be.
LEMMA GarbageStep ==
    "gc-lag" \notin Mishaps /\ BaseInv /\ GarbageInv /\ [Next]_vars => GarbageInv'
<1> SUFFICES ASSUME "gc-lag" \notin Mishaps /\ BaseInv /\ GarbageInv, [Next]_vars
             PROVE  GarbageInv'
  OBVIOUS
<1> USE DEF Goto, End, Fail, objects, data, counts, BaseInv, TypeOK, ControlInv, OwnerInv,
            GarbageInv, Garbage, Dangling
<1>1. CASE SaveSecret
  BY <1>1 DEF SaveSecret
<1>2. CASE SaveKeys
  BY <1>2 DEF SaveKeys, KazooConnects
<1>3. CASE SaveDB
  BY <1>3 DEF SaveDB
<1>4. CASE RestoreOwner
  BY <1>4 DEF RestoreOwner, EnsureStandaloneOwner
<1>5. CASE RestoreSecret
  BY <1>5 DEF RestoreSecret, CreateR
<1>6. CASE DeployBackends
  BY <1>6 DEF DeployBackends, EnsureSecrets, CreateR
<1>7. CASE ImportKeys
  BY <1>7 DEF ImportKeys
<1>8. CASE DropDB
  BY <1>8 DEF DropDB
<1>9. CASE LoadDB
  BY <1>9 DEF LoadDB
<1>10. CASE NukeZK
  BY <1>10 DEF NukeZK
<1>11. CASE WipeOwner
  BY <1>11 DEF WipeOwner
<1>12. CASE WipeServices
  BY <1>12 DEF WipeServices
<1>13. CASE CleanPVCs
  BY <1>13 DEF CleanPVCs
<1>14. CASE DeployOwner
  BY <1>14 DEF DeployOwner, EnsureStandaloneOwner
<1>15. CASE DeploySecrets
  BY <1>15 DEF DeploySecrets, EnsureSecrets, CreateR
<1>16. CASE DeployServices
  BY <1>16 DEF DeployServices
<1>17. ASSUME NEW cmd \in Commands, Begin(cmd) PROVE GarbageInv'
  BY <1>17 DEF Begin, FirstPC
<1>18. CASE Crash
  BY <1>18 DEF Crash
<1>19. ASSUME NEW s \in Secrets, CollectSecret(s) PROVE GarbageInv'
  BY <1>19 DEF CollectSecret, Dangling
<1>20. CASE Work
  BY <1>20 DEF Work
<1>21. CASE RotateSecrets
  BY <1>21 DEF RotateSecrets
<1>22. CASE ProvideSecret
  BY <1>22 DEF ProvideSecret
<1>23. CASE UNCHANGED vars
  BY <1>23 DEF vars
<1> QED BY <1>1, <1>2, <1>3, <1>4, <1>5, <1>6, <1>7, <1>8, <1>9, <1>10, <1>11, <1>12,
          <1>13, <1>14, <1>15, <1>16, <1>17, <1>18, <1>19, <1>20, <1>21, <1>22, <1>23
       DEF Next, Backup, Restore, Wipe, Deploy, Environment

\* Then a restore finds and leaves what RestoreInv says.
LEMMA RestoreStep ==
    "gc-lag" \notin Mishaps /\ BaseInv /\ GarbageInv /\ RestoreInv /\ [Next]_vars => RestoreInv'
<1> SUFFICES ASSUME "gc-lag" \notin Mishaps /\ BaseInv /\ GarbageInv /\ RestoreInv, [Next]_vars
             PROVE  RestoreInv'
  OBVIOUS
<1> USE DEF Goto, End, Fail, objects, data, counts, BaseInv, TypeOK, ControlInv, OwnerInv,
            GarbageInv, Garbage, Dangling, RestoreInv, AtOrAfter
<1>1. CASE SaveSecret
  BY <1>1 DEF SaveSecret
<1>2. CASE SaveKeys
  BY <1>2 DEF SaveKeys, KazooConnects
<1>3. CASE SaveDB
  BY <1>3 DEF SaveDB
<1>4. CASE RestoreOwner
  BY <1>4 DEF RestoreOwner, EnsureStandaloneOwner
<1>5. CASE RestoreSecret
  <2>1. CASE Fail("restore-secrets")
    BY <2>1
  <2>2. ASSUME NEW s \in todo,
               archive.secret[s] # 0,
               Goto("restore-secrets", IF todo = {s} THEN "backends" ELSE "restore-secrets"),
               CreateR({s}, archive.secret),
               todo' = todo \ {s},
               UNCHANGED <<owner, zuul, conf, data, archive, backup, gen>>
        PROVE  RestoreInv'
    <3>1. \A o \in OperatorSecrets :
             IF o \in todo' THEN secret'[o] = 0
                            ELSE secret'[o] = archive.secret[o] /\ secret'[o] # 0
      BY <2>2 DEF CreateR
    <3>2. archive' = archive /\ command' = command /\ outcome' = outcome /\ outcome = "none"
      BY <2>2
    <3>3. CASE todo = {s}
      <4>1. pc' = "backends" /\ todo' = {}
        BY <2>2, <3>3
      <4> QED BY <3>1, <3>2, <4>1
    <3>4. CASE todo # {s}
      <4>1. pc' = "restore-secrets"
        BY <2>2, <3>4
      <4> QED BY <3>1, <3>2, <4>1
    <3> QED BY <3>3, <3>4
  <2> QED BY <1>5, <2>1, <2>2 DEF RestoreSecret
<1>6. CASE DeployBackends
  BY <1>6 DEF DeployBackends, EnsureSecrets, CreateR
<1>7. CASE ImportKeys
  BY <1>7 DEF ImportKeys
<1>8. CASE DropDB
  BY <1>8 DEF DropDB
<1>9. CASE LoadDB
  BY <1>9 DEF LoadDB
<1>10. CASE NukeZK
  BY <1>10 DEF NukeZK
<1>11. CASE WipeOwner
  BY <1>11 DEF WipeOwner
<1>12. CASE WipeServices
  BY <1>12 DEF WipeServices
<1>13. CASE CleanPVCs
  BY <1>13 DEF CleanPVCs
<1>14. CASE DeployOwner
  BY <1>14 DEF DeployOwner, EnsureStandaloneOwner
<1>15. CASE DeploySecrets
  BY <1>15 DEF DeploySecrets, EnsureSecrets, CreateR
<1>16. CASE DeployServices
  BY <1>16 DEF DeployServices
<1>17. ASSUME NEW cmd \in Commands, Begin(cmd) PROVE RestoreInv'
  BY <1>17 DEF Begin, FirstPC
<1>18. CASE Crash
  BY <1>18 DEF Crash
<1>19. ASSUME NEW s \in Secrets, CollectSecret(s) PROVE RestoreInv'
  BY <1>19 DEF CollectSecret, Dangling
<1>20. CASE Work
  BY <1>20 DEF Work
<1>21. CASE RotateSecrets
  BY <1>21 DEF RotateSecrets
<1>22. CASE ProvideSecret
  BY <1>22 DEF ProvideSecret
<1>23. CASE UNCHANGED vars
  BY <1>23 DEF vars
<1> QED BY <1>1, <1>2, <1>3, <1>4, <1>5, <1>6, <1>7, <1>8, <1>9, <1>10, <1>11, <1>12,
          <1>13, <1>14, <1>15, <1>16, <1>17, <1>18, <1>19, <1>20, <1>21, <1>22, <1>23
       DEF Next, Backup, Restore, Wipe, Deploy, Environment

\* Without "keep-data", no owner is made over the data of another.
LEMMA DataStep ==
    "keep-data" \notin Mishaps /\ BaseInv /\ DataInv /\ [Next]_vars => DataInv'
<1> SUFFICES ASSUME "keep-data" \notin Mishaps /\ BaseInv /\ DataInv, [Next]_vars
             PROVE  DataInv'
  OBVIOUS
<1> USE DEF Goto, End, Fail, objects, data, counts, BaseInv, TypeOK, ControlInv, OwnerInv, DataInv
<1>1. CASE SaveSecret
  BY <1>1 DEF SaveSecret
<1>2. CASE SaveKeys
  BY <1>2 DEF SaveKeys, KazooConnects
<1>3. CASE SaveDB
  BY <1>3 DEF SaveDB
<1>4. CASE RestoreOwner
  BY <1>4 DEF RestoreOwner, EnsureStandaloneOwner
<1>5. CASE RestoreSecret
  BY <1>5 DEF RestoreSecret, CreateR
<1>6. CASE DeployBackends
  BY <1>6 DEF DeployBackends, EnsureSecrets, CreateR
<1>7. CASE ImportKeys
  BY <1>7 DEF ImportKeys
<1>8. CASE DropDB
  BY <1>8 DEF DropDB
<1>9. CASE LoadDB
  BY <1>9 DEF LoadDB
<1>10. CASE NukeZK
  BY <1>10 DEF NukeZK
<1>11. CASE WipeOwner
  BY <1>11 DEF WipeOwner
<1>12. CASE WipeServices
  BY <1>12 DEF WipeServices
<1>13. CASE CleanPVCs
  BY <1>13 DEF CleanPVCs
<1>14. CASE DeployOwner
  BY <1>14 DEF DeployOwner, EnsureStandaloneOwner
<1>15. CASE DeploySecrets
  BY <1>15 DEF DeploySecrets, EnsureSecrets, CreateR
<1>16. CASE DeployServices
  BY <1>16 DEF DeployServices
<1>17. ASSUME NEW cmd \in Commands, Begin(cmd) PROVE DataInv'
  BY <1>17 DEF Begin, FirstPC
<1>18. CASE Crash
  BY <1>18 DEF Crash
<1>19. ASSUME NEW s \in Secrets, CollectSecret(s) PROVE DataInv'
  BY <1>19 DEF CollectSecret, Dangling
<1>20. CASE Work
  BY <1>20 DEF Work
<1>21. CASE RotateSecrets
  BY <1>21 DEF RotateSecrets
<1>22. CASE ProvideSecret
  BY <1>22 DEF ProvideSecret
<1>23. CASE UNCHANGED vars
  BY <1>23 DEF vars
<1> QED BY <1>1, <1>2, <1>3, <1>4, <1>5, <1>6, <1>7, <1>8, <1>9, <1>10, <1>11, <1>12,
          <1>13, <1>14, <1>15, <1>16, <1>17, <1>18, <1>19, <1>20, <1>21, <1>22, <1>23
       DEF Next, Backup, Restore, Wipe, Deploy, Environment

\* Without any mishap, the keys of an owner's ZooKeeper stay readable.
LEMMA PasswordStep ==
    Mishaps = {} /\ BaseInv /\ GarbageInv /\ RestoreInv /\ DataInv /\ PasswordInv
    /\ ArchiveInv /\ [Next]_vars => PasswordInv'
<1> SUFFICES ASSUME Mishaps = {}, BaseInv, GarbageInv, RestoreInv, DataInv, PasswordInv,
                    ArchiveInv, [Next]_vars
             PROVE  PasswordInv'
  OBVIOUS
<1> USE DEF Goto, End, Fail, objects, data, counts, BaseInv, TypeOK, ControlInv, OwnerInv,
            GarbageInv, Garbage, Dangling, RestoreInv, AtOrAfter, DataInv, PasswordInv, ArchiveInv,
            ArchiveReadable, Readable
<1>1. CASE SaveSecret
  BY <1>1 DEF SaveSecret
<1>2. CASE SaveKeys
  BY <1>2 DEF SaveKeys, KazooConnects
<1>3. CASE SaveDB
  BY <1>3 DEF SaveDB
<1>4. CASE RestoreOwner
  BY <1>4 DEF RestoreOwner, EnsureStandaloneOwner
<1>5. CASE RestoreSecret
  BY <1>5 DEF RestoreSecret, CreateR
<1>6. CASE DeployBackends
  BY <1>6 DEF DeployBackends, EnsureSecrets, CreateR
<1>7. CASE ImportKeys
  BY <1>7 DEF ImportKeys
<1>8. CASE DropDB
  BY <1>8 DEF DropDB
<1>9. CASE LoadDB
  BY <1>9 DEF LoadDB
<1>10. CASE NukeZK
  BY <1>10 DEF NukeZK
<1>11. CASE WipeOwner
  BY <1>11 DEF WipeOwner
<1>12. CASE WipeServices
  BY <1>12 DEF WipeServices
<1>13. CASE CleanPVCs
  BY <1>13 DEF CleanPVCs
<1>14. CASE DeployOwner
  BY <1>14 DEF DeployOwner, EnsureStandaloneOwner
<1>15. CASE DeploySecrets
  BY <1>15 DEF DeploySecrets, EnsureSecrets, CreateR
<1>16. CASE DeployServices
  BY <1>16 DEF DeployServices
<1>17. ASSUME NEW cmd \in Commands, Begin(cmd) PROVE PasswordInv'
  BY <1>17 DEF Begin, FirstPC
<1>18. CASE Crash
  BY <1>18 DEF Crash
<1>19. ASSUME NEW s \in Secrets, CollectSecret(s) PROVE PasswordInv'
  BY <1>19 DEF CollectSecret, Dangling
<1>20. CASE Work
  BY <1>20 DEF Work
<1>21. CASE RotateSecrets
  BY <1>21 DEF RotateSecrets
<1>22. CASE ProvideSecret
  BY <1>22 DEF ProvideSecret
<1>23. CASE UNCHANGED vars
  BY <1>23 DEF vars
<1> QED BY <1>1, <1>2, <1>3, <1>4, <1>5, <1>6, <1>7, <1>8, <1>9, <1>10, <1>11, <1>12,
          <1>13, <1>14, <1>15, <1>16, <1>17, <1>18, <1>19, <1>20, <1>21, <1>22, <1>23
       DEF Next, Backup, Restore, Wipe, Deploy, Environment

\* And so do those of the archive.
LEMMA ArchiveStep ==
    Mishaps = {} /\ BaseInv /\ GarbageInv /\ PasswordInv /\ ArchiveInv /\ [Next]_vars => ArchiveInv'
<1> SUFFICES ASSUME Mishaps = {} /\ BaseInv /\ GarbageInv /\ PasswordInv /\ ArchiveInv, [Next]_vars
             PROVE  ArchiveInv'
  OBVIOUS
<1> USE DEF Goto, End, Fail, objects, data, counts, BaseInv, TypeOK, ControlInv, OwnerInv,
            GarbageInv, Garbage, Dangling, PasswordInv, ArchiveInv, ArchiveReadable, Readable
<1>1. CASE SaveSecret
  BY <1>1 DEF SaveSecret
<1>2. CASE SaveKeys
  BY <1>2 DEF SaveKeys, KazooConnects
<1>3. CASE SaveDB
  BY <1>3 DEF SaveDB
<1>4. CASE RestoreOwner
  BY <1>4 DEF RestoreOwner, EnsureStandaloneOwner
<1>5. CASE RestoreSecret
  BY <1>5 DEF RestoreSecret, CreateR
<1>6. CASE DeployBackends
  BY <1>6 DEF DeployBackends, EnsureSecrets, CreateR
<1>7. CASE ImportKeys
  BY <1>7 DEF ImportKeys
<1>8. CASE DropDB
  BY <1>8 DEF DropDB
<1>9. CASE LoadDB
  BY <1>9 DEF LoadDB
<1>10. CASE NukeZK
  BY <1>10 DEF NukeZK
<1>11. CASE WipeOwner
  BY <1>11 DEF WipeOwner
<1>12. CASE WipeServices
  BY <1>12 DEF WipeServices
<1>13. CASE CleanPVCs
  BY <1>13 DEF CleanPVCs
<1>14. CASE DeployOwner
  BY <1>14 DEF DeployOwner, EnsureStandaloneOwner
<1>15. CASE DeploySecrets
  BY <1>15 DEF DeploySecrets, EnsureSecrets, CreateR
<1>16. CASE DeployServices
  BY <1>16 DEF DeployServices
<1>17. ASSUME NEW cmd \in Commands, Begin(cmd) PROVE ArchiveInv'
  BY <1>17 DEF Begin, FirstPC
<1>18. CASE Crash
  BY <1>18 DEF Crash
<1>19. ASSUME NEW s \in Secrets, CollectSecret(s) PROVE ArchiveInv'
  BY <1>19 DEF CollectSecret, Dangling
<1>20. CASE Work
  BY <1>20 DEF Work
<1>21. CASE RotateSecrets
  BY <1>21 DEF RotateSecrets
<1>22. CASE ProvideSecret
  BY <1>22 DEF ProvideSecret
<1>23. CASE UNCHANGED vars
  BY <1>23 DEF vars
<1> QED BY <1>1, <1>2, <1>3, <1>4, <1>5, <1>6, <1>7, <1>8, <1>9, <1>10, <1>11, <1>12,
          <1>13, <1>14, <1>15, <1>16, <1>17, <1>18, <1>19, <1>20, <1>21, <1>22, <1>23
       DEF Next, Backup, Restore, Wipe, Deploy, Environment

-----------------------------------------------------------------------------
(* The theorems *)

\* Nothing is deployed and nothing is backed up at first.
LEMMA InitTypes == Init => TypeOK
<1> SUFFICES ASSUME Init
             PROVE  TypeOK
  OBVIOUS
<1> USE DEF Init
<1>1. /\ pc \in {"idle"} \cup BackupPCs \cup RestorePCs \cup WipePCs \cup DeployPCs
      /\ command \in Commands
      /\ outcome \in {"none", "ok", "failed"}
      /\ zuul \in BOOLEAN
      /\ backup \in {"none", "first", "whole", "mixed"}
  OBVIOUS
<1>2. /\ owner \in Nat /\ conf \in Nat /\ gen \in Nat
      /\ runs \in 0..MaxRuns /\ crashes \in 0..MaxCrashes
  BY BoundsAssumption
<1>3. secret \in [Secrets -> Nat] /\ ownedBy \in [Secrets -> Nat]
  OBVIOUS
<1>4. keys \in Keystore /\ builds \subseteq Nat
  OBVIOUS
<1>5. archive \in [secret : [Secrets -> Nat], keys : Keystore, builds : SUBSET Nat,
                   files : SUBSET {"keys", "db"}]
  OBVIOUS
<1>6. todo = {}
  OBVIOUS
<1> QED BY <1>1, <1>2, <1>3, <1>4, <1>5, <1>6 DEF TypeOK

\* The layers that need no care of those who run the commands.
LEMMA BaseInvariant == Spec => []BaseInv
<1>1. Init => BaseInv
  BY InitTypes DEF Init, BaseInv, ControlInv, OwnerInv
<1>2. BaseInv /\ [Next]_vars => BaseInv'
  BY TypeStep, ControlStep, OwnerStep DEF BaseInv
<1> QED BY <1>1, <1>2, PTL DEF Spec

\* The types: whatever is done to the deployment and to the backup directory,
\* and wherever a command is cut short.
THEOREM TypeCorrect == Spec => []TypeOK
<1>1. BaseInv => TypeOK
  BY DEF BaseInv
<1> QED BY BaseInvariant, <1>1, PTL

\* When nobody runs a command before Kubernetes has deleted what the last owner left.
LEMMA CollectedInvariant ==
    "gc-lag" \notin Mishaps => (Spec => [](BaseInv /\ GarbageInv /\ RestoreInv))
<1> SUFFICES ASSUME "gc-lag" \notin Mishaps
             PROVE  Spec => [](BaseInv /\ GarbageInv /\ RestoreInv)
  OBVIOUS
<1>1. Init => GarbageInv /\ RestoreInv
  BY DEF Init, GarbageInv, Garbage, Dangling, RestoreInv, AtOrAfter
<1>2. BaseInv /\ GarbageInv /\ RestoreInv /\ [Next]_vars => GarbageInv' /\ RestoreInv'
  BY GarbageStep, RestoreStep
<1> QED BY <1>1, <1>2, BaseInvariant, PTL DEF Spec

\* A restore that succeeds has brought back the secrets, the keys and the builds
\* of a whole backup (DoRestore), provided that the leavings of the wiped
\* deployment were gone when it began.  No other care is needed: neither the data
\* of the wiped deployment, nor a failed backup into the same directory, nor a
\* rotation during the backup makes it differ from what the files hold.
THEOREM RestoresAreFaithful ==
    "gc-lag" \notin Mishaps => (Spec => []RestoreIsFaithful)
<1> SUFFICES ASSUME "gc-lag" \notin Mishaps
             PROVE  Spec => []RestoreIsFaithful
  OBVIOUS
<1>1. BaseInv /\ RestoreInv => RestoreIsFaithful
  BY DEF BaseInv, TypeOK, OwnerInv, RestoreInv, AtOrAfter, RestoreIsFaithful
<1> QED BY <1>1, CollectedInvariant, PTL

\* When no owner is made over the data of a deployment that was wiped.
LEMMA DataInvariant == "keep-data" \notin Mishaps => (Spec => [](BaseInv /\ DataInv))
<1> SUFFICES ASSUME "keep-data" \notin Mishaps
             PROVE  Spec => [](BaseInv /\ DataInv)
  OBVIOUS
<1>1. Init => DataInv
  BY DEF Init, DataInv
<1>2. BaseInv /\ DataInv /\ [Next]_vars => DataInv'
  BY DataStep
<1> QED BY <1>1, <1>2, BaseInvariant, PTL DEF Spec

\* A restore destroys no key and no build that is not in the backup, although it
\* imports the keys by force and drops the database (restoreZuul, restoreDB): the
\* check of sf-standalone-owner keeps it away from a deployment at work, wherever
\* earlier commands were cut short.
THEOREM RestoresLoseNothing == "keep-data" \notin Mishaps => (Spec => RestoreLosesNothing)
<1> SUFFICES ASSUME "keep-data" \notin Mishaps
             PROVE  Spec => RestoreLosesNothing
  OBVIOUS
<1>1. BaseInv /\ DataInv /\ [Next]_vars =>
         [Restore => /\ keys' # keys => keys = NoKeys \/ keys = archive.keys
                     /\ builds \subseteq builds' \cup archive.builds]_vars
  <2> SUFFICES ASSUME BaseInv, DataInv, Restore
               PROVE  /\ keys' # keys => keys = NoKeys \/ keys = archive.keys
                      /\ builds \subseteq builds' \cup archive.builds
    OBVIOUS
  <2> USE DEF Goto, End, Fail, objects, data, BaseInv, TypeOK, DataInv
  <2>1. CASE RestoreOwner
    BY <2>1 DEF RestoreOwner
  <2>2. CASE RestoreSecret
    BY <2>2 DEF RestoreSecret
  <2>3. CASE DeployBackends
    BY <2>3 DEF DeployBackends
  <2>4. CASE ImportKeys
    BY <2>4 DEF ImportKeys
  <2>5. CASE DropDB
    BY <2>5 DEF DropDB
  <2>6. CASE LoadDB
    BY <2>6 DEF LoadDB
  <2> QED BY <2>1, <2>2, <2>3, <2>4, <2>5, <2>6 DEF Restore
<1> QED BY <1>1, DataInvariant, PTL DEF Spec, RestoreLosesNothing

\* All the layers together.
LEMMA CarefulInvariant ==
    Mishaps = {} => (Spec => [](BaseInv /\ PasswordInv /\ ArchiveInv))
<1> SUFFICES ASSUME Mishaps = {}
             PROVE  Spec => [](BaseInv /\ PasswordInv /\ ArchiveInv)
  OBVIOUS
<1> DEFINE Care == BaseInv /\ GarbageInv /\ RestoreInv /\ DataInv
<1>1. Spec => []Care
  <2>1. Spec => [](BaseInv /\ GarbageInv /\ RestoreInv)
    BY CollectedInvariant
  <2>2. Spec => [](BaseInv /\ DataInv)
    BY DataInvariant
  <2> QED BY <2>1, <2>2, PTL
<1>2. Init => PasswordInv /\ ArchiveInv
  BY DEF Init, PasswordInv, ArchiveInv, ArchiveReadable, Readable
<1>3. Care /\ PasswordInv /\ ArchiveInv /\ [Next]_vars => PasswordInv' /\ ArchiveInv'
  BY PasswordStep, ArchiveStep
<1>4. Care => BaseInv
  OBVIOUS
<1> HIDE DEF Care
<1> QED BY <1>1, <1>2, <1>3, <1>4, PTL DEF Spec

\* Without mishaps the keys in a backup can be read with the password saved next
\* to them (DoBackup), even in what a first backup that was cut short has left.
THEOREM BackupsAreReadable == Mishaps = {} => (Spec => []ArchiveReadable)
<1> SUFFICES ASSUME Mishaps = {}
             PROVE  Spec => []ArchiveReadable
  OBVIOUS
<1>1. ArchiveInv => ArchiveReadable
  BY DEF ArchiveInv
<1> QED BY <1>1, CarefulInvariant, PTL

\* And Zuul can read its keys after every deploy and every restore that succeeds,
\* wherever the wipes, the backups and the restores before it were cut short.
THEOREM KeysStayReadable == Mishaps = {} => (Spec => []KeysReadable)
<1> SUFFICES ASSUME Mishaps = {}
             PROVE  Spec => []KeysReadable
  OBVIOUS
<1>1. BaseInv /\ PasswordInv => KeysReadable
  BY DEF BaseInv, OwnerInv, PasswordInv, KeysReadable, Readable
<1> QED BY <1>1, CarefulInvariant, PTL
=============================================================================
