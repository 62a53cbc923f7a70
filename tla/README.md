# Verification of sf-operator

This directory holds TLA+ models of sf-operator, the TLC configurations that
check them on small instances, and TLAPS proofs about each of them.
`PROJECT.json` maps every modelling definition to the source lines it stands for.

sf-operator deploys Software Factory (Zuul, Nodepool, ZooKeeper, MariaDB, a git
server, a log server, code search, ...) on Kubernetes. It is a command line
program, not a resident controller: `sf-operator deploy sf.yaml` runs the
reconcile pass in a loop until the cluster matches the resource or 60 attempts
are used up. Everything it knows between two passes, or between two commands,
is in the cluster. It is sequential. The concurrency is with Kubernetes (which
starts, restarts and replaces pods at its own pace), with Zuul (which keeps
running while its secrets change) and with other commands: any command may be
killed after any call to the API server, and nothing keeps two people from running
one each.

## 1. Inventory

| component | state it keeps | operations | what makes it correct |
|---|---|---|---|
| `deploy` loop and `Step` (`controllers/softwarefactory_controller.go`) | attempt counter; the `services` map of the pass; owner ConfigMap; `zk-clients-need-refresh` marker | `StandaloneReconcile`, `Step`, `deploySFStep`, `deployZKAndZuulAndNodepool`, `deployStandaloneExectorStep`, `cleanup`, validation | success only if the cluster runs what the CR asks for; dependents after their backends; no dead end after a fault; dry runs touch nothing |
| backing services (`mariadb.go`, `zookeeper.go`, `git_server.go`) | StatefulSets and volumes; the passwords of root and of Zuul, in secrets and in the database; provisioning job; ZooKeeper certificates | `DeployMariadb`, `EnsureProvisionDBJob`, `DeployZookeeper`, `DeployGitServer` | ready before anything that uses them; secret and database have the same password |
| companion services (`logserver.go`, `gateway.go`, `hound-search.go`, `logjuicer.go`, `weeder.go`) | one workload each | `Deploy...`, `Ensure...`, `TerminateHoundSearch` | present when asked for, gone when not |
| Zuul (`zuul.go`) | scheduler, executor, merger, web with their annotations and mounts; `zuul-config` secret; reconfigure markers | CR checks, `EnsureZuulComponents`, `EnsureZuulConfigSecret` and the `Add...Connection` functions, `runZuulInternalTenantReconfigure` | runs with the configuration that CR and secrets call for; nothing restarts without cause |
| Nodepool (`nodepool.go`) | launcher, builder, provider secrets | `DeployNodepoolLauncher`, `DeployNodepoolBuilder` | as above |
| secret rotation (`secrets.go`, `rotate-keystore.py`) | keystore, auth, db, certificate secrets; the keys that Zuul keeps encrypted in ZooKeeper | `DoRotateSecrets` and its four parts, then `deploy` | no key becomes unreadable; everything is renewed; server and clients agree |
| project keys and internal tenant (`secrets.go`, `config.go`, `rotate-projects-private-keys.py`, `sf_operator/`) | keys in ZooKeeper, secrets in git, the config job, the record of what Zuul loaded | `RotateProjectPrivateKey`, `SetupConfigJob`, `create_zuul_secrets` | secrets decrypt with the key that is stored; Zuul has loaded them when `deploy` succeeds |
| workload rollout (`utils.go`, `libs/base/base.go`) | StatefulSet and Deployment specs, their status | `ensureStatefulset`, `ensureDeployment`, `waitStatefulset`, readiness checks | "ready" means the new template runs |
| API primitives (`utils.go`, `context.go`) | none | `GetOrDie`, `CreateR`, `UpdateR`, `DeleteR`, `EnsureSecret`, `reconcileExpandPVC` | honour `--dry-run`; commands that meet come to agree; a volume has grown when it is reported so |
| standalone executor (`zuul_external.go`) | copied secrets | `copySecrets`, `DeployStandaloneExecutor` path | waits for the copied secrets; runs with those of the control plane |
| backup, restore and wipe (`backup.go`, `clean.go`) | the files of the backup directory; owner references | `DoBackup`, `DoRestore`, `CleanSFInstance`, `CleanPVCs` | a backup's files belong together; a restore brings them back, destroys nothing else, and Zuul can read its keys |
| CLI, conditions, pod builders, API types | none that a decision depends on | deletions, object construction, flags | n/a |

How they interact: `Step` calls the deploy functions one after another, each of
which ensures its objects, looks at them and writes one key of the `services`
map. Two early returns keep Zuul and Nodepool behind the backends, and the
internal tenant is behind Zuul and the log server. `rotate-secrets` and
`rotate-projects-private-keys` delete objects and leave markers; the `deploy`
that follows finds the missing objects and the markers and finishes the work.
Zuul and ZooKeeper read certificates and `zuul.conf` when they start, so what
matters is not only which secrets exist but who was started with which.

What is hard: a summary made of observations of different ages; deletions
followed by re-creations in another command; a kill between any two steps; two
commands that each made a password; pods that start while a configuration is half
written; data
re-encrypted in place with a password that is itself being replaced; two stores
(git and ZooKeeper) that change one after the other; statuses written by
Kubernetes' controllers that lag behind the objects. `hazards` in
`PROJECT.json` lists these with their lines and the properties aimed at them.

## 2. Modules

| module | models |
|---|---|
| `Reconcile` | the `deploy` command: loop, `Step`, deploy functions, cleanup, dry run, and the cluster around it |
| `ReconcileInv` | the inductive invariant of `Reconcile` and its refinement mapping |
| `DeployCommand` | abstract specification: what `deploy` promises its user |
| `SecretRotation` | `rotate-secrets`, the part of `deploy` that finishes it, the keystore, kills |
| `ProjectKeys` | `rotate-projects-private-keys`, its script, the internal tenant's job and reconfiguration |
| `BackupRestore` | `SF backup`, `SF restore`, `dev wipe sf`, with `deploy` and `rotate-secrets` in brief, kills, Kubernetes' deletion of owned objects |
| `Mariadb` | `DeployMariadb`: secrets, provisioning job and volumes under two commands at once, kills and dry runs |
| `ZuulConfig` | from a CR's connections to the `zuul.conf` that services run with, and the executor at a remote site |
| `StatefulSetRollout` | `ensureStatefulset`, `waitStatefulset`, `IsStatefulSetRolloutDone`, `getPods`, against the StatefulSet controller and the kubelet |
| `DeploymentRollout` | `ensureDeployment`, `IsDeploymentRolloutDone`, against the Deployment and ReplicaSet controllers |
| `ReconcileProofs`, `SecretRotationProofs`, `ProjectKeysProofs`, `BackupRestoreProofs`, `MariadbProofs`, `StatefulSetRolloutProofs`, `DeploymentRolloutProofs`, `ZuulConfigProofs` | theorems and proofs |
| `MCReconcile`, `MCSecretRotation`, `MCProjectKeys`, `MCZuulConfig` | instances for TLC |

Definitions whose comment begins with "Faulty variant" are not used by any
specification. Each is a plausible mistake in the definition that follows it;
with it put in the place of that definition, TLC finds the property it is
paired with in `PROJECT.json` violated, which shows that the property looks at
the behaviour it is about.

### Reconcile

A workload is one StatefulSet or Deployment, reduced to how far along it is:
`absent`, `outdated` (`ensure...` would find a difference), `starting`,
`updating` (a Deployment with a pod of the earlier template still around),
`ready`; `Config` stands for the internal tenant, whose job is `built` before
Zuul has loaded it. MariaDB includes its provisioning job. The control of the code is kept: `pc` is
the point `Step` has reached, `services` is the Go map with `none` for a key
that is not in it, and each action is one deploy function with all it changes.
A missing key reads as false where the code indexes the map (`ConfigGate`) and
does not count where it ranges over it (`IsOperatorReady`).

`cleanup` is one action with three independent uncertainties: a client without a
pod is not found by `nukeZKClients`; the launcher is not found by name, as its
container is `launcher` and its Deployment `nodepool-launcher`; and the signal
sent to the client processes takes them down or not.

Around the command: workloads come up (`WorkloadUp`), fail or are deleted
(`WorkloadDown`), secrets disappear and are provided, the refresh marker
appears, the owner object is deleted with all it owns, the command is killed,
and it is run again with another CR or a newer operator (`Rerun`, where
`Upgrades` says what becomes outdated). `disturbed` is a history variable: what
the environment broke since `Step` last looked at it. No program that only looks
once can vouch for those, so the properties except them, and only them.

`Observed` takes the rollout check of a StatefulSet as exact, as `StatefulSetRollout`
justifies. `IsDeploymentRolloutDone` may answer for the pod of the earlier
template (`DeploymentRollout`, section 6), so the answer of a Deployment that is
`updating` is either (`Answers`), and `SuccessMatchesCR` counts such a Deployment as
running. The backends, for which `BackendsFirst` vouches, are StatefulSets.

The version of the config job has the resourceVersion of the keystore's password
in it. `zuul` stands for several secrets, that one among them, so `Config` may become
outdated when they are lost, provided or made anew (`Rekeyed`, `DeployZuulSecrets`).

### SecretRotation

The content of a secret is the generation in which it was made. `keystore` is the set of
passwords with which keys in ZooKeeper are encrypted. `started` is the
certificate generation that each service read when it started, `conf` the
secrets in `zuul.conf`, `zuulConf` those of the `zuul.conf` that the running Zuul
read. A `deploy` pass is reduced to the steps that concern these. A rotation
that succeeds goes on into `deploy`, as `DoRotateSecrets` does. Any step may be
the last one before a kill; the script may fail before, halfway through or after
its writes.

### ProjectKeys

Keys are generations. `repoKey` is the key that the secrets in a project's
repository need, `zkKey` the one that ZooKeeper has, `newKey` the one that the script
has in its memory. The internal repository's content
is its version and the key that encrypted it, and three observers hold a copy of
it: git, the scheduler, zuul-web. Parsing
and writing YAML is reduced to which key is needed.

A version (`internalTenantSecretsVersion`) is the resourceVersion of the keystore's
password, which is a new one whenever it changes (`NewPassword`), and the settings of the CR,
which may return to earlier ones (`NewSetting`). There is one job per version (`jobs`), and
it stays: one that is done is not run again, one that used up its retries
(`FailJob`) is waited for until the attempts of `deploy` end or a rotation clears it.
`ClearConfigJob` deletes them one by one and leaves the pods of those that run:
they are in `orphans`, with the key that they have fetched, and may fetch and push at any
later time (`FetchKey`, `PushLate`). `overtaken` is a history variable: the versions
whose job was done, or which were recorded, when a pod of another job pushed.

The key cache of zuul-web (`webKey`, `PublicKey`, `HandOut`) is external, modelled from what
`sf_operator/secret.py` gets from it; that Zuul may look at the repository by itself is
left out. `configHash` does not depend on the CR's settings and is constant here;
the five characters of the settings' checksum are taken as exact. `Again`: a pass that is not
ready is followed by another, or was the last attempt. `lost` is a history variable:
the request for a full reconfigure was taken and the command failed (section 6).

### Mariadb

A password is the generation it was made in. `rootSecret`, `initSecret` and
`zuulSecret` are the three secrets, `rootUser` and `zuulUser` what the database has.
Here a pass of `DeployMariadb` is cut into actions of at most one write each, so
that the other command may come between what one has read and what it writes:
`EnsureRootSecret` finds no secret, `CreateRootSecret` finds that there is one by
now and says nothing. `password` is the local variable that the command keeps in
between. `EnsureProvisionDBJob` is `ReadJob`, `DeleteJob` and `CreateJob`; a job
that is deleted stays until `JobGone`, and its pods, which nobody deletes, stay in
`pods` as ones that are not `owned` any more. `Finish` is
`reconcileExpandPVC` for each volume with the decision that ends the pass.
A job's pod succeeds (`RunJobPod`), or its ten attempts and the job's five retries
are used up (`FailJobPod`), perhaps after the password was set; nothing runs such a job
again, and a command that waits for it runs out of attempts (`Exhausted`).
`meddled` and `cut` are history variables for the exceptions of the properties, and so
is `overrun`: the last pod that set the password belonged to a job that had been replaced.
The StatefulSet is created at once; what becomes of an update is
`StatefulSetRollout`'s subject.

### ZuulConfig

A CR has one list of connections per driver, as `ZuulSpec` has, and `InOrder` puts them in the
order in which `EnsureZuulConfigSecret` goes through them. A section of `zuul.conf` is a name
and a function from keys to values. `NewSections` is what the ini library does with what is
added in turn: a section has the place of its first addition, a key the value of its last, so
that a `zuul.conf` is a function from some places to sections. `ZuulConf` lists
what `EnsureZuulConfigSecret` adds, in its order, and `InTurn` goes through the places of
some sections, as the checksums do. Of the plain
settings of a connection the url stands for all; those that name a secret or a
file are kept one by one. `Annotations` are the checksums, as the values they are
taken of, which is exact unless checksums collide. `ConnectionMounts` and `ConnectionVolumes` go
through the secrets separately, as the code does, each with a list of those it has
added.

A command checks the CR (`Start`), copies secrets if it was told to (one per
action), and repeats: `Validate`, `EnsureZuulConfigSecret`, one `EnsureService` per
service, `Finish`. `secrets`, `conf` and `logging` exist at the control plane and at
the remote site. A pod remembers the template, the `zuul.conf` and the log level
it was started with; `PodStart` and `PodRestart` are Kubernetes'. `input` and
`read` are history variables: what a template was made from. zuul-web is a
Deployment: while its pod of the earlier template is there, `EnsureService` may find it ready
or not (`Rolling`). An `appID` is set or not, and positive if it is (section 6).

### BackupRestore

Contents of secrets, the project's key, builds and owners are numbered as they
are made. A secret has a content and an owner (`ownedBy`); `CreateR` leaves one that
exists alone, and `CollectSecret` is Kubernetes deleting one whose owner is gone.
`keys` has the project's key and the password it is encrypted with: export and
import move the keys encrypted, so they are worth nothing without the password.
`archive` is the backup directory, each file of which is replaced when it is
written. `deploy` is reduced to its three effects here (owner, missing secrets, Zuul with
its `zuul.conf`), `rotate-secrets` to one that succeeds; the other modules have them in
detail. `zuul` stands for the workloads of Zuul and ZooKeeper, which `nukeZK` deletes
together; the secret of the connections may be missing at first, in which case `deploy`
fails and a restore makes it. `Mishaps` says what the people who run the commands do not avoid.

### StatefulSetRollout and DeploymentRollout

The operator's calls, against Kubernetes' controllers reduced to what the status
fields depend on. The controllers are external. What is assumed of them: the
StatefulSet controller replaces pods one at a time from the highest ordinal
down, writes in each pass the status it has just computed, and lets the new revision count as
current only when all replicas are updated and ready; the Deployment controller
sums up the statuses of its ReplicaSets as it found them, each of which has one replica at most.

## 3. Runs

Bounds are named constants with values in the `.cfg` files.

| run | checks | shows |
|---|---|---|
| `reconcile_deploy` | `TypeOK`, `StepInv`, `SuccessMatchesCR`, `BackendsFirst`, `ImplementsCommand` | over four kinds of CR, upgrades, slow databases and one fault anywhere, `deploy` never succeeds on a cluster that does not match, never touches Zuul or Nodepool before their backends, and implements `DeployCommand` |
| `reconcile_converges` | `CommandEnds`, `Converges`, `DryRunKeepsObjects` | every command ends; repeated commands keep succeeding after any fault; the dry runs among them create, update and delete no workload, secret or refresh marker |
| `rotation` | `RotationInv`, `KeystoreKept`, `RotatesAll`, `SuccessIsConsistent`, `CommandEnds` | four commands in any order, one of them killed, secrets deleted by hand: no keystore password is lost, a successful rotation renewed everything, server, Zuul and their certificates agree after a success |
| `keys` | `TypeOK`, `DeployedIsLoaded`, `FullyReconfigured`, `CommandEnds` | with three commands, a kill, jobs that fail, pods that outlive their jobs, settings that come back and a new keystore password, a deploy that succeeds has scheduler and zuul-web running the secrets of its version, encrypted with the right key, unless another pod has pushed over them, and has reloaded all tenants after a rotation, unless that command itself failed |
| `settings_back` | `SettingsInstalled` (violated) | a CR that goes to other settings and back is deployed with success over the secrets of the settings in between, although no job fails and no command is killed |
| `keys_retry` | `RetryRepairs` (violated) | a rotation cut off between push and store loses a key; the retry reports success |
| `sts_rollout` | `TypeOK`, `ReadyMeansUpdated`, `RolloutReported` | a StatefulSet is reported ready only when no replica runs an older template, and it is so reported in the end |
| `deployment_settles` | `TypeOK`, `RolloutSettles` | with either strategy a Deployment ends with the last template only, reported ready for good |
| `restore` | `TypeOK`, `ArchiveReadable`, `RestoreIsFaithful`, `KeysReadable`, `RestoreLosesNothing` | seven commands in any order, two cut short: the files of a backup belong together, a restore brings them back and destroys nothing else, Zuul can read its keys after every success |
| `mariadb` | `TypeOK`, `AgreeAtRest`, `RootCanLogIn`, `SuccessCanLogIn`, `SuccessHasSpace`, `CommandsEnd` | two commands at once, or one after the other, with one killed or a pod of the database or of the job failing: whoever wins the races for the secret and the job, the password of the secret works after a success and when all is quiet; volumes have grown; commands do not undo each other's work for ever |
| `zuul_config` | `TypeOK`, `SuccessIsServed`, `FilesMounted`, `SectionsKept`, `OnlyForItsOwn`, `RemoteAgrees`, `CommandEnds` | three deploys with changing CRs at either site, and a kill, a new secret or a restart of a pod anywhere: after a success each service has loaded what `zuul.conf` has for it and finds the files it names; no connection overwrites another; a service is restarted only for what concerns it; a remote executor has the control plane's secrets |
| `restore_after_wipe` | `RestoreIsFaithful` (violated) | deploy, backup, wipe and restore, one right after the other: the restore succeeds with another keystore password |

### Bounds

- `MaxAttempt = 3` instead of 60: one attempt that is not ready, one that may be
  ready, and the last, which can only fail. Attempts do not differ otherwise, and the proofs hold for
  every value.
- `MaxFaults = 1`: each fault is anywhere and of any kind, and commands follow
  each other without bound, so that what it leaves behind is met by any later
  command. The proofs hold for any number.
- `Slow` has the workloads whose start outlasts a pass. Being slow matters for
  the workloads that others wait for, MariaDB and ZooKeeper for safety, and for a
  Deployment, which may be reported ready meanwhile: zuul-web, the one that the pass itself
  deletes.
- `reconcile_deploy` has real runs only, over all CRs, upgrades and faults; `reconcile_converges`
  mixes dry and real runs, over one CR, where zuul-web may fail and the certificates' or
  Zuul's secrets may be lost. A dry run meets an outdated workload there only
  as `Config`. All at once does not fit; the proofs cover the combination.
- `MaxRuns = 4`, one kill in `rotation`: the first deploy, a rotation that is
  cut off, and two more commands of either kind, with secrets deleted by hand
  in between. `MaxRuns = 3`, one kill, one project, two settings and two passwords in
  `keys`: a deploy, a rotation and the deploy that finishes it, or three deploys over settings
  that come back. Two projects differ from one only in how far a rotation that is cut off has
  come, which the proofs cover with any number. `settings_back` has no faults at all:
  `CalmSpec` lets the CR change only when the jobs have ended.
- In `rotation` the client certificate, the authenticator's and the database's
  secret may be deleted by hand; the server certificate may not, as
  `SuccessIsConsistent` does not survive it (section 6). The keystore's password may not be:
  nothing can bring it back.
- `MaxRuns = 7`, two commands cut short, two builds in `restore`: deploy, backup, a wipe
  cut short and one that is not, a restore cut short, another wipe and restore. What a
  first backup that failed left may be restored, and makes the restore fail.
  `Mishaps = {}`; each of the four mishaps breaks some property:

  | mishap | broken |
  |---|---|
  | `gc-lag`: a command runs before what the last owner left is deleted | `ArchiveReadable`, `RestoreIsFaithful`, `KeysReadable` |
  | `mixed-backup`: a directory is restored that a failed backup shares with an earlier one | `ArchiveReadable`, `KeysReadable` |
  | `keep-data`: a deployment is made over the data of a wiped one | `ArchiveReadable`, `KeysReadable`, `RestoreLosesNothing` |
  | `rotate-in-backup`: the keystore is rotated during a backup | `ArchiveReadable`, `KeysReadable` |
- `mariadb`: two commands, of which one may be a rotation, one volume with two
  sizes, a database that is new or was deployed before; one fault, which may be a
  kill, a failure of the database's pod or a provisioning job that gives up; and one pod of a replaced job that runs late. Commands are interchangeable, and the
  first that is free is started. `FirstAlone = TRUE`: see section 6.
- `zuul_config`: three commands, one fault (kill, edit or restart; a CR that the API
  server refuses ends a command like a kill, so that it may be met together with
  a restart). `AllCRs` has one CR per case: every driver, `opendev.org` redefined,
  several authenticators or one, no executor, a secret used twice, a remote site, and a CR
  for each check that refuses. Three commands are the least for a change that is
  cut short and taken back. A secret that is provided late is `gl`.
- `SecretRotation`, `ProjectKeys`, `BackupRestore`, `Mariadb` and `ZuulConfig` end
  when the commands are used up, which is why deadlock is not checked there; in the
  others it is.
- `MaxReplicas = 2`: the smallest count with a replica that is updated
  before another. `MaxRevision = 3`: a template may change again during the
  rollout of the second.
- In `sts_rollout`, `Overlap = FALSE` keeps scaling down and a template change
  apart: see section 6.

### Fairness

- The command's own steps (`WF` of `Step`, `Rotate \/ Deploy`): the program is
  sequential and every wait in it has a deadline (`waitStatefulset`, `waitPod`,
  the attempt counter).
- Kubernetes starts what can be started (`WF` of `WorkloadUp`, `Up`, `WebUp`,
  `RunJob`, the controllers and kubelet): the operator has no other way to
  proceed, and gives up by counting attempts if it does not happen. For
  `CommandEnds` in `Reconcile` the attempt counter alone suffices.
  `SecretRotation` leaves the counter out, so that there the property says that
  the command could go on, not that it gave up. In `ProjectKeys` any pass that is not ready may
  be the last attempt; only for a job that has failed is it assumed that one of them is
  (`SF` of `SetupBaseSecrets` that ends the command), as nothing else ends that wait. For all
  else a job that runs is done in the end and the property says that the command could go on.
- `Converges` needs in addition that the command is run again, and not only as a dry run
  (`SF_vars(Rerun /\ ~dryRun')`), that the users' secrets are there, and that the
  scheduler's reconfigure command does not fail every time (`SF`). `CommandEnds`
  in `ProjectKeys` needs the last of these as well.
- In `StatefulSetRollout` `SF_vars(PollStatus)`: a wait polls every second or so until its
  deadline, so it cannot always miss a rollout that is over. `GiveUp` has no
  fairness.
- `Mariadb`: the commands' steps, and Kubernetes' (`PodUp`, `JobGone`, the pod of the
  job there is, `Provision`); the attempts of a command that waits for a failed job are used up in
  the end (`SF_vars(Exhausted(c))`). Late pods of replaced jobs have none.
- `ZuulConfig`: the command's steps and `PodStart`. The first is written out as a
  formula equivalent to `WF_vars(Deploy)`, because TLC would compute a `zuul.conf`
  for every `ENABLED`. `CommandEnds` is about commands whose secrets are there:
  without them `validateZuulConnectionsSecrets` fails in every pass.

## 4. Proofs

Checked by TLAPS.

### Reconcile

For every set of CRs, slow and fragile workloads, upgrades, numbers
of attempts and faults that the named assumptions of `Reconcile` allow:

- `TypeCorrect`: `Spec => []TypeOK`, along with `AttemptInv` (a command that
  goes on has attempts left), without which the counter is not bounded.
- `StepInvariant`: `Spec => [](TypeOK /\ StepInv)`, and from it
  `SuccessIsReal`: `Spec => []SuccessMatchesCR`.
- `BackendsComeFirst`, `DryRunIsSafe`: the two action properties.
- `DeployImplementsCommand`: `Spec => ImplementsCommand`.

`SuccessMatchesCR` is not inductive: it says nothing about a pass in progress.
`StepInv` says what the `services` map is worth at every point of a pass:
which keys are not set yet (`FreshInv`) and which are (`DecidedInv`), what was
ready for the pass to have come this far (`GateInv`), that a key that says
`ok` is backed by the cluster, by a Deployment that is `Rolling`, or by `disturbed` (`BackedInv`), and what has been
removed (`RemovedInv`). The point that needs care is the restart of zuul-web by
the reconfiguration of the internal tenant, which happens after zuul-web was
seen ready: `BackedInv` holds only while `Config` is not `waiting`, and the
pass in which it is `waiting` is not ready. There is one lemma per action.

### SecretRotation

For any number of commands and kills, and any deletion by
hand of certificates, the authenticator's or the database's secret:

- `RotationInvariant`, and from it `PasswordsAreKept` (`[]KeystoreKept`) and
  `RotationIsComplete` (`[]RotatesAll`), under `~NewProjects`. Without
  that hypothesis `RotatesAll` is false, as section 6 explains.

The inductive invariant is the conjunction of what is known of the two keystore
passwords at each point (`PasswordInv`: the new one is stored before it is used,
the old one kept until no key needs it), what `deploy` relies on (`ConfInv`) and
which secrets are gone or newer than the command at each point (`RenewedInv`).
The refusal of `rotateKeystorePassword` to start over a leftover
`keystore-new` is what makes it inductive over several commands.

- `SuccessAgrees`: `[]SuccessIsConsistent` for at most one kill
  (`MaxCrashes <= 1`) and `"server" \notin UserDeletes`, with any number of commands
  and with or without `NewProjects`. Both hypotheses are needed: TLC
  finds a violation with two kills, and one with none if the server
  certificate may be deleted by hand (section 6).

Its invariant has two main parts beside `ConfInv`. `CertificatesInv`: where there are two
certificates they are of one authority and nobody runs with another; where one
is missing, a pass makes both again while ZooKeeper and Zuul are down (`Dark`).
`SparedInv`: before the first kill `nukeZK` spares no Zuul, because only a
`deploy` in progress leaves one without a pod. The first kill may therefore
leave one certificate, but nothing that starts with it.

### ProjectKeys

For any number of projects, settings, passwords, commands and kills: `TypeCorrect`,
`DeployedSecretsAreLoaded` (`[]DeployedIsLoaded`), `RotationIsFinished`
(`[]FullyReconfigured`). The properties speak of the moment of success; the
invariant (`KeysInv`) says what the record in the ConfigMap, the jobs and the two markers are
worth at any time. `RotateInv`: a rotation clears the jobs and the record and sets the
markers before it changes a key. `PassInv`: a pass restarts zuul-web before it makes a job,
and finds the job done before Zuul loads its secrets. `CacheInv`: while a job may run, zuul-web
has no key in its cache that ZooKeeper has not. `JobsInv`: what a job that is done has made, for
whichever version, is what git has, with the key that ZooKeeper has, unless its version was
`overtaken`; `RecordInv` says the same of the record and of what was loaded. Together they make
the exception of `DeployedIsLoaded` as narrow as the code allows: only a later push by a pod
of another job makes a version one of the excepted. `FullInv`: a
full reconfigure that is needed is asked for or lost. `OutcomeInv` carries the rest to the
moment of success.

### BackupRestore

For any number of commands, kills and builds, in layers: each adds to the invariant what
one kind of care buys, and the theorems are stated with that care alone.

| theorem | property | hypothesis |
|---|---|---|
| `TypeCorrect` | `TypeOK` | none |
| `RestoresAreFaithful` | `RestoreIsFaithful` | no `gc-lag` |
| `RestoresLoseNothing` | `RestoreLosesNothing` | no `keep-data` |
| `BackupsAreReadable` | `ArchiveReadable` | no mishap |
| `KeysStayReadable` | `KeysReadable` | no mishap |

`BaseInv` has the types and who owns what at each point. Without
`gc-lag` nothing that a restore finds is about to be deleted (`GarbageInv`), so that
it finds no secret of the operator's and brings each back in turn
(`RestoreInv`). Without `keep-data` no owner is made over the data of another
(`DataInv`). Without mishaps keys, secret and Zuul have one password where
there is an owner (`PasswordInv`), and a backup saves the password before the
keys (`ArchiveInv`). No hypothesis can be dropped: TLC finds a violation with each
single mishap that a theorem excludes (table in section 3).

### Mariadb

For any set of commands that run at once, volumes, sizes, faults and late pods:
`TypeCorrect`, `DatabaseAgreesAtRest` (`[]AgreeAtRest`), `SuccessLogsIn`
(`SuccessCanLogIn`), `SuccessFindsSpace` (`SuccessHasSpace`), and, with `FirstAlone`,
`RootLogsIn` (`[]RootCanLogIn`), which is false without it. `AgreeAtRest` speaks of the
time when nobody runs; `RestInv` says why it will hold: secret, job and database
are in step, or some command is `Concerned`, that is, has yet to look at the job
with the password of the secret. A command that changes the secret concerns
itself, and one that fails to create the job because another did goes through
another pass. `ReadInv` says what a command's local
password is still worth, `JobInv` what the success of a job means, and `RootInv` why
a lone first command leaves two secrets that agree.

### StatefulSetRollout and DeploymentRollout

`ReadyReplicasAreUpdated`: `[]ReadyMeansUpdated` for any number of replicas,
revisions and faults, given `~Overlap` (with it TLC finds a violation, section 6).
The operator compares counts, so the proof is about cardinalities: what the controller
counted as updated when it last wrote the status is there still (`CountInv`), hence a
count that equals the replicas leaves room for no outdated pod (`DoneInv`). That
needs revisions to go up only (`OrderInv`), a current revision without outdated pods
beside it (`CurrentInv`), and no outdated pod while replicas are removed (`ShrinkInv`).
`OperatorInv` carries the result to the points where the operator relies on it.

`TypeCorrect` in both. For `DeploymentRollout` the type invariant bounds the generation
by the number of revisions, which rests on the operator updating a
Deployment only when its template differs (`GenerationInv`).

### ZuulConfig

`DeployServesTheConfig`: `Spec => SuccessIsServed`, for any CRs, secrets, edits, kills and
restarts. The invariant `ServedInv`: while a pass takes the services for ready, those it
has gone through fit, that is, the pod is of the present template (or zuul-web is being
replaced), and the template has
the annotations that this pass's `zuul.conf` calls for. Neither a pod that restarts nor a later step
undoes that. The rest is `AnnotationsDetermine`: two configurations with the
same annotations agree in all that the service reads, so the checksums leave
out nothing.

The other theorems say what is in a `zuul.conf`, for lists of connections and
authenticators of any length. They rest on lemmas about the operators: `NewSections`
has each name once and a key the value that was added last (`SectionsShape`, `MergedKey`);
which place of `ZuulConf` has which section (`ConfShape`, and `Places` the other
way); what keys a connection gets (`ConnectionKeys`). In a CR that `Accepted` lets through,
no two places have the name of one connection (`ConnectionNames`), so that each connection's section has
its keys and no others (`ConnectionSection`).

- `TypeCorrect`: `Spec => []TypeOK`, with "no two sections of one name" for `conf`.
- `SectionsStay`: `Spec => SectionsKept`. What `zuul.conf` has is settled by the lemmas
  (`ConfKeeps`); that the command has an accepted CR when it writes it is `PassInv`.
- `RestartsForItsOwn`: `Spec => OnlyForItsOwn`. Every template was made, with the input that
  `input` remembers, from some accepted CR and some secrets (`TemplateInv`); two such that agree in
  the inputs of a service have the same annotations (`InputsDetermine`). For this the
  sections that the service's checksum takes must be at the same places in both,
  though the others, authenticators and settings of other services, may differ (`Within`).
- `FilesAreMounted`: `Spec => FilesMounted`. A successful pass leaves a template it need not
  have made itself: `EnsureService` compares annotations, not volumes. So the connections
  in three configurations are compared: the one the template was made from (`TemplateInv`), the one of
  this pass (`PassInv`), and the one in the pod (`LoadedInv`). They have the same bodies (`SuccessBodies`),
  and the body of a connection names the file, hence the secret, that the template mounts.
- `RemoteHasTheSecrets`: `Spec => RemoteAgrees`. `CopyInv`: in a command that copies, each
  secret of `copySecrets` is yet to be copied, or the same at both sites, or was edited
  meanwhile; after `EnsureZuulConfigSecret` the same holds of what it read.

The inductive invariant `Inductive` is `Inv`, `TypeInv` and `DataInv` (`PassInv`,
`TemplateInv`, `LoadedInv`), to which `RemoteHasTheSecrets` adds `CopyInv`. TLC confirmed `PassInv` and
`CopyInv` on the instance of `zuul_config` before they were proved; `TemplateInv` and `LoadedInv`
quantify over all contents of secrets, which is for the prover only. The assumptions are those that `ZuulConfig` declares: `CRs`
are of `CRType`, one of them is an accepted CR of a control plane (which `Init` starts from), and
bounds are numbers.

### Only model-checked

- Liveness (`CommandEnds`, `CommandsEnd`, `Converges`, `RolloutReported`,
  `RolloutSettles`), which is out of the prover's reach.

Every safety property of a passing run is stated by a theorem.

## 5. Disagreements between the code and what is said of it

- `settings_back`: the checksum of the CR's settings is in the version of the internal tenant's
  secrets to "ensure we trigger the base secret creation job when the setting change". When the CR
  goes from one setting to another and back, the job of that version is there and has succeeded, so
  none is run: `deploy` reconfigures Zuul, records the version and succeeds, with the secrets of
  the setting in between in git and in Zuul.
- `keys_retry`: the new key is in the script's memory only when the secrets that need
  it are pushed. "The command is idempotent, feel free to retry."
- `restore_after_wipe`: `wipe` says that it deletes the owner "with foreground
  propagation", which would keep the owner, and thereby make `restore` refuse to run,
  until what belongs to it is gone. `DeleteR` passes no policy, the owner is gone at once,
  and `restore` takes the secrets that are about to be deleted for restored ones.

## 6. Further observations

- The owner ConfigMap is created in a dry run too (`EnsureStandaloneOwner`);
  `DryRunKeepsObjects` is therefore about workloads, secrets and the marker.
- The attempt is counted and compared before `status.Ready` is looked at, so the
  last attempt is reported as a failure even when it was ready. `DeployCommand`
  states it so (`passes < MaxPasses` to succeed).
- With `Overlap = TRUE`, `StatefulSetRollout` violates `ReadyMeansUpdated`: a
  forced scale-down and a template change in one update let the counts of the
  old revision equal the new replica count while the last old replica runs.
- `SuccessIsConsistent` fails with two kills: a Zuul without a pod is spared by
  `nukeZKClients`, starts from the certificate that a killed `deploy` made, and
  the next `deploy` makes both anew.
- With `NewProjects = TRUE` `SecretRotation` violates `RotatesAll`: Zuul runs while
  its keystore is re-encrypted, and a key that it adds in between stays encrypted with
  the old password (which the secret keeps under `zuul-keystore-password-old`).
- `DeploymentRollout` violates `ReadyMeansUpdated`: "IsDeploymentRolloutDone returns
  True when the Deployment rollout is over", but it does not look at `UpdatedReplicas`. Once the
  controller has seen the new generation, the counts may still be those of the
  old pod. `RolloutSettles` shows that the early answer is transient. `Reconcile` and
  `ZuulConfig` have the early answer (`Rolling`): a `deploy` may succeed while the earlier
  pod of zuul-web, or of another Deployment, still runs.
- `ClearConfigJob` deletes the config jobs and leaves their pods, as `DeleteR` has no
  propagation policy. One that pushes after another job has done its work puts secrets of an
  old key or version into system-config; no later `deploy` notices (`overtaken`), until
  another rotation clears the jobs.
- A config job that used up its retries is not made anew for its version
  (`config.go:140`): every `deploy` waits for it in vain until a rotation, other settings or
  another keystore password lead to another job.
- The secrets of the connections that `restore` puts back belong to the owner, unlike those
  that the user made: the next `wipe` deletes them too.
- A `restore` that was cut short cannot be run again before a `wipe`: it has made the
  owner by then.
- A wipe without `--rm-data`, or cut short before `CleanPVCs`, keeps keys
  whose password is deleted.
- `nukeZKClients` does not delete the launcher's Deployment (see above), so the
  launcher is left out of `SuccessIsConsistent`.

- Removing the server certificate alone leaves ZooKeeper running with the old one:
  `cleanup` looks for the client certificate only
  (`softwarefactory_controller.go:85`), while both are made anew if either is
  missing. `CHANGELOG.md:95`: "ZooKeeper lifecycle improved to ensure full zookeeper
  stop when secret are removed by forcing a statefulset restart."
- The marker that asks for a full reconfigure is removed before the command that it
  asks for is run (`zuul.go:1471`). If that fails once, no later deploy makes up for
  it; `FullyReconfigured` excepts this case.
- With `FirstAlone = FALSE` `Mariadb` violates `RootCanLogIn`: of two first deploys,
  one stores its root password and the other writes its own to
  `mariadb-initdb-secrets` (`utils.go:109`). The database keeps the latter, the job
  uses the former, and nothing reconciles them.
- A provisioning job is deleted without its pods. One that runs late sets the
  password that was replaced (`overrun`), and as the new job is done, nobody
  notices. A job that used up its retries is not made anew for the same password
  (`JobFailed`): every `deploy` runs out of attempts until the password is rotated.
- `reconcileExpandPVC` ignores `--dry-run`: its `Client.Update` (`utils.go:825`) is
  sent. `docs/deployment/upgrades.md:25` says "without actually changing them".
- The volume of the scheduler is never expanded.
- The checksums do not cover the names of sections (`libs/utils/utils.go:152`):
  connections that exchange their names, all else equal, restart nothing.
  `SuccessIsServed` is therefore about the bodies of sections, and `RemoteAgrees` finds a
  connection by its driver and url.
- A pod that restarts by itself between the writing of `zuul-config` and of its
  template runs ahead of it. If the command is cut short there, and the next goes back
  to the previous CR, the template fits and the pod keeps a `zuul.conf` that is gone
  (`Ahead`, reachable in `zuul_config`).
- A secret that a GitHub connection and a Gerrit connection share is mounted for the
  first only; if the former is no application, the mount has no volume and the API
  server refuses the template (`Shared`).
- A negative `appID`, which no check refuses, gives a `zuul.conf` that names an `app_key`
  (`zuul.go:1223` asks for another value than 0) that is not mounted (`zuul.go:211` asks for a
  positive one). GitHub has no such IDs; the model has a positive one or none.
- `CRSecrets` has no Gerrit password and no secrets of Elasticsearch and SMTP: a remote
  executor and a backup go without them.
- Of two authenticators of one name, which no check refuses (`HasDuplicate` is about
  connections), the second replaces the first (`LastOfItsName`).
- An authenticator named `zuul_client` is merged with the CLI's; a default
  authenticator that does not exist gets a section without a driver.
- `app_key` is mounted as a single file and its content is in no checksum: a new key
  restarts nothing.

## 7. Not modelled

- The content of pods, images, probes, routes, monitoring, logging: construction
  of objects, without state of its own. A change of it is `Upgrades` or
  `NewRevision`.
- Conditions: shown to the user, no decision depends on them.
- The text of `nodepool.yaml` and of the jobs and pipelines that `zuulcf` writes, which is
  constant but for a few names.
- The one-time recreation of ZooKeeper for a second volume, and the removal of
  legacy objects.
- Errors of the API server other than by the death of the command, which is
  what the code makes of them (`GetOrDie`, `CreateR` and others panic or exit).
- Two commands at once, other than over the database.
- The other developer commands.
- That `WaitFor`, the wait for the pods and `CleanPVCs` give up in the end: what was not
  ready makes the next step of a restore fail, which is a kill in the model.

## 8. Plan

Done: `Reconcile`, its abstract specification, its invariant and proofs;
`SecretRotation` and proofs; `ProjectKeys`; the two rollout modules; `BackupRestore`;
`Mariadb` with volumes and two commands at once; `ZuulConfig` with `copySecrets`.

Every safety property that a passing run checks is proved, for every module.

Left, in order of importance:

1. Nodepool's provider secrets and the ZooKeeper volume recreation.
2. `reconcileLogserverKeys`.
