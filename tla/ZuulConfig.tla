----------------------------- MODULE ZuulConfig -----------------------------
(***************************************************************************)
(* From the connections of a CR to the zuul.conf that Zuul's services run  *)
(* with: the checks of a CR, EnsureZuulConfigSecret, the annotations that  *)
(* decide which service is restarted, the files that its pod mounts, and   *)
(* the executor at a remote site with the secrets that are copied to it.   *)
(*                                                                         *)
(* A section of zuul.conf has a name, as <<"connection", "gerrit">> or     *)
(* <<"web">>, and keys.  Of a connection's plain settings only the url is  *)
(* kept; of a secret, the generation of its content, 0 if it is missing.   *)
(* One command runs at a time; it may be killed, and Kubernetes starts and *)
(* restarts pods at any moment.                                            *)
(***************************************************************************)
EXTENDS Naturals, FiniteSets, SequencesExt

CONSTANTS
    CRs,         \* the resources that commands are run with
    UserSecrets, \* the names of the secrets that users provide
    AppKeys,     \* those of them that have an app_key
    Missing,     \* those of them that are not there at first
    Editable,    \* the secrets that are given another content
    MaxRuns,     \* bound on the number of commands
    MaxFaults    \* bound on the commands that are killed, the secrets that are
                 \* changed and the pods that restart by themselves, together

OpSecrets == {"zuul-db-connection", "zuul-keystore-password", "zuul-auth-secret",
              "zuul-ssh-key", "zookeeper-client-tls"}
Secrets   == OpSecrets \cup UserSecrets

ASSUME SecretsAssumption == /\ AppKeys \subseteq UserSecrets
                            /\ Missing \subseteq UserSecrets
                            /\ Editable \subseteq Secrets
ASSUME BoundsAssumption  == MaxRuns \in Nat /\ MaxFaults \in Nat

-----------------------------------------------------------------------------
(* A CR and its checks. *)

\* A field that is not set.
Empty == ""

Drivers == {"gerrit", "github", "gitlab", "pagure", "git", "elasticsearch", "smtp"}

\* secret: the tokens or the password; app: whether a GitHub AppID is set.  One
\* that is set is positive, as GitHub's are: the code asks for AppID > 0 in one
\* place and for AppID # 0 in another.
ConnectionType(drivers) ==
    [driver : drivers, name : STRING, url : STRING, secret : UserSecrets \cup {Empty},
     sshkey : UserSecrets \cup {Empty}, app : BOOLEAN]
Connections(driver) == Seq(ConnectionType({driver}))

\* conns: GerritConns, GitHubConns and so on; auths: the OIDC authenticators;
\* option: the settings of a service that end in its section; repo: the
\* connection of the config repository.
CRType ==
    [conns : [gerrit : Connections("gerrit"), github : Connections("github"),
              gitlab : Connections("gitlab"), pagure : Connections("pagure"),
              git : Connections("git"), elasticsearch : Connections("elasticsearch"),
              smtp : Connections("smtp")],
     auths : Seq([name : STRING, realm : STRING]),
     defaultAuth : STRING, repo : STRING, fqdn : STRING,
     option : [{"scheduler", "executor", "merger"} -> Nat],
     log : [{"scheduler", "executor", "web", "merger"} -> {Empty, "INFO", "DEBUG"}],
     executor : BOOLEAN, standalone : BOOLEAN]

ASSUME CRsAssumption == CRs \subseteq CRType

\* In the order in which EnsureZuulConfigSecret goes through them.
InOrder(cr) ==
    cr.conns.gerrit \o cr.conns.github \o cr.conns.gitlab \o cr.conns.pagure
    \o cr.conns.git \o cr.conns.elasticsearch \o cr.conns.smtp

ConnectionsOf(cr) == Range(InOrder(cr))
ConnNames(cr)     == {conn.name : conn \in ConnectionsOf(cr)}

\* GetUserDefinedConnections fails unless opendev.org is what its name says.
OpendevIsOpendev(conn) ==
    \/ conn.driver = "gerrit" /\ conn.url = "review.opendev.org"
    \/ conn.driver = "git" /\ conn.url = "https://opendev.org"

\* Faulty variant: only neighbours are compared.
HasDuplicateNeighbour(cr) ==
    LET conns == InOrder(cr)
    IN  \E i \in 1..(Len(conns) - 1) : conns[i].name = conns[i + 1].name

HasDuplicate(cr) ==
    LET conns == InOrder(cr)
    IN  \E i, j \in DOMAIN conns : i < j /\ conns[i].name = conns[j].name

\* MkSFController exits on any other CR.
Accepted(cr) ==
    /\ \A conn \in ConnectionsOf(cr) : conn.name = "opendev.org" => OpendevIsOpendev(conn)
    /\ ~HasDuplicate(cr)
    /\ "git-server" \notin ConnNames(cr)

ASSUME FirstCRAssumption == \E c \in CRs : Accepted(c) /\ ~c.standalone

\* The url of the connection that has the config repository, if there is one.
ResolveConfigBaseURL(cr) ==
    LET found == {conn \in ConnectionsOf(cr) :
                     conn.name = cr.repo /\ conn.driver \notin {"elasticsearch", "smtp"}}
    IN  IF found = {} THEN Empty ELSE (CHOOSE conn \in found : TRUE).url

\* validateZuulConnectionsSecrets
ValidSecrets(cr, sec) ==
    \A conn \in ConnectionsOf(cr) :
       /\ conn.driver = "github" => /\ conn.secret # Empty /\ sec[conn.secret] # 0
                                    /\ conn.app => conn.secret \in AppKeys
       /\ conn.driver = "gerrit" /\ conn.sshkey # Empty => sec[conn.sshkey] # 0

\* Some positions in a list, in turn.
InTurn(places) ==
    [k \in 1..Cardinality(places) |->
       CHOOSE i \in places : Cardinality({j \in places : j <= i}) = k]

\* The names in a list that are not empty.
Present(names) ==
    LET places == InTurn({i \in DOMAIN names : names[i] # Empty})
    IN  [k \in DOMAIN places |-> names[places[k]]]

\* The secrets of a CR that are copied, and saved by a backup.
CRSecrets(cr) ==
    LET keys    == [i \in DOMAIN cr.conns.gerrit |-> cr.conns.gerrit[i].sshkey]
        of(list) == Present([i \in DOMAIN list |-> list[i].secret])
    IN  Present(keys) \o of(cr.conns.github) \o of(cr.conns.pagure) \o of(cr.conns.gitlab)

-----------------------------------------------------------------------------
(* zuul.conf *)

Section(name, keys) == [name |-> name, keys |-> keys]

\* Faulty variant: a section that is named twice is there twice.
NewSectionsTwice(added) == added

\* NewSection and NewKey of the ini library, in turn: a section that exists is
\* added to, and a key that exists is given the new value.  A section has the
\* place of its first addition.
Merged(added, name) ==
    LET named       == {i \in DOMAIN added : added[i].name = name}
        having(key) == {i \in named : key \in DOMAIN added[i].keys}
    IN  [key \in UNION {DOMAIN added[i].keys : i \in named} |->
           added[Max(having(key))].keys[key]]
NewSections(added) ==
    [i \in {i \in DOMAIN added : \A j \in 1..(i - 1) : added[j].name # added[i].name} |->
       Section(added[i].name, Merged(added, added[i].name))]

NoKeys           == [key \in {} |-> 0]
Token(sec, name) == IF name = Empty THEN 0 ELSE sec[name]
Connection(name) == <<"connection", name>>
Auth(name)       == <<"auth", name>>

\* Some keys, and one more on a condition.
Plus(keys, c, key, value) ==
    [k \in DOMAIN keys \cup (IF c THEN {key} ELSE {}) |->
       IF k \in DOMAIN keys THEN keys[k] ELSE value]

AddGerritConnection(conn, sec) ==
    Section(Connection(conn.name),
            Plus([driver |-> "gerrit", url |-> conn.url,
                  sshkey |-> IF conn.sshkey # Empty THEN conn.sshkey ELSE "zuul-ssh"],
                 conn.secret # Empty, "token", Token(sec, conn.secret)))

\* addKeyToSection drops what is empty.
AddGitHubConnection(conn, sec) ==
    Section(Connection(conn.name),
            Plus(Plus([driver |-> "github", url |-> conn.url, sshkey |-> "zuul-ssh"],
                      conn.app, "app_key", conn.secret),
                 Token(sec, conn.secret) # 0, "token", Token(sec, conn.secret)))

AddGitLabConnection(conn, sec) ==
    Section(Connection(conn.name),
            [driver |-> "gitlab", url |-> conn.url, sshkey |-> "zuul-ssh",
             token |-> Token(sec, conn.secret)])

AddPagureConnection(conn, sec) ==
    Section(Connection(conn.name),
            Plus([driver |-> "pagure", url |-> conn.url],
                 Token(sec, conn.secret) # 0, "token", Token(sec, conn.secret)))

AddGitConnection(name, url) == Section(Connection(name), [driver |-> "git", url |-> url])

AddElasticSearchConnection(conn, sec) ==
    Section(Connection(conn.name),
            Plus([driver |-> "elasticsearch", url |-> conn.url],
                 conn.secret # Empty, "token", Token(sec, conn.secret)))

AddSMTPConnection(conn, sec) ==
    Section(Connection(conn.name),
            Plus([driver |-> "smtp", url |-> conn.url],
                 conn.secret # Empty, "token", Token(sec, conn.secret)))

AddConnection(conn, sec) ==
    CASE conn.driver = "gerrit"        -> AddGerritConnection(conn, sec)
      [] conn.driver = "github"        -> AddGitHubConnection(conn, sec)
      [] conn.driver = "gitlab"        -> AddGitLabConnection(conn, sec)
      [] conn.driver = "pagure"        -> AddPagureConnection(conn, sec)
      [] conn.driver = "git"           -> AddGitConnection(conn.name, conn.url)
      [] conn.driver = "elasticsearch" -> AddElasticSearchConnection(conn, sec)
      [] conn.driver = "smtp"          -> AddSMTPConnection(conn, sec)

\* git-server, opendev.org unless the CR has it (needOpendev), and the web client.
AddDefaultConnections(cr) ==
    <<AddGitConnection("git-server", IF cr.standalone THEN "git://public/"
                                     ELSE "git://git-server/")>>
    \o (IF "opendev.org" \in ConnNames(cr) THEN << >>
        ELSE <<AddGitConnection("opendev.org", "https://opendev.org/")>>)
    \o <<Section(<<"webclient">>, NoKeys)>>

AddOIDCAuthenticator(auth) ==
    Section(Auth(auth.name), [driver |-> "OpenIDConnect", realm |-> auth.realm])

\* The only authenticator is the default; of several, the one that the CR names.
AddDefaultAuth(cr) ==
    LET name == IF Len(cr.auths) = 1 THEN cr.auths[1].name ELSE cr.defaultAuth
    IN  IF name = Empty THEN << >> ELSE <<Section(Auth(name), [default |-> TRUE])>>

\* The sections of static/zuul/zuul.conf.
ZuulDotConf ==
    <<Section(<<"keystore">>, NoKeys), Section(<<"zookeeper">>, NoKeys),
      Section(<<"database">>, NoKeys), Section(<<"scheduler">>, NoKeys),
      Section(<<"web">>, NoKeys), Section(<<"executor">>, NoKeys),
      Section(<<"merger">>, NoKeys), Section(Auth("zuul_client"), [driver |-> "HS256"]),
      Section(<<"statsd">>, NoKeys)>>

\* The settings of the services, of ZooKeeper, the database and the CLI.
AddSettings(cr, sec) ==
    <<Section(<<"scheduler">>, [option |-> cr.option["scheduler"]]),
      Section(<<"executor">>, [option |-> cr.option["executor"]]),
      Section(<<"merger">>, [option |-> cr.option["merger"]]),
      Section(<<"web">>, [root |-> cr.fqdn]),
      Section(<<"zookeeper">>, [public |-> cr.standalone]),
      Section(<<"keystore">>, [password |-> sec["zuul-keystore-password"]])>>
    \o (IF cr.standalone THEN << >>
        ELSE <<Section(<<"database">>, [dburi |-> sec["zuul-db-connection"]]),
               Section(Auth("zuul_client"),
                       [secret |-> sec["zuul-auth-secret"], realm |-> cr.fqdn])>>)

\* What EnsureZuulConfigSecret adds to zuul.conf, in turn.
ZuulConf(cr, sec) ==
    LET conns == InOrder(cr) IN
    ZuulDotConf \o [i \in DOMAIN conns |-> AddConnection(conns[i], sec)]
    \o AddDefaultConnections(cr)
    \o [i \in DOMAIN cr.auths |-> AddOIDCAuthenticator(cr.auths[i])]
    \o AddDefaultAuth(cr) \o AddSettings(cr, sec)

-----------------------------------------------------------------------------
(* What the pods of a service are made from. *)

Workloads == {"scheduler", "executor", "web", "merger", "remote-executor"}
Service(w) == IF w = "remote-executor" THEN "executor" ELSE w
Site(cr)   == IF cr.standalone THEN "remote" ELSE "control"
SiteOf(w)  == IF w = "remote-executor" THEN "remote" ELSE "control"

\* The keys of the sections whose names begin with a prefix, and with each of some.
Body(conf, prefix) ==
    LET places == InTurn({i \in DOMAIN conf : conf[i].name[1] = prefix})
    IN  [k \in DOMAIN places |-> conf[places[k]].keys]
Bodies(conf, prefixes) == [k \in DOMAIN prefixes |-> Body(conf, prefixes[k])]

\* Faulty variant: authenticators are part of every service's configuration.
ComponentSectionsAll(service) == <<"connection", "auth", service>>

\* Faulty variant: authenticators are part of the scheduler's only.
ComponentSectionsNoAuth(service) ==
    IF service = "scheduler" THEN <<"connection", "auth", service>>
    ELSE <<"connection", service>>

\* The sections that EnsureZuulScheduler and its like take the checksum of.
ComponentSections(service) ==
    IF service \in {"scheduler", "web"} THEN <<"connection", "auth", service>>
    ELSE <<"connection", service>>

\* IniSectionsChecksum, of the keys without the names of their sections.
Annotations(service, conf, level, repo) ==
    [common    |-> Bodies(conf, <<"zookeeper", "keystore", "database">>),
     component |-> Bodies(conf, ComponentSections(service)),
     logging   |-> level,
     repo      |-> IF service = "scheduler" THEN repo ELSE << >>]

\* The connection and the url of the config repository.
ConfigRepo(cr) == IF cr.repo = Empty THEN << >> ELSE <<cr.repo, ResolveConfigBaseURL(cr)>>

GitHubSecrets(cr)    == {conn.secret : conn \in Range(cr.conns.github)} \ {Empty}
GitHubAppSecrets(cr) == {conn.secret : conn \in {c \in Range(cr.conns.github) : c.app}}
GerritKeys(cr)       == {conn.sshkey : conn \in Range(cr.conns.gerrit)} \ {Empty}

\* Faulty variant: the keys of GitHub applications are not mounted.
ConnectionMountsGerrit(cr) == {<<"sshkey", s>> : s \in GerritKeys(cr)}

\* mkZuulConnectionsSecretsMount: each secret is mounted once.
ConnectionMounts(cr) ==
    {<<"app_key", s>> : s \in GitHubAppSecrets(cr)}
    \cup {<<"sshkey", s>> : s \in GerritKeys(cr) \ GitHubAppSecrets(cr)}

\* mkZuulConnectionSecretsVolumes
ConnectionVolumes(cr) ==
    {<<"app_key", s>> : s \in GitHubSecrets(cr)}
    \cup {<<"sshkey", s>> : s \in GerritKeys(cr) \ GitHubSecrets(cr)}

\* The log level of each service.
ComputeLoggingConfig(cr) ==
    [s \in DOMAIN cr.log |-> IF cr.log[s] = Empty THEN "INFO" ELSE cr.log[s]]

NoTemplate == [annotations |-> << >>, mounts |-> {}, volumes |-> {}, repo |-> << >>]

Template(service, cr, conf) ==
    [annotations |-> Annotations(service, conf, ComputeLoggingConfig(cr)[service],
                                ConfigRepo(cr)),
     mounts      |-> ConnectionMounts(cr),
     volumes     |-> ConnectionVolumes(cr),
     repo        |-> IF service = "scheduler" THEN ConfigRepo(cr) ELSE << >>]

-----------------------------------------------------------------------------
(* The system. *)

NoPod == [template |-> NoTemplate, conf |-> << >>, level |-> Empty]
Sites == {"control", "remote"}

VARIABLES
    pc,        \* where the command is
    cr,        \* what it was started with
    copied,    \* it was told to copy the secrets of the control plane
    todo,      \* the secrets yet to be copied
    ready,     \* every service that this pass looked at is ready
    controlCR, \* the last CR that was deployed at the control plane
    secrets,   \* the content of the secrets, at each site
    conf,      \* the secret zuul-config, at each site
    logging,   \* the log levels in zuul-logging-config-map, at each site
    template,  \* the pod template of each StatefulSet or Deployment
    read,      \* the secrets that the command made zuul.conf from
    input,     \* what of the CR and the secrets it was made from
    pod,       \* what each pod was started with
    edited,    \* the secrets that changed during a command that copies
    runs, faults

command == <<cr, copied, todo, ready, controlCR>>
cluster == <<secrets, conf, logging>>
history == <<read, input, edited>>
counts  == <<runs, faults>>
vars    == <<pc, command, cluster, template, pod, history, counts>>

PCs == {"idle", "ok", "copy", "validate", "conf", "end"} \cup Workloads

TypeOK ==
    /\ pc \in PCs /\ cr \in CRs /\ controlCR \in CRs
    /\ copied \in BOOLEAN /\ todo \in Seq(Secrets) /\ ready \in BOOLEAN
    /\ secrets \in [Sites -> [Secrets -> Nat]]
    /\ DOMAIN conf = Sites
    /\ \A s \in Sites : \A i, j \in DOMAIN conf[s] : conf[s][i].name = conf[s][j].name => i = j
    /\ DOMAIN logging = Sites /\ DOMAIN input = Workloads
    /\ DOMAIN template = Workloads /\ DOMAIN pod = Workloads
    /\ \A w \in Workloads : DOMAIN template[w] = DOMAIN NoTemplate /\ DOMAIN pod[w] = DOMAIN NoPod
    /\ edited \subseteq Secrets /\ read \in [Secrets -> Nat]
    /\ runs \in 0..MaxRuns /\ faults \in 0..MaxFaults

\* Nothing is deployed, and users have made their secrets, or some of them.
Init ==
    /\ pc = "idle" /\ cr = CHOOSE c \in CRs : Accepted(c) /\ ~c.standalone
    /\ controlCR = cr
    /\ copied = FALSE /\ todo = << >> /\ ready = FALSE
    /\ secrets = [s \in Sites |-> [n \in Secrets |->
                    IF s = "control" /\ n \in UserSecrets \ Missing THEN 1 ELSE 0]]
    /\ conf = [s \in Sites |-> << >>] /\ logging = [s \in Sites |-> << >>]
    /\ template = [w \in Workloads |-> NoTemplate]
    /\ input = [w \in Workloads |-> << >>]
    /\ pod = [w \in Workloads |-> NoPod]
    /\ edited = {} /\ read = [n \in Secrets |-> 0]
    /\ runs = 0 /\ faults = 0

Running == pc \notin {"idle", "ok"}

\* The command is over, and what it knew.
Forget ==
    /\ cr' = controlCR /\ copied' = FALSE /\ todo' = << >> /\ ready' = FALSE
    /\ edited' = {} /\ read' = [n \in Secrets |-> 0]

\* `deploy`, for a standalone CR possibly with the CR of the control plane, whose
\* secrets are then copied (setupRemoteExecutorConfig) before the CR is checked.
Start(c, copy) ==
    /\ ~Running /\ runs < MaxRuns
    /\ copy => c.standalone
    /\ \/ /\ IF copy THEN c.fqdn # controlCR.fqdn ELSE ~Accepted(c)
          /\ UNCHANGED <<pc, cr, controlCR, copied, todo, runs>>
       \/ /\ ~copy /\ Accepted(c) /\ runs' = runs + 1
          /\ pc' = "validate" /\ cr' = c
          /\ controlCR' = IF c.standalone THEN controlCR ELSE c
          /\ UNCHANGED <<copied, todo>>
       \/ /\ copy /\ c.fqdn = controlCR.fqdn /\ runs' = runs + 1
          /\ pc' = "copy" /\ cr' = c /\ copied' = TRUE
          /\ todo' = <<"zuul-keystore-password", "zookeeper-client-tls", "zuul-ssh-key">>
                     \o CRSecrets(c)
          /\ UNCHANGED controlCR
    /\ UNCHANGED <<ready, cluster, template, pod, history, faults>>

\* Faulty variant: a secret that exists at the remote site stays.
CopySecretOnce ==
    /\ pc = "copy" /\ todo # << >> /\ secrets["control"][Head(todo)] # 0
    /\ secrets' = [secrets EXCEPT !["remote"][Head(todo)] =
                      IF @ = 0 THEN secrets["control"][Head(todo)] ELSE @]
    /\ todo' = Tail(todo)
    /\ UNCHANGED <<pc, cr, copied, ready, controlCR, conf, logging, template, pod, history,
                   counts>>

\* copySecrets: a secret of the control plane takes the place of the one here.
CopySecret ==
    /\ pc = "copy" /\ todo # << >> /\ secrets["control"][Head(todo)] # 0
    /\ secrets' = [secrets EXCEPT !["remote"][Head(todo)] = secrets["control"][Head(todo)]]
    /\ todo' = Tail(todo)
    /\ UNCHANGED <<pc, cr, copied, ready, controlCR, conf, logging, template, pod, history,
                   counts>>

\* All are copied, or one is missing, which ends the command.
CopyEnds ==
    /\ pc = "copy"
    /\ \/ /\ todo = << >> /\ Accepted(cr) /\ pc' = "validate"
          /\ UNCHANGED <<cr, copied, todo, ready, edited, read>>
       \/ /\ IF todo = << >> THEN ~Accepted(cr) ELSE secrets["control"][Head(todo)] = 0
          /\ pc' = "idle" /\ Forget
    /\ UNCHANGED <<controlCR, cluster, template, pod, input, counts>>

\* The first half of a pass: validateZuulConnectionsSecrets, which is tried again
\* until it succeeds, and the secrets that the control plane makes itself.
Validate ==
    /\ pc = "validate" /\ ValidSecrets(cr, secrets[Site(cr)])
    /\ pc' = "conf" /\ ready' = TRUE
    /\ secrets' = IF cr.standalone THEN secrets
                  ELSE [secrets EXCEPT !["control"] =
                           [n \in Secrets |-> IF n \in OpSecrets /\ @[n] = 0 THEN 1 ELSE @[n]]]
    /\ UNCHANGED <<cr, copied, todo, controlCR, conf, logging, template, pod, history, counts>>

\* The services that a pass goes through, and the one after w.
Order(c) == IF c.standalone THEN <<"remote-executor">>
            ELSE IF c.executor THEN <<"scheduler", "executor", "web", "merger">>
            ELSE <<"scheduler", "web", "merger">>

After(w) == LET i == CHOOSE k \in DOMAIN Order(cr) : Order(cr)[k] = w
            IN  IF i = Len(Order(cr)) THEN "end" ELSE Order(cr)[i + 1]

\* A remote site waits for the secrets of the control plane.
HasRemoteSecrets ==
    cr.standalone => \A n \in {"zuul-keystore-password", "zuul-ssh-key", "zookeeper-client-tls"} :
                        secrets["remote"][n] # 0

\* An executor that is disabled goes, and zuul-config is written.
EnsureZuulConfigSecret ==
    LET gone == ~cr.standalone /\ ~cr.executor IN
    /\ pc = "conf"
    /\ HasRemoteSecrets
    /\ conf' = [conf EXCEPT ![Site(cr)] = NewSections(ZuulConf(cr, secrets[Site(cr)]))]
    /\ read' = secrets[Site(cr)]
    /\ template' = IF gone THEN [template EXCEPT !["executor"] = NoTemplate] ELSE template
    /\ pod' = IF gone THEN [pod EXCEPT !["executor"] = NoPod] ELSE pod
    /\ input' = IF gone THEN [input EXCEPT !["executor"] = << >>] ELSE input
    /\ pc' = Order(cr)[1]
    /\ UNCHANGED <<command, secrets, logging, edited, counts>>

\* What the settings of a service depend on, in the CR and in the secrets.
Inputs(service, c, sec) ==
    LET own  == {"zuul-keystore-password", "zuul-db-connection"}
                \cup (IF service \in {"scheduler", "web"} THEN {"zuul-auth-secret"} ELSE {})
        used == own \cup ({conn.secret : conn \in ConnectionsOf(c)} \ {Empty})
    IN  [conns |-> c.conns,
         level |-> ComputeLoggingConfig(c)[service],
         option |-> IF service = "web" THEN 0 ELSE c.option[service],
         fqdn |-> IF service \in {"scheduler", "web"} THEN c.fqdn ELSE Empty,
         repo |-> IF service = "scheduler" THEN c.repo ELSE Empty,
         auths |-> IF service \in {"scheduler", "web"} THEN <<c.auths, c.defaultAuth>> ELSE << >>,
         contents |-> [n \in used |-> sec[n]]]

\* Faulty variant: the template is written, and reported as changed, in each pass.
EnsureServiceAlways(w) ==
    LET new == Template(Service(w), cr, conf[Site(cr)]) IN
    /\ pc = w /\ pc' = After(w)
    /\ logging' = [logging EXCEPT ![Site(cr)] = ComputeLoggingConfig(cr)]
    /\ template' = [template EXCEPT ![w] = new]
    /\ input' = [input EXCEPT ![w] = Inputs(Service(w), cr, read)]
    /\ ready' = FALSE
    /\ UNCHANGED <<cr, copied, todo, controlCR, secrets, conf, pod, read, edited, counts>>

\* zuul-web is the one Deployment here: while its pod of the template before is
\* there, IsDeploymentRolloutDone may take the rollout for over (DeploymentRollout).
Rolling(w) == w = "web" /\ pod[w].template \notin {NoTemplate, template[w]}

\* EnsureZuulScheduler, Executor, Web or Merger: the log levels are written, then
\* the template if its annotations differ from those there; the service is ready
\* if they do not and its pod was started from it.  The API server refuses a
\* template that mounts a volume it does not have, and the command dies.
EnsureService(w) ==
    /\ pc = w
    /\ logging' = [logging EXCEPT ![Site(cr)] = ComputeLoggingConfig(cr)]
    /\ \E new \in {Template(Service(w), cr, conf[Site(cr)])} :
       \/ /\ template[w].annotations = new.annotations
          /\ \E answer \in IF Rolling(w) THEN BOOLEAN ELSE {pod[w].template = template[w]} :
                ready' = (ready /\ answer)
          /\ pc' = After(w)
          /\ UNCHANGED <<cr, template, input, copied, todo, read, edited>>
       \/ /\ template[w].annotations # new.annotations /\ new.mounts \subseteq new.volumes
          /\ template' = [template EXCEPT ![w] = new]
          /\ input' = [input EXCEPT ![w] = Inputs(Service(w), cr, read)]
          /\ pc' = After(w) /\ ready' = FALSE
          /\ UNCHANGED <<cr, copied, todo, read, edited>>
       \/ /\ template[w].annotations # new.annotations /\ ~(new.mounts \subseteq new.volumes)
          /\ pc' = "idle" /\ Forget
          /\ UNCHANGED <<template, input>>
    /\ UNCHANGED <<controlCR, secrets, conf, pod, counts>>

\* The end of the pass.
Finish ==
    /\ pc = "end"
    /\ \/ ready /\ pc' = "ok" /\ Forget
       \/ ~ready /\ pc' = "validate" /\ UNCHANGED <<cr, copied, todo, ready, edited, read>>
    /\ UNCHANGED <<controlCR, cluster, template, pod, input, counts>>

Deploy ==
    \/ CopySecret \/ CopyEnds \/ Validate \/ EnsureZuulConfigSecret \/ Finish
    \/ \E w \in Workloads : EnsureService(w)

\* The command is killed, or has used up its attempts.
Kill ==
    /\ Running /\ faults < MaxFaults /\ faults' = faults + 1
    /\ pc' = "idle" /\ Forget
    /\ UNCHANGED <<controlCR, cluster, template, pod, input, runs>>

\* Kubernetes starts the pod of a template, which loads what is there.
Load(w, from) == pod' = [pod EXCEPT ![w] = [template |-> from, conf |-> conf[SiteOf(w)],
                                            level |-> logging[SiteOf(w)][Service(w)]]]

PodStart(w) ==
    /\ template[w] # NoTemplate /\ pod[w].template # template[w]
    /\ Load(w, template[w])
    /\ UNCHANGED <<pc, command, cluster, template, history, counts>>

\* A pod restarts by itself, from the template it has.
PodRestart(w) ==
    /\ pod[w] # NoPod /\ faults < MaxFaults /\ faults' = faults + 1
    /\ Load(w, pod[w].template) /\ pod' # pod
    /\ UNCHANGED <<pc, command, cluster, template, history, runs>>

\* A user provides a secret or changes it, or it was rotated.
Edit(n) ==
    /\ faults < MaxFaults /\ faults' = faults + 1
    /\ n \in Missing \/ secrets["control"][n] # 0
    /\ secrets' = [secrets EXCEPT !["control"][n] = @ + 1]
    /\ edited' = IF copied THEN edited \cup {n} ELSE edited
    /\ UNCHANGED <<pc, command, conf, logging, template, pod, read, input, runs>>

Next ==
    \/ \E c \in CRs, copy \in BOOLEAN : Start(c, copy)
    \/ Deploy \/ Kill
    \/ \E w \in Workloads : PodStart(w) \/ PodRestart(w)
    \/ \E n \in Editable : Edit(n)

\* Deploy can take a step, and takes one: no other action but Kill changes pc or
\* todo while a command runs.
DeployEnabled ==
    /\ Running
    /\ pc = "validate" => ValidSecrets(cr, secrets[Site(cr)])
    /\ pc = "conf" => HasRemoteSecrets
DeployStep == Running /\ faults' = faults

\* The command goes on, and Kubernetes starts pods.  The first is WF_vars(Deploy),
\* written out because TLC takes long over ENABLED of what computes a zuul.conf.
Fairness ==
    /\ []<>~DeployEnabled \/ []<><<DeployStep>>_<<pc, todo>>
    /\ WF_pod(\E w \in Workloads : PodStart(w))

Spec == Init /\ [][Next]_vars /\ Fairness

-----------------------------------------------------------------------------
(* Properties *)

\* What the pod of w has loaded is not what its template was made for: it has
\* restarted by itself on the zuul.conf of a command that did not come to update
\* the template.  If a later command goes back to the CR before, the template
\* fits again, and the pod keeps what it has.
Ahead(w) ==
    Annotations(Service(w), pod[w].conf, pod[w].level, pod[w].template.repo)
       # pod[w].template.annotations

\* What runs of w need not be what the last command asked for.
Unsettled(w) == Ahead(w) \/ Rolling(w)

\* What a service reads of zuul.conf.
Reads(service) ==
    <<"connection", "zookeeper", "keystore", service>>
    \o (IF service \in {"scheduler", "web"} THEN <<"auth", "database">> ELSE << >>)

Succeeds == pc = "end" /\ pc' = "ok"

\* When deploy succeeds, each service runs with what zuul.conf and the CR have for
\* it by then (up to the names of sections): its connections, the passwords, the
\* authenticators, its options and its log level ("Changing this value will
\* restart the service"), and the scheduler with the config repository; however
\* the commands before were cut short and whenever pods were started.  Excepted
\* are a pod that is ahead of its template, and a zuul-web that is being replaced.
SuccessIsServed ==
    [][Succeeds => \A i \in DOMAIN Order(cr) :
          LET w == Order(cr)[i] IN
          \/ Unsettled(w)
          \/ /\ Bodies(pod[w].conf, Reads(Service(w))) = Bodies(conf[Site(cr)], Reads(Service(w)))
             /\ pod[w].level = ComputeLoggingConfig(cr)[Service(w)]
             /\ w = "scheduler" => pod[w].template.repo = ConfigRepo(cr)]_vars

\* Every file that the zuul.conf of w's pod names is mounted in it.
Mounted(w) ==
    \A k \in DOMAIN pod[w].conf :
       LET keys == pod[w].conf[k].keys IN
       \A f \in {"app_key", "sshkey"} \cap DOMAIN keys :
          keys[f] = "zuul-ssh" \/ <<f, keys[f]>> \in pod[w].template.mounts

\* When deploy succeeds, every file that the loaded zuul.conf names is mounted in
\* the pod.  Excepted is a CR that has one secret for a GitHub application and as
\* the key of a Gerrit user, which is mounted for the first only.
FilesMounted ==
    [][Succeeds /\ GitHubSecrets(cr) \cap GerritKeys(cr) = {} =>
       \A i \in DOMAIN Order(cr) : Unsettled(Order(cr)[i]) \/ Mounted(Order(cr)[i])]_vars

SectionsOf(name, new) == {new[i].keys : i \in {j \in DOMAIN new : new[j].name = name}}

\* No later authenticator has the name of the i-th, nor does zuul_client.
LastOfItsName(i, c) ==
    /\ c.auths[i].name # "zuul_client"
    /\ \A j \in DOMAIN c.auths : j > i => c.auths[j].name # c.auths[i].name

Kept(c, new) ==
    /\ \A conn \in ConnectionsOf(c) :
          \E keys \in SectionsOf(Connection(conn.name), new) :
             keys.driver = conn.driver /\ keys.url = conn.url
    /\ \E keys \in SectionsOf(Connection("git-server"), new) :
          keys.driver = "git" /\ keys.url \in {"git://git-server/", "git://public/"}
    /\ \E keys \in SectionsOf(Connection("opendev.org"), new) :
          keys.url \in {"https://opendev.org/", "https://opendev.org", "review.opendev.org"}
    /\ \A i \in DOMAIN c.auths : LastOfItsName(i, c) =>
          \E keys \in SectionsOf(Auth(c.auths[i].name), new) :
             keys.driver = "OpenIDConnect" /\ keys.realm = c.auths[i].realm
    /\ Cardinality({i \in DOMAIN new : "default" \in DOMAIN new[i].keys}) <= 1

\* Of a CR that is accepted, every connection has a section of its own with its
\* own driver and url, as do git-server and opendev.org; every authenticator has
\* its own, but one called zuul_client and all but the last of those of one name,
\* which no check refuses; and at most one is the default.
SectionsKept ==
    [][pc = "conf" /\ pc' # "idle" /\ conf' # conf => Kept(cr, conf'[Site(cr)])]_vars

\* A service is only restarted for a change that concerns it: of authenticators,
\* say, an executor with its running jobs does not notice.
OnlyForItsOwn ==
    [][\A w \in Workloads :
          template[w] # NoTemplate /\ template'[w] \notin {template[w], NoTemplate} =>
             input'[w] # input[w]]_vars

\* The content that the keys of a section have of secret n is the control plane's.
UpToDate(n, key, keys) == n \in edited \/ keys[key] = secrets["control"][n]

Agrees(c, loaded) ==
    /\ \A k \in DOMAIN loaded : loaded[k].name = <<"keystore">> =>
          UpToDate("zuul-keystore-password", "password", loaded[k].keys)
    /\ \A conn \in ConnectionsOf(c) :
          conn.driver \in {"github", "gitlab", "pagure"} /\ conn.secret # Empty =>
             \E k \in DOMAIN loaded :
                /\ loaded[k].name[1] = "connection"
                /\ loaded[k].keys.driver = conn.driver /\ loaded[k].keys.url = conn.url
                /\ UpToDate(conn.secret, "token", loaded[k].keys)

\* When the deploy of a remote executor that copied the secrets succeeds, the
\* executor runs with those of the control plane (except for those that were
\* changed meanwhile), as far as CRSecrets has them: the keystore password, and
\* for each connection its token.  The name of the connection is left out as it
\* is from the checksums: two that swap their names restart nothing.
RemoteAgrees ==
    [][Succeeds /\ copied /\ ~Ahead("remote-executor") =>
          Agrees(cr, pod["remote-executor"].conf)]_vars

\* The secrets that the command waits for are there.
Provided ==
    /\ ValidSecrets(cr, secrets[Site(cr)])
    /\ HasRemoteSecrets

\* A deploy whose secrets are there ends: it does not restart services for ever.
CommandEnds == (Running /\ Provided) ~> ~Running
====
