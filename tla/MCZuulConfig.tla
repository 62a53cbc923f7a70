---------------------------- MODULE MCZuulConfig ----------------------------
(* Resources for TLC: connections of every kind, and changes of one to another. *)
EXTENDS ZuulConfig

Conn(driver, name, url, secret, sshkey, app) ==
    [driver |-> driver, name |-> name, url |-> url, secret |-> secret, sshkey |-> sshkey,
     app |-> app]

\* The lists of a CR.
Lists(conns) ==
    [d \in Drivers |-> SelectSeq(conns, LAMBDA conn : conn.driver = d)]

Gerrit  == Conn("gerrit", "gerrit", "review", "", "gkey", FALSE)
GitHub  == Conn("github", "github.com", "github", "gh", "", TRUE)
GitLab  == Conn("gitlab", "gitlab", "gitlab", "gl", "", FALSE)
Mail    == Conn("smtp", "mail", "smtp", "mail", "", FALSE)
Opendev == Conn("gerrit", "opendev.org", "review.opendev.org", "", "", FALSE)

Some == [conns |-> Lists(<<GitHub, Gerrit>>), auths |-> << >>, defaultAuth |-> "", repo |-> "gerrit",
         fqdn |-> "sf", option |-> [s \in {"scheduler", "executor", "merger"} |-> 1],
         log |-> [s \in {"scheduler", "executor", "web", "merger"} |-> ""],
         executor |-> TRUE, standalone |-> FALSE]

\* Other connections and options; no key of Gerrit's any more.
Many == [Some EXCEPT !.conns = Lists(<<Mail, GitHub, Opendev, GitLab,
                                 Conn("pagure", "pagure", "pagure", "", "", FALSE),
                                 Conn("git", "cgit", "git://cgit", "", "", FALSE),
                                 Conn("elasticsearch", "es", "es", "mail", "", FALSE)>>),
                     !.auths = <<[name |-> "a", realm |-> "ra"], [name |-> "b", realm |-> "rb"]>>,
                     !.defaultAuth = "b", !.repo = "", !.executor = FALSE]
\* The same as Some, but for an authenticator and the log level of the merger.
Login == [Some EXCEPT !.auths = <<[name |-> "a", realm |-> "ra"]>>, !.log["merger"] = "DEBUG",
                      !.repo = "github.com"]
\* One secret for two purposes.
Shared == [Some EXCEPT !.conns.github[1].secret = "gkey", !.conns.github[1].app = FALSE]
Remote == [Some EXCEPT !.standalone = TRUE, !.repo = "", !.conns = Lists(<<GitHub>>)]

Rejected == {[Some EXCEPT !.conns = Lists(<<Gerrit, GitHub, [GitLab EXCEPT !.name = "gerrit"]>>)],
             [Some EXCEPT !.conns.github[1].name = "git-server"],
             [Some EXCEPT !.conns.github[1].name = "opendev.org"],
             [Remote EXCEPT !.fqdn = "other", !.conns.github[1].name = "git-server"]}

AllCRs == {Some, Many, Login, Shared, Remote} \cup Rejected
====
