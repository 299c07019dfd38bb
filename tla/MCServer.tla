---------------------------------- MODULE MCServer ----------------------------------
(* Configurations to start the server with: each way to refuse one, the defaults with either
   database, and what nobody checks: the method, the web root, the connection string. *)
EXTENDS Server

Plain == [db |-> TRUE, driver |-> "sqlite", connstr |-> TRUE,
          address |-> TRUE, root |-> TRUE, key |-> FALSE, cert |-> FALSE,
          mgmt |-> "none", mgmtlist |-> "none", store |-> "db",
          auth |-> "basic", header |-> FALSE, proxylist |-> "none"]

Refused == {
    [Plain EXCEPT !.db = FALSE],
    [Plain EXCEPT !.connstr = FALSE],
    [Plain EXCEPT !.root = FALSE],
    [Plain EXCEPT !.address = FALSE],
    [Plain EXCEPT !.key = TRUE],
    [Plain EXCEPT !.mgmtlist = "bad"],
    [Plain EXCEPT !.store = "other"],
    [Plain EXCEPT !.proxylist = "bad"],
    [Plain EXCEPT !.auth = "proxy"],
    [Plain EXCEPT !.auth = "proxy", !.header = TRUE],
    [Plain EXCEPT !.auth = "other"]
}

(* Two requests for two kinds of handlers; a page that found its podcast is a plain one. *)
For(kind1, kind2) ==
    [r \in Requests |-> IF r = CHOOSE q \in Requests : TRUE THEN kind1 ELSE kind2]

MCStarts ==
    {<<c, For("plain", "plain")>> : c \in Refused} \cup
    {<<[Plain EXCEPT !.auth = "", !.store = "", !.mgmt = "separate", !.mgmtlist = "good"],
       For("form", "password")>>,
     <<[Plain EXCEPT !.driver = "pg", !.mgmt = "same"], For("page", "plain")>>}

=============================================================================
