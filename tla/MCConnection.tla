---------------------------- MODULE MCConnection ----------------------------
(* Instances of Connection for TLC.                                        *)
EXTENDS Connection

MCUsers == {"alice", "mallory", ""}
MCRoles == {"support"}

Only(user) == [u \in MCUsers |-> IF u = user THEN {"support"} ELSE {}]

\* Relaxed, strict with another role's members, strict towards the server.
MCConfigs ==
    {[cert |-> FALSE, require |-> FALSE, backend_tls |-> "require", roles |-> Only("alice"),
      max_notices |-> 1, burst |-> 1],
     [cert |-> TRUE, require |-> TRUE, backend_tls |-> "verify-full", roles |-> Only("mallory"),
      max_notices |-> 2, burst |-> 1]}

MCStartupUsers == {<< >>, << "alice" >>, << "mallory" >>, << "alice", "mallory" >>}
MCCertificates == {"trusted", "untrusted", "none"}
MCMechanisms ==
    {{"SCRAM-SHA-256"}, {"SCRAM-SHA-256", "SCRAM-SHA-256-PLUS"}, {"SCRAM-SHA-256-PLUS"}}

-----------------------------------------------------------------------------
(* One connection from its first packet, or every connection of one user   *)
(* just after its login.                                                   *)

First == CHOOSE c \in Conns : TRUE

LoggedIn ==
    [NewConn EXCEPT !.phase = "pump", !.packet = "startup", !.users = << "alice" >>,
                    !.client_tls = TRUE, !.backend_tls = "verify-full", !.principal = "alice",
                    !.authenticated = TRUE, !.roles = RolesOf("alice")]

Serving ==
    [NewServer EXCEPT !.at = "up", !.certificate = "trusted", !.encrypted = TRUE,
                      !.users = << "alice" >>, !.vouched = "alice"]

InitWith(conns, servers) ==
    /\ live \in Configs
    /\ acceptor = live.cert
    /\ reload = "idle"
    /\ epoch = 0
    /\ tokens = FullBucket(live)
    /\ refills = 0
    /\ conn = conns
    /\ db = servers
    /\ spent = [u \in Users |-> 0]
    /\ permitted = [c \in Conns |-> FALSE]

Start ==
    \/ InitWith([c \in Conns |-> IF c = First THEN NewConn ELSE [NewConn EXCEPT !.phase = "closed"]],
                [c \in Conns |-> NewServer])
    \/ InitWith([c \in Conns |-> LoggedIn], [c \in Conns |-> Serving])

MCSpec == Start /\ [][Next]_vars
=============================================================================
