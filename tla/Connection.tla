----------------------------- MODULE Connection -----------------------------
(* The life of client connections: TLS negotiation on both legs, the       *)
(* startup packet, authentication, roles, statement budgets, notices and   *)
(* the messages that close a connection.  The plan of a result and what a  *)
(* statement means are the business of Session; here a statement is only   *)
(* something that costs a token.                                           *)
(*                                                                         *)
(* Sources: session.rs (handle_connection and the arms of the two handlers *)
(* that Session leaves out), tls.rs, rate_limit.rs, protocol.rs (SASL,     *)
(* ParameterStatus, startup parameters), policy.rs (the cells a reload     *)
(* stores), main.rs (the accept loop).                                     *)
EXTENDS Naturals, Sequences, FiniteSets

CONSTANTS
    None,           \* an absent value
    Conns,          \* connections the listener may accept
    Users,          \* names a startup packet may claim
    Nameless,       \* the empty user name, a member of Users
    Roles,          \* roles of the catalog file
    Configs,        \* configurations a reload may install
    StartupUsers,   \* the user parameters of the startup packets clients send
    Certificates,   \* what the server may present: "trusted", "untrusted" or "none"
    Mechanisms,     \* SASL mechanism lists the server may offer over TLS
    MaxReloads,     \* reloads of the policy file
    MaxStatements,  \* statements per connection
    MaxNotices,     \* notices per connection
    MaxRefills      \* tokens the clock gives back

Config ==
    [cert : BOOLEAN, require : BOOLEAN, backend_tls : {"disable", "require", "verify-full"},
     roles : [Users -> SUBSET Roles], max_notices : Nat \cup {None}, burst : Nat \cup {None}]

\* validate_client_tls: require_client_tls without a certificate is refused.
ValidClientTls(config) == config.require => config.cert

ASSUME ConnectionAssumption ==
    /\ None \notin Users \cup Nat
    /\ Nameless \in Users
    /\ Configs \subseteq {config \in Config : ValidClientTls(config)}
    /\ StartupUsers \subseteq Seq(Users)
    /\ Certificates \subseteq {"trusted", "untrusted", "none"}
    /\ Mechanisms \subseteq SUBSET {"SCRAM-SHA-256", "SCRAM-SHA-256-PLUS"}
    /\ MaxReloads \in Nat /\ MaxStatements \in Nat
    /\ MaxNotices \in Nat /\ MaxRefills \in Nat

VARIABLES
    live,       \* Policy::live, the knobs in force
    acceptor,   \* Policy::tls, whether there is a certificate to offer
    reload,     \* the step a reload has reached
    epoch,      \* Policy::generation
    tokens,     \* the keyed rate limiter in force, tokens left per user
    refills,    \* tokens given back so far
    conn,       \* one record per connection, the locals of handle_connection
    db,         \* the server's end of each connection (external)
    spent,      \* statements the server got per user it vouched for, under this limiter
    permitted   \* what the plaintext gate read, per connection

policy == << live, acceptor, reload, epoch >>
vars == << policy, tokens, refills, conn, db, spent, permitted >>

Phases == {"idle", "startup", "gate", "connect", "forward", "identify", "pump", "closed"}

Connected ==
    [phase : Phases, client_tls : BOOLEAN, packet : {"none", "cancel", "startup"},
     users : Seq(Users), backend_tls : {None, "disable", "require", "verify-full"},
     principal : Users \cup {None}, authenticated : BOOLEAN, roles : SUBSET Roles,
     seen : Nat, notices : Nat, suppressing : BOOLEAN, relayed : Nat, sent : Nat,
     heard : Nat, mechanisms : SUBSET {"SCRAM-SHA-256", "SCRAM-SHA-256-PLUS"}]

Server ==
    [at : {"none", "connected", "startup", "sasl", "up", "gone"},
     certificate : Certificates \cup {None}, encrypted : BOOLEAN, users : Seq(Users),
     cancelled : BOOLEAN, vouched : Users \cup {None},
     offered : SUBSET {"SCRAM-SHA-256", "SCRAM-SHA-256-PLUS"}]

\* The type invariant: the policy's cells, the locals of handle_connection, and
\* budgets that never fall below nothing.
TypeOK ==
    /\ live \in Configs
    /\ acceptor \in BOOLEAN
    /\ reload \in {"idle", "begun", "stored"}
    /\ epoch \in Nat
    /\ tokens \in [Users -> Nat]
    /\ refills \in 0..MaxRefills
    /\ conn \in [Conns -> Connected]
    /\ db \in [Conns -> Server]
    /\ spent \in [Users -> Nat]
    /\ permitted \in [Conns -> BOOLEAN]

-----------------------------------------------------------------------------
(* Shared by every connection: the policy's cells and the rate limiter.    *)

\* A new keyed limiter gives every user a full bucket.
FullBucket(config) == [u \in Users |-> IF config.burst = None THEN 0 ELSE config.burst]

RolesOf(user) == live.roles[user]

\* apply_config_locked: a bump, the store of the knobs, the store of the
\* acceptor, and the bump of PolicyChange::drop.
ReloadBegins ==
    /\ reload = "idle"
    /\ epoch < 2 * MaxReloads
    /\ reload' = "begun"
    /\ epoch' = epoch + 1
    /\ UNCHANGED << live, acceptor, tokens, refills, conn, db, spent, permitted >>

\* live_from_config keeps the limiter when the quota is the same.
ReloadStoresLive ==
    /\ reload = "begun"
    /\ \E config \in Configs :
        /\ live' = config
        /\ IF config.burst = live.burst
           THEN UNCHANGED << tokens, spent, refills >>
           ELSE /\ tokens' = FullBucket(config)
                /\ spent' = [u \in Users |-> 0]
                /\ refills' = 0
    /\ reload' = "stored"
    /\ UNCHANGED << acceptor, epoch, conn, db, permitted >>

\* Mutant: no bump after the stores.
ReloadEndsSilently ==
    /\ reload = "stored"
    /\ acceptor' = live.cert
    /\ reload' = "idle"
    /\ UNCHANGED << live, epoch, tokens, refills, conn, db, spent, permitted >>

ReloadStoresTls ==
    /\ reload = "stored"
    /\ acceptor' = live.cert
    /\ reload' = "idle"
    /\ epoch' = epoch + 1
    /\ UNCHANGED << live, tokens, refills, conn, db, spent, permitted >>

\* The governor crate: one cell per period, never above the burst.
ClockTicks ==
    /\ live.burst # None
    /\ refills < MaxRefills
    /\ \E u \in Users : tokens[u] < live.burst
    /\ tokens' = [u \in Users |-> IF tokens[u] < live.burst THEN tokens[u] + 1 ELSE tokens[u]]
    /\ refills' = refills + 1
    /\ UNCHANGED << policy, conn, db, spent, permitted >>

-----------------------------------------------------------------------------
(* handle_connection up to the message pump.                               *)

NewConn ==
    [phase |-> "idle", client_tls |-> FALSE, packet |-> "none", users |-> << >>,
     backend_tls |-> None, principal |-> None, authenticated |-> FALSE, roles |-> {},
     seen |-> 0, notices |-> 0, suppressing |-> FALSE, relayed |-> 0, sent |-> 0,
     heard |-> 0, mechanisms |-> {}]

NewServer ==
    [at |-> "none", certificate |-> None, encrypted |-> FALSE, users |-> << >>,
     cancelled |-> FALSE, vouched |-> None, offered |-> {}]

At(c, phase) == conn[c].phase = phase

Ends(c) == conn' = [conn EXCEPT ![c].phase = "closed"]

Shared == << policy, tokens, refills, spent >>

\* The accept loop spawns a task per connection.
Accepted(c) ==
    /\ At(c, "idle")
    /\ conn' = [conn EXCEPT ![c].phase = "startup"]
    /\ UNCHANGED << Shared, db, permitted >>

\* SSLRequest: 'S' and a handshake, or 'N' and another packet.
ReadsSslRequest(c) ==
    /\ At(c, "startup")
    /\ \/ /\ acceptor
          /\ \/ conn' = [conn EXCEPT ![c].client_tls = TRUE]
             \/ Ends(c)
       \/ ~acceptor /\ UNCHANGED conn
    /\ UNCHANGED << Shared, db, permitted >>

\* read_startup_packet: end of file, or a length outside 8 .. 1 MiB.
StartupFails(c) ==
    /\ At(c, "startup")
    /\ Ends(c)
    /\ UNCHANGED << Shared, db, permitted >>

\* Any other code leaves the loop: a CancelRequest or a StartupMessage.
ReadsStartupPacket(c) ==
    /\ At(c, "startup")
    /\ \/ conn' = [conn EXCEPT ![c].phase = "gate", ![c].packet = "cancel"]
       \/ \E users \in StartupUsers :
            conn' = [conn EXCEPT ![c].phase = "gate", ![c].packet = "startup",
                                 ![c].users = users]
    /\ UNCHANGED << Shared, db, permitted >>

\* Mutant: plaintext is refused only while there is a certificate to offer.
PlaintextRefusedIfOffered(c) == ~conn[c].client_tls /\ live.require /\ acceptor

\* A certificate is a boundary only if it is required.
PlaintextRefused(c) == ~conn[c].client_tls /\ live.require

PassesPlaintextGate(c) ==
    /\ At(c, "gate")
    /\ IF PlaintextRefused(c) THEN Ends(c)
       ELSE conn' = [conn EXCEPT ![c].phase = "connect"]
    /\ permitted' = [permitted EXCEPT ![c] = ~live.require]
    /\ UNCHANGED << Shared, db >>

\* TcpStream::connect, then the mode is loaded.
ConnectsBackend(c) ==
    /\ At(c, "connect")
    /\ \/ Ends(c) /\ UNCHANGED db
       \/ \E certificate \in Certificates :
            /\ conn' = [conn EXCEPT ![c].phase = "forward", ![c].backend_tls = live.backend_tls]
            /\ db' = [db EXCEPT ![c].at = "connected", ![c].certificate = certificate]
    /\ UNCHANGED << Shared, permitted >>

\* backend_client_config: require accepts any certificate, verify-full only
\* one the roots vouch for.
HandshakeSucceeds(mode, certificate) ==
    \/ mode = "require" /\ certificate # "none"
    \/ mode = "verify-full" /\ certificate = "trusted"

\* upgrade_backend when the mode asks for it, then the startup packet.
ForwardsStartup(c) ==
    LET mode == conn[c].backend_tls IN
    /\ At(c, "forward")
    /\ IF mode = "disable" \/ HandshakeSucceeds(mode, db[c].certificate)
       THEN /\ db' = [db EXCEPT ![c].at = "startup",
                                ![c].encrypted = mode # "disable",
                                ![c].users = conn[c].users,
                                ![c].cancelled = conn[c].packet = "cancel"]
            /\ conn' = [conn EXCEPT ![c].phase =
                            IF conn[c].packet = "cancel" THEN "closed" ELSE "identify"]
       ELSE Ends(c) /\ UNCHANGED db
    /\ UNCHANGED << Shared, permitted >>

\* Mutant: the first user wins.
FirstUser(users) == IF Len(users) > 0 THEN users[1] ELSE None

\* startup_principal: the one user the packet names.
StartupPrincipal(users) == IF Len(users) = 1 THEN users[1] ELSE None

Identifies(c) ==
    LET user == StartupPrincipal(conn[c].users) IN
    /\ At(c, "identify")
    /\ IF user = None THEN Ends(c)
       ELSE conn' = [conn EXCEPT ![c].phase = "pump", ![c].principal = user]
    /\ UNCHANGED << Shared, db, permitted >>

-----------------------------------------------------------------------------
(* The server (external).  It takes the last user a packet names, offers   *)
(* channel binding only over TLS, and vouches for a user once.             *)

ServerUser(c) == IF db[c].users = << >> THEN Nameless ELSE db[c].users[Len(db[c].users)]

Offers(c) ==
    {m \in Mechanisms : db[c].encrypted \/ "SCRAM-SHA-256-PLUS" \notin m} \ {{}}

-----------------------------------------------------------------------------
(* handle_backend: the arms that Session leaves out.                       *)

Pumps(c) == At(c, "pump") /\ db[c].at # "gone"

HasPlus(mechanisms) == "SCRAM-SHA-256-PLUS" \in mechanisms

\* strip_channel_binding.
StripChannelBinding(mechanisms) == mechanisms \ {"SCRAM-SHA-256-PLUS"}

\* Mutant: a client behind TLS gets the stripped list too.
RelayableStripped(offered, client_tls) == StripChannelBinding(offered)

Relayable(offered, client_tls) ==
    IF client_tls /\ HasPlus(offered) THEN {} ELSE StripChannelBinding(offered)

\* AuthenticationSASL: stripped for a plaintext client, refused for one
\* behind TLS or with nothing left to offer.
BackendSasl(c) ==
    /\ Pumps(c)
    /\ db[c].at = "startup"
    /\ \E offered \in Offers(c) :
        /\ db' = [db EXCEPT ![c].at = "sasl", ![c].offered = offered]
        /\ LET relayed == Relayable(offered, conn[c].client_tls) IN
            IF relayed = {} THEN Ends(c)
            ELSE conn' = [conn EXCEPT ![c].mechanisms = relayed]
    /\ UNCHANGED << Shared, permitted >>

\* note_backend_auth on AuthenticationOk.  The server trusts the address, or
\* has checked the password of the mechanism it offered.
BackendAuthenticationOk(c) ==
    /\ Pumps(c)
    /\ db[c].at \in {"startup", "sasl"}
    /\ ServerUser(c) # Nameless
    /\ db' = [db EXCEPT ![c].at = "up", ![c].vouched = ServerUser(c)]
    /\ conn' = [conn EXCEPT ![c].authenticated = TRUE,
                            ![c].roles = RolesOf(conn[c].principal)]
    /\ UNCHANGED << Shared, permitted >>

\* A failed login, or any end of the server's stream.
BackendEof(c) ==
    /\ Pumps(c)
    /\ db' = [db EXCEPT ![c].at = "gone"]
    /\ Ends(c)
    /\ UNCHANGED << Shared, permitted >>

\* The arms that answer with an error and close: COPY out and its data, and
\* every tag that is not listed.
BackendCloses(c) ==
    /\ Pumps(c)
    /\ db[c].at = "up"
    /\ ~conn[c].suppressing
    /\ Ends(c)
    /\ UNCHANGED << Shared, db, permitted >>

\* A rejected result: everything up to ReadyForQuery is swallowed.
BackendRejects(c) ==
    /\ Pumps(c)
    /\ db[c].at = "up"
    /\ ~conn[c].suppressing
    /\ conn' = [conn EXCEPT ![c].suppressing = TRUE]
    /\ UNCHANGED << Shared, db, permitted >>

\* Mutant: one notice too many.
OverCapByOne(count) == live.max_notices # None /\ count > live.max_notices + 1

\* The cap a notice is judged by when it arrives.
OverCap(count) == live.max_notices # None /\ count > live.max_notices

\* handle_notice: counted, dropped over the cap, else scrubbed and relayed.
BackendNotice(c) ==
    LET count == conn[c].notices + 1 IN
    /\ Pumps(c)
    /\ db[c].at = "up"
    /\ conn[c].heard < MaxNotices
    /\ IF conn[c].suppressing
       THEN conn' = [conn EXCEPT ![c].heard = @ + 1]
       ELSE conn' = [conn EXCEPT ![c].heard = @ + 1, ![c].notices = count,
                                 ![c].relayed = IF OverCap(count) THEN @ ELSE @ + 1]
    /\ UNCHANGED << Shared, db, permitted >>

\* note_txn_status comes before the check for suppression.
BackendReady(c) ==
    /\ Pumps(c)
    /\ db[c].at = "up"
    /\ conn[c].notices > 0 \/ conn[c].suppressing
    /\ conn' = [conn EXCEPT ![c].notices = 0, ![c].suppressing = FALSE, ![c].relayed = 0]
    /\ UNCHANGED << Shared, db, permitted >>

-----------------------------------------------------------------------------
(* handle_frontend: sync_policy, then the message.                         *)

Synced(c) ==
    IF conn[c].seen = epoch THEN conn[c]
    ELSE [conn[c] EXCEPT !.seen = epoch,
                         !.roles = IF conn[c].authenticated THEN RolesOf(conn[c].principal) ELSE @]

\* The server counts what reaches it from a user it vouched for.
Reaches(c) ==
    spent' = IF live.burst = None \/ db[c].vouched = None THEN spent
             ELSE [spent EXCEPT ![db[c].vouched] = @ + 1]

\* allow_statement: only a vouched-for name is charged.
Charged(c) == live.burst # None /\ conn[c].authenticated /\ conn[c].principal # Nameless

\* Mutant: an empty bucket still pays.
HasCredit(user) == tokens[user] >= 0

\* try_acquire.
HasToken(user) == tokens[user] > 0

\* Query or Execute, past the gates: a token, or a refusal.
FrontendStatement(c) ==
    LET user == conn[c].principal IN
    /\ Pumps(c)
    /\ conn[c].sent < MaxStatements
    /\ conn' = [conn EXCEPT ![c] = [Synced(c) EXCEPT !.sent = @ + 1]]
    /\ \/ /\ ~Charged(c)
          /\ UNCHANGED tokens
          /\ Reaches(c)
       \/ /\ Charged(c)
          /\ HasToken(user)
          /\ tokens' = [tokens EXCEPT ![user] = @ - 1]
          /\ Reaches(c)
       \/ /\ Charged(c)
          /\ ~HasToken(user)
          /\ UNCHANGED << tokens, spent >>
    /\ UNCHANGED << policy, refills, db, permitted >>

\* FunctionCall is refused, Terminate is forwarded; both close, and so does
\* the end of the client's stream.
FrontendCloses(c) ==
    /\ Pumps(c)
    /\ conn' = [conn EXCEPT ![c] = [Synced(c) EXCEPT !.phase = "closed"]]
    /\ db' = [db EXCEPT ![c].at = "gone"]
    /\ UNCHANGED << Shared, permitted >>

-----------------------------------------------------------------------------

Init ==
    /\ live \in Configs
    /\ acceptor = live.cert
    /\ reload = "idle"
    /\ epoch = 0
    /\ tokens = FullBucket(live)
    /\ refills = 0
    /\ conn = [c \in Conns |-> NewConn]
    /\ db = [c \in Conns |-> NewServer]
    /\ spent = [u \in Users |-> 0]
    /\ permitted = [c \in Conns |-> FALSE]

Reload == ReloadBegins \/ ReloadStoresLive \/ ReloadStoresTls

Startup(c) ==
    \/ Accepted(c)
    \/ ReadsSslRequest(c)
    \/ StartupFails(c)
    \/ ReadsStartupPacket(c)
    \/ PassesPlaintextGate(c)
    \/ ConnectsBackend(c)
    \/ ForwardsStartup(c)
    \/ Identifies(c)

Pump(c) ==
    \/ BackendSasl(c)
    \/ BackendAuthenticationOk(c)
    \/ BackendEof(c)
    \/ BackendCloses(c)
    \/ BackendRejects(c)
    \/ BackendNotice(c)
    \/ BackendReady(c)
    \/ FrontendStatement(c)
    \/ FrontendCloses(c)

Next ==
    \/ Reload
    \/ ClockTicks
    \/ \E c \in Conns : Startup(c) \/ Pump(c)

Spec == Init /\ [][Next]_vars

-----------------------------------------------------------------------------
(* Properties.                                                             *)

\* Roles loosen masks, so a session holds roles only while the server has
\* vouched for the very name they were looked up by, although the proxy and
\* the server each read the startup packet for themselves.
RolesOnlyForVouched ==
    \A c \in Conns : conn[c].roles # {} => db[c].vouched = conn[c].principal

\* A session that has seen the current generation, outside a reload, holds the
\* roles of the file in force: neither a login nor a message that falls
\* between the stores of a reload leaves it with those of the old file.
RolesAreCurrent ==
    \A c \in Conns :
        (conn[c].authenticated /\ conn[c].seen = epoch /\ reload = "idle")
            => conn[c].roles = RolesOf(conn[c].principal)

\* The roles a session masks by are its own, at every point of a login that a
\* reload overtakes: of the name the server vouched for, and of the file in
\* force.
RolesAreDeserved == TypeOK /\ RolesOnlyForVouched /\ RolesAreCurrent

\* Whatever a client sent at startup (its name, a cancel key) reaches the
\* server only over legs the policy asked for when each was set up, although a
\* reload may store the knobs and the certificate between the two reads.
LegsAsDemanded ==
    \A c \in Conns :
        db[c].at \notin {"none", "connected"} =>
            /\ conn[c].client_tls \/ permitted[c]
            /\ conn[c].backend_tls # "disable" => db[c].encrypted
            /\ conn[c].backend_tls = "verify-full" => db[c].certificate = "trusted"

\* A client that is shown SASL mechanisms can complete one of them: a client
\* behind TLS would answer a stripped list with the flag the server reads as a
\* downgrade, and no client can bind to a channel the proxy ends.
OffersCanSucceed ==
    \A c \in Conns :
        (At(c, "pump") /\ db[c].at = "sasl") =>
            /\ conn[c].mechanisms # {}
            /\ ~HasPlus(conn[c].mechanisms)
            /\ ~(conn[c].client_tls /\ HasPlus(db[c].offered))

\* All connections of one user share one budget: under one limiter the server
\* never gets more statements from a user it vouched for than the burst and
\* what the clock gave back.
BudgetsHold ==
    live.burst # None => \A u \in Users : spent[u] <= live.burst + refills

\* Between two ReadyForQuery the client is relayed no more notices than the cap
\* in force, whatever was swallowed or dropped between.
NoticesStayCapped ==
    [][\A c \in Conns :
        (conn'[c].relayed > conn[c].relayed /\ live.max_notices # None)
            => conn'[c].relayed <= live.max_notices]_vars

\* The two limits an operator sets hold across connections, exchanges and
\* reloads: the statements of a user and the notices of an exchange.
LimitsHold == []BudgetsHold /\ NoticesStayCapped
=============================================================================
