-------------------------- MODULE ConnectionProofs --------------------------
(***************************************************************************)
(* What holds of any number of connections, users and files.  The          *)
(* invariant speaks of one connection at a time: the locals of             *)
(* handle_connection, the server's end and what the plaintext gate read;   *)
(* only the budgets and the generation are shared.                         *)
(***************************************************************************)
EXTENDS Connection, TLAPS

-----------------------------------------------------------------------------
(* The invariant.                                                          *)

\* Phases in which the principal is not known.
Before == {"idle", "startup", "gate", "connect", "forward", "identify"}

\* How far the two ends of a connection are, and what the legs were when the packet
\* passed.  k is the connection, s the server's end of it, p what the gate read.
Lifecycle(k, s, p) ==
    /\ k.phase \in {"idle", "startup", "gate", "connect"} => s.at = "none"
    /\ k.phase = "forward" => s.at = "connected"
    /\ k.phase = "identify" => s.at = "startup"
    /\ k.phase \in Before => k.principal = None
    /\ k.phase \in {"connect", "forward", "identify", "pump"} => k.client_tls \/ p
    /\ k.phase \in {"identify", "pump"} => k.users = s.users
    /\ k.phase = "pump" => k.principal # None /\ s.at \notin {"none", "connected"}
    /\ s.at \notin {"none", "connected"} =>
        /\ k.client_tls \/ p
        /\ k.backend_tls # "disable" => s.encrypted
        /\ k.backend_tls = "verify-full" => s.certificate = "trusted"

\* One name, read the same way by the proxy and by the server; the server vouches for
\* it exactly when the session is authenticated.
Identity(k, s) ==
    /\ k.principal # None => Len(k.users) = 1 /\ k.principal = k.users[1]
    /\ s.vouched # None => k.principal = s.vouched /\ k.principal # Nameless
    /\ k.authenticated <=> s.vouched # None
    /\ k.roles # {} => k.authenticated

\* The mechanisms shown during a SASL exchange.
Offered(k, s) ==
    (k.phase = "pump" /\ s.at = "sasl") =>
            /\ k.mechanisms # {}
            /\ ~HasPlus(k.mechanisms)
            /\ ~(k.client_tls /\ HasPlus(s.offered))

\* A session is never ahead of the generation, and current if it has seen it.
Judged(k) ==
    /\ k.seen <= epoch
    /\ (k.authenticated /\ k.seen = epoch /\ reload = "idle") => k.roles = RolesOf(k.principal)
    /\ k.relayed <= k.notices

Sound(k, s, p) == Lifecycle(k, s, p) /\ Identity(k, s) /\ Offered(k, s) /\ Judged(k)

\* A statement that reached the server took a token: what was spent and what is left
\* are covered by the burst and the refills.
BudgetInv == live.burst # None => \A u \in Users : spent[u] + tokens[u] <= live.burst + refills

\* The inductive invariant.
IInv ==
    /\ TypeOK
    /\ BudgetInv
    /\ \A c \in Conns : Sound(conn[c], db[c], permitted[c])

-----------------------------------------------------------------------------

\* The fields of a connection.
LEMMA ConnFields ==
  ASSUME NEW k \in Connected
  PROVE  /\ k.phase \in Phases /\ k.client_tls \in BOOLEAN
         /\ k.packet \in {"none", "cancel", "startup"} /\ k.users \in Seq(Users)
         /\ k.backend_tls \in {None, "disable", "require", "verify-full"}
         /\ k.principal \in Users \cup {None} /\ k.authenticated \in BOOLEAN
         /\ k.roles \in SUBSET Roles /\ k.seen \in Nat /\ k.notices \in Nat
         /\ k.suppressing \in BOOLEAN /\ k.relayed \in Nat /\ k.sent \in Nat
         /\ k.heard \in Nat
         /\ k.mechanisms \in SUBSET {"SCRAM-SHA-256", "SCRAM-SHA-256-PLUS"}
  BY DEF Connected

\* A connection is updated one field at a time.
LEMMA ConnUpdated ==
  ASSUME NEW k \in Connected
  PROVE  /\ \A v \in Phases : [k EXCEPT !.phase = v] \in Connected
         /\ \A v \in BOOLEAN : [k EXCEPT !.client_tls = v] \in Connected
         /\ \A v \in {"none", "cancel", "startup"} : [k EXCEPT !.packet = v] \in Connected
         /\ \A v \in Seq(Users) : [k EXCEPT !.users = v] \in Connected
         /\ \A v \in {None, "disable", "require", "verify-full"} :
                [k EXCEPT !.backend_tls = v] \in Connected
         /\ \A v \in Users \cup {None} : [k EXCEPT !.principal = v] \in Connected
         /\ \A v \in BOOLEAN : [k EXCEPT !.authenticated = v] \in Connected
         /\ \A v \in SUBSET Roles : [k EXCEPT !.roles = v] \in Connected
         /\ \A v \in Nat : [k EXCEPT !.seen = v] \in Connected
         /\ \A v \in Nat : [k EXCEPT !.notices = v] \in Connected
         /\ \A v \in BOOLEAN : [k EXCEPT !.suppressing = v] \in Connected
         /\ \A v \in Nat : [k EXCEPT !.relayed = v] \in Connected
         /\ \A v \in Nat : [k EXCEPT !.sent = v] \in Connected
         /\ \A v \in Nat : [k EXCEPT !.heard = v] \in Connected
         /\ \A v \in SUBSET {"SCRAM-SHA-256", "SCRAM-SHA-256-PLUS"} :
                [k EXCEPT !.mechanisms = v] \in Connected
  BY DEF Connected

-----------------------------------------------------------------------------
(* One connection moves.                                                   *)

\* The action of NoticesStayCapped.
NoticesCapped ==
    \A c \in Conns :
        (conn'[c].relayed > conn[c].relayed /\ live.max_notices # None)
            => conn'[c].relayed <= live.max_notices

\* A state connection c may move to.
Fits(c, k, s, p) ==
    /\ Sound(k, s, p)
    /\ k.relayed > conn[c].relayed /\ live.max_notices # None
            => k.relayed <= live.max_notices

\* What every step has to show.
Stays == IInv' /\ NoticesCapped

\* Connection c moves, the others stay.
Moves(c, k, s, p) ==
    /\ conn' = [conn EXCEPT ![c] = k]
    /\ db' = [db EXCEPT ![c] = s]
    /\ permitted' = [permitted EXCEPT ![c] = p]

\* The policy and the refills stay, and so does the balance of the budgets.
BudgetKept ==
    /\ UNCHANGED << policy, refills >>
    /\ tokens' \in [Users -> Nat]
    /\ spent' \in [Users -> Nat]
    /\ BudgetInv'

\* A count is not above itself.
LEMMA NothingRelayed ==
  ASSUME IInv, NEW c \in Conns
  PROVE  ~(conn[c].relayed > conn[c].relayed)
  <1>1. conn[c].relayed \in Nat
    BY DEF IInv, TypeOK, Connected
  <1> QED
    BY <1>1

\* A step of the policy or the clock relays no notice.
LEMMA ConnsUnchanged == ASSUME IInv, UNCHANGED conn PROVE NoticesCapped
  BY NothingRelayed DEF NoticesCapped

\* One connection moves to a state that fits, the others stay, and the budgets are
\* kept: the invariant stands.
LEMMA Frame ==
  ASSUME IInv, NEW c \in Conns, NEW k \in Connected, NEW s \in Server, NEW p \in BOOLEAN,
         Moves(c, k, s, p), BudgetKept, Fits(c, k, s, p)
  PROVE  Stays
  <1>1. TypeOK'
    BY DEF IInv, TypeOK, policy, Moves, BudgetKept
  <1>2. ASSUME NEW d \in Conns PROVE Sound(conn[d], db[d], permitted[d])'
    <2> Sound(conn'[d], db'[d], permitted'[d])
      BY DEF IInv, TypeOK, Moves, Fits
    <2> QED
      BY DEF policy, BudgetKept, Sound, Lifecycle, Identity, Offered, Judged, RolesOf
  <1>3. NoticesCapped
    BY NothingRelayed DEF Moves, Fits, NoticesCapped, IInv, TypeOK
  <1> QED
    BY <1>1, <1>2, <1>3 DEF IInv, BudgetKept, Stays

\* Budgets are kept when nothing shared changes.
LEMMA SharedKept == ASSUME IInv, UNCHANGED Shared PROVE BudgetKept
  BY DEF IInv, TypeOK, BudgetInv, Shared, policy, BudgetKept

\* The same for a step of the locals of handle_connection alone.
LEMMA ConnFrame ==
  ASSUME IInv, NEW c \in Conns, NEW k \in Connected, conn' = [conn EXCEPT ![c] = k],
         UNCHANGED << Shared, db, permitted >>, Fits(c, k, db[c], permitted[c])
  PROVE  Stays
  <1>1. Moves(c, k, db[c], permitted[c])
    BY DEF IInv, TypeOK, Moves
  <1>2. db[c] \in Server /\ permitted[c] \in BOOLEAN
    BY DEF IInv, TypeOK
  <1>3. BudgetKept
    BY SharedKept
  <1> QED
    BY <1>1, <1>2, <1>3, Frame

\* So is the server's end of it.
LEMMA ServerUpdated ==
  ASSUME NEW s \in Server
  PROVE  /\ \A v \in {"none", "connected", "startup", "sasl", "up", "gone"} :
                [s EXCEPT !.at = v] \in Server
         /\ \A v \in Certificates \cup {None} : [s EXCEPT !.certificate = v] \in Server
         /\ \A v \in BOOLEAN : [s EXCEPT !.encrypted = v] \in Server
         /\ \A v \in Seq(Users) : [s EXCEPT !.users = v] \in Server
         /\ \A v \in BOOLEAN : [s EXCEPT !.cancelled = v] \in Server
         /\ \A v \in Users \cup {None} : [s EXCEPT !.vouched = v] \in Server
         /\ \A v \in SUBSET {"SCRAM-SHA-256", "SCRAM-SHA-256-PLUS"} :
                [s EXCEPT !.offered = v] \in Server
  BY DEF Server

\* What the invariant says of one connection.
LEMMA Here ==
  ASSUME IInv, NEW c \in Conns
  PROVE  /\ conn[c] \in Connected /\ db[c] \in Server /\ permitted[c] \in BOOLEAN
         /\ Sound(conn[c], db[c], permitted[c])
         /\ Fits(c, conn[c], db[c], permitted[c])
  BY NothingRelayed DEF IInv, TypeOK, Fits

\* Closing a connection keeps the invariant.
LEMMA Closes ==
  ASSUME IInv, NEW c \in Conns, Ends(c), UNCHANGED << Shared, db, permitted >>
  PROVE  Stays
  <1> DEFINE closed == [conn[c] EXCEPT !.phase = "closed"]
  <1>1. closed \in Connected
    BY Here, ConnUpdated DEF Phases
  <1>2. Fits(c, closed, db[c], permitted[c])
    BY Here DEF Fits, Sound, Lifecycle, Identity, Offered, Judged, RolesOf, Connected, Before,
       At
  <1>3. conn' = [conn EXCEPT ![c] = closed]
    BY DEF Ends
  <1> QED
    BY <1>1, <1>2, <1>3, ConnFrame

-----------------------------------------------------------------------------
(* handle_connection up to the message pump.                               *)

\* A task is spawned.
LEMMA AcceptedKeeps == ASSUME IInv, NEW c \in Conns, Accepted(c) PROVE Stays
  <1> DEFINE k == [conn[c] EXCEPT !.phase = "startup"]
  <1>1. k \in Connected
    BY Here, ConnUpdated DEF Phases
  <1>2. Fits(c, k, db[c], permitted[c])
    BY Here DEF Fits, Sound, Lifecycle, Identity, Offered, Judged, RolesOf, Connected, Before,
       At, Accepted
  <1> QED
    BY <1>1, <1>2, ConnFrame DEF Accepted

\* TLS is offered, refused, or fails.
LEMMA ReadsSslRequestKeeps == ASSUME IInv, NEW c \in Conns, ReadsSslRequest(c) PROVE Stays
  <1> DEFINE k == [conn[c] EXCEPT !.client_tls = TRUE]
  <1>1. k \in Connected
    BY Here, ConnUpdated
  <1>2. Fits(c, k, db[c], permitted[c])
    BY Here DEF Fits, Sound, Lifecycle, Identity, Offered, Judged, RolesOf, Connected, Before,
       At, ReadsSslRequest
  <1>3. CASE conn' = [conn EXCEPT ![c].client_tls = TRUE]
    BY <1>1, <1>2, <1>3, ConnFrame DEF ReadsSslRequest
  <1>4. CASE Ends(c)
    BY <1>4, Closes DEF ReadsSslRequest
  <1>5. CASE UNCHANGED conn
    <2>1. conn' = [conn EXCEPT ![c] = conn[c]]
      BY <1>5 DEF IInv, TypeOK
    <2> QED
      BY <2>1, Here, ConnFrame DEF ReadsSslRequest
  <1> QED
    BY <1>3, <1>4, <1>5 DEF ReadsSslRequest

\* A cancel or a startup packet is read.
LEMMA ReadsStartupPacketKeeps ==
  ASSUME IInv, NEW c \in Conns, ReadsStartupPacket(c)
  PROVE  Stays
  <1> DEFINE gated == [conn[c] EXCEPT !.phase = "gate"]
             Starts(packet, users) ==
                [[gated EXCEPT !.packet = packet] EXCEPT !.users = users]
             cancel == [gated EXCEPT !.packet = "cancel"]
  <1>1. gated \in Connected
    BY Here, ConnUpdated DEF Phases
  <1>2. CASE conn' = [conn EXCEPT ![c].phase = "gate", ![c].packet = "cancel"]
    <2>1. cancel \in Connected
      <3> HIDE DEF gated
      <3> QED
        BY <1>1, ConnUpdated
    <2>2. Fits(c, cancel, db[c], permitted[c])
      BY Here DEF Fits, Sound, Lifecycle, Identity, Offered, Judged, RolesOf, Connected,
         Before, At, ReadsStartupPacket
    <2>3. conn' = [conn EXCEPT ![c] = cancel]
      BY <1>2
    <2> QED
      BY <2>1, <2>2, <2>3, ConnFrame DEF ReadsStartupPacket
  <1>3. ASSUME NEW users \in StartupUsers,
               conn' = [conn EXCEPT ![c].phase = "gate", ![c].packet = "startup",
                                    ![c].users = users]
        PROVE  Stays
    <2> DEFINE named == [gated EXCEPT !.packet = "startup"]
               k == [named EXCEPT !.users = users]
    <2>1. named \in Connected
      <3> HIDE DEF gated
      <3> QED
        BY <1>1, ConnUpdated
    <2>2. k \in Connected
      <3> HIDE DEF named
      <3> QED
        BY <2>1, ConnUpdated, ConnectionAssumption
    <2>3. Fits(c, k, db[c], permitted[c])
      BY Here DEF Fits, Sound, Lifecycle, Identity, Offered, Judged, RolesOf, Connected,
         Before, At, ReadsStartupPacket
    <2>4. conn' = [conn EXCEPT ![c] = k]
      BY <1>3
    <2> QED
      BY <2>2, <2>3, <2>4, ConnFrame DEF ReadsStartupPacket
  <1> QED
    BY <1>2, <1>3 DEF ReadsStartupPacket

\* The same for a step of the locals and of the server's end.
LEMMA PairFrame ==
  ASSUME IInv, NEW c \in Conns, NEW k \in Connected, NEW s \in Server,
         conn' = [conn EXCEPT ![c] = k], db' = [db EXCEPT ![c] = s],
         UNCHANGED << Shared, permitted >>, Fits(c, k, s, permitted[c])
  PROVE  Stays
  <1>1. Moves(c, k, s, permitted[c])
    BY DEF IInv, TypeOK, Moves
  <1>2. permitted[c] \in BOOLEAN
    BY DEF IInv, TypeOK
  <1>3. BudgetKept
    BY SharedKept
  <1> QED
    BY <1>1, <1>2, <1>3, Frame

\* The gate reads the knob and remembers what it read.
LEMMA PassesPlaintextGateKeeps ==
  ASSUME IInv, NEW c \in Conns, PassesPlaintextGate(c)
  PROVE  Stays
  <1> DEFINE closed == [conn[c] EXCEPT !.phase = "closed"]
             passed == [conn[c] EXCEPT !.phase = "connect"]
             k == IF PlaintextRefused(c) THEN closed ELSE passed
             p == ~live.require
  <1>1. closed \in Connected /\ passed \in Connected
    BY Here, ConnUpdated DEF Phases
  <1>2. Fits(c, closed, db[c], p) /\ (~PlaintextRefused(c) => Fits(c, passed, db[c], p))
    BY Here DEF Fits, Sound, Lifecycle, Identity, Offered, Judged, RolesOf, Connected, Before,
       At, PassesPlaintextGate, PlaintextRefused
  <1>3. Moves(c, k, db[c], p)
    BY DEF PassesPlaintextGate, Moves, Ends, IInv, TypeOK
  <1>4. BudgetKept
    BY SharedKept DEF PassesPlaintextGate
  <1>5. db[c] \in Server /\ p \in BOOLEAN
    BY Here
  <1> QED
    BY <1>1, <1>2, <1>3, <1>4, <1>5, Frame

\* The mode is loaded once, when the server is connected.
LEMMA ConnectsBackendKeeps ==
  ASSUME IInv, NEW c \in Conns, ConnectsBackend(c)
  PROVE  Stays
  <1>1. CASE Ends(c) /\ UNCHANGED db
    BY <1>1, Closes DEF ConnectsBackend
  <1>2. ASSUME NEW certificate \in Certificates,
               conn' = [conn EXCEPT ![c].phase = "forward",
                                    ![c].backend_tls = live.backend_tls],
               db' = [db EXCEPT ![c].at = "connected", ![c].certificate = certificate]
        PROVE  Stays
    <2> DEFINE forward == [conn[c] EXCEPT !.phase = "forward"]
               k == [forward EXCEPT !.backend_tls = live.backend_tls]
               connected == [db[c] EXCEPT !.at = "connected"]
               s == [connected EXCEPT !.certificate = certificate]
    <2>1. forward \in Connected /\ connected \in Server
      BY Here, ConnUpdated, ServerUpdated DEF Phases
    <2>2. live.backend_tls \in {"disable", "require", "verify-full"}
      BY ConnectionAssumption DEF IInv, TypeOK, Config
    <2>3. k \in Connected /\ s \in Server
      <3> HIDE DEF forward, connected
      <3> QED
        BY <2>1, <2>2, ConnUpdated, ServerUpdated
    <2>4. Fits(c, k, s, permitted[c])
      BY Here DEF Fits, Sound, Lifecycle, Identity, Offered, Judged, RolesOf, Connected,
         Before, At, Server, ConnectsBackend
    <2>5. conn' = [conn EXCEPT ![c] = k] /\ db' = [db EXCEPT ![c] = s]
      BY <1>2
    <2> QED
      BY <2>3, <2>4, <2>5, PairFrame DEF ConnectsBackend
  <1> QED
    BY <1>1, <1>2 DEF ConnectsBackend

\* The packet goes out only over the leg the mode asked for.
LEMMA ForwardsStartupKeeps ==
  ASSUME IInv, NEW c \in Conns, ForwardsStartup(c)
  PROVE  Stays
  <1> DEFINE mode == conn[c].backend_tls
             allowed == mode = "disable" \/ HandshakeSucceeds(mode, db[c].certificate)
  <1>1. CASE ~allowed
    BY <1>1, Closes DEF ForwardsStartup
  <1>2. CASE allowed
    <2> DEFINE next == IF conn[c].packet = "cancel" THEN "closed" ELSE "identify"
               k == [conn[c] EXCEPT !.phase = next]
               started == [db[c] EXCEPT !.at = "startup"]
               encrypted == [started EXCEPT !.encrypted = mode # "disable"]
               named == [encrypted EXCEPT !.users = conn[c].users]
               s == [named EXCEPT !.cancelled = conn[c].packet = "cancel"]
    <2>1. k \in Connected /\ started \in Server
      BY Here, ConnUpdated, ServerUpdated DEF Phases
    <2>2. encrypted \in Server
      <3> HIDE DEF started
      <3> QED
        BY <2>1, ServerUpdated
    <2>3. named \in Server
      <3> HIDE DEF encrypted
      <3> QED
        BY <2>2, Here, ServerUpdated DEF Connected
    <2>4. s \in Server
      <3> HIDE DEF named
      <3> QED
        BY <2>3, ServerUpdated
    <2>5. Fits(c, k, s, permitted[c])
      BY <1>2, Here DEF Fits, Sound, Lifecycle, Identity, Offered, Judged, RolesOf, Connected,
         Before, At, Server, ForwardsStartup, HandshakeSucceeds
    <2>6. conn' = [conn EXCEPT ![c] = k] /\ db' = [db EXCEPT ![c] = s]
      BY <1>2 DEF ForwardsStartup
    <2> QED
      BY <2>1, <2>4, <2>5, <2>6, PairFrame DEF ForwardsStartup
  <1> QED
    BY <1>1, <1>2

\* The one name of the packet becomes the principal; nobody has vouched for it yet.
LEMMA IdentifiesKeeps ==
  ASSUME IInv, NEW c \in Conns, Identifies(c)
  PROVE  Stays
  <1> DEFINE user == StartupPrincipal(conn[c].users)
             pumping == [conn[c] EXCEPT !.phase = "pump"]
             k == [pumping EXCEPT !.principal = user]
  <1>1. CASE user = None
    BY <1>1, Closes DEF Identifies
  <1>2. CASE user # None
    <2>1. user \in Users
      BY <1>2, Here DEF StartupPrincipal, Connected
    <2>2. pumping \in Connected
      BY Here, ConnUpdated DEF Phases
    <2>3. k \in Connected
      <3> HIDE DEF pumping
      <3> QED
        BY <2>1, <2>2, ConnUpdated
    <2>4. Fits(c, k, db[c], permitted[c])
      <3>1. Lifecycle(k, db[c], permitted[c])
        BY <1>2, Here DEF Sound, Lifecycle, Connected, Before, At, Identifies
      <3>2. db[c].vouched = None /\ ~conn[c].authenticated /\ conn[c].roles = {}
        BY Here DEF Sound, Lifecycle, Identity, Connected, Before, At, Identifies
      <3>3. Identity(k, db[c])
        BY <1>2, <3>2, Here DEF Identity, Connected, StartupPrincipal
      <3>4. Offered(k, db[c])
        BY Here DEF Sound, Lifecycle, Offered, At, Identifies
      <3>5. Judged(k)
        BY Here, <3>2 DEF Sound, Judged, Connected
      <3> QED
        BY <3>1, <3>3, <3>4, <3>5, Here DEF Sound, Fits, Connected
    <2>5. conn' = [conn EXCEPT ![c] = k]
      BY <1>2 DEF Identifies
    <2> QED
      BY <2>3, <2>4, <2>5, ConnFrame DEF Identifies
  <1> QED
    BY <1>1, <1>2

-----------------------------------------------------------------------------
(* The message pump.                                                       *)

\* What is left of the mechanisms can be completed by this client.
LEMMA BackendSaslKeeps ==
  ASSUME IInv, NEW c \in Conns, BackendSasl(c)
  PROVE  Stays
  <1> PICK offered \in Offers(c) :
        /\ db' = [db EXCEPT ![c].at = "sasl", ![c].offered = offered]
        /\ LET relayed == Relayable(offered, conn[c].client_tls) IN
            IF relayed = {} THEN Ends(c)
            ELSE conn' = [conn EXCEPT ![c].mechanisms = relayed]
    BY DEF BackendSasl
  <1> DEFINE relayed == Relayable(offered, conn[c].client_tls)
             asked == [db[c] EXCEPT !.at = "sasl"]
             s == [asked EXCEPT !.offered = offered]
             closed == [conn[c] EXCEPT !.phase = "closed"]
             k == [conn[c] EXCEPT !.mechanisms = relayed]
  <1>1. offered \in SUBSET {"SCRAM-SHA-256", "SCRAM-SHA-256-PLUS"}
    BY ConnectionAssumption DEF Offers
  <1>2. asked \in Server
    BY Here, ServerUpdated
  <1>3. s \in Server
    <2> HIDE DEF asked
    <2> QED
      BY <1>1, <1>2, ServerUpdated
  <1>4. closed \in Connected /\ k \in Connected
    BY <1>1, Here, ConnUpdated DEF Phases, Relayable, StripChannelBinding
  <1>5. db' = [db EXCEPT ![c] = s]
    OBVIOUS
  <1>6. CASE relayed = {}
    <2>1. Fits(c, closed, s, permitted[c])
      BY Here DEF Fits, Sound, Lifecycle, Identity, Offered, Judged, RolesOf, Connected,
         Before, At, Pumps, Server, BackendSasl
    <2>2. conn' = [conn EXCEPT ![c] = closed]
      BY <1>6 DEF Ends
    <2> QED
      BY <1>3, <1>4, <1>5, <2>1, <2>2, PairFrame DEF BackendSasl
  <1>7. CASE relayed # {}
    <2>1. Fits(c, k, s, permitted[c])
      <3>1. relayed # {} /\ ~HasPlus(relayed) /\ ~(conn[c].client_tls /\ HasPlus(offered))
        BY <1>7 DEF Relayable, StripChannelBinding, HasPlus
      <3> QED
        BY <3>1, Here DEF Fits, Sound, Lifecycle, Identity, Offered, Judged, RolesOf,
           Connected, Before, At, Pumps, Server, BackendSasl
    <2>2. conn' = [conn EXCEPT ![c] = k]
      BY <1>7
    <2> QED
      BY <1>3, <1>4, <1>5, <2>1, <2>2, PairFrame DEF BackendSasl
  <1> QED
    BY <1>6, <1>7

\* The server vouches for the last name of the packet: the only one, the principal.
LEMMA BackendAuthenticationOkKeeps ==
  ASSUME IInv, NEW c \in Conns, BackendAuthenticationOk(c)
  PROVE  Stays
  <1> DEFINE known == [conn[c] EXCEPT !.authenticated = TRUE]
             k == [known EXCEPT !.roles = RolesOf(conn[c].principal)]
             up == [db[c] EXCEPT !.at = "up"]
             s == [up EXCEPT !.vouched = ServerUser(c)]
  <1>1. /\ conn[c].principal \in Users
        /\ ServerUser(c) = conn[c].principal
        /\ conn[c].principal # Nameless
    <2>1. /\ conn[c].principal \in Users
          /\ Len(db[c].users) = 1
          /\ conn[c].principal = db[c].users[1]
      BY Here DEF Sound, Lifecycle, Identity, Connected, At, Pumps, BackendAuthenticationOk
    <2>2. db[c].users # << >>
      BY <2>1
    <2>3. ServerUser(c) = conn[c].principal
      BY <2>1, <2>2 DEF ServerUser
    <2> QED
      BY <2>1, <2>3 DEF BackendAuthenticationOk
  <1>2. RolesOf(conn[c].principal) \in SUBSET Roles
    BY <1>1, ConnectionAssumption DEF RolesOf, IInv, TypeOK, Config
  <1>3. known \in Connected /\ up \in Server
    BY Here, ConnUpdated, ServerUpdated
  <1>4. k \in Connected /\ s \in Server
    <2> HIDE DEF known, up
    <2> QED
      BY <1>1, <1>2, <1>3, ConnUpdated, ServerUpdated
  <1>5. Fits(c, k, s, permitted[c])
    BY <1>1, Here, ConnectionAssumption DEF Fits, Sound, Lifecycle, Identity, Offered, Judged,
       RolesOf, Connected, Before, At, Pumps, Server, BackendAuthenticationOk
  <1>6. conn' = [conn EXCEPT ![c] = k] /\ db' = [db EXCEPT ![c] = s]
    BY DEF BackendAuthenticationOk
  <1> QED
    BY <1>4, <1>5, <1>6, PairFrame DEF BackendAuthenticationOk

\* The server is gone.
LEMMA BackendEofKeeps ==
  ASSUME IInv, NEW c \in Conns, BackendEof(c)
  PROVE  Stays
  <1> DEFINE k == [conn[c] EXCEPT !.phase = "closed"]
             s == [db[c] EXCEPT !.at = "gone"]
  <1>1. k \in Connected /\ s \in Server
    BY Here, ConnUpdated, ServerUpdated DEF Phases
  <1>2. Fits(c, k, s, permitted[c])
    BY Here DEF Fits, Sound, Lifecycle, Identity, Offered, Judged, RolesOf, Connected, Before,
       At, Pumps, Server, BackendEof
  <1>3. conn' = [conn EXCEPT ![c] = k] /\ db' = [db EXCEPT ![c] = s]
    BY DEF BackendEof, Ends
  <1> QED
    BY <1>1, <1>2, <1>3, PairFrame DEF BackendEof

\* Suppression begins.
LEMMA BackendRejectsKeeps ==
  ASSUME IInv, NEW c \in Conns, BackendRejects(c)
  PROVE  Stays
  <1> DEFINE k == [conn[c] EXCEPT !.suppressing = TRUE]
  <1>1. k \in Connected
    BY Here, ConnUpdated
  <1>2. Fits(c, k, db[c], permitted[c])
    BY Here DEF Fits, Sound, Lifecycle, Identity, Offered, Judged, RolesOf, Connected, Before,
       At, Pumps, BackendRejects
  <1> QED
    BY <1>1, <1>2, ConnFrame DEF BackendRejects

\* A notice is counted; it is relayed only if the count is within the cap.
LEMMA BackendNoticeKeeps ==
  ASSUME IInv, NEW c \in Conns, BackendNotice(c)
  PROVE  Stays
  <1> DEFINE count == conn[c].notices + 1
             relayed == IF OverCap(count) THEN conn[c].relayed ELSE conn[c].relayed + 1
             heard == [conn[c] EXCEPT !.heard = conn[c].heard + 1]
             counted == [heard EXCEPT !.notices = count]
             k == [counted EXCEPT !.relayed = relayed]
  <1>1. count \in Nat /\ relayed \in Nat /\ conn[c].heard + 1 \in Nat
    BY Here, ConnFields
  <1>2. heard \in Connected
    BY <1>1, Here, ConnUpdated
  <1>3. CASE conn[c].suppressing
    <2>1. Fits(c, heard, db[c], permitted[c])
      BY Here DEF Fits, Sound, Lifecycle, Identity, Offered, Judged, RolesOf, Connected,
         Before, At, Pumps, BackendNotice
    <2>2. conn' = [conn EXCEPT ![c] = heard]
      BY <1>3 DEF BackendNotice
    <2> QED
      BY <1>2, <2>1, <2>2, ConnFrame DEF BackendNotice
  <1>4. CASE ~conn[c].suppressing
    <2>1. counted \in Connected
      <3> HIDE DEF heard, count
      <3> QED
        BY <1>1, <1>2, ConnUpdated
    <2>2. k \in Connected
      <3> HIDE DEF counted, relayed
      <3> QED
        BY <1>1, <2>1, ConnUpdated
    <2>3. Fits(c, k, db[c], permitted[c])
      <3>1. Sound(k, db[c], permitted[c])
        BY Here DEF Sound, Lifecycle, Identity, Offered, Judged, RolesOf, Connected, Before,
           At,
           Pumps, BackendNotice
      <3>2. live.max_notices # None => live.max_notices \in Nat
        BY ConnectionAssumption DEF IInv, TypeOK, Config
      <3>3. /\ conn[c].relayed <= conn[c].notices
            /\ conn[c].relayed \in Nat /\ conn[c].notices \in Nat
        BY Here, ConnFields DEF Sound, Judged
      <3>4. k.relayed = relayed
        BY Here DEF Connected
      <3> QED
        BY <3>1, <3>2, <3>3, <3>4, NothingRelayed DEF Fits, OverCap
    <2>4. conn' = [conn EXCEPT ![c] = k]
      BY <1>4 DEF BackendNotice
    <2> QED
      BY <2>2, <2>3, <2>4, ConnFrame DEF BackendNotice
  <1> QED
    BY <1>3, <1>4

\* ReadyForQuery clears both counts.
LEMMA BackendReadyKeeps ==
  ASSUME IInv, NEW c \in Conns, BackendReady(c)
  PROVE  Stays
  <1> DEFINE zeroed == [conn[c] EXCEPT !.notices = 0]
             released == [zeroed EXCEPT !.suppressing = FALSE]
             k == [released EXCEPT !.relayed = 0]
  <1>1. zeroed \in Connected
    BY Here, ConnUpdated
  <1>2. released \in Connected
    <2> HIDE DEF zeroed
    <2> QED
      BY <1>1, ConnUpdated
  <1>3. k \in Connected
    <2> HIDE DEF released
    <2> QED
      BY <1>2, ConnUpdated
  <1>4. Fits(c, k, db[c], permitted[c])
    BY Here DEF Fits, Sound, Lifecycle, Identity, Offered, Judged, RolesOf, Connected, Before,
       At, Pumps, BackendReady
  <1>5. conn' = [conn EXCEPT ![c] = k]
    BY DEF BackendReady
  <1> QED
    BY <1>3, <1>4, <1>5, ConnFrame DEF BackendReady

\* sync_policy leaves a connection that is up to date.
LEMMA SyncedSound ==
  ASSUME IInv, NEW c \in Conns, Pumps(c)
  PROVE  /\ Synced(c) \in Connected
         /\ Synced(c).phase = "pump"
         /\ Fits(c, Synced(c), db[c], permitted[c])
  <1> DEFINE user == conn[c].principal
             roles == IF conn[c].authenticated THEN RolesOf(user) ELSE conn[c].roles
             current == [conn[c] EXCEPT !.seen = epoch]
             k == [current EXCEPT !.roles = roles]
  <1>1. roles \in SUBSET Roles
    <2>1. user \in Users
      BY Here DEF Sound, Lifecycle, Connected, At, Pumps
    <2>2. RolesOf(user) \in SUBSET Roles
      BY <2>1, ConnectionAssumption DEF RolesOf, IInv, TypeOK, Config
    <2> QED
      BY <2>2, Here DEF Connected
  <1>2. current \in Connected
    BY Here, ConnUpdated DEF IInv, TypeOK
  <1>3. k \in Connected
    <2> HIDE DEF current, roles
    <2> QED
      BY <1>1, <1>2, ConnUpdated
  <1>4. Fits(c, k, db[c], permitted[c])
    <2>1. Sound(k, db[c], permitted[c])
      BY Here DEF Sound, Lifecycle, Identity, Offered, Judged, RolesOf, Connected, Before, At,
         Pumps, IInv, TypeOK
    <2>2. k.relayed = conn[c].relayed
      BY Here DEF Connected
    <2> QED
      BY <2>1, <2>2, NothingRelayed DEF Fits
  <1>5. k.phase = "pump"
    BY Here DEF Connected, At, Pumps
  <1>6. conn[c].seen = epoch \/ Synced(c) = k
    BY DEF Synced
  <1> HIDE DEF k
  <1> QED
    BY <1>3, <1>4, <1>5, <1>6, Here DEF Synced, At, Pumps

\* What reaches the server from a vouched-for user took a token from that very user.
LEMMA TokensAreSpentOnce ==
  ASSUME IInv, NEW c \in Conns, FrontendStatement(c)
  PROVE  BudgetKept
  <1> DEFINE user == conn[c].principal
  <1>1. user \in Users
    BY Here DEF Sound, Lifecycle, Connected, At, Pumps, FrontendStatement
  <1>2. /\ conn[c].authenticated <=> db[c].vouched # None
        /\ db[c].vouched # None => user = db[c].vouched /\ user # Nameless
    BY Here DEF Sound, Identity
  <1>3. /\ tokens \in [Users -> Nat] /\ spent \in [Users -> Nat] /\ refills \in Nat
        /\ live.burst # None => live.burst \in Nat
    BY ConnectionAssumption DEF IInv, TypeOK, Config
  <1>4. BudgetInv
    BY DEF IInv
  <1>5. UNCHANGED << policy, refills >> /\ live' = live
    BY DEF FrontendStatement, policy
  <1>6. CASE ~Charged(c) /\ UNCHANGED tokens /\ Reaches(c)
    <2>1. spent' = spent
      BY <1>2, <1>6 DEF Charged, Reaches
    <2> QED
      BY <1>3, <1>4, <1>5, <1>6, <2>1 DEF BudgetKept, BudgetInv
  <1>7. CASE /\ Charged(c) /\ HasToken(user) /\ tokens' = [tokens EXCEPT ![user] = @ - 1]
             /\ Reaches(c)
    <2>1. live.burst # None /\ user = db[c].vouched /\ db[c].vouched # None
      BY <1>2, <1>7 DEF Charged
    <2>2. spent' = [spent EXCEPT ![user] = @ + 1]
      BY <1>7, <2>1 DEF Reaches
    <2>3. tokens[user] > 0
      BY <1>7 DEF HasToken
    <2>4. tokens' \in [Users -> Nat] /\ spent' \in [Users -> Nat]
      BY <1>1, <1>3, <1>7, <2>2, <2>3
    <2>5. ASSUME NEW u \in Users
          PROVE  spent'[u] + tokens'[u] = spent[u] + tokens[u]
      BY <1>1, <1>3, <1>7, <2>2
    <2> QED
      BY <1>3, <1>4, <1>5, <2>4, <2>5 DEF BudgetKept, BudgetInv
  <1>8. CASE UNCHANGED << tokens, spent >>
    BY <1>3, <1>4, <1>5, <1>8 DEF BudgetKept, BudgetInv
  <1> QED
    BY <1>6, <1>7, <1>8 DEF FrontendStatement

\* A statement.
LEMMA FrontendStatementKeeps ==
  ASSUME IInv, NEW c \in Conns, FrontendStatement(c)
  PROVE  Stays
  <1> DEFINE synced == Synced(c)
             k == [synced EXCEPT !.sent = @ + 1]
  <1>1. synced \in Connected /\ Fits(c, synced, db[c], permitted[c])
    BY SyncedSound DEF FrontendStatement
  <1> HIDE DEF synced
  <1>2. k \in Connected
    <2>1. synced.sent + 1 \in Nat
      BY <1>1, ConnFields
    <2> QED
      BY <1>1, <2>1, ConnUpdated
  <1>3. Fits(c, k, db[c], permitted[c])
    BY <1>1 DEF Fits, Sound, Lifecycle, Identity, Offered, Judged, RolesOf, Connected, Before,
       At, Pumps
  <1>4. Moves(c, k, db[c], permitted[c])
    BY DEF FrontendStatement, Moves, synced, IInv, TypeOK
  <1> QED
    BY <1>2, <1>3, <1>4, Here, TokensAreSpentOnce, Frame

\* A message that closes.
LEMMA FrontendClosesKeeps ==
  ASSUME IInv, NEW c \in Conns, FrontendCloses(c)
  PROVE  Stays
  <1> DEFINE synced == Synced(c)
             k == [synced EXCEPT !.phase = "closed"]
             s == [db[c] EXCEPT !.at = "gone"]
  <1>1. /\ synced \in Connected /\ synced.phase = "pump"
        /\ Fits(c, synced, db[c], permitted[c])
    BY SyncedSound DEF FrontendCloses
  <1> HIDE DEF synced
  <1>2. k \in Connected /\ s \in Server
    BY <1>1, Here, ConnUpdated, ServerUpdated DEF Phases
  <1>3. Fits(c, k, s, permitted[c])
    BY <1>1, Here DEF Fits, Sound, Lifecycle, Identity, Offered, Judged, RolesOf, Connected,
       Before, At, Pumps, Server, FrontendCloses
  <1>4. conn' = [conn EXCEPT ![c] = k] /\ db' = [db EXCEPT ![c] = s]
    BY DEF FrontendCloses, synced
  <1> QED
    BY <1>2, <1>3, <1>4, PairFrame DEF FrontendCloses

-----------------------------------------------------------------------------
(* The specification.                                                      *)

\* The initial states.
LEMMA InitSound == Init => IInv
  <1> SUFFICES ASSUME Init PROVE IInv
    OBVIOUS
  <1>1. live \in Config
    BY ConnectionAssumption DEF Init
  <1>2. tokens \in [Users -> Nat]
    BY <1>1 DEF Init, FullBucket, Config
  <1>3. NewConn \in Connected
    BY DEF NewConn, Connected, Phases
  <1>4. NewServer \in Server
    BY DEF NewServer, Server
  <1>5. TypeOK
    BY <1>1, <1>2, <1>3, <1>4, ConnectionAssumption DEF Init, TypeOK, Config
  <1>6. BudgetInv
    BY <1>1 DEF Init, FullBucket, Config, BudgetInv
  <1>7. ASSUME NEW c \in Conns PROVE Sound(conn[c], db[c], permitted[c])
    BY DEF Init, NewConn, NewServer, Sound, Lifecycle, Identity, Offered, Judged, Before
  <1> QED
    BY <1>5, <1>6, <1>7 DEF IInv

\* The three steps of a reload: a session that had seen the generation is outdated by
\* the last of them, and a new limiter starts with full buckets.
LEMMA ReloadKeeps ==
  ASSUME IInv, Reload
  PROVE  Stays
  <1> live \in Configs /\ epoch \in Nat
    BY DEF IInv, TypeOK
  <1>1. CASE ReloadBegins
    <2>1. TypeOK' /\ BudgetInv'
      BY <1>1 DEF ReloadBegins, IInv, TypeOK, BudgetInv
    <2>2. ASSUME NEW c \in Conns PROVE Sound(conn[c], db[c], permitted[c])'
      BY <1>1, Here DEF ReloadBegins, Sound, Lifecycle, Identity, Offered, Judged, Connected
    <2> QED
      BY <1>1, <2>1, <2>2, ConnsUnchanged DEF IInv, Stays, ReloadBegins
  <1>2. CASE ReloadStoresLive
    <2>1. PICK config \in Configs :
            /\ live' = config
            /\ IF config.burst = live.burst
               THEN UNCHANGED << tokens, spent, refills >>
               ELSE /\ tokens' = FullBucket(config)
                    /\ spent' = [u \in Users |-> 0]
                    /\ refills' = 0
      BY <1>2 DEF ReloadStoresLive
    <2>2. config \in Config /\ MaxRefills \in Nat
      BY ConnectionAssumption
    <2>3. FullBucket(config) \in [Users -> Nat]
      BY <2>2 DEF FullBucket, Config
    <2>4. tokens' \in [Users -> Nat] /\ spent' \in [Users -> Nat] /\ refills' \in 0..MaxRefills
      BY <2>1, <2>2, <2>3 DEF IInv, TypeOK
    <2>5. TypeOK'
      BY <1>2, <2>1, <2>4 DEF ReloadStoresLive, IInv, TypeOK
    <2>6. BudgetInv'
      BY <2>1, <2>2 DEF IInv, BudgetInv, FullBucket, Config
    <2>7. ASSUME NEW c \in Conns PROVE Sound(conn[c], db[c], permitted[c])'
      BY <1>2, Here DEF ReloadStoresLive, Sound, Lifecycle, Identity, Offered, Judged,
         Connected
    <2> QED
      BY <1>2, <2>5, <2>6, <2>7, ConnsUnchanged DEF IInv, Stays, ReloadStoresLive
  <1>3. CASE ReloadStoresTls
    <2>1. TypeOK' /\ BudgetInv'
      BY <1>3, ConnectionAssumption DEF ReloadStoresTls, IInv, TypeOK, BudgetInv, Config
    <2>2. ASSUME NEW c \in Conns PROVE Sound(conn[c], db[c], permitted[c])'
      BY <1>3, Here DEF ReloadStoresTls, Sound, Lifecycle, Identity, Offered, Judged, Connected
    <2> QED
      BY <1>3, <2>1, <2>2, ConnsUnchanged DEF IInv, Stays, ReloadStoresTls
  <1> QED
    BY <1>1, <1>2, <1>3 DEF Reload

\* A refill is counted.
LEMMA ClockTicksKeeps ==
  ASSUME IInv, ClockTicks
  PROVE  Stays
  <1>1. /\ live.burst \in Nat /\ tokens \in [Users -> Nat] /\ spent \in [Users -> Nat]
        /\ refills \in 0..MaxRefills /\ refills < MaxRefills /\ MaxRefills \in Nat
    BY ConnectionAssumption DEF ClockTicks, IInv, TypeOK, Config
  <1>2. TypeOK'
    BY <1>1 DEF ClockTicks, IInv, TypeOK, policy
  <1>3. BudgetInv'
    BY <1>1 DEF ClockTicks, IInv, BudgetInv, policy
  <1>4. ASSUME NEW c \in Conns PROVE Sound(conn[c], db[c], permitted[c])'
    BY Here DEF ClockTicks, policy, Sound, Lifecycle, Identity, Offered, Judged, RolesOf
  <1> QED
    BY <1>2, <1>3, <1>4, ConnsUnchanged DEF IInv, Stays, ClockTicks

\* Every step.
LEMMA NextKeeps == IInv /\ [Next]_vars => Stays
  <1> SUFFICES ASSUME IInv, [Next]_vars PROVE Stays
    OBVIOUS
  <1>1. CASE Reload
    BY <1>1, ReloadKeeps
  <1>2. CASE ClockTicks
    BY <1>2, ClockTicksKeeps
  <1>3. ASSUME NEW c \in Conns, Startup(c) PROVE Stays
    <2>1. CASE StartupFails(c)
      BY <2>1, Closes DEF StartupFails
    <2> QED
      BY <1>3, <2>1, AcceptedKeeps, ReadsSslRequestKeeps, ReadsStartupPacketKeeps,
         PassesPlaintextGateKeeps, ConnectsBackendKeeps, ForwardsStartupKeeps, IdentifiesKeeps
         DEF Startup
  <1>4. ASSUME NEW c \in Conns, Pump(c) PROVE Stays
    <2>1. CASE BackendCloses(c)
      BY <2>1, Closes DEF BackendCloses
    <2> QED
      BY <1>4, <2>1, BackendSaslKeeps, BackendAuthenticationOkKeeps, BackendEofKeeps,
         BackendRejectsKeeps, BackendNoticeKeeps, BackendReadyKeeps, FrontendStatementKeeps,
         FrontendClosesKeeps
         DEF Pump
  <1>5. CASE UNCHANGED vars
    <2>1. TypeOK' /\ BudgetInv'
      BY <1>5 DEF vars, policy, IInv, TypeOK, BudgetInv
    <2>2. ASSUME NEW c \in Conns PROVE Sound(conn[c], db[c], permitted[c])'
      BY <1>5, Here DEF vars, policy, Sound, Lifecycle, Identity, Offered, Judged, RolesOf
    <2> QED
      BY <1>5, <2>1, <2>2, ConnsUnchanged DEF IInv, Stays, vars
  <1> QED
    BY <1>1, <1>2, <1>3, <1>4, <1>5 DEF Next

\* The invariant holds in every reachable state.
THEOREM Invariant == Spec => []IInv
  <1>1. IInv /\ [Next]_vars => IInv'
    BY NextKeeps DEF Stays
  <1> QED
    BY <1>1, InitSound, PTL DEF Spec

-----------------------------------------------------------------------------
(* The properties.                                                         *)

\* For any names, roles, files and interleaving of logins and reloads, a session has
\* roles only of the name the server vouched for, and, once it has seen the current
\* generation, those of the file in force (sync_policy, note_backend_auth).
THEOREM SessionsDeserveTheirRoles == Spec => []RolesAreDeserved
  <1>1. IInv => RolesAreDeserved
    BY DEF IInv, RolesAreDeserved, RolesOnlyForVouched, RolesAreCurrent, Sound, Identity,
       Judged
  <1> QED
    BY <1>1, Invariant, PTL

\* A client's startup packet reaches the server only over legs the policy demanded
\* when each was set up (the plaintext gate, upgrade_backend).
THEOREM LegsStayAsDemanded == Spec => []LegsAsDemanded
  <1>1. IInv => LegsAsDemanded
    BY DEF IInv, LegsAsDemanded, Sound, Lifecycle
  <1> QED
    BY <1>1, Invariant, PTL

\* A client that is shown SASL mechanisms can complete one of them
\* (strip_channel_binding and the refusal behind TLS).
THEOREM OffersAlwaysSucceed == Spec => []OffersCanSucceed
  <1>1. IInv => OffersCanSucceed
    BY DEF IInv, OffersCanSucceed, Sound, Offered, At
  <1> QED
    BY <1>1, Invariant, PTL

\* The statements of a user over all connections stay within the burst and the refills,
\* and an exchange relays no more notices than the cap (allow_statement, handle_notice).
THEOREM LimitsStayHeld == Spec => LimitsHold
  <1>1. IInv => BudgetsHold
    <2> SUFFICES ASSUME IInv, live.burst # None, NEW u \in Users
                 PROVE  spent[u] <= live.burst + refills
      BY DEF BudgetsHold
    <2>1. spent[u] \in Nat /\ tokens[u] \in Nat /\ refills \in Nat /\ live.burst \in Nat
      BY ConnectionAssumption DEF IInv, TypeOK, Config
    <2>2. spent[u] + tokens[u] <= live.burst + refills
      BY DEF IInv, BudgetInv
    <2> QED
      BY <2>1, <2>2
  <1>2. IInv /\ [Next]_vars => NoticesCapped
    BY NextKeeps DEF Stays
  <1>3. Spec => []BudgetsHold
    BY <1>1, Invariant, PTL
  <1>4. Spec => [][NoticesCapped]_vars
    BY <1>2, Invariant, PTL DEF Spec
  <1> QED
    BY <1>3, <1>4 DEF LimitsHold, NoticesStayCapped, NoticesCapped
=============================================================================
