------------------------------- MODULE Postgres -------------------------------
(***************************************************************************)
(* The backend as the proxy meets it (external: modelled from how          *)
(* crates/proxy/src/session.rs and plan_state.rs use it).  It answers      *)
(* messages strictly in order, so forwarding one is modelled by a function *)
(* from the backend's state to its next state and the replies it will      *)
(* put on the wire; the wire is a FIFO the proxy reads at its own pace.    *)
(***************************************************************************)
EXTENDS PlanState

CONSTANTS
    UnnamedStatement, UnnamedPortal,
    Kind,      \* what the backend makes of each SQL text
    Results    \* the result shapes a text produces, in order, when its kind is "rows"

Kinds ==
    {"rows", "parse_error", "run_error", "begin", "commit", "utility", "empty"}

ASSUME PostgresAssumption ==
    /\ UnnamedStatement \in Statements
    /\ UnnamedPortal \in Portals
    /\ Sqls # {}
    /\ Kind \in [Sqls -> Kinds]
    /\ Results \in [Sqls -> Seq(Sqls)]
    /\ \A sql \in Sqls : Len(Results[sql]) <= 2
    /\ \A sql \in Sqls : Kind[sql] \in {"rows", "run_error"} => Len(Results[sql]) > 0
    /\ "text" \in Formats

\* A portal keeps the text it was bound from and how many fetches are left.
FetchesPerPortal == 2

BackendPortal ==
    [sql: Sqls, from: Statements, format: Formats, left: 0 .. FetchesPerPortal]

BackendState ==
    [statements: [Statements -> Option(Sqls)],
     portals: [Portals -> Option(BackendPortal)],
     skipping: BOOLEAN,
     txn: {"I", "T", "E"}]

FreshBackend ==
    [statements |-> [s \in Statements |-> None],
     portals |-> [p \in Portals |-> None],
     skipping |-> FALSE,
     txn |-> "I"]

NoPortals == [p \in Portals |-> None]

PlainTags ==
    {"ParseComplete", "BindComplete", "CloseComplete", "CommandComplete", "PortalSuspended",
     "NoData", "EmptyQueryResponse", "ErrorResponse"}

Reply ==
    [tag: PlainTags]
      \cup [tag: {"ReadyForQuery"}, status: {"I", "T", "E"}]
      \cup [tag: {"RowDescription", "DataRow"}, fields: Sqls, text: Sqls,
            format: Formats, since: Nat]

Plain(tag) == [tag |-> tag]

Ready(status) == [tag |-> "ReadyForQuery", status |-> status]

\* A description or a row: whose shape it has, and the text it answers.  since
\* is the policy generation of the request, filled in by the session.
Shaped(tag, fields, text, format) ==
    [tag |-> tag, fields |-> fields, text |-> text, format |-> format, since |-> 0]

Answer(db, replies) == [db |-> db, replies |-> replies]

\* An error ends the implicit transaction or fails the explicit one; either
\* way no portal of it can run again.
Fail(db) ==
    [db EXCEPT !.portals = NoPortals, !.txn = IF @ = "I" THEN "I" ELSE "E"]

ExtendedError(db) ==
    Answer([Fail(db) EXCEPT !.skipping = TRUE], << Plain("ErrorResponse") >>)

\* A failed transaction block accepts nothing but its end.
Blocked(db, sql) == db.txn = "E" /\ Kind[sql] # "commit"

ServeParse(db, m) ==
    LET unnamed == m.name = UnnamedStatement
        dropped == IF unnamed THEN [db EXCEPT !.statements[m.name] = None] ELSE db
    IN  IF \/ Blocked(db, m.sql)
           \/ Kind[m.sql] = "parse_error"
           \/ ~unnamed /\ db.statements[m.name] # None
        THEN ExtendedError(dropped)
        ELSE Answer([db EXCEPT !.statements[m.name] = m.sql], << Plain("ParseComplete") >>)

ServeBind(db, m) ==
    LET sql == db.statements[m.statement]
    IN  IF \/ sql = None
           \/ Blocked(db, sql)
           \/ m.portal # UnnamedPortal /\ db.portals[m.portal] # None
        THEN ExtendedError(db)
        ELSE Answer([db EXCEPT !.portals[m.portal] =
                        [sql |-> sql, from |-> m.statement, format |-> m.formats,
                         left |-> FetchesPerPortal]],
                    << Plain("BindComplete") >>)

\* A statement is described in text format: the formats are chosen by Bind.
ServeDescribe(db, m) ==
    LET portal == m.target.kind = "portal"
        sql == IF ~portal
               THEN db.statements[m.target.name]
               ELSE IF db.portals[m.target.name] = None
               THEN None
               ELSE db.portals[m.target.name].sql
        format == IF portal THEN db.portals[m.target.name].format ELSE "text"
    IN  IF sql = None \/ Blocked(db, sql)
        THEN ExtendedError(db)
        ELSE Answer(db, << IF Results[sql] = << >>
                           THEN Plain("NoData")
                           ELSE Shaped("RowDescription", Head(Results[sql]), sql, format) >>)

\* A limited Execute fetches once and suspends; the portal can be resumed
\* until it has been fetched to its end.
ServeExecute(db, m) ==
    LET portal == db.portals[m.portal]
        row == Shaped("DataRow", Head(Results[portal.sql]), portal.sql, portal.format)
        Left(n) == [db EXCEPT !.portals[m.portal].left = n]
        done == << Plain("CommandComplete") >>
    IN  IF \/ portal = None
           \/ Blocked(db, portal.sql)
           \/ Kind[portal.sql] = "run_error"
        THEN ExtendedError(db)
        ELSE IF Kind[portal.sql] = "begin"
        THEN Answer([db EXCEPT !.txn = "T"], done)
        ELSE IF Kind[portal.sql] = "commit"
        THEN Answer([db EXCEPT !.txn = "I", !.portals = NoPortals], done)
        ELSE IF Kind[portal.sql] = "empty"
        THEN Answer(db, << Plain("EmptyQueryResponse") >>)
        ELSE IF Kind[portal.sql] # "rows" \/ portal.left = 0
        THEN Answer(db, done)
        ELSE IF m.limited
        THEN Answer(Left(portal.left - 1), << row, Plain("PortalSuspended") >>)
        ELSE Answer(Left(0), << row >> \o done)

\* Closing a statement closes the portals made from it.
ServeClose(db, m) ==
    Answer(IF m.target.kind = "portal"
           THEN [db EXCEPT !.portals[m.target.name] = None]
           ELSE [db EXCEPT
                    !.statements[m.target.name] = None,
                    !.portals = [p \in Portals |->
                        IF @[p] # None /\ @[p].from = m.target.name THEN None ELSE @[p]]],
           << Plain("CloseComplete") >>)

\* Sync ends the skipping and, outside a transaction block, the implicit
\* transaction with every portal in it.
ServeSync(db) ==
    Answer([db EXCEPT !.skipping = FALSE,
                      !.portals = IF db.txn = "I" THEN NoPortals ELSE @],
           << Ready(db.txn) >>)

\* A simple query destroys the unnamed statement and portal, answers with its
\* own ReadyForQuery and is itself a transaction unless one is open.
ServeQuery(db, m) ==
    LET kind == IF Blocked(db, m.sql) THEN "parse_error" ELSE Kind[m.sql]
        dropped == [db EXCEPT !.statements[UnnamedStatement] = None,
                              !.portals[UnnamedPortal] = None]
        txn == IF kind = "begin" THEN "T" ELSE IF kind = "commit" THEN "I" ELSE db.txn
        ended == [dropped EXCEPT !.txn = txn,
                                 !.portals = IF txn = "I" THEN NoPortals ELSE @]
        failed == Fail(dropped)
        Shape(tag, fields) == Shaped(tag, fields, m.sql, "text")
        Result(fields) == << Shape("RowDescription", fields), Shape("DataRow", fields),
                             Plain("CommandComplete") >>
        results == Results[m.sql]
        rows == IF Len(results) = 1
                THEN Result(results[1])
                ELSE Result(results[1]) \o Result(results[2])
    IN  CASE kind = "rows" -> Answer(ended, rows \o << Ready(txn) >>)
          [] kind = "empty" -> Answer(ended, << Plain("EmptyQueryResponse"), Ready(txn) >>)
          [] kind = "parse_error" ->
                Answer(failed, << Plain("ErrorResponse"), Ready(failed.txn) >>)
          [] kind = "run_error" ->
                Answer(failed, << Shape("RowDescription", results[1]), Plain("ErrorResponse"),
                                  Ready(failed.txn) >>)
          [] OTHER -> Answer(ended, << Plain("CommandComplete"), Ready(txn) >>)

\* After an error in the extended protocol everything up to Sync is skipped.
Serve(db, m) ==
    IF db.skipping /\ m.tag # "Sync"
    THEN Answer(db, << >>)
    ELSE CASE m.tag = "Query" -> ServeQuery(db, m)
           [] m.tag = "Parse" -> ServeParse(db, m)
           [] m.tag = "Bind" -> ServeBind(db, m)
           [] m.tag = "Describe" -> ServeDescribe(db, m)
           [] m.tag = "Execute" -> ServeExecute(db, m)
           [] m.tag = "Close" -> ServeClose(db, m)
           [] m.tag = "Sync" -> ServeSync(db)
=============================================================================
