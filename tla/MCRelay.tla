------------------------------ MODULE MCRelay ------------------------------
(* Instances of Relay and of the parsers of Framing for TLC: a behaviour   *)
(* either pumps messages or grows a body.                                  *)
EXTENDS Relay, Parsing

MCScripts ==
    [client |-> << << 1, 0, 2 >>, << 2, 0, 3, 5 >> >>, backend |-> << << 3, 0, 3, 0 >>, << 4, 0, 2 >> >>]
MCGarbage == {<< 1, 0, 1 >>}
MCRefusal == << << 5, 0, 2 >>, << 5, 0, 2 >> >>
MCLeaky == {1, 2}
MCWithheld == << 5 >>

MCBinds ==
    [portal : {<< >>, << 1 >>}, statement : {<< >>}, param_formats : {<< >>, << 1 >>, << 1, 0 >>},
     params : {<< >>, << Null >>, << << 0, 1 >>, << >> >>},
     formats : {<< >>, << 1 >>, << 0, 1 >>}]

MCField(name, table) ==
    [name |-> name, table_oid |-> table, column_id |-> 1, type_oid |-> 35, type_mod |-> -1,
     format |-> 0]

MCColumns ==
    {<< >>, << MCField(<< 1 >>, 0) >>, << MCField(<< >>, 20), MCField(<< 1, 2 >>, 0) >>}

\* Nothing has been sent yet.
Idle ==
    /\ pump = "select"
    /\ \A s \in Sides : inbound[s] \o unsent[s] \o buf[s] = << >> /\ sent[s] = << >> /\ ~ eof[s]

MCInit == Init /\ Empty

MCNext ==
    \/ Next /\ Empty /\ UNCHANGED body
    \/ Grows /\ Idle /\ UNCHANGED vars

MCSpec == MCInit /\ [][MCNext]_<< vars, body >> /\ Fairness
=============================================================================
