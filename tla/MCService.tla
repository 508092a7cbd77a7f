----------------------------- MODULE MCService ------------------------------
(***************************************************************************)
(* Small instances of Service.  A call is made at most once, so runs are   *)
(* finite without further bounds.                                          *)
(***************************************************************************)
EXTENDS Service, MCTopics

\* Empty, one topic, two, one of which gives no graph, two files with one
\* id, and a flawed file before or after a good one.
MCDirs ==
    {<<>>, <<Good>>, <<Good, DefaultDefault>>}
        \cup {<<Good, c>> : c \in Unbuildable}
        \cup {<<Other, c>> : c \in Flawed} \cup {<<c, Other>> : c \in Flawed}

MCDsns == {[rw |-> FALSE, ro |-> FALSE], [rw |-> TRUE, ro |-> FALSE], [rw |-> TRUE, ro |-> TRUE]}
=============================================================================
