------------------------------ MODULE History ------------------------------
(***************************************************************************)
(* The turns a request gives to the model (make_load_session_node): the    *)
(* pure part, from the rows list_recent returned.                          *)
(***************************************************************************)
EXTENDS Naturals, Sequences, SequencesExt

\* Mutant: room for complete turns only.
WindowOfTurns(maxTurns) == maxTurns * 2

\* The LIMIT of list_recent.
Window(maxTurns) == maxTurns * 4

\* The last `limit` rows, oldest first (ORDER BY seq DESC LIMIT, reversed).
Recent(rows, limit) ==
    SubSeq(rows, IF Len(rows) > limit THEN Len(rows) - limit + 1 ELSE 1, Len(rows))

\* Mutant: the status of the rows is not looked at.
IsTurnAnyStatus(msgs, i) ==
    msgs[i].role = "user" /\ msgs[i + 1].role = "assistant"

\* Mutant: two complete rows of different roles, in any order.
IsTurnAnyOrder(msgs, i) ==
    /\ msgs[i].role # msgs[i + 1].role
    /\ msgs[i].status = "complete" /\ msgs[i + 1].status = "complete"

\* A question and the answer in the next row, both complete.
IsTurn(msgs, i) ==
    /\ msgs[i].role = "user" /\ msgs[i].status = "complete"
    /\ msgs[i + 1].role = "assistant" /\ msgs[i + 1].status = "complete"

\* Mutant: rows are skipped in pairs also where there is no turn.
TurnsFromPairs(msgs) ==
    LET scan[i \in Nat] ==
            IF i >= Len(msgs) THEN <<>>
            ELSE IF IsTurn(msgs, i)
                 THEN <<<<msgs[i].req, msgs[i + 1].req>>>> \o scan[i + 2]
                 ELSE scan[i + 2]
    IN  scan[1]

\* The scan: a turn is taken and both its rows are skipped, any other row is
\* skipped alone.
Scan(msgs) ==
    LET scan[i \in Nat] ==
            IF i >= Len(msgs) THEN <<>>
            ELSE IF IsTurn(msgs, i)
                 THEN <<<<msgs[i].req, msgs[i + 1].req>>>> \o scan[i + 2]
                 ELSE scan[i + 1]
    IN  scan

TurnsFrom(msgs) == Scan(msgs)[1]

LastN(s, n) == SubSeq(s, IF Len(s) > n THEN Len(s) - n + 1 ELSE 1, Len(s))

\* turns[-max_turns:]
HistoryOf(msgs, maxTurns) == LastN(TurnsFrom(msgs), maxTurns)

\* Positions at which a turn begins.
TurnsAt(msgs) == {i \in 1 .. Len(msgs) - 1 : IsTurn(msgs, i)}
=============================================================================
