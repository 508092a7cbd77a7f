---------------------------- MODULE Conversation ----------------------------
(***************************************************************************)
(* A long thread, as the log ThreadStore implements (ThreadLog): asks store*)
(* their questions and answers, fail in between, or run at the same time,  *)
(* and load_session makes a history of the rows (History).  Asks are named *)
(* in the order their questions are stored.                                *)
(***************************************************************************)
EXTENDS History, FiniteSets

CONSTANTS
    Asks,       \* number of asks
    TurnLimits  \* values of history.max_turns

ASSUME AsksNat == Asks \in Nat
ASSUME TurnLimitsPositive == TurnLimits \subseteq Nat \ {0}

VARIABLES
    rows,       \* the rows of the thread by seq
    asked,      \* asks whose question is stored
    over        \* asks that are answered or have failed since

vars == <<rows, asked, over>>

Init == rows = <<>> /\ asked = 0 /\ over = {}

Row(r, role, status) == [req |-> r, role |-> role, status |-> status]

\* _persist_user_message.
Question ==
    /\ asked < Asks
    /\ asked' = asked + 1
    /\ rows' = Append(rows, Row(asked + 1, "user", "complete"))
    /\ UNCHANGED over

Pending == (1 .. asked) \ over

\* The persist node, at any time after the question; other asks may have stored
\* rows meanwhile.
Answer(r, status) ==
    /\ r \in Pending
    /\ rows' = Append(rows, Row(r, "assistant", status))
    /\ over' = over \cup {r}
    /\ UNCHANGED asked

\* The ask fails or is cancelled and stores no answer.
Lose(r) ==
    /\ r \in Pending
    /\ over' = over \cup {r}
    /\ UNCHANGED <<rows, asked>>

Next ==
    \/ Question
    \/ \E r \in 1 .. Asks :
        Lose(r) \/ \E status \in {"complete", "partial"} : Answer(r, status)

Spec == Init /\ [][Next]_vars

----------------------------------------------------------------------------

\* The history is what the docstring of load_session says: of the turns in the
\* window, the newest max_turns, oldest first, each once and none skipped,
\* whatever half turns are between them.
HistoryIsNewestTurns ==
    \A n \in TurnLimits :
        LET window  == Recent(rows, Window(n))
            history == HistoryOf(window, n)
        IN  /\ Len(history) = Min({n, Cardinality(TurnsAt(window))})
            /\ \A k \in DOMAIN history : \E i \in TurnsAt(window) :
                /\ history[k] = <<window[i].req, window[i + 1].req>>
                /\ Cardinality({j \in TurnsAt(window) : j > i}) = Len(history) - k

\* A history is shorter than it could be only after many failures: if it has
\* fewer turns than max_turns and than the thread, more than half of the window
\* is rows of no turn (questions without answer, partial answers, rows of asks
\* that ran at the same time).
WindowSuffices ==
    \A n \in TurnLimits :
        LET window == Recent(rows, Window(n))
            inTurn == UNION {{i, i + 1} : i \in TurnsAt(window)}
        IN  Len(HistoryOf(window, n)) < Min({n, Cardinality(TurnsAt(rows))})
            => Cardinality(DOMAIN window \ inTurn) > 2 * n

\* A turn joins the question of one ask and the answer of another only if the
\* asks overlapped: the one whose answer it is was asked first and was not
\* answered when the other asked.  Asks that wait for each other are never mixed,
\* however many of them fail.
MixedTurnsOverlap ==
    \A i \in TurnsAt(rows) :
        rows[i].req # rows[i + 1].req =>
            \E j \in 1 .. i - 1 : rows[j].role = "user" /\ rows[j].req = rows[i + 1].req

\* The inductive invariant behind it: an answer comes after its question.
TypeOK ==
    /\ rows \in Seq([req : 1 .. Asks, role : {"user", "assistant"},
                     status : {"complete", "partial"}])
    /\ asked \in 0 .. Asks
    /\ over \subseteq 1 .. asked

QuestionsStored ==
    \A r \in 1 .. asked : \E j \in DOMAIN rows : rows[j].role = "user" /\ rows[j].req = r

AnswersFollow ==
    \A i \in DOMAIN rows : rows[i].role = "assistant" =>
        \E j \in 1 .. i - 1 : rows[j].role = "user" /\ rows[j].req = rows[i].req

IInv == TypeOK /\ QuestionsStored /\ AnswersFollow
=============================================================================
