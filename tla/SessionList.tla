---------------------------- MODULE SessionList -----------------------------
(***************************************************************************)
(* The list of a user's sessions (GET /sessions, list_by_user) read page by*)
(* page while asks create sessions and touch them.                         *)
(*                                                                         *)
(* The reading client is external: it takes last_message_at of the last    *)
(* item as the next `before`, as long as pages are full and there is one.  *)
(* A touch writes CURRENT_TIMESTAMP, the time its statement began, which is*)
(* up to Lag before the time it is seen by others.                         *)
(***************************************************************************)
EXTENDS Naturals, FiniteSets, FiniteSetsExt

CONSTANTS
    Sessions,   \* thread_id values
    Owner, Biz, \* the user and the topic that create a session
    Reader,     \* the user who lists
    Filters,    \* what biz_id may be in the request: sets of topics
    Limits,     \* what limit may be
    Lag,        \* see above
    MaxTime     \* bound of the clock

ASSUME SessionsFinite == IsFiniteSet(Sessions)
ASSUME LimitsPositive == Limits \subseteq Nat \ {0}
ASSUME MaxTimePositive == MaxTime \in Nat \ {0}

VARIABLES
    clock,
    row,        \* ma_session: session -> [created, last]; last = 0 is NULL
    request,    \* the reader's parameters: biz (a set of topics) and limit
    reading,    \* "no", "pages", "done"
    before,     \* the parameter of the next page; 0 is none
    used,       \* values of before used so far
    seen,       \* seen[s]: pages that showed s; 2 is any number above one
    fresh       \* sessions created or touched since reading began, or since last shown

vars == <<clock, row, request, reading, before, used, seen, fresh>>

Init ==
    /\ clock = 1
    /\ row = [s \in {} |-> 0]
    /\ request \in [biz : Filters, limit : Limits]
    /\ reading = "no" /\ before = 0 /\ used = {}
    /\ seen = [s \in Sessions |-> 0]
    /\ fresh = {}

readerVars == <<request, reading, before, used, seen>>

Tick == clock < MaxTime /\ clock' = clock + 1 /\ UNCHANGED <<row, readerVars, fresh>>

Put(s, r) == row' = [t \in DOMAIN row \cup {s} |-> IF t = s THEN r ELSE row[t]]

\* get_or_create inserts: last_message_at stays NULL.
Create(s) ==
    /\ s \notin DOMAIN row
    /\ Put(s, [created |-> clock, last |-> 0])
    /\ fresh' = fresh \cup {s}
    /\ UNCHANGED <<clock, readerVars>>

\* An answer was stored.
Touch(s, now) ==
    /\ s \in DOMAIN row
    /\ Put(s, [row[s] EXCEPT !.last = now])
    /\ fresh' = fresh \cup {s}
    /\ UNCHANGED <<clock, readerVars>>

----------------------------------------------------------------------------
(* list_by_user.                                                           *)

\* Mutant: sessions of the time `before` are listed again.
OlderOrSame(s, limitTime) == limitTime = 0 \/ row[s].last \in 1 .. limitTime

\* `last_message_at < before`, which is not true of NULL.
Older(s, limitTime) == limitTime = 0 \/ row[s].last \in 1 .. limitTime - 1

InScope(s) == Owner[s] = Reader /\ Biz[s] \in request.biz

\* Mutant: biz_id is not looked at.
MatchingAnyTopic ==
    {s \in DOMAIN row : Owner[s] = Reader /\ Older(s, before)}

Matching ==
    {s \in DOMAIN row : InScope(s) /\ Older(s, before)}

\* Mutant: NULLS FIRST, what PostgreSQL does by default with DESC.
PrecedesNullsFirst(s, t) ==
    \/ row[s].last > row[t].last /\ row[t].last # 0
    \/ row[s].last = 0 /\ row[t].last # 0
    \/ row[s].last = row[t].last /\ row[s].created > row[t].created

\* ORDER BY last_message_at DESC NULLS LAST, created_at DESC.
Precedes(s, t) ==
    \/ row[s].last > row[t].last
    \/ row[s].last = row[t].last /\ row[s].created > row[t].created

\* The first rows in that order; ties are cut anywhere.
IsPage(page) ==
    /\ page \subseteq Matching
    /\ Cardinality(page) = Min({request.limit, Cardinality(Matching)})
    /\ \A s \in page, t \in Matching \ page : ~ Precedes(t, s)

\* One request of the reader, and what it does next.
Read(page) ==
    /\ reading # "done"
    /\ IsPage(page)
    /\ seen' = [s \in Sessions |-> IF s \in page THEN Min({2, seen[s] + 1}) ELSE seen[s]]
    /\ fresh' = (IF reading = "no" THEN {} ELSE fresh) \ page
    /\ LET times == {row[s].last : s \in page}
       IN  IF Cardinality(page) < request.limit \/ 0 \in times
           THEN reading' = "done" /\ UNCHANGED <<before, used>>
           ELSE /\ reading' = "pages"
                /\ before' = Min(times)
                /\ used' = used \cup {before'}
    /\ UNCHANGED <<clock, row, request>>

ReadPage == \E page \in SUBSET DOMAIN row : Read(page)

----------------------------------------------------------------------------

Next ==
    \/ Tick
    \/ \E s \in Sessions : Create(s)
    \/ \E s \in Sessions, now \in 1 .. clock : now + Lag >= clock /\ Touch(s, now)
    \/ ReadPage

Spec == Init /\ [][Next]_vars

\* The reader goes on; nobody has to ask anything.
FairSpec == Spec /\ WF_vars(ReadPage)

----------------------------------------------------------------------------

\* The type invariant; nobody is shown another user's session or topic.
TypeOK ==
    /\ clock \in 1 .. MaxTime
    /\ DOMAIN row \subseteq Sessions
    /\ \A s \in DOMAIN row :
        /\ row[s].last \in 0 .. clock /\ row[s].created \in 1 .. clock
        /\ seen[s] > 0 => InScope(s)
    /\ reading \in {"no", "pages", "done"}
    /\ before \in used \cup {0} /\ used \subseteq 1 .. clock
    /\ fresh \subseteq DOMAIN row

\* A session is shown again, on a later page, only if it was touched since it
\* was shown (and the touch, of an earlier time, was seen late).
ListedOnce ==
    [][\A s \in Sessions : seen'[s] > 1 /\ seen'[s] # seen[s] => s \in fresh]_vars

\* What a reader who has seen all pages has missed: sessions that were created or
\* touched meanwhile, that have no answer yet, or whose last_message_at is that
\* of the last item of a page.  Nothing else, whatever is touched in between.
MissesOnlyMoving ==
    reading = "done" =>
        \A s \in DOMAIN row :
            InScope(s) /\ seen[s] = 0
            => s \in fresh \/ row[s].last = 0 \/ row[s].last \in used

\* Reading all pages ends, however often sessions are touched meanwhile.
ReadingEnds == reading # "no" ~> reading = "done"
=============================================================================
