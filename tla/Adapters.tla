------------------------------ MODULE Adapters ------------------------------
(***************************************************************************)
(* The exchange between a downstream adapter (DownstreamAdapter.run of     *)
(* MetaGC, Uniioc and the knowledge center) and its agent, and what the    *)
(* adapter node makes of it.  AdapterNode lets an attempt end in any way;  *)
(* here it ends as the code of each adapter turns what the agent and the   *)
(* network do into events and exceptions.                                  *)
(*                                                                         *)
(* Agents are external.  One may refuse the connection, be slow to accept  *)
(* it, answer with an error status, send frames that cannot be used, close *)
(* the stream early, break the connection, fall silent, or keep it alive   *)
(* with frames that say nothing.                                           *)
(***************************************************************************)
EXTENDS Naturals, Sequences

CONSTANTS
    Requests, AnswerLen, MaxAttempts    \* see AdapterNode

Kinds == {"metagc", "uniioc", "knowledge_center"}

VARIABLES
    phase, attempt, pos, chunks, ending, stream,    \* see AdapterNode
    kind,       \* kind[r]: the adapter request r was routed to, or "none"
    wire,       \* wire[r]: the connection to the agent
    trouble     \* trouble[r]: what went wrong in the current attempt

nodeVars == <<phase, attempt, pos, chunks, ending, stream>>
vars == <<nodeVars, kind, wire, trouble>>

\* No adapter of the repository sends a retryable error.
Node == INSTANCE AdapterNode WITH RetryableFlags <- {FALSE}

Init ==
    /\ Node!Init
    /\ kind = [r \in Requests |-> "none"]
    /\ wire = [r \in Requests |-> "none"]
    /\ trouble = [r \in Requests |-> {}]

\* "page": the body of an answer with an error status is being read.
Wires == {"none", "connecting", "open", "page", "silent", "trickling"}
Troubles == {"refused", "timeout", "status", "unreadable", "broken"}

Wire(r, w) == wire' = [wire EXCEPT ![r] = w]
Note(r, t) == trouble' = [trouble EXCEPT ![r] = @ \cup {t}]

\* The exchange ends with an error event of the adapter.
\* Mutant: the event is marked retryable.
TellRetryable(r) == Node!ErrorEvent(r, TRUE)

Tell(r) == Node!ErrorEvent(r, FALSE)

----------------------------------------------------------------------------
(* Connecting.                                                             *)

Connecting(r) ==
    /\ Wire(r, "connecting")
    /\ trouble' = [trouble EXCEPT ![r] = {}]

\* adapter.run is called for the first time, of the adapter the edge leads to.
Call(r, k) ==
    /\ Node!Begin(r)
    /\ kind' = [kind EXCEPT ![r] = k]
    /\ Connecting(r)

\* Mutant: a retry drops what was collected before.
CallAgainAfresh(r) ==
    /\ phase[r] = "backoff"
    /\ phase' = [phase EXCEPT ![r] = "streaming"]
    /\ attempt' = [attempt EXCEPT ![r] = @ + 1]
    /\ pos' = [pos EXCEPT ![r] = 0]
    /\ chunks' = [chunks EXCEPT ![r] = <<>>]
    /\ UNCHANGED <<ending, stream, kind>>
    /\ Connecting(r)

\* adapter.run is called again after the back-off sleep.
CallAgain(r) ==
    /\ Node!Wake(r)
    /\ Connecting(r)
    /\ UNCHANGED kind

Connects(r) ==
    /\ wire[r] = "connecting"
    /\ Wire(r, "open")
    /\ UNCHANGED <<nodeVars, kind, trouble>>

\* Refused (httpx.RequestError, OSError) or not accepted in time: every
\* adapter sends an error event.
ConnectFails(r) ==
    /\ wire[r] = "connecting"
    /\ Tell(r)
    /\ Wire(r, "none")
    /\ Note(r, "refused") \/ Note(r, "timeout")
    /\ UNCHANGED kind

\* The agent answers with an error status and a body that is no event stream.
\* aiter_sse refuses its content type (SSEError) and websockets the handshake;
\* Uniioc does not look at the status and reads the body as an answer.
ErrorStatus(r) ==
    /\ wire[r] = "connecting"
    /\ \/ /\ kind[r] # "uniioc"
          /\ Tell(r)
          /\ Wire(r, "none")
       \/ /\ kind[r] = "uniioc"
          /\ Wire(r, "page")
          /\ UNCHANGED nodeVars
    /\ Note(r, "status")
    /\ UNCHANGED kind

----------------------------------------------------------------------------
(* Frames.                                                                 *)

Delta(r) ==
    /\ wire[r] = "open"
    /\ Node!Receive(r)
    /\ UNCHANGED <<kind, wire, trouble>>

ErrorFrame(r) ==
    /\ wire[r] = "open"
    /\ Tell(r)
    /\ Wire(r, "none")
    /\ UNCHANGED <<kind, trouble>>

\* Mutant: the response is not closed when run returns.
StreamEndsOpen(r) ==
    /\ wire[r] \in {"open", "page"}
    /\ Node!Finish(r)
    /\ UNCHANGED <<kind, wire, trouble>>

\* `done`, or the agent closes the stream without it: both end run.  The body
\* of an error page has no frame with a type in it and ends the same way.
StreamEnds(r) ==
    /\ wire[r] \in {"open", "page"}
    /\ Node!Finish(r)
    /\ Wire(r, "none")
    /\ UNCHANGED <<kind, trouble>>

\* Not JSON: MetaGC raises, the others skip the frame.  (Frames that all skip
\* leave everything as it is; an agent that sends nothing else is in Trickles.)
NotJson(r) ==
    /\ wire[r] \in {"open", "page"}
    /\ \/ /\ kind[r] = "metagc"
          /\ Node!Raise(r)
          /\ Wire(r, "none")
       \/ /\ kind[r] # "metagc"
          /\ UNCHANGED <<nodeVars, wire>>
    /\ Note(r, "unreadable")
    /\ UNCHANGED kind

\* JSON, but no object: an AttributeError or TypeError, which only the
\* knowledge center's adapter catches.
NotAnObject(r) ==
    /\ wire[r] \in {"open", "page"}
    /\ IF kind[r] = "knowledge_center" THEN Tell(r) ELSE Node!Raise(r)
    /\ Wire(r, "none")
    /\ Note(r, "unreadable")
    /\ UNCHANGED kind

\* A delta without content: KeyError in the node, outside of every adapter.
NoContent(r) ==
    /\ wire[r] = "open"
    /\ Node!Raise(r)
    /\ Wire(r, "none")
    /\ Note(r, "unreadable")
    /\ UNCHANGED kind

----------------------------------------------------------------------------
(* The connection.                                                         *)

\* Mutant: the exception is swallowed, run just ends.
BreaksSilently(r) ==
    /\ wire[r] \in {"open", "page", "silent", "trickling"}
    /\ Node!Finish(r)
    /\ Wire(r, "none")
    /\ Note(r, "broken")
    /\ UNCHANGED kind

\* The connection is lost: RequestError, or ConnectionClosedError.
Breaks(r) ==
    /\ wire[r] \in {"open", "page", "silent", "trickling"}
    /\ Tell(r)
    /\ Wire(r, "none")
    /\ Note(r, "broken")
    /\ UNCHANGED kind

\* The agent stays connected and sends nothing more.
FallsSilent(r) ==
    /\ wire[r] \in {"open", "page"}
    /\ Wire(r, "silent")
    /\ UNCHANGED <<nodeVars, kind, trouble>>

\* Mutant: Uniioc's client is built without a timeout.
HasReadTimeoutMetaGCOnly(k) == k = "metagc"

\* The two HTTP clients have a timeout, for each read anew; websockets bounds
\* connecting and closing, and no read.
HasReadTimeout(k) == k \in {"metagc", "uniioc"}

ReadTimesOut(r) ==
    /\ wire[r] = "silent"
    /\ HasReadTimeout(kind[r])
    /\ Tell(r)
    /\ Wire(r, "none")
    /\ Note(r, "timeout")
    /\ UNCHANGED kind

\* From now on the agent sends only what its adapter skips (comments, `meta`,
\* frames of other types, lines that are not JSON), each before a read times
\* out; over HTTP it may begin so with the head of its answer.  No timeout
\* bounds the exchange as a whole.
Trickles(r) ==
    /\ \/ wire[r] \in {"open", "page"}
       \/ wire[r] = "connecting" /\ HasReadTimeout(kind[r])
    /\ Wire(r, "trickling")
    /\ UNCHANGED <<nodeVars, kind, trouble>>

\* The request's task is cancelled.  A piece can be on its way only while the
\* stream is open.
Cancel(r) ==
    /\ Node!CancelStreaming(r) \/ Node!CancelUncaught(r)
    /\ wire[r] = "open" \/ chunks'[r] = chunks[r]
    /\ Wire(r, "none")
    /\ UNCHANGED <<kind, trouble>>

----------------------------------------------------------------------------

\* What adapter and agent do; an agent that is silent or trickling does nothing
\* that counts.
Exchange(r) ==
    \/ CallAgain(r)
    \/ Connects(r)
    \/ ConnectFails(r)
    \/ ErrorStatus(r)
    \/ Delta(r)
    \/ ErrorFrame(r)
    \/ StreamEnds(r)
    \/ NotJson(r)
    \/ NotAnObject(r)
    \/ NoContent(r)
    \/ FallsSilent(r)
    \/ Trickles(r)
    \/ ReadTimesOut(r)

Next ==
    \E r \in Requests :
        (\E k \in Kinds : Call(r, k)) \/ Exchange(r) \/ Breaks(r) \/ Cancel(r)

Spec == Init /\ [][Next]_vars

----------------------------------------------------------------------------

\* The type invariant; a connection is in use exactly during an attempt.
TypeOK ==
    /\ kind \in [Requests -> Kinds \cup {"none"}]
    /\ wire \in [Requests -> Wires]
    /\ trouble \in [Requests -> SUBSET Troubles]
    /\ \A r \in Requests : wire[r] # "none" <=> phase[r] = "streaming"

\* What each adapter makes of its agent is allowed by AdapterNode, so that
\* ChatService covers all of it.
ImplementsNode == Node!Spec

Errors(r) == {i \in DOMAIN stream[r] : stream[r][i].type = "error"}

\* A failure is told once and last: an attempt that is going to be repeated
\* shows no error (contract 8 of the design), and a node that returned after
\* its exchange was refused, timed out or broke has sent exactly one.
FailureToldOnce ==
    \A r \in Requests :
        /\ Errors(r) \subseteq {Len(stream[r])}
        /\ phase[r] \in {"streaming", "backoff"} => Errors(r) = {}
        /\ phase[r] = "returned" /\ ending[r] # "cancelled"
              /\ trouble[r] \cap {"refused", "timeout", "broken"} # {}
           => Errors(r) # {}

\* An agent is asked again only when it sent something that cannot be read:
\* a failure the adapter reports is not repeated (API document: retryable is
\* always false, only an exception out of run is retried).
OnlyUnreadableIsRepeated ==
    [][\A r \in Requests :
          attempt'[r] > attempt[r] /\ attempt[r] > 0 => "unreadable" \in trouble[r]]_vars

----------------------------------------------------------------------------
(* What the documents say and the code does not do.                        *)

\* Deltas, put together, are the answer, and a retry is not seen by the user.
DeltasAreAnswer == Node!DeltasAreAnswer
=============================================================================
