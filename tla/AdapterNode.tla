---------------------------- MODULE AdapterNode ----------------------------
(***************************************************************************)
(* The adapter node of the graph (make_adapter_node): the retry loop around*)
(* DownstreamAdapter.run, the chunks it collects and the events it emits.  *)
(*                                                                         *)
(* The downstream agent is external.  Its answer has AnswerLen pieces; an  *)
(* attempt delivers them in order from the first one and may stop anywhere:*)
(* by ending the stream, by an error frame, by an exception.  Pieces stand *)
(* for what a delta says, the empty text included, and are numbered so that*)
(* a piece delivered twice can be told.  The node adds its events to the   *)
(* queue of the graph run and does not wait for anyone to take them out.   *)
(* `output` is TRUE, as ChatService always passes it; no adapter of the    *)
(* repository emits `tool` events, which leave chunks alone.               *)
(***************************************************************************)
EXTENDS Naturals, Sequences

CONSTANTS
    Requests,
    AnswerLen,      \* pieces in a complete answer
    MaxAttempts,    \* retry.max_attempts of the node
    RetryableFlags  \* `retryable` of the error events adapters send

Phases  == {"idle", "streaming", "backoff", "returned", "killed"}
Endings == {"none", "finished", "error", "cancelled"}

VARIABLES
    phase,      \* phase[r]: where the node of request r is
    attempt,    \* attempt[r]: the current attempt, from 1
    pos,        \* pos[r]: pieces this attempt has delivered
    chunks,     \* chunks[r]: answer_chunks, all pieces collected
    ending,     \* ending[r]: why the node returned
    stream      \* stream[r]: events the node put into the queue, in order

adapterVars == <<phase, attempt, pos, chunks, ending>>
vars == <<adapterVars, stream>>

Delta(piece)   == [type |-> "delta", piece |-> piece, info |-> "none"]
Ev(type, info) == [type |-> type, piece |-> 0, info |-> info]

Emit(r, events) == stream' = [stream EXCEPT ![r] = @ \o events]

Init ==
    /\ phase = [r \in Requests |-> "idle"]
    /\ attempt = [r \in Requests |-> 0]
    /\ pos = [r \in Requests |-> 0]
    /\ chunks = [r \in Requests |-> <<>>]
    /\ ending = [r \in Requests |-> "none"]
    /\ stream = [r \in Requests |-> <<>>]

\* adapter.run is called; before it, for attempt 1, chunks = [].
Begin(r) ==
    /\ phase[r] = "idle"
    /\ phase' = [phase EXCEPT ![r] = "streaming"]
    /\ attempt' = [attempt EXCEPT ![r] = 1]
    /\ UNCHANGED <<pos, chunks, ending, stream>>

\* Mutant: the delta is forwarded but not collected when it is a retry's.
CollectFirstAttempt(r, piece) ==
    chunks' = IF attempt[r] = 1 THEN [chunks EXCEPT ![r] = Append(@, piece)]
              ELSE chunks

Collect(r, piece) == chunks' = [chunks EXCEPT ![r] = Append(@, piece)]

\* A delta event: collected, then put into the queue.
Receive(r) ==
    /\ phase[r] = "streaming"
    /\ pos[r] < AnswerLen
    /\ pos' = [pos EXCEPT ![r] = @ + 1]
    /\ Collect(r, pos[r] + 1)
    /\ Emit(r, <<Delta(pos[r] + 1)>>)
    /\ UNCHANGED <<phase, attempt, ending>>

Return(r, why) ==
    /\ phase' = [phase EXCEPT ![r] = "returned"]
    /\ ending' = [ending EXCEPT ![r] = why]
    /\ UNCHANGED <<attempt, pos, chunks>>

\* The adapter's stream ends without an error, complete or not.
Finish(r) ==
    /\ phase[r] = "streaming"
    /\ Return(r, "finished")
    /\ UNCHANGED stream

\* Mutant: one attempt more than max_attempts.
RetryOnceMore(r) ==
    /\ attempt[r] <= MaxAttempts
    /\ phase' = [phase EXCEPT ![r] = "backoff"]
    /\ UNCHANGED <<attempt, pos, chunks, ending, stream>>

\* The attempt is given up and the back-off sleep begins.
Retry(r) ==
    /\ attempt[r] < MaxAttempts
    /\ phase' = [phase EXCEPT ![r] = "backoff"]
    /\ UNCHANGED <<attempt, pos, chunks, ending, stream>>

\* Mutant: the error is forwarded, the return after it is missing.
GiveUpContinues(r) ==
    /\ Emit(r, <<Ev("error", "DOWNSTREAM_ERROR")>>)
    /\ UNCHANGED <<phase, attempt, pos, chunks, ending>>

GiveUp(r) ==
    /\ Emit(r, <<Ev("error", "DOWNSTREAM_ERROR")>>)
    /\ Return(r, "error")

\* An error event: retried only when it says it is retryable.
ErrorEvent(r, retryable) ==
    /\ phase[r] = "streaming"
    /\ \/ retryable /\ Retry(r)
       \/ ~ (retryable /\ attempt[r] < MaxAttempts) /\ GiveUp(r)

\* adapter.run raises: retried as long as attempts are left.
Raise(r) ==
    /\ phase[r] = "streaming"
    /\ \/ Retry(r)
       \/ attempt[r] = MaxAttempts /\ GiveUp(r)

\* The sleep is over: the next attempt starts from the first piece again.
\* chunks keeps what earlier attempts collected.
Wake(r) ==
    /\ phase[r] = "backoff"
    /\ phase' = [phase EXCEPT ![r] = "streaming"]
    /\ attempt' = [attempt EXCEPT ![r] = @ + 1]
    /\ pos' = [pos EXCEPT ![r] = 0]
    /\ UNCHANGED <<chunks, ending, stream>>

\* The task is cancelled while it awaits the adapter, or while a piece it has
\* collected is being forwarded: caught, the node returns what it has, with
\* stream_cancelled.
CancelStreaming(r) ==
    /\ phase[r] = "streaming"
    /\ phase' = [phase EXCEPT ![r] = "returned"]
    /\ ending' = [ending EXCEPT ![r] = "cancelled"]
    /\ \/ UNCHANGED <<pos, chunks>>
       \/ /\ pos[r] < AnswerLen
          /\ pos' = [pos EXCEPT ![r] = @ + 1]
          /\ Collect(r, pos[r] + 1)
    /\ UNCHANGED <<attempt, stream>>

\* The task is cancelled in an except clause or after the try: during the
\* sleep, or while the error of the last attempt is being forwarded.
CancelUncaught(r) ==
    /\ \/ phase[r] = "backoff"
       \/ phase[r] = "streaming" /\ attempt[r] = MaxAttempts
    /\ phase' = [phase EXCEPT ![r] = "killed"]
    /\ UNCHANGED <<attempt, pos, chunks, ending, stream>>

Step(r) ==
    \/ Receive(r)
    \/ Finish(r)
    \/ \E retryable \in RetryableFlags : ErrorEvent(r, retryable)
    \/ Raise(r)
    \/ Wake(r)

Next ==
    \E r \in Requests :
        Begin(r) \/ Step(r) \/ CancelStreaming(r) \/ CancelUncaught(r)

Spec == Init /\ [][Next]_vars

----------------------------------------------------------------------------

\* The pieces of the delta events, in order.
DeltasOf(events) ==
    LET deltas[i \in 0 .. Len(events)] ==
            IF i = 0 THEN <<>>
            ELSE IF events[i].type = "delta"
                 THEN Append(deltas[i - 1], events[i].piece)
                 ELSE deltas[i - 1]
    IN  deltas[Len(events)]

\* What the API document says of deltas (concatenated they are the answer) and
\* the contract tests of retries (transparent to the user): the deltas of a
\* stream are the answer's pieces, in order, none of them twice.
DeltasAreAnswer ==
    \A r \in Requests :
        LET d == DeltasOf(stream[r])
        IN  d = [i \in 1 .. Len(d) |-> i]

=============================================================================
