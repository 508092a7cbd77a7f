------------------------------ MODULE Routing ------------------------------
(***************************************************************************)
(* From the verdict on a request to the end of its agent's answer: the auth*)
(* node and its edge, the intent node with its retries, the conditional    *)
(* edge made from the topic's mapping, and the adapter node with the       *)
(* adapter behind it (Adapters).                                           *)
(*                                                                         *)
(* The classifier's model is external: it may name any label, known or not,*)
(* answer with something no route can be parsed from, raise, or never      *)
(* answer (its client is built without a timeout).                         *)
(***************************************************************************)
EXTENDS Topic

CONSTANTS
    Requests,
    Configs,        \* topic configurations
    Env,            \* environment variables that are set
    Roles,          \* the roles the topics' auth plugins admit
    Askers,         \* what the auth plugin sees of a request: role, scope, owned
    AnswerLen, MaxAttempts      \* see AdapterNode

\* "unreadable" stands for the answer of a model from which no label can be had.
ASSUME ConfigsAssumption ==
    \A c \in Configs :
        /\ c.nodes \in Seq({c.nodes[i] : i \in DOMAIN c.nodes})
        /\ "unreadable" \notin MappingKeys(c)

\* Field(ge=1) of a node's retry.max_attempts.
ASSUME MaxAttemptsPositive == MaxAttempts \in Nat \ {0}
ASSUME AnswerLenNat == AnswerLen \in Nat

VARIABLES
    topic,      \* topic[r]: the topic of request r
    who,        \* who[r]: the asker
    at,         \* at[r]: the node or edge r is at, or how it ended before the adapter
    tries,      \* tries[r]: calls of classify so far
    heard,      \* heard[r]: the label of the last one, or "unreadable"
    route,      \* route[r]: state["route"]
    phase, attempt, pos, chunks, ending, stream, kind, wire, trouble   \* see Adapters

routeVars == <<topic, who, at, tries, heard, route>>
agentVars == <<phase, attempt, pos, chunks, ending, stream, kind, wire, trouble>>
vars == <<routeVars, agentVars>>

Agents == INSTANCE Adapters

\* A label no topic has.
Unknown == "unknown"

Init ==
    /\ topic \in [Requests -> {c \in Configs : Accepted(c, Env)}]
    /\ who \in [Requests -> Askers]
    /\ at = [r \in Requests |-> "auth"]
    /\ tries = [r \in Requests |-> 0]
    /\ heard = [r \in Requests |-> "none"]
    /\ route = [r \in Requests |-> "none"]
    /\ Agents!Init

Go(r, to) == at' = [at EXCEPT ![r] = to]

----------------------------------------------------------------------------

\* The auth node and the edge after it; enrichment adds nothing that routing
\* looks at.
Auth(r) ==
    /\ at[r] = "auth"
    /\ IF Verdict(who[r], Roles) = "passed"
       THEN Go(r, "intent") /\ UNCHANGED route
       ELSE Go(r, "rejected") /\ route' = [route EXCEPT ![r] = "reject"]
    /\ UNCHANGED <<topic, who, tries, heard, agentVars>>

Hear(r, answer) ==
    /\ at[r] = "intent"
    /\ tries' = [tries EXCEPT ![r] = @ + 1]
    /\ heard' = [heard EXCEPT ![r] = answer]

Choose(r, label) ==
    /\ route' = [route EXCEPT ![r] = label]
    /\ Go(r, "edge")
    /\ UNCHANGED <<topic, who, agentVars>>

\* classify returns a label; one that is not known is replaced by the default.
Classify(r, label) ==
    /\ Hear(r, label)
    /\ Choose(r, IF label \in Labels(topic[r]) THEN label ELSE topic[r].default)

\* Mutant: the first failure is the last.
ClassifyFailsOnce(r) ==
    /\ Hear(r, "unreadable")
    /\ Choose(r, topic[r].default)

\* classify raises (IntentFailed or anything else): the node sleeps and tries
\* again, after the last attempt it falls back.
ClassifyFails(r) ==
    /\ Hear(r, "unreadable")
    /\ \/ /\ tries'[r] < topic[r].tries
          /\ Go(r, "sleep")
          /\ UNCHANGED <<topic, who, route, agentVars>>
       \/ /\ tries'[r] = topic[r].tries
          /\ Choose(r, topic[r].default)

WakeIntent(r) ==
    /\ at[r] = "sleep"
    /\ Go(r, "intent")
    /\ UNCHANGED <<topic, who, tries, heard, route, agentVars>>

\* The conditional edge, and the first call of the adapter's run.
TakeEdge(r) ==
    /\ at[r] = "edge"
    /\ Routable(topic[r], route[r])
    /\ Go(r, "adapter")
    /\ Agents!Call(r, AdapterFor(topic[r], route[r]))
    /\ UNCHANGED <<topic, who, tries, heard, route>>

\* KeyError in the edge: the run ends in INTERNAL.
EdgeRaises(r) ==
    /\ at[r] = "edge"
    /\ ~ Routable(topic[r], route[r])
    /\ Go(r, "unroutable")
    /\ UNCHANGED <<topic, who, tries, heard, route, agentVars>>

Exchange(r)    == Agents!Exchange(r) /\ UNCHANGED routeVars
Breaks(r)      == Agents!Breaks(r) /\ UNCHANGED routeVars

\* The request's task is cancelled.  Nothing before the adapter catches it.
Cancel(r) ==
    \/ /\ at[r] \in {"auth", "intent", "sleep", "edge"}
       /\ Go(r, "cancelled")
       /\ UNCHANGED <<topic, who, tries, heard, route, agentVars>>
    \/ Agents!Cancel(r) /\ UNCHANGED routeVars

----------------------------------------------------------------------------

Step(r) ==
    \/ Auth(r)
    \/ \E label \in MappingKeys(topic[r]) \cup {Unknown} : Classify(r, label)
    \/ ClassifyFails(r)
    \/ WakeIntent(r)
    \/ TakeEdge(r)
    \/ EdgeRaises(r)
    \/ Exchange(r)

Next == \E r \in Requests : Step(r) \/ Breaks(r) \/ Cancel(r)

Spec == Init /\ [][Next]_vars

\* The nodes run and the sleeps end.  Connecting takes bounded time, and so does
\* a read of the HTTP clients; an agent that is connected goes on with its answer,
\* closes, falls silent or trickles.  Nothing is assumed of the classifier's model,
\* of an agent that has fallen silent or of one that trickles.
FairSpec == Spec /\ \A r \in Requests : WF_vars(at[r] # "intent" /\ Step(r))

----------------------------------------------------------------------------

\* The type invariant; the adapter is busy or done exactly when the request got
\* to it.
TypeOK ==
    /\ at \in [Requests -> {"auth", "rejected", "intent", "sleep", "edge", "adapter",
                            "unroutable", "cancelled"}]
    /\ \A r \in Requests :
        /\ tries[r] \in 0 .. topic[r].tries
        /\ heard[r] \in MappingKeys(topic[r]) \cup {"none", "unreadable", Unknown}
        /\ phase[r] = "idle" <=> at[r] # "adapter"
    /\ Agents!TypeOK

\* Every agent that is asked is the right one: the agent behind the label the
\* classifier named last, if the graph knows the label; the agent behind the
\* default if not; and after failures alone the default only when every
\* attempt was made (intent node against mapping, duplicate node ids, several
\* edges).  And it is asked only for somebody with the role and the scope.
RightAgentAsked ==
    \A r \in Requests : at[r] = "adapter" =>
        LET c == topic[r]
            wanted == IF heard[r] \in DOMAIN c.edges[1] THEN heard[r] ELSE c.default
            last(n) == \A i \in DOMAIN c.nodes : c.nodes[i].id = c.nodes[n].id => i <= n
        IN  /\ heard[r] = "unreadable" => tries[r] = c.tries
            /\ \E n \in DOMAIN c.nodes :
                    c.nodes[n].id = c.edges[1][wanted] /\ last(n) /\ kind[r] = c.nodes[n].plugin
            /\ who[r].role \in Roles /\ who[r].scope \in who[r].owned

\* A topic that was accepted, and whose default is a label of its first edge,
\* never leads a request to an edge that cannot be taken, or to an adapter that
\* is not there.  (Validation also accepts default, reject and the labels of
\* further edges, of which this is false.)
RoutableTopicsRun ==
    \A r \in Requests : topic[r].default \in DOMAIN topic[r].edges[1] =>
        /\ at[r] # "unroutable"
        /\ at[r] = "edge" =>
            /\ Routable(topic[r], route[r])
            /\ Mapping(topic[r])[route[r]] \in DOMAIN AdapterOf(topic[r])

\* What each adapter makes of its agent is allowed by AdapterNode, so that
\* ChatService covers all of it.
ImplementsNode == Agents!ImplementsNode

\* A failure of the agent is told once and last (see Adapters).
FailureToldOnce == Agents!FailureToldOnce

\* An agent is asked again only when it sent something that cannot be read
\* (see Adapters).
OnlyUnreadableIsRepeated == Agents!OnlyUnreadableIsRepeated

Over(r) ==
    \/ at[r] \in {"rejected", "unroutable", "cancelled"}
    \/ phase[r] \in {"returned", "killed"}

\* Waiting for a model that does not answer, for an agent that only sends what is
\* skipped, or for a knowledge center that says nothing.
Held(r) ==
    \/ at[r] = "intent"
    \/ wire[r] = "trickling"
    \/ wire[r] = "silent" /\ kind[r] = "knowledge_center"

\* A request ends, with all its attempts at the classifier and at the agent, or
\* it is held for ever by one of three things nothing in the code bounds: a call
\* of the model, an agent that trickles, a silent knowledge center.  Nothing else
\* can keep it: not an agent that refuses, is slow to connect, sends what cannot
\* be read or falls silent over HTTP.
EndsUnlessHeld == \A r \in Requests : <>Over(r) \/ <>[]Held(r)

----------------------------------------------------------------------------

\* What a document says and the code does not do: deltas, put together, are
\* the answer, and a retry is not seen by the user.
DeltasAreAnswer == Agents!DeltasAreAnswer
=============================================================================
