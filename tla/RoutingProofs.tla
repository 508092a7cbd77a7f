--------------------------- MODULE RoutingProofs ----------------------------
(***************************************************************************)
(* Proofs about Routing, for any topic configurations, environment, askers *)
(* and agents, any number of attempts and any length of answers: who is    *)
(* asked; that what is done with an agent is what AdapterNode allows; that *)
(* failures are told once, and only answers that cannot be read are asked  *)
(* for again; that connections and attempts are bounded.                   *)
(***************************************************************************)
EXTENDS Routing, TLAPS, WellFoundedInduction

Places ==
    {"auth", "rejected", "intent", "sleep", "edge", "adapter", "unroutable", "cancelled"}

\* The inductive invariant: topics are accepted ones, and a request at the edge
\* carries a label the graph knows, or its topic's default.
IInv ==
    /\ at \in [Requests -> Places]
    /\ DOMAIN route = Requests
    /\ \A r \in Requests :
        /\ Accepted(topic[r], Env)
        /\ at[r] = "edge" => route[r] \in Labels(topic[r]) \cup {topic[r].default}
        /\ at[r] = "unroutable" => topic[r].default \notin Labels(topic[r])

\* At first every request is at the auth node.
LEMMA InitEstablishes == Init => IInv
BY DEF Init, IInv, Places

\* A label that is chosen is known or the default.
LEMMA ChoiceKeeps ==
    ASSUME IInv, NEW r \in Requests, NEW label,
           label \in Labels(topic[r]) \cup {topic[r].default}, Choose(r, label)
    PROVE  IInv'
BY DEF IInv, Choose, Go, Places

\* The classifier's answer, or the fallback after its last failure.
LEMMA IntentKeeps ==
    ASSUME IInv, NEW r \in Requests,
           \/ \E label \in MappingKeys(topic[r]) \cup {Unknown} : Classify(r, label)
           \/ ClassifyFails(r)
    PROVE  IInv'
<1>1. ASSUME NEW label, Classify(r, label) PROVE IInv'
  <2> DEFINE chosen == IF label \in Labels(topic[r]) THEN label ELSE topic[r].default
  <2>1. Choose(r, chosen) /\ chosen \in Labels(topic[r]) \cup {topic[r].default}
    BY <1>1 DEF Classify
  <2> HIDE DEF chosen
  <2> QED
    BY <2>1, ChoiceKeeps
<1>2. CASE ClassifyFails(r)
  <2>1. CASE Go(r, "sleep") /\ UNCHANGED <<topic, who, route, agentVars>>
    BY <2>1 DEF IInv, Go, Places
  <2>2. CASE Choose(r, topic[r].default)
    BY <2>2, ChoiceKeeps
  <2> QED
    BY <1>2, <2>1, <2>2 DEF ClassifyFails
<1> QED
  BY <1>1, <1>2

\* A request that moves on without changing its route.
LEMMA MoveKeeps ==
    ASSUME IInv, NEW r \in Requests, NEW to \in Places \ {"edge", "unroutable"},
           Go(r, to), UNCHANGED topic,
           DOMAIN route' = Requests, \A q \in Requests \ {r} : route'[q] = route[q]
    PROVE  IInv'
BY DEF IInv, Go, Places

\* Every step keeps the invariant.
LEMMA NextKeeps == IInv /\ [Next]_vars => IInv'
<1> SUFFICES ASSUME IInv, [Next]_vars PROVE IInv'
  OBVIOUS
<1>1. ASSUME NEW r \in Requests, Step(r) \/ Breaks(r) \/ Cancel(r)
      PROVE  IInv'
  <2>1. CASE Auth(r)
    BY <2>1, MoveKeeps DEF Auth, IInv, Places
  <2>2. CASE \/ \E label \in MappingKeys(topic[r]) \cup {Unknown} : Classify(r, label)
             \/ ClassifyFails(r)
    BY <2>2, IntentKeeps
  <2>3. CASE WakeIntent(r)
    BY <2>3, MoveKeeps DEF WakeIntent, IInv, Places
  <2>4. CASE TakeEdge(r)
    BY <2>4, MoveKeeps DEF TakeEdge, IInv, Places
  <2>5. CASE EdgeRaises(r)
    BY <2>5 DEF EdgeRaises, Routable, Labels, IInv, Go, Places
  <2>6. CASE UNCHANGED routeVars
    BY <2>6 DEF routeVars, IInv
  <2>7. CASE Go(r, "cancelled") /\ UNCHANGED <<topic, who, tries, heard, route, agentVars>>
    BY <2>7, MoveKeeps DEF IInv, Places
  <2> QED
    BY <1>1, <2>1, <2>2, <2>3, <2>4, <2>5, <2>6, <2>7
       DEF Step, Exchange, Breaks, Cancel
<1>2. CASE UNCHANGED vars
  BY <1>2 DEF vars, routeVars, IInv
<1> QED
  BY <1>1, <1>2 DEF Next

\* What validation has to do with it: every target of a mapping is a node.
LEMMA TargetsExist ==
    ASSUME NEW c, Accepted(c, Env), NEW label \in Labels(c)
    PROVE  Mapping(c)[label] \in DOMAIN AdapterOf(c)
BY DEF Accepted, Valid, Labels, Mapping, Range, AdapterOf

\* An accepted topic whose default its first edge can route never leads a request
\* to an edge it cannot take or to an adapter that is not there, whatever
\* topics are configured and whatever the model answers.
THEOREM RoutableTopicsAlwaysRun == Spec => []RoutableTopicsRun
<1>1. IInv => RoutableTopicsRun
  <2> SUFFICES ASSUME IInv, NEW r \in Requests, topic[r].default \in Labels(topic[r])
               PROVE  /\ at[r] # "unroutable"
                      /\ at[r] = "edge" =>
                            /\ Routable(topic[r], route[r])
                            /\ Mapping(topic[r])[route[r]] \in DOMAIN AdapterOf(topic[r])
    BY DEF RoutableTopicsRun, Labels, Mapping
  <2>1. Accepted(topic[r], Env)
    BY DEF IInv
  <2> QED
    BY <2>1, TargetsExist DEF IInv, Routable, Labels
<1> QED
  BY <1>1, InitEstablishes, NextKeeps, PTL DEF Spec

----------------------------------------------------------------------------

\* Of indices of a sequence one is the last.
LEMMA LastExists ==
    ASSUME NEW L \in Nat, NEW I \in SUBSET (1 .. L), I # {}
    PROVE  \E m \in I : \A j \in I : j <= m
<1> DEFINE T == {L - i : i \in I}
<1> DEFINE R == {ss \in Nat \X Nat : ss[1] < ss[2]}
<1>1. IsWellFoundedOn(R, Nat)
  BY NatLessThanWellFounded, Zenon DEF OpToRel
<1>2. T \subseteq Nat /\ T # {}
  <2>1. \A i \in I : i \in 1 .. L
    OBVIOUS
  <2>2. \A i \in 1 .. L : L - i \in Nat
    OBVIOUS
  <2> QED
    BY <2>1, <2>2
<1>3. \E x \in T : \A y \in T : <<y, x>> \notin R
  <2> HIDE DEF T, R
  <2> QED
    BY <1>1, <1>2, WFMin
<1>4. PICK i \in I : \A j \in I : <<L - j, L - i>> \notin R
  BY <1>3
<1>5. ASSUME NEW j \in I PROVE j <= i
  <2>1. i \in 1 .. L /\ j \in 1 .. L
    OBVIOUS
  <2>2. <<L - j, L - i>> \in Nat \X Nat
    BY <2>1
  <2>3. ~ (L - j < L - i)
    BY <1>4, <2>2
  <2> QED
    BY <2>1, <2>3
<1> QED
  BY <1>5

\* Of nodes with one id the compiled topic has the last one's adapter.
LEMMA LastNodeCounts ==
    ASSUME NEW c \in Configs, NEW id \in NodeIds(c)
    PROVE  \E n \in DOMAIN c.nodes :
              /\ c.nodes[n].id = id /\ AdapterOf(c)[id] = c.nodes[n].plugin
              /\ \A i \in DOMAIN c.nodes : c.nodes[i].id = id => i <= n
<1> DEFINE I == {i \in DOMAIN c.nodes : c.nodes[i].id = id}
<1>1. Len(c.nodes) \in Nat /\ DOMAIN c.nodes = 1 .. Len(c.nodes)
  BY ConfigsAssumption
<1>2. I \in SUBSET (1 .. Len(c.nodes)) /\ I # {}
  BY <1>1 DEF NodeIds
<1>3. \E m \in I : \A j \in I : j <= m
  <2> HIDE DEF I
  <2> QED
    BY <1>1, <1>2, LastExists
<1> DEFINE IsLast(m) == /\ c.nodes[m].id = id
                        /\ \A j \in DOMAIN c.nodes : c.nodes[j].id = id => j <= m
<1> DEFINE last == CHOOSE m \in DOMAIN c.nodes : IsLast(m)
<1>4. last \in DOMAIN c.nodes /\ IsLast(last)
  <2>1. \E m \in DOMAIN c.nodes : IsLast(m)
    BY <1>3
  <2> HIDE DEF IsLast
  <2> QED
    BY <2>1
<1>5. AdapterOf(c)[id] = c.nodes[last].plugin
  BY DEF AdapterOf
<1> QED
  BY <1>4, <1>5

----------------------------------------------------------------------------

\* The label request r is to be routed by.
Wanted(r) ==
    IF heard[r] \in Labels(topic[r]) THEN heard[r] ELSE topic[r].default

Domains ==
    /\ topic \in [Requests -> Configs]
    /\ at \in [Requests -> Places]
    /\ DOMAIN route = Requests /\ DOMAIN heard = Requests
    /\ DOMAIN tries = Requests /\ DOMAIN kind = Requests

\* What is known of request r on its way to the agent.
OnItsWay(r) ==
    /\ Accepted(topic[r], Env)
    /\ at[r] \in {"intent", "sleep", "edge", "adapter"} => Verdict(who[r], Roles) = "passed"
    /\ at[r] \in {"edge", "adapter"} =>
        /\ route[r] = Wanted(r)
        /\ heard[r] = "unreadable" => tries[r] = topic[r].tries
    /\ at[r] = "adapter" =>
        /\ Routable(topic[r], route[r])
        /\ kind[r] = AdapterFor(topic[r], route[r])

WayInv == Domains /\ \A r \in Requests : OnItsWay(r)

\* The adapter a request was routed to stays, whatever its agent does.
LEMMA AgentKeepsKind ==
    ASSUME NEW r \in Requests,
           Agents!Exchange(r) \/ Agents!Breaks(r) \/ Agents!Cancel(r)
    PROVE  UNCHANGED kind
BY DEF Agents!Exchange, Agents!Breaks, Agents!Cancel, Agents!CallAgain, Agents!Connects,
       Agents!ConnectFails, Agents!ErrorStatus, Agents!Delta, Agents!ErrorFrame,
       Agents!StreamEnds, Agents!NotJson, Agents!NotAnObject, Agents!NoContent,
       Agents!FallsSilent, Agents!Trickles, Agents!ReadTimesOut

\* A step of r concerns r alone, and neither its topic nor its asker.
OnlyRequest(r) ==
    /\ UNCHANGED <<topic, who>>
    /\ Domains'
    /\ \A q \in Requests \ {r} :
        /\ at'[q] = at[q] /\ route'[q] = route[q] /\ heard'[q] = heard[q]
        /\ tries'[q] = tries[q] /\ kind'[q] = kind[q]

\* So it has to keep what is known of r.
LEMMA OthersStay ==
    ASSUME WayInv, NEW r \in Requests, OnlyRequest(r), OnItsWay(r)'
    PROVE  WayInv'
<1> SUFFICES ASSUME NEW q \in Requests \ {r} PROVE OnItsWay(q)'
  BY DEF WayInv, OnlyRequest
<1> QED
  BY DEF WayInv, OnlyRequest, OnItsWay, Wanted

\* The classifier's answers.
LEMMA IntentKeepsWay ==
    ASSUME WayInv, NEW r \in Requests,
           \/ \E label \in MappingKeys(topic[r]) \cup {Unknown} : Classify(r, label)
           \/ ClassifyFails(r)
    PROVE  WayInv'
<1> USE DEF Hear, Choose, Go, agentVars
<1>1. ASSUME NEW label \in MappingKeys(topic[r]) \cup {Unknown}, Classify(r, label)
      PROVE  WayInv'
  <2>1. OnlyRequest(r)
    BY <1>1 DEF WayInv, Domains, OnlyRequest, Classify, Places
  <2>2. label # "unreadable"
    BY <1>1, ConfigsAssumption DEF WayInv, Domains, Unknown
  <2>3. OnItsWay(r)'
    BY <1>1, <2>2 DEF WayInv, Domains, OnItsWay, Wanted, Classify
  <2> QED
    BY <2>1, <2>3, OthersStay
<1>2. CASE ClassifyFails(r)
  <2>1. OnlyRequest(r)
    BY <1>2 DEF WayInv, Domains, OnlyRequest, ClassifyFails, Places
  <2>2. "unreadable" \notin Labels(topic[r])
    <3>1. Valid(topic[r]) /\ topic[r] \in Configs
      BY DEF WayInv, Domains, OnItsWay, Accepted
    <3> QED
      BY <3>1, ConfigsAssumption DEF Labels, Mapping, MappingKeys, Valid
  <2>3. OnItsWay(r)'
    BY <1>2, <2>2 DEF WayInv, Domains, OnItsWay, Wanted, ClassifyFails
  <2> QED
    BY <2>1, <2>3, OthersStay
<1> QED
  BY <1>1, <1>2

\* At first every request has all of its way before it.
LEMMA InitWay == Init => WayInv
BY DEF Init, Agents!Init, WayInv, Domains, OnItsWay, Places

\* Every step keeps a request on its way.
LEMMA NextKeepsWay == WayInv /\ [Next]_vars => WayInv'
<1> SUFFICES ASSUME WayInv, [Next]_vars PROVE WayInv'
  OBVIOUS
<1>1. ASSUME NEW r \in Requests, Step(r) \/ Breaks(r) \/ Cancel(r)
      PROVE  WayInv'
  <2> USE DEF Go, agentVars
  <2>1. CASE Auth(r)
    <3>1. OnlyRequest(r)
      BY <2>1 DEF WayInv, Domains, OnlyRequest, Auth, Places
    <3>2. OnItsWay(r)'
      BY <2>1 DEF WayInv, Domains, OnItsWay, Auth
    <3> QED
      BY <3>1, <3>2, OthersStay
  <2>2. CASE \/ \E label \in MappingKeys(topic[r]) \cup {Unknown} : Classify(r, label)
             \/ ClassifyFails(r)
    BY <2>2, IntentKeepsWay
  <2>3. CASE WakeIntent(r)
    <3>1. OnlyRequest(r)
      BY <2>3 DEF WayInv, Domains, OnlyRequest, WakeIntent, Places
    <3>2. OnItsWay(r)'
      BY <2>3 DEF WayInv, Domains, OnItsWay, WakeIntent
    <3> QED
      BY <3>1, <3>2, OthersStay
  <2>4. CASE TakeEdge(r)
    <3>1. kind' = [kind EXCEPT ![r] = AdapterFor(topic[r], route[r])]
      BY <2>4 DEF TakeEdge, Agents!Call
    <3>2. OnlyRequest(r)
      BY <2>4, <3>1 DEF WayInv, Domains, OnlyRequest, TakeEdge, Places
    <3>3. OnItsWay(r)'
      BY <2>4, <3>1 DEF WayInv, Domains, OnItsWay, Wanted, TakeEdge
    <3> QED
      BY <3>2, <3>3, OthersStay
  <2>5. CASE EdgeRaises(r)
    <3>1. OnlyRequest(r)
      BY <2>5 DEF WayInv, Domains, OnlyRequest, EdgeRaises, Places
    <3>2. OnItsWay(r)'
      BY <2>5 DEF WayInv, Domains, OnItsWay, EdgeRaises
    <3> QED
      BY <3>1, <3>2, OthersStay
  <2>6. CASE /\ UNCHANGED routeVars
             /\ Agents!Exchange(r) \/ Agents!Breaks(r) \/ Agents!Cancel(r)
    BY <2>6, AgentKeepsKind DEF WayInv, Domains, OnItsWay, Wanted, routeVars
  <2>7. CASE Go(r, "cancelled") /\ UNCHANGED <<topic, who, tries, heard, route, agentVars>>
    <3>1. OnlyRequest(r)
      BY <2>7 DEF WayInv, Domains, OnlyRequest, Places
    <3>2. OnItsWay(r)'
      BY <2>7 DEF WayInv, Domains, OnItsWay
    <3> QED
      BY <3>1, <3>2, OthersStay
  <2> QED
    BY <1>1, <2>1, <2>2, <2>3, <2>4, <2>5, <2>6, <2>7
       DEF Step, Exchange, Breaks, Cancel
<1>2. CASE UNCHANGED vars
  BY <1>2 DEF vars, routeVars, agentVars, WayInv, Domains, OnItsWay, Wanted
<1> QED
  BY <1>1, <1>2 DEF Next

\* Whatever the model answers, and whatever labels, edges and node ids a topic
\* has: an agent that is asked is the one the topic names for the label the
\* classifier named, or for the default where it named none the graph knows
\* or had no attempt left; and it is asked only for an admitted user.
THEOREM OnlyRightAgentAsked == Spec => []RightAgentAsked
<1>1. WayInv => RightAgentAsked
  <2> SUFFICES ASSUME WayInv, NEW r \in Requests, at[r] = "adapter"
               PROVE  /\ heard[r] = "unreadable" => tries[r] = topic[r].tries
                      /\ \E n \in DOMAIN topic[r].nodes :
                            /\ topic[r].nodes[n].id = Mapping(topic[r])[Wanted(r)]
                            /\ \A i \in DOMAIN topic[r].nodes :
                                    topic[r].nodes[i].id = topic[r].nodes[n].id => i <= n
                            /\ kind[r] = topic[r].nodes[n].plugin
                      /\ who[r].role \in Roles /\ who[r].scope \in who[r].owned
    BY DEF RightAgentAsked, Wanted, Labels, Mapping
  <2> DEFINE c == topic[r]
  <2>1. /\ c \in Configs /\ Accepted(c, Env) /\ Routable(c, Wanted(r))
        /\ kind[r] = AdapterFor(c, Wanted(r))
        /\ Verdict(who[r], Roles) = "passed"
        /\ heard[r] = "unreadable" => tries[r] = c.tries
    BY DEF WayInv, Domains, OnItsWay
  <2>2. Mapping(c)[Wanted(r)] \in NodeIds(c)
    BY <2>1 DEF Accepted, Valid, Routable, Mapping, Range
  <2>3. who[r].role \in Roles /\ who[r].scope \in who[r].owned
    BY <2>1 DEF Verdict
  <2> QED
    BY <2>1, <2>2, <2>3, LastNodeCounts DEF AdapterFor
<1> QED
  BY <1>1, InitWay, NextKeepsWay, PTL DEF Spec

----------------------------------------------------------------------------
(* The agents.                                                             *)

\* What is done with the agent is a step of the adapter node, or none.
LEMMA ExchangeMaps ==
    ASSUME NEW r \in Requests,
           \/ Agents!Exchange(r) \/ Agents!Breaks(r) \/ Agents!Cancel(r)
           \/ \E k : Agents!Call(r, k)
    PROVE  Agents!Node!Next \/ UNCHANGED Agents!nodeVars
<1>1. CASE \E k : Agents!Call(r, k)
  BY <1>1 DEF Agents!Call, Agents!Node!Next
<1>2. CASE Agents!CallAgain(r)
  BY <1>2 DEF Agents!CallAgain, Agents!Node!Next, Agents!Node!Step
<1>3. CASE Agents!Tell(r)
  BY <1>3 DEF Agents!Tell, Agents!Node!Next, Agents!Node!Step
<1>4. CASE Agents!Node!Raise(r) \/ Agents!Node!Finish(r) \/ Agents!Node!Receive(r)
  BY <1>4 DEF Agents!Node!Next, Agents!Node!Step
<1>5. CASE Agents!Cancel(r)
  BY <1>5 DEF Agents!Cancel, Agents!Node!Next
<1>6. CASE Agents!Breaks(r)
  BY <1>3, <1>6 DEF Agents!Breaks
<1>7. CASE Agents!Exchange(r) /\ ~ Agents!CallAgain(r)
  BY <1>3, <1>4, <1>7
     DEF Agents!Exchange, Agents!Connects, Agents!ConnectFails, Agents!ErrorStatus,
         Agents!Delta, Agents!ErrorFrame, Agents!StreamEnds, Agents!NotJson,
         Agents!NotAnObject, Agents!NoContent, Agents!FallsSilent, Agents!Trickles, Agents!ReadTimesOut
<1> QED
  BY <1>1, <1>2, <1>5, <1>6, <1>7

\* What an agent, its network and each adapter do never leads out of what
\* AdapterNode allows, for any number of attempts and any length of answers.
THEOREM RoutingImplementsNode == Spec => ImplementsNode
<1>1. Init => Agents!Node!Init
  BY DEF Init, Agents!Init
<1>2. [Next]_vars => [Agents!Node!Next]_(Agents!Node!vars)
  <2> SUFFICES ASSUME [Next]_vars
               PROVE  Agents!Node!Next \/ UNCHANGED Agents!nodeVars
    BY DEF Agents!nodeVars, Agents!Node!vars, Agents!Node!adapterVars
  <2>1. CASE UNCHANGED agentVars
    BY <2>1 DEF agentVars, Agents!nodeVars
  <2>2. ASSUME NEW r \in Requests,
               \/ Agents!Exchange(r) \/ Agents!Breaks(r) \/ Agents!Cancel(r)
               \/ \E k : Agents!Call(r, k)
        PROVE  Agents!Node!Next \/ UNCHANGED Agents!nodeVars
    BY <2>2, ExchangeMaps
  <2> QED
    BY <2>1, <2>2
       DEF Next, Step, Auth, Classify, ClassifyFails, Choose, WakeIntent, TakeEdge, EdgeRaises,
           Exchange, Breaks, Cancel, vars
<1> QED
  BY <1>1, <1>2, PTL DEF Spec, ImplementsNode, Agents!ImplementsNode, Agents!Node!Spec

----------------------------------------------------------------------------

Events == [type : {"delta", "error"}, piece : Nat, info : {"none", "DOWNSTREAM_ERROR"}]

\* Failures that must be told.
Bad == {"refused", "timeout", "broken"}

NoError(events) == \A i \in DOMAIN events : events[i].type # "error"
ErrorLast(events) == \A i \in DOMAIN events : events[i].type = "error" => i = Len(events)
HasError(events) == \E i \in DOMAIN events : events[i].type = "error"

\* One more delta, or the error event, at the end of a stream without error.
LEMMA EventsGrow ==
    ASSUME NEW events \in Seq(Events), NoError(events), NEW e \in Events
    PROVE  /\ events \o <<e>> \in Seq(Events)
           /\ ErrorLast(events \o <<e>>)
           /\ e.type # "error" => NoError(events \o <<e>>)
           /\ e.type = "error" => HasError(events \o <<e>>)
<1> DEFINE more == events \o <<e>>
<1>1. /\ more \in Seq(Events) /\ Len(more) = Len(events) + 1
      /\ DOMAIN more = 1 .. Len(events) + 1 /\ Len(events) \in Nat
      /\ \A i \in 1 .. Len(events) : more[i] = events[i]
      /\ more[Len(events) + 1] = e
  OBVIOUS
<1>2. \A i \in 1 .. Len(events) : events[i].type # "error"
  BY DEF NoError
<1> HIDE DEF more
<1> QED
  BY <1>1, <1>2 DEF NoError, ErrorLast, HasError, more

AgentDomains ==
    /\ phase \in [Requests -> Agents!Node!Phases]
    /\ attempt \in [Requests -> Nat] /\ pos \in [Requests -> Nat]
    /\ stream \in [Requests -> Seq(Events)]
    /\ DOMAIN ending = Requests /\ DOMAIN trouble = Requests

\* What is known of the agent of request r.
Told(r) ==
    /\ phase[r] = "idle" => attempt[r] = 0
    /\ phase[r] = "backoff" => "unreadable" \in trouble[r]
    /\ phase[r] \in {"idle", "streaming", "backoff"} => NoError(stream[r])
    /\ phase[r] = "streaming" => trouble[r] \cap Bad = {}
    /\ phase[r] = "returned" =>
        \/ ending[r] = "cancelled"
        \/ ending[r] = "finished" /\ trouble[r] \cap Bad = {}
        \/ ending[r] = "error" /\ HasError(stream[r])
    /\ ErrorLast(stream[r])

AgentInv == AgentDomains /\ \A r \in Requests : Told(r)

\* A step of r concerns r alone.
OnlyAgent(r) ==
    /\ AgentDomains'
    /\ \A q \in Requests \ {r} :
        /\ phase'[q] = phase[q] /\ attempt'[q] = attempt[q] /\ stream'[q] = stream[q]
        /\ ending'[q] = ending[q] /\ trouble'[q] = trouble[q]

\* So it has to keep what is known of r's agent.
LEMMA OtherAgentsStay ==
    ASSUME AgentInv, NEW r \in Requests, OnlyAgent(r), Told(r)'
    PROVE  AgentInv'
<1> SUFFICES ASSUME NEW q \in Requests \ {r} PROVE Told(q)'
  BY DEF AgentInv, OnlyAgent
<1> QED
  BY DEF AgentInv, OnlyAgent, Told

\* What an attempt may note besides.
Noted(r) ==
    \/ UNCHANGED trouble
    \/ \E t \in Agents!Troubles : Agents!Note(r, t)

\* An error event ends the node.
LEMMA GiveUpKeeps ==
    ASSUME AgentInv, NEW r \in Requests, phase[r] = "streaming",
           Agents!Node!GiveUp(r), Noted(r)
    PROVE  AgentInv'
<1> DEFINE e == Agents!Node!Ev("error", "DOWNSTREAM_ERROR")
<1>1. /\ phase' = [phase EXCEPT ![r] = "returned"] /\ ending' = [ending EXCEPT ![r] = "error"]
      /\ stream' = [stream EXCEPT ![r] = @ \o <<e>>] /\ UNCHANGED <<attempt, pos>>
  BY DEF Agents!Node!GiveUp, Agents!Node!Return, Agents!Node!Emit
<1>2. e \in Events /\ e.type = "error"
  BY DEF Agents!Node!Ev, Events
<1> HIDE DEF e
<1>3. /\ stream[r] \o <<e>> \in Seq(Events)
      /\ ErrorLast(stream[r] \o <<e>>) /\ HasError(stream[r] \o <<e>>)
  BY <1>2, EventsGrow DEF AgentInv, AgentDomains, Told
<1>4. DOMAIN trouble' = Requests /\ \A q \in Requests \ {r} : trouble'[q] = trouble[q]
  BY DEF AgentInv, AgentDomains, Noted, Agents!Note
<1>5. OnlyAgent(r)
  BY <1>1, <1>3, <1>4 DEF AgentInv, AgentDomains, OnlyAgent, Agents!Node!Phases
<1>6. Told(r)'
  BY <1>1, <1>3 DEF AgentInv, AgentDomains, Told
<1> QED
  BY <1>5, <1>6, OtherAgentsStay

\* An exception ends the attempt, or the node.
LEMMA RaiseKeeps ==
    ASSUME AgentInv, NEW r \in Requests, Agents!Node!Raise(r), Agents!Note(r, "unreadable")
    PROVE  AgentInv'
<1>1. CASE Agents!Node!Retry(r)
  <2>1. /\ phase' = [phase EXCEPT ![r] = "backoff"] /\ "unreadable" \in trouble'[r]
        /\ UNCHANGED <<attempt, pos, ending, stream>>
        /\ DOMAIN trouble' = Requests /\ \A q \in Requests \ {r} : trouble'[q] = trouble[q]
    BY <1>1 DEF AgentInv, AgentDomains, Agents!Node!Retry, Agents!Note
  <2>2. phase[r] = "streaming"
    BY DEF Agents!Node!Raise
  <2>3. OnlyAgent(r)
    BY <2>1 DEF AgentInv, AgentDomains, OnlyAgent, Agents!Node!Phases
  <2>4. Told(r)'
    BY <2>1, <2>2 DEF AgentInv, AgentDomains, Told
  <2> QED
    BY <2>3, <2>4, OtherAgentsStay
<1>2. CASE Agents!Node!GiveUp(r)
  BY <1>2, GiveUpKeeps DEF Agents!Node!Raise, Noted, Agents!Troubles
<1> QED
  BY <1>1, <1>2 DEF Agents!Node!Raise

\* A delta.
LEMMA DeltaKeeps ==
    ASSUME AgentInv, NEW r \in Requests, Agents!Delta(r)
    PROVE  AgentInv'
<1> DEFINE e == Agents!Node!Delta(pos[r] + 1)
<1>1. /\ phase[r] = "streaming" /\ pos' = [pos EXCEPT ![r] = @ + 1]
      /\ stream' = [stream EXCEPT ![r] = @ \o <<e>>]
      /\ UNCHANGED <<phase, attempt, ending, trouble>>
  BY DEF Agents!Delta, Agents!Node!Receive, Agents!Node!Emit
<1>2. e \in Events /\ e.type # "error"
  BY DEF AgentInv, AgentDomains, Agents!Node!Delta, Events
<1> HIDE DEF e
<1>3. /\ stream[r] \o <<e>> \in Seq(Events)
      /\ ErrorLast(stream[r] \o <<e>>) /\ NoError(stream[r] \o <<e>>)
  BY <1>1, <1>2, EventsGrow DEF AgentInv, AgentDomains, Told
<1>4. OnlyAgent(r)
  BY <1>1, <1>3 DEF AgentInv, AgentDomains, OnlyAgent
<1>5. Told(r)'
  BY <1>1, <1>3 DEF AgentInv, AgentDomains, Told
<1> QED
  BY <1>4, <1>5, OtherAgentsStay

\* The stream ends.
LEMMA EndKeeps ==
    ASSUME AgentInv, NEW r \in Requests, Agents!StreamEnds(r)
    PROVE  AgentInv'
<1>1. /\ phase[r] = "streaming" /\ phase' = [phase EXCEPT ![r] = "returned"]
      /\ ending' = [ending EXCEPT ![r] = "finished"]
      /\ UNCHANGED <<attempt, pos, stream, trouble>>
  BY DEF Agents!StreamEnds, Agents!Node!Finish, Agents!Node!Return
<1>2. OnlyAgent(r)
  BY <1>1 DEF AgentInv, AgentDomains, OnlyAgent, Agents!Node!Phases
<1>3. Told(r)'
  BY <1>1 DEF AgentInv, AgentDomains, Told
<1> QED
  BY <1>2, <1>3, OtherAgentsStay

\* An attempt begins.
LEMMA CallKeeps ==
    ASSUME AgentInv, NEW r \in Requests, Agents!CallAgain(r) \/ \E k : Agents!Call(r, k)
    PROVE  AgentInv'
<1>1. /\ phase[r] \in {"idle", "backoff"}
      /\ phase' = [phase EXCEPT ![r] = "streaming"]
      /\ trouble' = [trouble EXCEPT ![r] = {}] /\ UNCHANGED <<ending, stream>>
  BY DEF Agents!CallAgain, Agents!Call, Agents!Node!Wake, Agents!Node!Begin, Agents!Connecting
<1>2. /\ attempt' \in [Requests -> Nat] /\ pos' \in [Requests -> Nat]
      /\ \A q \in Requests \ {r} : attempt'[q] = attempt[q]
  <2>1. CASE Agents!CallAgain(r)
    <3>1. attempt' = [attempt EXCEPT ![r] = @ + 1] /\ pos' = [pos EXCEPT ![r] = 0]
      BY <2>1 DEF Agents!CallAgain, Agents!Node!Wake
    <3> QED
      BY <3>1 DEF AgentInv, AgentDomains
  <2>2. CASE \E k : Agents!Call(r, k)
    <3>1. attempt' = [attempt EXCEPT ![r] = 1] /\ UNCHANGED pos
      BY <2>2 DEF Agents!Call, Agents!Node!Begin
    <3> QED
      BY <3>1 DEF AgentInv, AgentDomains
  <2> QED
    BY <2>1, <2>2
<1>3. OnlyAgent(r)
  BY <1>1, <1>2 DEF AgentInv, AgentDomains, OnlyAgent, Agents!Node!Phases
<1>4. Told(r)'
  BY <1>1 DEF AgentInv, AgentDomains, Told
<1> QED
  BY <1>3, <1>4, OtherAgentsStay

\* The wire alone, and what is noted of it that is no failure to be told.
LEMMA WireKeeps ==
    ASSUME AgentInv, NEW r \in Requests, UNCHANGED Agents!nodeVars,
           UNCHANGED trouble \/ Agents!Note(r, "status") \/ Agents!Note(r, "unreadable")
    PROVE  AgentInv'
<1>1. UNCHANGED <<phase, attempt, pos, ending, stream>>
  BY DEF Agents!nodeVars
<1>2. /\ DOMAIN trouble' = Requests /\ \A q \in Requests \ {r} : trouble'[q] = trouble[q]
      /\ trouble[r] \subseteq trouble'[r] /\ trouble'[r] \cap Bad = trouble[r] \cap Bad
  BY DEF AgentInv, AgentDomains, Agents!Note, Bad
<1>3. OnlyAgent(r)
  BY <1>1, <1>2 DEF AgentInv, AgentDomains, OnlyAgent
<1>4. Told(r)'
  BY <1>1, <1>2 DEF AgentInv, AgentDomains, Told
<1> QED
  BY <1>3, <1>4, OtherAgentsStay

\* The task is cancelled during an attempt or between two.
LEMMA CancelKeeps ==
    ASSUME AgentInv, NEW r \in Requests, Agents!Cancel(r)
    PROVE  AgentInv'
<1>1. /\ UNCHANGED <<attempt, stream, trouble>>
      /\ \/ /\ phase' = [phase EXCEPT ![r] = "returned"]
            /\ ending' = [ending EXCEPT ![r] = "cancelled"]
         \/ phase' = [phase EXCEPT ![r] = "killed"] /\ UNCHANGED ending
      /\ pos' = pos \/ pos' = [pos EXCEPT ![r] = @ + 1]
  BY DEF Agents!Cancel, Agents!Node!CancelStreaming, Agents!Node!CancelUncaught
<1>2. OnlyAgent(r)
  <2>1. pos' \in [Requests -> Nat]
    BY <1>1 DEF AgentInv, AgentDomains
  <2>2. /\ phase' \in [Requests -> Agents!Node!Phases] /\ DOMAIN ending' = Requests
        /\ \A q \in Requests \ {r} : phase'[q] = phase[q] /\ ending'[q] = ending[q]
    BY <1>1 DEF AgentInv, AgentDomains, Agents!Node!Phases
  <2> QED
    BY <1>1, <2>1, <2>2 DEF AgentInv, AgentDomains, OnlyAgent
<1>3. Told(r)'
  BY <1>1 DEF AgentInv, AgentDomains, Told
<1> QED
  BY <1>2, <1>3, OtherAgentsStay

\* Every step of Routing keeps the invariant.
LEMMA NextKeepsAgents == AgentInv /\ [Next]_vars => AgentInv'
<1> SUFFICES ASSUME AgentInv, [Next]_vars PROVE AgentInv'
  OBVIOUS
<1>1. CASE UNCHANGED agentVars
  BY <1>1 DEF agentVars, AgentInv, AgentDomains, Told
<1>2. ASSUME NEW r \in Requests, Agents!Tell(r), phase[r] = "streaming", Noted(r)
      PROVE  AgentInv'
  BY <1>2, GiveUpKeeps DEF Agents!Tell, Agents!Node!ErrorEvent
<1>3. ASSUME NEW r \in Requests, Agents!Exchange(r) PROVE AgentInv'
  <2> USE DEF Noted, Agents!Troubles
  <2>1. CASE Agents!CallAgain(r)
    BY <2>1, CallKeeps
  <2>2. CASE Agents!Connects(r) \/ Agents!FallsSilent(r) \/ Agents!Trickles(r)
    BY <2>2, WireKeeps DEF Agents!Connects, Agents!FallsSilent, Agents!Trickles
  <2>3. CASE Agents!Tell(r) /\ Noted(r)
    BY <1>2, <2>3 DEF Agents!Tell, Agents!Node!ErrorEvent
  <2>4. CASE Agents!ConnectFails(r) \/ Agents!ErrorFrame(r) \/ Agents!ReadTimesOut(r)
    BY <2>3, <2>4 DEF Agents!ConnectFails, Agents!ErrorFrame, Agents!ReadTimesOut
  <2>5. CASE Agents!ErrorStatus(r)
    BY <2>3, <2>5, WireKeeps DEF Agents!ErrorStatus
  <2>6. CASE Agents!Delta(r)
    BY <2>6, DeltaKeeps
  <2>7. CASE Agents!StreamEnds(r)
    BY <2>7, EndKeeps
  <2>8. CASE Agents!NotJson(r) \/ Agents!NoContent(r)
    BY <2>8, RaiseKeeps, WireKeeps DEF Agents!NotJson, Agents!NoContent
  <2>9. CASE Agents!NotAnObject(r)
    BY <2>3, <2>9, RaiseKeeps DEF Agents!NotAnObject
  <2> QED
    BY <1>3, <2>1, <2>2, <2>4, <2>5, <2>6, <2>7, <2>8, <2>9 DEF Agents!Exchange
<1>4. ASSUME NEW r \in Requests, Agents!Breaks(r) PROVE AgentInv'
  <2>1. Agents!Tell(r) /\ phase[r] = "streaming" /\ Noted(r)
    BY <1>4 DEF Agents!Breaks, Agents!Tell, Agents!Node!ErrorEvent, Noted, Agents!Troubles
  <2> QED
    BY <1>2, <2>1
<1> QED
  BY <1>1, <1>3, <1>4, CallKeeps, CancelKeeps
     DEF Next, Step, Auth, Classify, ClassifyFails, Choose, WakeIntent, TakeEdge, EdgeRaises,
         Exchange, Breaks, Cancel, vars

\* At first no agent was asked.
LEMMA InitAgents == Init => AgentInv
<1> SUFFICES ASSUME Init PROVE AgentInv
  OBVIOUS
<1>1. \A r \in Requests : stream[r] = <<>> /\ phase[r] = "idle" /\ attempt[r] = 0
  BY DEF Init, Agents!Init, Agents!Node!Init
<1>2. AgentDomains
  BY DEF Init, Agents!Init, Agents!Node!Init, AgentDomains, Agents!Node!Phases
<1> QED
  BY <1>1, <1>2 DEF AgentInv, Told, NoError, ErrorLast

\* At most one error is told, as the last event, and none before a retry; a node that
\* returns uncancelled after a refusal, a timeout or a lost connection has told one.
\* (An error page of Uniioc and a close before the end of an answer are told by none.)
THEOREM FailuresAreToldOnce == Spec => []FailureToldOnce
<1>1. AgentInv => FailureToldOnce
  <2> SUFFICES ASSUME AgentInv, NEW r \in Requests
               PROVE  /\ Agents!Errors(r) \subseteq {Len(stream[r])}
                      /\ phase[r] \in {"streaming", "backoff"} => Agents!Errors(r) = {}
                      /\ phase[r] = "returned" /\ ending[r] # "cancelled"
                            /\ trouble[r] \cap {"refused", "timeout", "broken"} # {}
                         => Agents!Errors(r) # {}
    BY DEF FailureToldOnce, Agents!FailureToldOnce
  <2>1. Told(r)
    BY DEF AgentInv
  <2> QED
    BY <2>1 DEF Told, Agents!Errors, NoError, ErrorLast, HasError, Bad
<1> QED
  BY <1>1, InitAgents, NextKeepsAgents, PTL DEF Spec

\* An agent that has told a failure is not asked again, however many attempts are
\* allowed: only what cannot be read is repeated.
THEOREM OnlyUnreadableIsAskedAgain == Spec => OnlyUnreadableIsRepeated
<1>1. AgentInv /\ [Next]_vars =>
        [\A r \in Requests : attempt'[r] > attempt[r] /\ attempt[r] > 0
                                => "unreadable" \in trouble[r]]_(Agents!vars)
  <2> SUFFICES ASSUME AgentInv, [Next]_vars, NEW r \in Requests,
                      attempt'[r] > attempt[r], attempt[r] > 0
               PROVE  "unreadable" \in trouble[r]
    OBVIOUS
  <2>1. PICK q \in Requests : attempt' = attempt \/ Agents!CallAgain(q) \/ \E k : Agents!Call(q, k)
    BY DEF Next, Step, Auth, Classify, ClassifyFails, Choose, WakeIntent, TakeEdge, EdgeRaises,
           Exchange, Breaks, Cancel, vars, agentVars,
           Agents!Exchange, Agents!Connects, Agents!ConnectFails, Agents!ErrorStatus,
           Agents!Delta, Agents!ErrorFrame, Agents!StreamEnds, Agents!NotJson,
           Agents!NotAnObject, Agents!NoContent, Agents!FallsSilent, Agents!Trickles, Agents!ReadTimesOut,
           Agents!Breaks, Agents!Cancel, Agents!Tell, Agents!nodeVars,
           Agents!Node!ErrorEvent, Agents!Node!GiveUp, Agents!Node!Retry, Agents!Node!Return,
           Agents!Node!Raise, Agents!Node!Receive, Agents!Node!Finish,
           Agents!Node!CancelStreaming, Agents!Node!CancelUncaught
  <2>2. attempt[r] \in Nat /\ (attempt' = attempt => FALSE)
    BY DEF AgentInv, AgentDomains
  <2>3. q = r
    BY <2>1, <2>2 DEF AgentInv, AgentDomains, Agents!CallAgain, Agents!Call, Agents!Node!Wake,
                      Agents!Node!Begin
  <2>4. CASE Agents!CallAgain(r)
    BY <2>4 DEF Agents!CallAgain, Agents!Node!Wake, AgentInv, Told
  <2>5. CASE \E k : Agents!Call(r, k)
    BY <2>2, <2>5 DEF Agents!Call, Agents!Node!Begin, AgentInv, Told
  <2> QED
    BY <2>1, <2>2, <2>3, <2>4, <2>5
<1> QED
  BY <1>1, InitAgents, NextKeepsAgents, PTL
     DEF Spec, OnlyUnreadableIsRepeated, Agents!OnlyUnreadableIsRepeated

----------------------------------------------------------------------------
(* Types.                                                                  *)

TypeDomains ==
    /\ at \in [Requests -> Places]
    /\ DOMAIN tries = Requests /\ DOMAIN heard = Requests
    /\ phase \in [Requests -> Agents!Node!Phases]
    /\ kind \in [Requests -> Agents!Kinds \cup {"none"}]
    /\ wire \in [Requests -> Agents!Wires]
    /\ trouble \in [Requests -> SUBSET Agents!Troubles]

\* What the type invariant says of request r, and what keeps the attempts at the
\* classifier within the topic's: whoever is still to be classified has one
\* left.
Typed(r) ==
    /\ tries[r] \in 0 .. topic[r].tries
    /\ at[r] \in {"auth", "intent", "sleep"} => tries[r] < topic[r].tries
    /\ heard[r] \in MappingKeys(topic[r]) \cup {"none", "unreadable", Unknown}
    /\ phase[r] = "idle" <=> at[r] # "adapter"
    /\ wire[r] # "none" <=> phase[r] = "streaming"

TypeInv == TypeDomains /\ \A r \in Requests : Typed(r)

\* A step of r leaves what the types say of the others.
OnlyTyped(r) ==
    /\ UNCHANGED topic
    /\ TypeDomains'
    /\ \A q \in Requests \ {r} :
        /\ at'[q] = at[q] /\ tries'[q] = tries[q] /\ heard'[q] = heard[q]
        /\ phase'[q] = phase[q] /\ wire'[q] = wire[q]

\* So it has to keep those of r.
LEMMA OtherTypesStay ==
    ASSUME TypeInv, NEW r \in Requests, OnlyTyped(r), Typed(r)'
    PROVE  TypeInv'
<1> SUFFICES ASSUME NEW q \in Requests \ {r} PROVE Typed(q)'
  BY DEF TypeInv, OnlyTyped
<1> QED
  BY DEF TypeInv, OnlyTyped, Typed

\* An accepted topic allows at least one attempt.
LEMMA SomeTries ==
    ASSUME WayInv, NEW r \in Requests
    PROVE  topic[r].tries \in Nat /\ topic[r].tries >= 1
BY DEF WayInv, OnItsWay, Accepted, Valid

\* The adapter an accepted topic routes to is one of the repository's.
LEMMA AdaptersAreKnown ==
    ASSUME NEW c \in Configs, Accepted(c, Env), NEW label \in Labels(c)
    PROVE  AdapterFor(c, label) \in Agents!Kinds
<1>1. Mapping(c)[label] \in NodeIds(c)
  BY DEF Accepted, Valid, Labels, Mapping, Range
<1>2. PICK n \in DOMAIN c.nodes : AdapterFor(c, label) = c.nodes[n].plugin
  BY <1>1, LastNodeCounts DEF AdapterFor
<1>3. <<"adapter", c.nodes[n].plugin>> \in Plugins
  BY DEF Accepted, Compiles, Creates
<1> QED
  BY <1>2, <1>3 DEF Plugins, Agents!Kinds

\* The connection is in use during an attempt, and an attempt is made only once
\* the request got to its adapter.
LEMMA AgentKeepsTypes ==
    ASSUME TypeInv, NEW r \in Requests, UNCHANGED routeVars,
           Agents!Exchange(r) \/ Agents!Breaks(r) \/ Agents!Cancel(r)
    PROVE  TypeInv'
<1> DEFINE Becomes(p, w) ==
        /\ phase' = [phase EXCEPT ![r] = p]
        /\ wire' = [wire EXCEPT ![r] = w]
<1> USE DEF Agents!Wire, Agents!Tell, Agents!Node!ErrorEvent, Agents!Node!GiveUp,
            Agents!Node!Return, Agents!nodeVars
<1>1. phase[r] # "idle"
  <2>1. CASE phase[r] = "streaming" \/ phase[r] = "backoff"
    BY <2>1
  <2>2. CASE wire[r] # "none"
    BY <2>2 DEF TypeInv, Typed
  <2> QED
    BY <2>1, <2>2
       DEF Agents!Exchange, Agents!Breaks, Agents!Cancel, Agents!CallAgain, Agents!Connects,
           Agents!ConnectFails, Agents!ErrorStatus, Agents!Delta, Agents!ErrorFrame,
           Agents!StreamEnds, Agents!NotJson, Agents!NotAnObject, Agents!NoContent,
           Agents!FallsSilent, Agents!Trickles, Agents!ReadTimesOut, Agents!Node!Wake,
           Agents!Node!CancelStreaming, Agents!Node!CancelUncaught
<1>2. trouble' \in [Requests -> SUBSET Agents!Troubles]
  <2>1. CASE UNCHANGED trouble \/ trouble' = [trouble EXCEPT ![r] = {}]
    BY <2>1 DEF TypeInv, TypeDomains
  <2>2. CASE \E t \in Agents!Troubles : Agents!Note(r, t)
    BY <2>2 DEF TypeInv, TypeDomains, Agents!Note
  <2> QED
    BY <2>1, <2>2
       DEF Agents!Exchange, Agents!Breaks, Agents!Cancel, Agents!CallAgain, Agents!Connects,
           Agents!ConnectFails, Agents!ErrorStatus, Agents!Delta, Agents!ErrorFrame,
           Agents!StreamEnds, Agents!NotJson, Agents!NotAnObject, Agents!NoContent,
           Agents!FallsSilent, Agents!Trickles, Agents!ReadTimesOut, Agents!Connecting, Agents!Troubles
<1>3. UNCHANGED kind
  BY AgentKeepsKind
<1>4. ASSUME NEW p \in Agents!Node!Phases \ {"idle"}, NEW w \in Agents!Wires, Becomes(p, w),
             w # "none" <=> p = "streaming"
      PROVE  TypeInv'
  <2>1. OnlyTyped(r)
    BY <1>2, <1>3, <1>4 DEF TypeInv, TypeDomains, OnlyTyped, routeVars
  <2>2. Typed(r)'
    BY <1>1, <1>4 DEF TypeInv, TypeDomains, Typed, routeVars
  <2> QED
    BY <2>1, <2>2, OtherTypesStay
<1>5. ASSUME UNCHANGED phase, phase[r] = "streaming",
             NEW w \in Agents!Wires \ {"none"}, wire' = [wire EXCEPT ![r] = w]
      PROVE  TypeInv'
  <2>1. OnlyTyped(r)
    BY <1>2, <1>3, <1>5 DEF TypeInv, TypeDomains, OnlyTyped, routeVars
  <2>2. Typed(r)'
    BY <1>5 DEF TypeInv, TypeDomains, Typed, routeVars
  <2> QED
    BY <2>1, <2>2, OtherTypesStay
<1>6. CASE UNCHANGED <<phase, wire>>
  BY <1>2, <1>3, <1>6 DEF TypeInv, TypeDomains, Typed, routeVars
<1>7. wire[r] # "none" => phase[r] = "streaming"
  BY DEF TypeInv, Typed
<1>8. CASE Agents!CallAgain(r)
  BY <1>8, <1>4 DEF Agents!CallAgain, Agents!Connecting, Agents!Node!Wake, Agents!Node!Phases,
                    Agents!Wires
<1>9. CASE Agents!Connects(r) \/ Agents!FallsSilent(r) \/ Agents!Trickles(r)
  BY <1>9, <1>5, <1>7 DEF Agents!Connects, Agents!FallsSilent, Agents!Trickles, Agents!Wires
<1>10. CASE Agents!Tell(r) /\ Agents!Wire(r, "none")
  BY <1>10, <1>4 DEF Agents!Node!Phases, Agents!Wires
<1>11. CASE Agents!ErrorStatus(r)
  BY <1>11, <1>10, <1>5, <1>7 DEF Agents!ErrorStatus, Agents!Wires
<1>12. CASE Agents!Delta(r)
  BY <1>12, <1>6 DEF Agents!Delta, Agents!Node!Receive
<1>13. CASE Agents!StreamEnds(r)
  BY <1>13, <1>4 DEF Agents!StreamEnds, Agents!Node!Finish, Agents!Node!Phases, Agents!Wires
<1>14. CASE Agents!Node!Raise(r) /\ Agents!Wire(r, "none")
  BY <1>14, <1>4 DEF Agents!Node!Raise, Agents!Node!Retry, Agents!Node!Phases, Agents!Wires
<1>15. CASE Agents!NotJson(r)
  BY <1>15, <1>14, <1>6 DEF Agents!NotJson
<1>16. CASE Agents!Cancel(r)
  BY <1>16, <1>4 DEF Agents!Cancel, Agents!Node!CancelStreaming, Agents!Node!CancelUncaught,
                     Agents!Node!Phases, Agents!Wires
<1> QED
  BY <1>8, <1>9, <1>10, <1>11, <1>12, <1>13, <1>14, <1>15, <1>16
     DEF Agents!Exchange, Agents!Breaks, Agents!ConnectFails, Agents!ErrorFrame,
         Agents!NotAnObject, Agents!NoContent, Agents!ReadTimesOut

\* The attempts at the classifier.
LEMMA IntentKeepsTypes ==
    ASSUME WayInv, TypeInv, NEW r \in Requests,
           \/ \E label \in MappingKeys(topic[r]) \cup {Unknown} : Classify(r, label)
           \/ ClassifyFails(r)
    PROVE  TypeInv'
<1> USE DEF Go
<1>1. /\ at[r] = "intent" /\ UNCHANGED <<topic, agentVars>>
      /\ tries' = [tries EXCEPT ![r] = @ + 1]
      /\ \E answer \in MappingKeys(topic[r]) \cup {"unreadable", Unknown} :
            heard' = [heard EXCEPT ![r] = answer]
      /\ \/ at' = [at EXCEPT ![r] = "edge"]
         \/ at' = [at EXCEPT ![r] = "sleep"] /\ tries'[r] < topic[r].tries
  BY DEF Classify, ClassifyFails, Hear, Choose
<1>2. OnlyTyped(r)
  BY <1>1 DEF TypeInv, TypeDomains, OnlyTyped, Places, agentVars
<1>3. tries'[r] \in 0 .. topic[r].tries
  BY <1>1, SomeTries DEF TypeInv, TypeDomains, Typed
<1>4. Typed(r)'
  BY <1>1, <1>3 DEF TypeInv, TypeDomains, Typed, agentVars
<1> QED
  BY <1>2, <1>4, OtherTypesStay

\* A request that goes on, or ends, before the adapter.
LEMMA MoveKeepsTypes ==
    ASSUME TypeInv, NEW r \in Requests, NEW to \in Places \ {"adapter"}, Go(r, to),
           UNCHANGED <<topic, tries, heard, agentVars>>, at[r] # "adapter",
           to \in {"auth", "intent", "sleep"} => at[r] \in {"auth", "intent", "sleep"}
    PROVE  TypeInv'
<1>1. OnlyTyped(r)
  BY DEF TypeInv, TypeDomains, OnlyTyped, Go, agentVars
<1>2. Typed(r)'
  BY DEF TypeInv, TypeDomains, Typed, Go, agentVars
<1> QED
  BY <1>1, <1>2, OtherTypesStay

\* The first call of the adapter.
LEMMA EdgeKeepsTypes ==
    ASSUME WayInv, TypeInv, NEW r \in Requests, TakeEdge(r)
    PROVE  TypeInv'
<1> DEFINE k == AdapterFor(topic[r], route[r])
<1>1. k \in Agents!Kinds
  BY AdaptersAreKnown DEF WayInv, Domains, OnItsWay, TakeEdge, Routable, Labels
<1> HIDE DEF k
<1>2. /\ at' = [at EXCEPT ![r] = "adapter"] /\ at[r] = "edge"
      /\ phase' = [phase EXCEPT ![r] = "streaming"]
      /\ kind' = [kind EXCEPT ![r] = k] /\ wire' = [wire EXCEPT ![r] = "connecting"]
      /\ trouble' = [trouble EXCEPT ![r] = {}] /\ UNCHANGED <<topic, tries, heard>>
  BY DEF TakeEdge, Go, Agents!Call, Agents!Connecting, Agents!Wire, Agents!Node!Begin, k
<1>3. OnlyTyped(r)
  BY <1>1, <1>2 DEF TypeInv, TypeDomains, OnlyTyped, Places, Agents!Wires, Agents!Node!Phases
<1>4. Typed(r)'
  BY <1>2 DEF TypeInv, TypeDomains, Typed
<1> QED
  BY <1>3, <1>4, OtherTypesStay

\* Every step keeps the types.
LEMMA NextKeepsTypes == WayInv /\ TypeInv /\ [Next]_vars => TypeInv'
<1> SUFFICES ASSUME WayInv, TypeInv, [Next]_vars PROVE TypeInv'
  OBVIOUS
<1>1. ASSUME NEW r \in Requests, Step(r) \/ Breaks(r) \/ Cancel(r)
      PROVE  TypeInv'
  <2>1. CASE Auth(r)
    BY <2>1, MoveKeepsTypes DEF Auth, Places
  <2>2. CASE \/ \E label \in MappingKeys(topic[r]) \cup {Unknown} : Classify(r, label)
             \/ ClassifyFails(r)
    BY <2>2, IntentKeepsTypes
  <2>3. CASE WakeIntent(r)
    BY <2>3, MoveKeepsTypes DEF WakeIntent, Places
  <2>4. CASE TakeEdge(r)
    BY <2>4, EdgeKeepsTypes
  <2>5. CASE EdgeRaises(r)
    BY <2>5, MoveKeepsTypes DEF EdgeRaises, Places
  <2>6. CASE /\ UNCHANGED routeVars
             /\ Agents!Exchange(r) \/ Agents!Breaks(r) \/ Agents!Cancel(r)
    BY <2>6, AgentKeepsTypes
  <2>7. CASE /\ at[r] \in {"auth", "intent", "sleep", "edge"} /\ Go(r, "cancelled")
             /\ UNCHANGED <<topic, who, tries, heard, route, agentVars>>
    BY <2>7, MoveKeepsTypes DEF Places
  <2> QED
    BY <1>1, <2>1, <2>2, <2>3, <2>4, <2>5, <2>6, <2>7
       DEF Step, Exchange, Breaks, Cancel
<1>2. CASE UNCHANGED vars
  BY <1>2 DEF vars, routeVars, agentVars, TypeInv, TypeDomains, Typed
<1> QED
  BY <1>1, <1>2 DEF Next

\* At first nothing was tried and no agent is connected.
LEMMA InitTypes == Init => TypeInv
<1> SUFFICES ASSUME Init PROVE TypeInv
  OBVIOUS
<1>1. TypeDomains
  BY DEF Init, Agents!Init, Agents!Node!Init, TypeDomains, Places, Agents!Node!Phases,
         Agents!Wires
<1>2. ASSUME NEW r \in Requests PROVE Typed(r)
  BY InitWay, SomeTries DEF Init, Agents!Init, Agents!Node!Init, Typed
<1> QED
  BY <1>1, <1>2 DEF TypeInv

\* The classifier is never called more often than the topic says, an agent is
\* one the repository has an adapter for, and it is connected during an
\* attempt and at no other time.
THEOREM TypeCorrect == Spec => []TypeOK
<1>1. TypeInv => TypeOK
  BY DEF TypeInv, TypeDomains, Typed, TypeOK, Places, Agents!TypeOK
<1> QED
  BY <1>1, InitWay, InitTypes, NextKeepsWay, NextKeepsTypes, PTL DEF Spec

----------------------------------------------------------------------------
(* Attempts.                                                               *)

\* An attempt that is to be repeated was not the last, and none delivers more
\* than the answer has.
Bounded(r) ==
    /\ attempt[r] <= MaxAttempts
    /\ phase[r] = "backoff" => attempt[r] < MaxAttempts
    /\ pos[r] <= AnswerLen

BoundInv == \A r \in Requests : Bounded(r)

\* An adapter that is called, once more or for the first time.
LEMMA CallKeepsBounds ==
    ASSUME AgentInv, BoundInv, NEW r \in Requests, Agents!CallAgain(r) \/ \E k : Agents!Call(r, k)
    PROVE  BoundInv'
<1> SUFFICES ASSUME NEW q \in Requests PROVE Bounded(q)'
  BY DEF BoundInv
<1>1. CASE Agents!CallAgain(r)
  BY <1>1, MaxAttemptsPositive, AnswerLenNat
     DEF AgentInv, AgentDomains, BoundInv, Bounded, Agents!CallAgain, Agents!Node!Wake
<1>2. CASE \E k : Agents!Call(r, k)
  BY <1>2, MaxAttemptsPositive
     DEF AgentInv, AgentDomains, BoundInv, Bounded, Agents!Call, Agents!Node!Begin
<1> QED
  BY <1>1, <1>2

\* A step of the node that begins no attempt.
LEMMA NodeKeepsBounds ==
    ASSUME AgentInv, BoundInv, NEW r \in Requests,
           \/ UNCHANGED Agents!nodeVars
           \/ Agents!Node!Receive(r) \/ Agents!Node!Finish(r) \/ Agents!Node!Raise(r)
           \/ Agents!Tell(r) \/ Agents!Node!CancelStreaming(r) \/ Agents!Node!CancelUncaught(r)
    PROVE  BoundInv'
<1> SUFFICES ASSUME NEW q \in Requests PROVE Bounded(q)'
  BY DEF BoundInv
<1>1. UNCHANGED attempt /\ attempt[q] \in Nat /\ pos[q] \in Nat /\ Bounded(q)
  BY DEF AgentInv, AgentDomains, BoundInv, Agents!nodeVars, Agents!Tell,
         Agents!Node!ErrorEvent, Agents!Node!Receive, Agents!Node!Finish, Agents!Node!Raise,
         Agents!Node!GiveUp, Agents!Node!Return, Agents!Node!Retry,
         Agents!Node!CancelStreaming, Agents!Node!CancelUncaught
<1>2. phase'[q] = "backoff" => attempt[q] < MaxAttempts
  BY <1>1 DEF AgentInv, AgentDomains, Bounded, Agents!nodeVars, Agents!Tell,
         Agents!Node!ErrorEvent, Agents!Node!Receive, Agents!Node!Finish, Agents!Node!Raise,
         Agents!Node!GiveUp, Agents!Node!Return, Agents!Node!Retry,
         Agents!Node!CancelStreaming, Agents!Node!CancelUncaught
<1>3. \/ UNCHANGED pos
      \/ pos[r] < AnswerLen /\ pos' = [pos EXCEPT ![r] = @ + 1]
  BY DEF Agents!nodeVars, Agents!Tell,
         Agents!Node!ErrorEvent, Agents!Node!Receive, Agents!Node!Finish, Agents!Node!Raise,
         Agents!Node!GiveUp, Agents!Node!Return, Agents!Node!Retry,
         Agents!Node!CancelStreaming, Agents!Node!CancelUncaught
<1>4. pos'[q] <= AnswerLen
  <2>1. pos[q] <= AnswerLen /\ DOMAIN pos = Requests
    BY <1>1 DEF Bounded, AgentInv, AgentDomains
  <2>2. CASE UNCHANGED pos
    BY <2>1, <2>2
  <2>3. CASE pos[r] < AnswerLen /\ pos' = [pos EXCEPT ![r] = @ + 1]
    <3>1. CASE q = r
      <4>1. pos'[q] = pos[q] + 1 /\ pos[q] < AnswerLen
        BY <2>1, <2>3, <3>1
      <4> QED
        BY <1>1, <4>1, AnswerLenNat
    <3>2. CASE q # r
      BY <2>1, <2>3, <3>2
    <3> QED
      BY <3>1, <3>2
  <2> QED
    BY <1>3, <2>2, <2>3
<1> QED
  BY <1>1, <1>2, <1>4 DEF Bounded

\* An agent is asked at most max_attempts times for one request, and the classifier
\* at most as often as the topic's retry says (at most five times): whatever
\* both do, and however often they fail, the work of a request is bounded.
AttemptsAreBounded ==
    \A r \in Requests :
        /\ attempt[r] <= MaxAttempts /\ pos[r] <= AnswerLen
        /\ tries[r] <= 5

\* The retries of the intent node and of the adapter node.
THEOREM RetriesAreBounded == Spec => []AttemptsAreBounded
<1>1. Init => BoundInv
  BY MaxAttemptsPositive, AnswerLenNat DEF Init, Agents!Init, Agents!Node!Init, BoundInv, Bounded
<1>2. AgentInv /\ BoundInv /\ [Next]_vars => BoundInv'
  <2> SUFFICES ASSUME AgentInv, BoundInv, [Next]_vars PROVE BoundInv'
    OBVIOUS
  <2>1. CASE UNCHANGED agentVars
    BY <2>1 DEF agentVars, BoundInv, Bounded
  <2>2. ASSUME NEW r \in Requests,
               Agents!Exchange(r) \/ Agents!Breaks(r) \/ Agents!Cancel(r)
        PROVE  BoundInv'
    BY <2>2, CallKeepsBounds, NodeKeepsBounds
       DEF Agents!Exchange, Agents!Breaks, Agents!Cancel, Agents!Connects,
           Agents!ConnectFails, Agents!ErrorStatus, Agents!Delta, Agents!ErrorFrame,
           Agents!StreamEnds, Agents!NotJson, Agents!NotAnObject, Agents!NoContent,
           Agents!FallsSilent, Agents!Trickles, Agents!ReadTimesOut
  <2> QED
    BY <2>1, <2>2, CallKeepsBounds
       DEF Next, Step, Auth, Classify, ClassifyFails, Choose, WakeIntent, TakeEdge, EdgeRaises,
           Exchange, Breaks, Cancel, vars
<1>3. WayInv /\ TypeInv /\ BoundInv => AttemptsAreBounded
  <2> SUFFICES ASSUME WayInv, TypeInv, BoundInv, NEW r \in Requests
               PROVE  attempt[r] <= MaxAttempts /\ pos[r] <= AnswerLen /\ tries[r] <= 5
    BY DEF AttemptsAreBounded
  <2>1. tries[r] \in 0 .. topic[r].tries /\ topic[r].tries \in 1 .. 5
    BY DEF TypeInv, Typed, WayInv, OnItsWay, Accepted, Valid
  <2> QED
    BY <2>1 DEF BoundInv, Bounded
<1> QED
  BY <1>1, <1>2, <1>3, InitWay, InitTypes, InitAgents, NextKeepsWay, NextKeepsTypes,
     NextKeepsAgents, PTL DEF Spec
=============================================================================
