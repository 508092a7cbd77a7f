------------------------------- MODULE Topic -------------------------------
(***************************************************************************)
(* A topic: what its YAML file says, when the file is accepted             *)
(* (TopicConfig), when it compiles (TopicCompiler, PluginRegistry), and    *)
(* what the graph of a request makes of it (ChatService._build_graph).     *)
(*                                                                         *)
(* A configuration is a record with the fields                             *)
(*   id, default              topic_id, default_route                      *)
(*   codes                    keys of error_messages                       *)
(*   turns, tries             history.max_turns, intent.retry.max_attempts *)
(*   auth, enrich, intent     references to plugins                        *)
(*   labels                   intent.params.labels; a file without labels  *)
(*                            has a set no mapping has                     *)
(*   nodes                    sequence of references with an id, by adapter*)
(*   edges                    sequence of mappings: route label -> node id *)
(*   schema                   biz_params_schema: its type, the types of its*)
(*                            properties                                   *)
(* A reference has the plugin's name, the environment variables its        *)
(* parameters mention, and whether configure accepts the parameters; that  *)
(* of a node also whether its id is plain, see BuildsGraph.                *)
(***************************************************************************)
EXTENDS Naturals, Sequences, Functions

RequiredErrorCodes ==
    {"FORBIDDEN_TOPIC", "FORBIDDEN_SCOPE", "DOWNSTREAM_TIMEOUT", "DOWNSTREAM_ERROR",
     "INTERNAL"}

MappingKeys(c) == UNION {DOMAIN c.edges[i] : i \in DOMAIN c.edges}
NodeIds(c)     == {c.nodes[i].id : i \in DOMAIN c.nodes}

\* TopicConfig.model_validate raises unless this holds.
Valid(c) ==
    /\ c.turns \in 1 .. 200 /\ c.tries \in 1 .. 5
    /\ RequiredErrorCodes \subseteq c.codes
    /\ 1 \in DOMAIN c.edges
    /\ \A i \in DOMAIN c.edges : Range(c.edges[i]) \subseteq NodeIds(c)
    /\ c.default \in MappingKeys(c) \cup {"default", "reject"}
    /\ c.labels = MappingKeys(c)

----------------------------------------------------------------------------

\* What load_all_plugins registers, by kind and name.
Plugins ==
    ({"auth"} \X {"representative_auth", "jingying_auth", "sales_contract_auth"})
        \cup {<<"enrich", "generic_enrich">>, <<"intent", "llm_classifier">>}
        \cup ({"adapter"} \X {"metagc", "uniioc", "knowledge_center"})

\* _resolve_env raises KeyError for a variable that is not set.
Resolves(ref, env) == ref.env \subseteq env

\* PluginRegistry.create raises PluginNotFound, or whatever configure raises.
Creates(kind, ref, env) ==
    /\ Resolves(ref, env)
    /\ <<kind, ref.plugin>> \in Plugins
    /\ ref.accepted

\* _compile_biz_params_schema.
SchemaCompiles(s) == s.type = "object" /\ s.types \subseteq {"string"}

\* TopicCompiler.compile raises unless this holds.
Compiles(c, env) ==
    /\ Creates("auth", c.auth, env)
    /\ Creates("enrich", c.enrich, env)
    /\ Creates("intent", c.intent, env)
    /\ \A i \in DOMAIN c.nodes : Creates("adapter", c.nodes[i], env)
    /\ SchemaCompiles(c.schema)

Accepted(c, env) == Valid(c) /\ Compiles(c, env)

\* CompiledTopic.adapters, by node id: of nodes with one id the last counts.
AdapterOf(c) ==
    [n \in NodeIds(c) |->
        LET last == CHOOSE i \in DOMAIN c.nodes :
                        /\ c.nodes[i].id = n
                        /\ \A j \in DOMAIN c.nodes : c.nodes[j].id = n => j <= i
        IN  c.nodes[last].plugin]

----------------------------------------------------------------------------

\* Mutant: the labels of all edges count as known.
LabelsOfAllEdges(c) == MappingKeys(c)

\* The graph has one conditional edge, made from the first mapping; its keys
\* are the labels the intent node knows.
Mapping(c) == c.edges[1]
Labels(c)  == DOMAIN Mapping(c)

\* The edge raises KeyError for a route that is no key of the mapping.
Routable(c, route) == route \in DOMAIN Mapping(c)

\* The adapter behind a route.
AdapterFor(c, route) == AdapterOf(c)[Mapping(c)[route]]

\* Names of the graph's own nodes and of the fields of GraphState.
ReservedNames ==
    {"load_session", "auth_node", "reject_node", "enrich_node", "intent_node",
     "persist_node"} \cup
    {"request_id", "biz_id", "thread_id", "identity", "question", "biz_params",
     "history", "user_ctx", "auth", "enriched_question", "enrich_meta", "route",
     "route_confidence", "route_reason", "answer_chunks", "answer_meta", "errors",
     "user_message_id", "assistant_message_id", "stream_cancelled"}

\* add_node and compile raise for a node with a reserved name, and for an id that
\* is not plain: one that LangGraph keeps for itself (__start__, __end__, those of
\* its channels) or that has one of its separators in it (`|`, `:`).
BuildsGraph(c) ==
    /\ NodeIds(c) \cap ReservedNames = {}
    /\ \A i \in DOMAIN c.nodes : c.nodes[i].plain

----------------------------------------------------------------------------
(* Authorization.  The plugins look at different claims and parameters in  *)
(* the same way: `role` is compared with the topic's, `scope` is the       *)
(* parameter (region, business_unit, contract_id) and `owned` the claim it *)
(* must be in (regions, business_units, contract_ids).                     *)

Verdict(who, roles) ==
    IF who.role \notin roles THEN "FORBIDDEN_TOPIC"
    ELSE IF who.scope = "none" \/ who.scope \notin who.owned THEN "FORBIDDEN_SCOPE"
    ELSE "passed"
=============================================================================
