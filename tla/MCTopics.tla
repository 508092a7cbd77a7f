------------------------------ MODULE MCTopics ------------------------------
(***************************************************************************)
(* Topic configurations for the small instances: good ones, ones that are  *)
(* accepted and do less than they seem to, and ones with one flaw each.    *)
(***************************************************************************)
EXTENDS Topic

MCEnv == {"BASE_URL"}

Ref(plugin) == [plugin |-> plugin, env |-> {}, accepted |-> TRUE]

Node(id, plugin) ==
    [id |-> id, plugin |-> plugin, env |-> {"BASE_URL"}, accepted |-> TRUE, plain |-> TRUE]

Good ==
    [id |-> "t1", default |-> "metagc", codes |-> RequiredErrorCodes,
     turns |-> 10, tries |-> 2,
     auth |-> Ref("representative_auth"), enrich |-> Ref("generic_enrich"),
     intent |-> Ref("llm_classifier"), labels |-> {"metagc", "kc"},
     nodes |-> <<Node("n1", "metagc"), Node("n2", "knowledge_center")>>,
     edges |-> <<[metagc |-> "n1", kc |-> "n2"]>>,
     schema |-> [type |-> "object", types |-> {"string"}]]

Other == [Good EXCEPT !.id = "t2"]

\* Accepted, and each a trap: the default cannot be routed; a second edge the
\* graph does not have; two nodes with one id; a node whose name is a field of
\* the state, or not plain.
DefaultDefault == [Good EXCEPT !.default = "default"]
TwoEdges ==
    [Good EXCEPT !.edges = <<[metagc |-> "n1"], [kc |-> "n2"]>>]
DefaultOfSecondEdge == [TwoEdges EXCEPT !.default = "kc"]
TwoNodesOneId ==
    [Good EXCEPT !.nodes = <<Node("n1", "metagc"), Node("n2", "metagc"), Node("n2", "uniioc")>>]
SecondNode(id) == [Good EXCEPT !.id = "t3", !.nodes[2].id = id, !.edges[1].kc = id]
Unbuildable ==
    {SecondNode("history"), [SecondNode("kc:v2") EXCEPT !.nodes[2].plain = FALSE]}

Sound  == {Good, TwoNodesOneId}
Traps  == {DefaultDefault, TwoEdges, DefaultOfSecondEdge}

Flawed ==
    {[Good EXCEPT !.codes = @ \ {"INTERNAL"}], [Good EXCEPT !.edges = <<>>],
     [Good EXCEPT !.edges[1].kc = "n3"], [Good EXCEPT !.default = "uniioc"],
     [Good EXCEPT !.labels = @ \cup {"uniioc"}], [Good EXCEPT !.turns = 201],
     [Good EXCEPT !.nodes[1].env = @ \cup {"NOT_SET"}],
     [Good EXCEPT !.nodes[1].plugin = "not_there"],
     [Good EXCEPT !.intent.accepted = FALSE], [Good EXCEPT !.schema.types = {"integer"}]}
=============================================================================
