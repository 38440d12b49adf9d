------------------------------- MODULE Schema -------------------------------
(***************************************************************************)
(* schema/: a graph schema as it grows.  A schema is a list of node specs, *)
(* one of edge specs and a rule policy; every list is extended at either   *)
(* end.  The static assertions decide whether the extended schema is one:  *)
(* if not, the program does not compile and the schema stays as it was.    *)
(*                                                                         *)
(* The stores, the queries and the explanations of a program look node and *)
(* edge specs up in these lists, by tag and by signature.                  *)
(***************************************************************************)
EXTENDS TypeList

CONSTANTS
    Properties,  \* property_spec, by its key
    Nodes,       \* node_spec: tag, layer and the list of property specs
    Edges,       \* edge_spec: source, relation, target and the list of property specs
    Rules,       \* relation_rule: relation, sourceLayer, targetLayer
    EmptyKey,    \* the empty property key
    Starts,      \* schemas to start from
    MaxSpecs     \* bound: specs and rules added to the start

GraphSchema ==
    [nodes : Seq(Nodes), edges : Seq(Edges), rules : Seq(Rules), restricted : BOOLEAN]

ASSUME SpecAssumption ==
    /\ NotFound \notin Nodes \cup Edges
    /\ \A spec \in Nodes \cup Edges : spec.properties \in Seq(Properties)
    /\ Starts \subseteq GraphSchema
    /\ MaxSpecs \in Nat

VARIABLES
    schema,  \* the graph_schema
    added    \* how many specs and rules were added

vars == <<schema, added>>

-----------------------------------------------------------------------------
(* What a schema is made of. *)

NodeTag(node) == node.tag
EdgeSignature(edge) == <<edge.source, edge.relation, edge.target>>
RuleSignature(rule) == <<rule.relation, rule.sourceLayer, rule.targetLayer>>
PropertyKey(property) == property.key

NodeTags(s) == [n \in DOMAIN s.nodes |-> NodeTag(s.nodes[n])]
EdgeSignatures(s) == [e \in DOMAIN s.edges |-> EdgeSignature(s.edges[e])]
RuleSignatures(s) == [i \in DOMAIN s.rules |-> RuleSignature(s.rules[i])]
PropertyKeys(spec) == [i \in DOMAIN spec.properties |-> PropertyKey(spec.properties[i])]

\* relation_rules, or unrestricted_relation_rules for a schema that is not restricted.
Allows(s, relation, sourceLayer, targetLayer) ==
    s.restricted =>
        \E i \in DOMAIN s.rules : RuleSignature(s.rules[i]) = <<relation, sourceLayer, targetLayer>>

FindNode(tag, s) == FrontOf({n \in DOMAIN s.nodes : s.nodes[n].tag = tag}, s.nodes)
FindEdge(signature, s) ==
    FrontOf({e \in DOMAIN s.edges : EdgeSignature(s.edges[e]) = signature}, s.edges)

SchemaHasNode(tag, s) == FindNode(tag, s) # NotFound
SchemaHasEdge(signature, s) == FindEdge(signature, s) # NotFound
ContainsNode(s, tag) == \E n \in DOMAIN s.nodes : s.nodes[n].tag = tag
ContainsEdge(s, signature) == \E e \in DOMAIN s.edges : EdgeSignature(s.edges[e]) = signature

-----------------------------------------------------------------------------
(* The static assertions. *)

\* Mutant of KeysAreSound: keys may be empty, and repeat.
KeysAreAnything(spec) == TRUE

\* property_spec and node_spec or edge_spec.
KeysAreSound(spec) ==
    /\ \A i \in DOMAIN spec.properties : spec.properties[i].key # EmptyKey
    /\ IsUnique(PropertyKeys(spec))

HasKnownEndpoints(s, edge) ==
    /\ TypeCount(edge.source, NodeTags(s)) # 0
    /\ TypeCount(edge.target, NodeTags(s)) # 0

\* Mutant of HasAllowedLayerRelation: the ends of the edge are swapped.
HasAllowedReverse(s, edge) ==
    LET source == FindNode(edge.source, s)
        target == FindNode(edge.target, s)
    IN  \/ NotFound \in {source, target}
        \/ Allows(s, edge.relation, target.layer, source.layer)

\* An edge without one of its ends is refused by HasKnownEndpoints.
HasAllowedLayerRelation(s, edge) ==
    LET source == FindNode(edge.source, s)
        target == FindNode(edge.target, s)
    IN  \/ NotFound \in {source, target}
        \/ Allows(s, edge.relation, source.layer, target.layer)

Compiles(s) ==
    /\ \A n \in DOMAIN s.nodes : KeysAreSound(s.nodes[n])
    /\ \A e \in DOMAIN s.edges : KeysAreSound(s.edges[e])
    /\ s.restricted => IsUnique(RuleSignatures(s))
    /\ IsUnique(NodeTags(s))
    /\ IsUnique(EdgeSignatures(s))
    /\ \A e \in DOMAIN s.edges : HasKnownEndpoints(s, s.edges[e])
    /\ \A e \in DOMAIN s.edges : HasAllowedLayerRelation(s, s.edges[e])

-----------------------------------------------------------------------------

Init == schema \in {start \in Starts : Compiles(start)} /\ added = 0

Extensions(list, specs) == {<<spec>> \o list : spec \in specs} \cup {list \o <<spec>> : spec \in specs}

Extend(extended) ==
    /\ added < MaxSpecs
    /\ Compiles(extended)
    /\ schema' = extended
    /\ added' = added + 1

AddNode == \E list \in Extensions(schema.nodes, Nodes) : Extend([schema EXCEPT !.nodes = list])
AddEdge == \E list \in Extensions(schema.edges, Edges) : Extend([schema EXCEPT !.edges = list])
AddRule == \E list \in Extensions(schema.rules, Rules) : Extend([schema EXCEPT !.rules = list])

Next == AddNode \/ AddEdge \/ AddRule

Spec == Init /\ [][Next]_vars

-----------------------------------------------------------------------------

SpecsOf(s) == {s.nodes[n] : n \in DOMAIN s.nodes} \cup {s.edges[e] : e \in DOMAIN s.edges}

\* A schema is made of specs and rules, and no list of properties in it repeats a key
\* or has the empty one.
TypeOK ==
    /\ schema \in GraphSchema
    /\ added \in 0 .. MaxSpecs
    /\ \A spec \in SpecsOf(schema) : \A i, j \in DOMAIN spec.properties :
           /\ spec.properties[i].key # EmptyKey
           /\ spec.properties[i].key = spec.properties[j].key => i = j

\* Wherever a spec stands in its list, it is the one that is looked up by its tag or
\* signature, its position is the index that lookups by tag report, and no other spec
\* answers to it: a store is never found under another's name.  Both ways of asking
\* whether a schema has a node or an edge agree.
LookupsAreExact ==
    /\ \A n \in DOMAIN schema.nodes :
           /\ FindNode(schema.nodes[n].tag, schema) = schema.nodes[n]
           /\ IndexOf(schema.nodes[n].tag, NodeTags(schema)) = n
    /\ \A e \in DOMAIN schema.edges :
           /\ FindEdge(EdgeSignature(schema.edges[e]), schema) = schema.edges[e]
           /\ IndexOf(schema.edges[e], schema.edges) = e
    /\ \A node \in Nodes : SchemaHasNode(node.tag, schema) <=> ContainsNode(schema, node.tag)
    /\ \A edge \in Edges : SchemaHasEdge(EdgeSignature(edge), schema)
                               <=> ContainsEdge(schema, EdgeSignature(edge))

\* Both ends of every edge are node kinds of the schema, and a rule of the schema, if
\* it has rules, allows the relation between the layers of whatever nodes have these
\* tags: appends, traversals and queries over an edge never meet a kind without a
\* store, or layers that no rule joins.
EdgesJoinAllowedKinds ==
    \A e \in DOMAIN schema.edges :
        LET edge == schema.edges[e] IN
        /\ \E n \in DOMAIN schema.nodes : schema.nodes[n].tag = edge.source
        /\ \E n \in DOMAIN schema.nodes : schema.nodes[n].tag = edge.target
        /\ \A m, n \in DOMAIN schema.nodes :
               /\ schema.restricted
               /\ schema.nodes[m].tag = edge.source
               /\ schema.nodes[n].tag = edge.target
               => \E i \in DOMAIN schema.rules :
                      /\ schema.rules[i].relation = edge.relation
                      /\ schema.rules[i].sourceLayer = schema.nodes[m].layer
                      /\ schema.rules[i].targetLayer = schema.nodes[n].layer

=============================================================================
