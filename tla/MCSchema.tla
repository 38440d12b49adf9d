------------------------------ MODULE MCSchema ------------------------------
(***************************************************************************)
(* Schema grown from nothing, with and without rules, and from the schema  *)
(* of the project, by specs of two new kinds: the same tag on two layers,  *)
(* edges that are equal but for a property, edges to a kind that is not    *)
(* declared, and lists of properties with a key twice and with no key.     *)
(***************************************************************************)
EXTENDS Schema, MemorialSchema

CONSTANT notFound

RangeOf(list) == {list[i] : i \in DOMAIN list}

NodeOf(tag, layer, properties) == [tag |-> tag, layer |-> layer, properties |-> properties]
Property1 == [key |-> "p"]
Unnamed == [key |-> ""]

MCProperties ==
    {Property1, Unnamed} \cup UNION {RangeOf(node.properties) : node \in RangeOf(MemorialNodes)}
                         \cup UNION {RangeOf(edge.properties) : edge \in RangeOf(MemorialEdges)}

NewNodes ==
    {NodeOf("dream", "latent_ghost", <<Property1>>), NodeOf("dream", "action", <<>>),
     NodeOf("habit", "action", <<Property1>>), NodeOf("habit", "action", <<Property1, Property1>>),
     NodeOf("mood", "action", <<Unnamed>>), NodeOf("ghost", "action", <<>>)}

NewEdges ==
    [source : {"dream", "habit"}, relation : {"biases"}, target : {"dream", "action"},
     properties : {<<>>, <<Property1>>}]

NewRules ==
    {[relation |-> "biases", sourceLayer |-> layer, targetLayer |-> "action"] :
        layer \in {"latent_ghost", "action"}}

MCNodes == RangeOf(MemorialNodes) \cup NewNodes
MCEdges == RangeOf(MemorialEdges) \cup NewEdges
MCRules == RangeOf(MemorialRules) \cup NewRules

Nothing(restricted) == [nodes |-> <<>>, edges |-> <<>>, rules |-> <<>>, restricted |-> restricted]
MCStarts == {MemorialGraphSchema, Nothing(TRUE), Nothing(FALSE)}

=============================================================================
