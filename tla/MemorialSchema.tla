--------------------------- MODULE MemorialSchema ---------------------------
(***************************************************************************)
(* schema/memorial_schema.hpp: the schema the project comes with.          *)
(***************************************************************************)
LOCAL Property(key) == [key |-> key]
LOCAL Node(tag, layer, properties) == [tag |-> tag, layer |-> layer, properties |-> properties]
LOCAL Edge(source, relation, target, properties) ==
    [source |-> source, relation |-> relation, target |-> target, properties |-> properties]
LOCAL Rule(relation, sourceLayer, targetLayer) ==
    [relation |-> relation, sourceLayer |-> sourceLayer, targetLayer |-> targetLayer]

LOCAL Activation == Property("activation")
LOCAL Confidence == Property("confidence")
LOCAL Valence == Property("valence")
LOCAL Probability == Property("existence_probability")
LOCAL Strength == Property("strength")

MemorialNodes ==
    <<Node("experience", "world", <<Confidence>>),
      Node("perception", "perception", <<Confidence>>),
      Node("thought", "cognition", <<Activation, Confidence>>),
      Node("belief", "cognition", <<Confidence>>),
      Node("goal", "cognition", <<Activation>>),
      Node("emotion", "affect_body", <<Activation, Valence>>),
      Node("body_state", "affect_body", <<Activation>>),
      Node("decision", "action", <<Confidence>>),
      Node("action", "action", <<Confidence>>),
      Node("outcome", "world", <<Confidence>>),
      Node("memory", "memory", <<Activation, Confidence>>),
      Node("ghost", "latent_ghost", <<Activation, Confidence, Probability>>)>>

MemorialEdges ==
    <<Edge("experience", "temporal_next", "experience", <<Probability>>),
      Edge("experience", "generates", "perception", <<Probability>>),
      Edge("perception", "activates", "thought", <<Probability, Strength>>),
      Edge("emotion", "inhibits", "thought", <<Probability, Strength>>),
      Edge("ghost", "biases", "action", <<Probability, Strength>>),
      Edge("decision", "selects", "action", <<Probability>>),
      Edge("decision", "rejects", "action", <<Probability>>),
      Edge("action", "causes", "outcome", <<Probability, Strength>>),
      Edge("outcome", "encodes", "memory", <<Probability, Strength>>),
      Edge("memory", "recalls", "experience", <<Probability, Strength>>),
      Edge("memory", "reinterprets", "memory", <<Probability, Strength>>),
      Edge("action", "evidence_for", "ghost", <<Probability, Strength>>)>>

MemorialRules ==
    <<Rule("temporal_next", "world", "world"),
      Rule("generates", "world", "perception"),
      Rule("activates", "perception", "cognition"),
      Rule("inhibits", "affect_body", "cognition"),
      Rule("biases", "latent_ghost", "action"),
      Rule("selects", "action", "action"),
      Rule("rejects", "action", "action"),
      Rule("causes", "action", "world"),
      Rule("encodes", "world", "memory"),
      Rule("recalls", "memory", "world"),
      Rule("reinterprets", "memory", "memory"),
      Rule("evidence_for", "action", "latent_ghost")>>

MemorialGraphSchema ==
    [nodes |-> MemorialNodes, edges |-> MemorialEdges, rules |-> MemorialRules, restricted |-> TRUE]

=============================================================================
