---------------------------- MODULE SchemaProofs ----------------------------
(***************************************************************************)
(* Proofs about Schema: for any specs and rules, and however a schema is   *)
(* extended, what passes the static assertions can be looked up without    *)
(* ambiguity and joins declared kinds only.                                *)
(***************************************************************************)
EXTENDS Schema, FiniteSetTheorems, SequenceTheorems, TLAPS

\* A type of a list that has no type twice occurs at its own position only.
LEMMA UniquePosition ==
    ASSUME NEW list, NEW n \in Nat, DOMAIN list = 1 .. n, IsUnique(list), NEW i \in DOMAIN list
    PROVE  Positions(list[i], list) = {i}
<1>1. Cardinality(Positions(list[i], list)) = 1
  BY DEF IsUnique, TypeCount
<1>2. IsFiniteSet(Positions(list[i], list))
  <2>1. IsFiniteSet(1 .. n)
    BY FS_Interval
  <2>2. Positions(list[i], list) \subseteq 1 .. n
    BY DEF Positions
  <2> QED
    BY <2>1, <2>2, FS_Subset
<1>3. PICK x : Positions(list[i], list) = {x}
  BY <1>1, <1>2, FS_Singleton
<1>4. i \in Positions(list[i], list)
  BY DEF Positions
<1> QED
  BY <1>3, <1>4

\* The first of one position is that one.
LEMMA FirstOfOne ==
    ASSUME NEW i \in Int
    PROVE  First({i}) = i
BY DEF First

\* In a schema that compiles a node spec is found by its tag, at its position.
LEMMA NodesAreFound ==
    ASSUME NEW s, s \in GraphSchema, Compiles(s), NEW n \in DOMAIN s.nodes
    PROVE  /\ \A m \in DOMAIN s.nodes : s.nodes[m].tag = s.nodes[n].tag => m = n
           /\ FindNode(s.nodes[n].tag, s) = s.nodes[n]
           /\ IndexOf(s.nodes[n].tag, NodeTags(s)) = n
<1> DEFINE tags == NodeTags(s)
<1>1. /\ Len(s.nodes) \in Nat /\ DOMAIN s.nodes = 1 .. Len(s.nodes)
      /\ DOMAIN tags = 1 .. Len(s.nodes)
      /\ \A m \in DOMAIN s.nodes : tags[m] = s.nodes[m].tag
  BY DEF GraphSchema, NodeTags, NodeTag
<1>2. IsUnique(tags)
  BY DEF Compiles
<1>3. Positions(tags[n], tags) = {n}
  <2> HIDE DEF tags
  <2> QED
    BY <1>1, <1>2, UniquePosition
<1>4. \A m \in DOMAIN s.nodes : s.nodes[m].tag = s.nodes[n].tag => m = n
  BY <1>1, <1>3 DEF Positions
<1>5. First({n}) = n
  BY <1>1, FirstOfOne
<1>6. IndexOf(s.nodes[n].tag, tags) = n
  BY <1>1, <1>3, <1>5 DEF IndexOf
<1>7. {m \in DOMAIN s.nodes : s.nodes[m].tag = s.nodes[n].tag} = {n}
  BY <1>4
<1>8. FindNode(s.nodes[n].tag, s) = s.nodes[n]
  BY <1>5, <1>7 DEF FindNode, FrontOf
<1> QED
  BY <1>4, <1>6, <1>8

\* In a schema that compiles an edge spec is found by its signature, at its position.
LEMMA EdgesAreFound ==
    ASSUME NEW s, s \in GraphSchema, Compiles(s), NEW e \in DOMAIN s.edges
    PROVE  /\ FindEdge(EdgeSignature(s.edges[e]), s) = s.edges[e]
           /\ IndexOf(s.edges[e], s.edges) = e
<1> DEFINE signatures == EdgeSignatures(s)
<1>1. /\ Len(s.edges) \in Nat /\ DOMAIN s.edges = 1 .. Len(s.edges)
      /\ DOMAIN signatures = 1 .. Len(s.edges)
      /\ \A d \in DOMAIN s.edges : signatures[d] = EdgeSignature(s.edges[d])
  BY DEF GraphSchema, EdgeSignatures
<1>2. IsUnique(signatures)
  BY DEF Compiles
<1>3. Positions(signatures[e], signatures) = {e}
  <2> HIDE DEF signatures
  <2> QED
    BY <1>1, <1>2, UniquePosition
<1>4. \A d \in DOMAIN s.edges : EdgeSignature(s.edges[d]) = EdgeSignature(s.edges[e]) => d = e
  BY <1>1, <1>3 DEF Positions
<1>5. First({e}) = e
  BY <1>1, FirstOfOne
<1>6. {d \in DOMAIN s.edges : EdgeSignature(s.edges[d]) = EdgeSignature(s.edges[e])} = {e}
  BY <1>4
<1>7. FindEdge(EdgeSignature(s.edges[e]), s) = s.edges[e]
  BY <1>5, <1>6 DEF FindEdge, FrontOf
<1>8. Positions(s.edges[e], s.edges) = {e}
  BY <1>4 DEF Positions
<1>9. IndexOf(s.edges[e], s.edges) = e
  BY <1>5, <1>8 DEF IndexOf
<1> QED
  BY <1>7, <1>9

\* In a schema that compiles no list of properties repeats a key or has the empty one.
LEMMA KeysAreDistinct ==
    ASSUME NEW spec \in Nodes \cup Edges, KeysAreSound(spec),
           NEW i \in DOMAIN spec.properties, NEW j \in DOMAIN spec.properties
    PROVE  /\ spec.properties[i].key # EmptyKey
           /\ spec.properties[i].key = spec.properties[j].key => i = j
<1> DEFINE keys == PropertyKeys(spec)
<1>1. /\ Len(spec.properties) \in Nat /\ DOMAIN spec.properties = 1 .. Len(spec.properties)
      /\ DOMAIN keys = 1 .. Len(spec.properties)
      /\ \A n \in DOMAIN spec.properties : keys[n] = spec.properties[n].key
  BY SpecAssumption DEF PropertyKeys, PropertyKey
<1>2. IsUnique(keys)
  BY DEF KeysAreSound
<1>3. Positions(keys[i], keys) = {i}
  <2> HIDE DEF keys
  <2> QED
    BY <1>1, <1>2, UniquePosition
<1>4. spec.properties[i].key = spec.properties[j].key => i = j
  BY <1>1, <1>3 DEF Positions
<1>5. spec.properties[i].key # EmptyKey
  BY DEF KeysAreSound
<1> QED
  BY <1>4, <1>5

\* An end that an edge is known to have is the tag of a node spec.
LEMMA KnownEndIsDeclared ==
    ASSUME NEW s, s \in GraphSchema, NEW tag, TypeCount(tag, NodeTags(s)) # 0
    PROVE  \E n \in DOMAIN s.nodes : s.nodes[n].tag = tag
<1>1. Positions(tag, NodeTags(s)) # {}
  BY FS_EmptySet DEF TypeCount
<1> QED
  BY <1>1 DEF Positions, NodeTags, NodeTag

-----------------------------------------------------------------------------

\* The inductive invariant: the schema is one, and its assertions hold.
Accepted == schema \in GraphSchema /\ Compiles(schema) /\ added \in 0 .. MaxSpecs

\* Extending a schema only ever leads from one accepted schema to another.
THEOREM SchemaStaysAccepted == Spec => []Accepted
<1>1. Init => Accepted
  BY SpecAssumption DEF Init, Accepted
<1>2. Accepted /\ [Next]_vars => Accepted'
  <2> SUFFICES ASSUME Accepted, [Next]_vars
               PROVE  Accepted'
    OBVIOUS
  <2>1. ASSUME NEW S, NEW list \in Seq(S), NEW longer \in Extensions(list, S)
        PROVE  longer \in Seq(S)
    <3>1. PICK spec \in S : longer = <<spec>> \o list \/ longer = list \o <<spec>>
      BY DEF Extensions
    <3>2. <<spec>> \in Seq(S)
      OBVIOUS
    <3> QED
      BY <3>1, <3>2, ConcatProperties
  <2>2. CASE AddNode
    <3>1. PICK list \in Extensions(schema.nodes, Nodes) : Extend([schema EXCEPT !.nodes = list])
      BY <2>2 DEF AddNode
    <3>2. list \in Seq(Nodes)
      BY <2>1 DEF Accepted, GraphSchema
    <3>3. schema' \in GraphSchema
      BY <3>1, <3>2 DEF Extend, Accepted, GraphSchema
    <3> QED
      BY <3>1, <3>3, SpecAssumption DEF Extend, Accepted
  <2>3. CASE AddEdge
    <3>1. PICK list \in Extensions(schema.edges, Edges) : Extend([schema EXCEPT !.edges = list])
      BY <2>3 DEF AddEdge
    <3>2. list \in Seq(Edges)
      BY <2>1 DEF Accepted, GraphSchema
    <3>3. schema' \in GraphSchema
      BY <3>1, <3>2 DEF Extend, Accepted, GraphSchema
    <3> QED
      BY <3>1, <3>3, SpecAssumption DEF Extend, Accepted
  <2>4. CASE AddRule
    <3>1. PICK list \in Extensions(schema.rules, Rules) : Extend([schema EXCEPT !.rules = list])
      BY <2>4 DEF AddRule
    <3>2. list \in Seq(Rules)
      BY <2>1 DEF Accepted, GraphSchema
    <3>3. schema' \in GraphSchema
      BY <3>1, <3>2 DEF Extend, Accepted, GraphSchema
    <3> QED
      BY <3>1, <3>3, SpecAssumption DEF Extend, Accepted
  <2>5. CASE UNCHANGED vars
    <3>1. schema' = schema /\ added' = added
      BY <2>5 DEF vars
    <3>2. Compiles(schema')
      BY <3>1 DEF Accepted
    <3> QED
      BY <3>1, <3>2 DEF Accepted
  <2> QED
    BY <2>2, <2>3, <2>4, <2>5 DEF Next
<1> QED
  BY <1>1, <1>2, PTL DEF Spec

-----------------------------------------------------------------------------
(* What accepted schemas promise. *)

\* The assertions on property keys give what the type invariant says of them.
LEMMA AcceptedIsTyped == Accepted => TypeOK
<1> SUFFICES ASSUME Accepted
             PROVE  TypeOK
  OBVIOUS
<1>1. ASSUME NEW spec \in SpecsOf(schema)
      PROVE  spec \in Nodes \cup Edges /\ KeysAreSound(spec)
  <2>1. CASE \E n \in DOMAIN schema.nodes : spec = schema.nodes[n]
    BY <2>1 DEF Accepted, GraphSchema, Compiles
  <2>2. CASE \E e \in DOMAIN schema.edges : spec = schema.edges[e]
    BY <2>2 DEF Accepted, GraphSchema, Compiles
  <2> QED
    BY <2>1, <2>2 DEF SpecsOf
<1> QED
  BY <1>1, KeysAreDistinct DEF Accepted, TypeOK

\* Unique tags and signatures make lookups exact.
LEMMA AcceptedIsExact == Accepted => LookupsAreExact
<1> SUFFICES ASSUME Accepted
             PROVE  LookupsAreExact
  OBVIOUS
<1>1. schema \in GraphSchema /\ Compiles(schema)
  BY DEF Accepted
<1>2. \A n \in DOMAIN schema.nodes :
          /\ schema.nodes[n] \in Nodes /\ schema.nodes[n] # NotFound
          /\ FindNode(schema.nodes[n].tag, schema) = schema.nodes[n]
          /\ IndexOf(schema.nodes[n].tag, NodeTags(schema)) = n
  BY <1>1, NodesAreFound, SpecAssumption DEF GraphSchema
<1>3. \A e \in DOMAIN schema.edges :
          /\ schema.edges[e] \in Edges /\ schema.edges[e] # NotFound
          /\ FindEdge(EdgeSignature(schema.edges[e]), schema) = schema.edges[e]
          /\ IndexOf(schema.edges[e], schema.edges) = e
  BY <1>1, EdgesAreFound, SpecAssumption DEF GraphSchema
<1>4. ASSUME NEW node \in Nodes
      PROVE  SchemaHasNode(node.tag, schema) <=> ContainsNode(schema, node.tag)
  <2>1. CASE \E n \in DOMAIN schema.nodes : schema.nodes[n].tag = node.tag
    BY <1>2, <2>1 DEF SchemaHasNode, ContainsNode
  <2>2. CASE ~ \E n \in DOMAIN schema.nodes : schema.nodes[n].tag = node.tag
    <3>1. FindNode(node.tag, schema) = NotFound
      BY <2>2 DEF FindNode, FrontOf
    <3> QED
      BY <2>2, <3>1 DEF SchemaHasNode, ContainsNode
  <2> QED
    BY <2>1, <2>2
<1>5. ASSUME NEW edge \in Edges
      PROVE  SchemaHasEdge(EdgeSignature(edge), schema) <=> ContainsEdge(schema, EdgeSignature(edge))
  <2> DEFINE signature == EdgeSignature(edge)
  <2>1. CASE \E e \in DOMAIN schema.edges : EdgeSignature(schema.edges[e]) = signature
    BY <1>3, <2>1 DEF SchemaHasEdge, ContainsEdge
  <2>2. CASE ~ \E e \in DOMAIN schema.edges : EdgeSignature(schema.edges[e]) = signature
    <3>1. FindEdge(signature, schema) = NotFound
      BY <2>2 DEF FindEdge, FrontOf
    <3> QED
      BY <2>2, <3>1 DEF SchemaHasEdge, ContainsEdge
  <2> QED
    BY <2>1, <2>2
<1> QED
  BY <1>2, <1>3, <1>4, <1>5 DEF LookupsAreExact

\* The assertions on edges hold of the very nodes that their ends name.
LEMMA AcceptedIsAllowed == Accepted => EdgesJoinAllowedKinds
<1> SUFFICES ASSUME Accepted, NEW e \in DOMAIN schema.edges
             PROVE  /\ \E n \in DOMAIN schema.nodes : schema.nodes[n].tag = schema.edges[e].source
                    /\ \E n \in DOMAIN schema.nodes : schema.nodes[n].tag = schema.edges[e].target
                    /\ \A m, n \in DOMAIN schema.nodes :
                           /\ schema.restricted
                           /\ schema.nodes[m].tag = schema.edges[e].source
                           /\ schema.nodes[n].tag = schema.edges[e].target
                           => \E i \in DOMAIN schema.rules :
                                  /\ schema.rules[i].relation = schema.edges[e].relation
                                  /\ schema.rules[i].sourceLayer = schema.nodes[m].layer
                                  /\ schema.rules[i].targetLayer = schema.nodes[n].layer
  BY DEF EdgesJoinAllowedKinds
<1> DEFINE edge == schema.edges[e]
<1>1. schema \in GraphSchema /\ Compiles(schema)
  BY DEF Accepted
<1>2. HasKnownEndpoints(schema, edge) /\ HasAllowedLayerRelation(schema, edge)
  BY <1>1 DEF Compiles
<1>3. /\ \E n \in DOMAIN schema.nodes : schema.nodes[n].tag = edge.source
      /\ \E n \in DOMAIN schema.nodes : schema.nodes[n].tag = edge.target
  BY <1>1, <1>2, KnownEndIsDeclared DEF HasKnownEndpoints
<1>4. ASSUME NEW m \in DOMAIN schema.nodes, NEW n \in DOMAIN schema.nodes, schema.restricted,
             schema.nodes[m].tag = edge.source, schema.nodes[n].tag = edge.target
      PROVE  \E i \in DOMAIN schema.rules :
                 /\ schema.rules[i].relation = edge.relation
                 /\ schema.rules[i].sourceLayer = schema.nodes[m].layer
                 /\ schema.rules[i].targetLayer = schema.nodes[n].layer
  <2>1. /\ FindNode(edge.source, schema) = schema.nodes[m]
        /\ FindNode(edge.target, schema) = schema.nodes[n]
    BY <1>1, <1>4, NodesAreFound
  <2>2. schema.nodes[m] # NotFound /\ schema.nodes[n] # NotFound
    BY <1>1, SpecAssumption DEF GraphSchema
  <2>3. Allows(schema, edge.relation, schema.nodes[m].layer, schema.nodes[n].layer)
    BY <1>2, <2>1, <2>2 DEF HasAllowedLayerRelation
  <2> QED
    BY <1>4, <2>3 DEF Allows, RuleSignature
<1> QED
  BY <1>3, <1>4

\* Schemas keep their shape, and property keys within a spec stay distinct, for any
\* specs and any order of extending.
THEOREM TypeCorrect == Spec => []TypeOK
BY SchemaStaysAccepted, AcceptedIsTyped, PTL

\* Every spec of a schema is found by its tag or signature and at its position, and by
\* no other: a store is never taken for another's.
THEOREM LookupsStayExact == Spec => []LookupsAreExact
BY SchemaStaysAccepted, AcceptedIsExact, PTL

\* Edges join declared kinds on layers that a rule of the schema allows.
THEOREM EdgesStayAllowed == Spec => []EdgesJoinAllowedKinds
BY SchemaStaysAccepted, AcceptedIsAllowed, PTL

=============================================================================
