--------------------------- MODULE GraphsAndBindings ---------------------------
(***************************************************************************)
(* The definitions of a graph over the records of the ledger: each tells   *)
(* which records are its nodes and its edges (packages/graph).             *)
(*                                                                         *)
(* A type is [id, kinds]; a record is a node, or an edge, when some type   *)
(* of the definition lists its kind.  Graphs with other identifiers share  *)
(* nothing: one of them is modelled.                                       *)
(*                                                                         *)
(* Bindings connect the records of all graphs.  They are traversed breadth *)
(* first from a record, in one direction or in both, as of an instant, up  *)
(* to a depth, for a principal who may see only some of the records        *)
(* (packages/bindings).  The order of the answer is left out.              *)
(***************************************************************************)
EXTENDS Naturals, Sequences

CONSTANTS
  Kinds,
  Definitions,   \* [major, minor, nodeTypes, edgeTypes]: what may be registered
  GraphRecords,  \* [kind, relationship, complete]
  MaxDefinitions,
  References,
  Bindings,      \* [id, from, to, validFrom, validTo, recordedAt]
  Depths, Instants

VARIABLES
  definitions,   \* the history of the graph
  bindings       \* what was appended

Type == [id : Nat, kinds : SUBSET Kinds \ {{}}]

DefinitionsAssumption ==
  \A d \in Definitions :
    /\ d.major \in Nat /\ d.minor \in Nat
    /\ d.nodeTypes \in Seq(Type) /\ d.edgeTypes \in Seq(Type)

BindingsAssumption ==
  /\ \A b \in Bindings : /\ b.from \in References /\ b.to \in References /\ b.from # b.to
                         /\ b.validFrom < b.validTo
  /\ Depths \subseteq Nat

Traversal ==
  [direction : {"outgoing", "incoming", "both"}, depth : Depths, validAt : Instants,
   recordedAt : Instants, allowed : SUBSET References]

-----------------------------------------------------------------------------
(* The definitions of a graph. *)

Newer(next, current) ==
  \/ next.major > current.major
  \/ next.major = current.major /\ next.minor > current.minor

Covers(next, current) ==
  \A j \in DOMAIN current : \E k \in DOMAIN next :
    next[k].id = current[j].id /\ current[j].kinds \subseteq next[k].kinds

\* Mutant: the types of edges are compared by identifier only.
SameTypes(current, next) ==
  /\ Covers(next.nodeTypes, current.nodeTypes)
  /\ \A j \in DOMAIN current.edgeTypes : \E k \in DOMAIN next.edgeTypes :
       next.edgeTypes[k].id = current.edgeTypes[j].id

IsBackwardCompatible(current, next) ==
  Covers(next.nodeTypes, current.nodeTypes) /\ Covers(next.edgeTypes, current.edgeTypes)

\* Compared with the definition before it only.
Register(definition) ==
  /\ Len(definitions) < MaxDefinitions
  /\ definitions # <<>> =>
       LET current == definitions[Len(definitions)] IN
       /\ Newer(definition, current)
       /\ definition.major = current.major => IsBackwardCompatible(current, definition)
  /\ definitions' = Append(definitions, definition)
  /\ UNCHANGED bindings

Typed(types, kind) == \E k \in DOMAIN types : kind \in types[k].kinds

\* A relationship may be a node as well; one without both ends is no edge.
Rebuild(definition) ==
  [nodes |-> {r \in GraphRecords : Typed(definition.nodeTypes, r.kind)},
   edges |-> {r \in GraphRecords : /\ r.kind = "relationship" /\ r.complete
                                   /\ Typed(definition.edgeTypes, r.relationship)}]

-----------------------------------------------------------------------------
(* Bindings. *)

\* An identifier is appended once.
AppendBinding(binding) ==
  /\ \A b \in bindings : b.id # binding.id
  /\ bindings' = bindings \cup {binding}
  /\ UNCHANGED definitions

InTime(binding, request) ==
  /\ binding.validFrom <= request.validAt /\ request.validAt < binding.validTo
  /\ binding.recordedAt <= request.recordedAt

EdgesFor(ref, request) ==
  LET valid == {b \in bindings : InTime(b, request)}
      outgoing == IF request.direction = "incoming" THEN {} ELSE {b \in valid : b.from = ref}
      incoming == IF request.direction = "outgoing" THEN {} ELSE {b \in valid : b.to = ref}
  IN  {b.to : b \in outgoing} \cup {b.from : b \in incoming}

\* Mutant: a record is followed whoever may see it.
LayerUnauthorized(visited, frontier, request) ==
  UNION {EdgesFor(ref, request) : ref \in frontier} \ visited

\* What a frontier leads to: the principal may see it, and it is new.
Layer(visited, frontier, request) ==
  (UNION {EdgesFor(ref, request) : ref \in frontier} \cap request.allowed) \ visited

\* The start is not authorised, and no answer.
Traverse(start, request) ==
  LET walk[n \in 0..request.depth] ==
        IF n = 0 THEN [visited |-> {start}, frontier |-> {start}]
        ELSE LET next == Layer(walk[n - 1].visited, walk[n - 1].frontier, request)
             IN  [visited |-> walk[n - 1].visited \cup next, frontier |-> next]
  IN  walk[request.depth].visited \ {start}

-----------------------------------------------------------------------------
Init == definitions = <<>> /\ bindings = {}

NextDefinition == \E definition \in Definitions : Register(definition)
NextBinding    == \E binding \in Bindings : AppendBinding(binding)

Next == NextDefinition \/ NextBinding

Spec == Init /\ [][Next]_<<definitions, bindings>>

-----------------------------------------------------------------------------
\* A record that is a node or an edge of a graph stays one for as long as the
\* major version does not change, through any number of definitions, although
\* a definition is compared with the one before it only.
RebuildKeeps ==
  \A j, k \in DOMAIN definitions :
    j < k /\ definitions[j].major = definitions[k].major =>
      LET before == Rebuild(definitions[j])  after == Rebuild(definitions[k])
      IN  before.nodes \subseteq after.nodes /\ before.edges \subseteq after.edges

\* Depth by depth finds what a search along the paths would: a record within a
\* depth is a neighbour, or within one less of a neighbour one may see.
TraversalUnfolds ==
  \A start \in References, request \in Traversal :
    request.depth > 0 =>
      LET neighbours == EdgesFor(start, request) \cap request.allowed
          shorter == [request EXCEPT !.depth = @ - 1]
      IN  Traverse(start, request)
            = (neighbours \cup UNION {Traverse(n, shorter) : n \in neighbours}) \ {start}

Reversed(direction) ==
  CASE direction = "outgoing" -> "incoming" [] direction = "incoming" -> "outgoing"
    [] direction = "both" -> "both"

\* Who may see both ends finds the way back: with the same depth, instants and
\* permissions, the reversed traversal leads from the found record to the start.
ThereAndBack ==
  \A start \in References, request \in Traversal :
    start \in request.allowed =>
      \A found \in Traverse(start, request) :
        start \in Traverse(found, [request EXCEPT !.direction = Reversed(@)])
=============================================================================
