--------------------------- MODULE BranchingViews ---------------------------
(***************************************************************************)
(* What publishing promises a reader, without layers, deltas, bases or     *)
(* indices.  A view is a graph: numbered rows per kind, numbered edges per *)
(* relation between rows it shows.  A branch is a chain of views in which  *)
(* each view adds to the one before it: below the parent's extents it      *)
(* shows what the parent shows, no more and no less.  Published views stay *)
(* as they are, and publishing adds one chain at a time.                   *)
(***************************************************************************)
EXTENDS Naturals, Sequences

CONSTANTS Kinds, Relations, SourceKind, TargetKind

VARIABLE chains  \* the published chains of views, a root view being a chain of one

Prefix(chain) == SubSeq(chain, 1, Len(chain) - 1)
Top(chain) == chain[Len(chain)]

\* Nodes are <<id, row>> pairs, edges <<id, source, target>> triples.
Shows(view, k, id) == \E node \in view.nodes[k] : node[1] = id

IsGraph(view) ==
    /\ \A k \in Kinds : \A m, n \in view.nodes[k] :
           m[1] < view.nodeExtent[k] /\ (m[1] = n[1] => m = n)
    /\ \A r \in Relations : \A e, f \in view.edges[r] :
           /\ e[1] < view.edgeExtent[r]
           /\ e[1] = f[1] => e = f
           /\ Shows(view, SourceKind[r], e[2])
           /\ Shows(view, TargetKind[r], e[3])

AddsTo(view, parent) ==
    /\ \A k \in Kinds :
           /\ parent.nodeExtent[k] <= view.nodeExtent[k]
           /\ {n \in view.nodes[k] : n[1] < parent.nodeExtent[k]} = parent.nodes[k]
    /\ \A r \in Relations :
           /\ parent.edgeExtent[r] <= view.edgeExtent[r]
           /\ {e \in view.edges[r] : e[1] < parent.edgeExtent[r]} = parent.edges[r]

Init == chains = {}

PublishRoot(chain) == Len(chain) = 1

PublishBranch(chain) ==
    /\ Prefix(chain) \in chains
    /\ AddsTo(Top(chain), Top(Prefix(chain)))

Publish ==
    \E chain \in chains' :
        /\ chains' = chains \cup {chain}
        /\ IsGraph(Top(chain))
        /\ PublishRoot(chain) \/ PublishBranch(chain)

Spec == Init /\ [][Publish]_chains

=============================================================================
