----------------------------- MODULE Provenance -----------------------------
(***************************************************************************)
(* runtime/provenance.hpp: where a row or an event comes from.  The text   *)
(* that names the source is a sequence of bytes.                           *)
(***************************************************************************)
EXTENDS Integers, Sequences

\* The kinds, with the numbers the enumeration gives them.
ProvenanceKind ==
    [observed |-> 0, self_reported |-> 1, imported |-> 2, inferred |-> 3, simulated |-> 4]

RequiresModelRun(kind) == kind \in {"inferred", "simulated"}

NoModelRun == -1

\* The provenances that provenance::make can return for the given sources and valid
\* model runs.
ProvenancesOver(sources, modelRuns) ==
    {p \in [kind : DOMAIN ProvenanceKind, source : sources \ {<<>>},
            modelRun : modelRuns \cup {NoModelRun}] :
        RequiresModelRun(p.kind) => p.modelRun # NoModelRun}

=============================================================================
