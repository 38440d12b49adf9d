------------------------------ MODULE MCHistory -----------------------------
(***************************************************************************)
(* HistoryDigest with one memory on two worldlines, so that the versions   *)
(* of two keys interleave in one log, and room for five events.  The texts *)
(* of values and sources contain bytes that mean something in a stream.    *)
(***************************************************************************)
EXTENDS HistoryDigest

CONSTANT noSequence

MCWorldlines == {1, 2}
MCIntervals == {[from |-> 0, to |-> 1], [from |-> 0, to |-> 3]}
MCTimes == 0 .. 2

MCTexts == {<<>>, <<4>>, <<7, 1>>, <<7, 1, 0>>}
MCProvenances == ProvenancesOver({<<>>, <<4>>, <<7, 1>>}, {5, 7})
MCValues == {<<7, 1>>}
MCSources == {[kind |-> "inferred", source |-> <<4>>, modelRun |-> 7]}

=============================================================================
