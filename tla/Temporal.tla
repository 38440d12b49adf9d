------------------------------ MODULE Temporal ------------------------------
(***************************************************************************)
(* Time and identifiers of memorial::runtime.                              *)
(*                                                                         *)
(* A timestamp is a point of an integer time line.  A temporal_interval is *)
(* half open, and make() refuses every pair that is not strictly ordered,  *)
(* so an interval that exists is never empty.  Both time axes of a row     *)
(* (valid_interval, transaction_interval) are instances of it.             *)
(***************************************************************************)
EXTENDS Integers

\* Every interval that temporal_interval::make can return over the points T.
IntervalsOver(T) == {i \in [from : T, to : T] : i.from < i.to}

\* temporal_interval::contains: the start belongs to the interval, the end does not.
Covers(interval, point) == interval.from <= point /\ point < interval.to

=============================================================================
