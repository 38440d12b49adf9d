------------------------------ MODULE MCReplay ------------------------------
(***************************************************************************)
(* Replay with two short logs that may differ anywhere.                    *)
(***************************************************************************)
EXTENDS Replay

CONSTANTS w1, noWorldline, noSequence, log1, log2, a, b, bad

MCLogs == {log1, log2}

=============================================================================
