----------------------------- MODULE MCSsfReceiver -----------------------------
(* SsfReceiver for TLC. *)
EXTENDS SsfReceiver, TLC

CONSTANTS k1, stray

\* One SET names a kid the transmitter never publishes.
MCKeyOf == [s \in Sets |-> IF s = stray THEN None ELSE k1]

\* The SETs of the polled stream are alike.
MCSymmetry == Permutations(Polled)
===============================================================================
