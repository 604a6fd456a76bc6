---------------------------- MODULE MCAmqpReceiver ----------------------------
(* AmqpReceiver for TLC. *)
EXTENDS AmqpReceiver, TLC

\* Deliveries are interchangeable, but for those without a reply_to (used by
\* runs without liveness).
Interchangeable == Permutations(Attempts \ Replyless)
===============================================================================
