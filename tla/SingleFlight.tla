----------------------------- MODULE SingleFlight -----------------------------
(***************************************************************************)
(* What a single-flight guard promises (CONTRACT.md section 9 rules 1, 2   *)
(* and 6): at most one refresh runs at a time; a caller that finds one     *)
(* running waits for it and never starts its own; when it settles, every   *)
(* caller that waits is released in that same step and is told that run's  *)
(* outcome; afterwards the slot is free, or held by one of the released    *)
(* callers that starts over because the run was not its own.               *)
(***************************************************************************)
CONSTANTS Callers,  \* everything that may enter the guard
          Sharers,  \* the callers that act on the shared outcome
          None

VARIABLES owner,    \* the caller whose refresh is running, or None
          waiting,  \* the callers awaiting it, its owner included
          told      \* [Sharers -> outcome a caller was released with]

flightVars == <<owner, waiting, told>>

Outcome == {"ok", "fail"}

FlightInit ==
    /\ owner = None
    /\ waiting = {}
    /\ told = [c \in Sharers |-> "none"]

Enter(c) ==
    /\ c \notin waiting
    /\ waiting' = waiting \cup {c}
    /\ owner' = IF owner = None THEN c ELSE owner
    /\ UNCHANGED told

Settle(o) ==
    /\ owner # None
    /\ told' = [c \in Sharers |-> IF c \in waiting THEN o ELSE told[c]]
    /\ \/ owner' = None /\ waiting' = {}
       \/ \E c \in waiting \ ({owner} \cup Sharers) : owner' = c /\ waiting' = {c}

FlightNext == (\E c \in Callers : Enter(c)) \/ (\E o \in Outcome : Settle(o))

FlightSpec == FlightInit /\ [][FlightNext]_flightVars
===============================================================================
