---------------------------- MODULE CallbackCycle ----------------------------
(***************************************************************************)
(* What a process relies on when it lets a one-shot virtual timer drive a  *)
(* callback: a callback goes round one cycle, from its timer to the pipe   *)
(* to the main thread and, at the start of its handler, back to its timer. *)
(* It is never in two places at once, and only one handler runs at a time. *)
(* CallbackLoop is shown to implement this while no callback is deleted or *)
(* given another interval.                                                 *)
(***************************************************************************)
EXTENDS Naturals

CONSTANT Callbacks

VARIABLE place    \* where a callback is; "none" if it does not exist

Places == {"none", "timer", "pipe", "handler"}

\* A callback that exists at the start has its timer running.
Init == place \in [Callbacks -> {"none", "timer"}]

Add(c) ==
    /\ place[c] = "none"
    /\ place' = [place EXCEPT ![c] = "timer"]

Fire(c) ==
    /\ place[c] = "timer"
    /\ place' = [place EXCEPT ![c] = "pipe"]

Take(c) ==
    /\ place[c] = "pipe"
    /\ \A d \in Callbacks : place[d] # "handler"
    /\ place' = [place EXCEPT ![c] = "handler"]

Restart(c) ==
    /\ place[c] = "handler"
    /\ place' = [place EXCEPT ![c] = "timer"]

Next == \E c \in Callbacks : Add(c) \/ Fire(c) \/ Take(c) \/ Restart(c)

Spec == Init /\ [][Next]_place
=============================================================================
