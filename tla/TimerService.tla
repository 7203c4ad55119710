---------------------------- MODULE TimerService ----------------------------
(***************************************************************************)
(* What the virtual timers of MX promise to the code that uses them, with  *)
(* no list, no mutex and no threads: a timer is armed by a start, fires at *)
(* or after the time it is due, once if it is one-shot and again a period  *)
(* after the previous due time if it is periodic, and the timers of a      *)
(* process fire in the order in which they are due.  VirtualTimer is shown *)
(* to implement this as long as no timer is stopped or destroyed.          *)
(***************************************************************************)
EXTENDS Naturals

CONSTANTS VTimers, Periodic, Periods, MaxTime

VARIABLES
    now,
    due       \* due[v]: the time v fires next, as a set of one or no element

Init ==
    /\ now = 0
    /\ due = [v \in VTimers |-> {}]

Tick ==
    /\ now < MaxTime
    /\ now' = now + 1
    /\ UNCHANGED due

\* A start withdraws what is due and, in a later step, arms the timer anew.
Disarm(v) ==
    /\ due' = [due EXCEPT ![v] = {}]
    /\ UNCHANGED now

Arm(v) ==
    /\ due[v] = {}
    /\ \E p \in Periods : due' = [due EXCEPT ![v] = {now + p}]
    /\ UNCHANGED now

Fire(v) ==
    /\ \E x \in due[v] :
          /\ x <= now
          /\ \A u \in VTimers : \A y \in due[u] : x <= y
          /\ \/ /\ v \notin Periodic
                /\ due' = [due EXCEPT ![v] = {}]
             \/ /\ v \in Periodic
                /\ \E p \in Periods : due' = [due EXCEPT ![v] = {x + p}]
    /\ UNCHANGED now

Next == Tick \/ \E v \in VTimers : Disarm(v) \/ Arm(v) \/ Fire(v)

Spec == Init /\ [][Next]_<<now, due>>
=============================================================================
