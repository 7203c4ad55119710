----------------------------- MODULE ToastMotion -----------------------------
(***************************************************************************)
(* What a toast operation promises about its motor: from a start on it     *)
(* sends the motor to the high position and to the low one in turn, each   *)
(* time after it has seen the motor at rest; after a stop it waits until   *)
(* the motor is at rest, sends it at most to the finish position, and when *)
(* it has come to rest again does nothing until the next start.  Others    *)
(* may move the motor as well, so that it is busy and at rest as it likes. *)
(***************************************************************************)
VARIABLES
    asked,    \* the latest request and whether it is through
    sent,     \* where the operation sent the motor last, since its start
    rested,   \* it has seen the motor at rest since then
    busy      \* the motor is busy

vars == <<asked, sent, rested, busy>>

Init ==
    /\ asked = "none"
    /\ sent = "none"
    /\ rested = FALSE
    /\ busy \in BOOLEAN

Start ==
    /\ asked \in {"none", "done"}
    /\ asked' = "run"
    /\ sent' = "none"
    /\ rested' = FALSE
    /\ UNCHANGED busy

SeeRest ==
    /\ asked = "run"
    /\ sent # "none"
    /\ ~ busy
    /\ rested' = TRUE
    /\ UNCHANGED <<asked, sent, busy>>

Turn ==
    /\ asked = "run"
    /\ \/ sent = "none" /\ sent' = "high"
       \/ sent = "low" /\ rested /\ sent' = "high"
       \/ sent = "high" /\ rested /\ sent' = "low"
    /\ rested' = FALSE
    /\ busy' = TRUE
    /\ UNCHANGED asked

Stop ==
    /\ asked \in {"run", "stop"}
    /\ asked' = "stop"
    /\ rested' = FALSE
    /\ UNCHANGED <<sent, busy>>

Finish ==
    /\ asked = "stop"
    /\ ~ busy
    /\ sent' = "finish"
    /\ busy' = TRUE
    /\ UNCHANGED <<asked, rested>>

End ==
    /\ asked = "stop"
    /\ ~ busy
    /\ asked' = "done"
    /\ UNCHANGED <<sent, rested, busy>>

Fail ==
    /\ rested' = FALSE
    /\ UNCHANGED <<asked, sent, busy>>

Motor ==
    /\ busy' \in BOOLEAN
    /\ UNCHANGED <<asked, sent, rested>>

Next == Start \/ SeeRest \/ Turn \/ Stop \/ Finish \/ End \/ Fail \/ Motor

Spec == Init /\ [][Next]_vars
=============================================================================
