---------------------------- MODULE MotorBacklash ----------------------------
(***************************************************************************)
(* A motor of an MX server that is moved with backlash correction          *)
(* (libMx/pr_motor.c, with the move and status functions of                *)
(* libMx/mx_motor.c).                                                      *)
(*                                                                         *)
(* A move in the direction of the correction goes past the destination     *)
(* first.  The server does not wait for that: it makes a callback message  *)
(* with a one-shot timer, which goes round the timer and the callback pipe *)
(* (see CallbackLoop) until the motor has stopped; the callback then       *)
(* starts the main move.  Until then the server says that the motor is     *)
(* busy.  The main thread runs each request and each callback to its end;  *)
(* the motor moves all the time.                                           *)
(***************************************************************************)
EXTENDS Integers, Sequences

CONSTANTS
    Lo, Hi,          \* the software limits of the motor
    Backlash,        \* motor->backlash_correction, in steps; 0 for none
    Destinations,    \* the destinations clients ask for
    Addr,            \* the memory malloc() finds for MXCBT_MOTOR_BACKLASH messages
    Patient,         \* clients ask for a move only when the motor is not busy
    Failures,        \* the driver, malloc() and the timers may fail
    NULL

ASSUME MotorAssumption ==
    /\ Lo \in Int /\ Hi \in Int /\ Lo <= Hi
    /\ Backlash \in Int
    /\ Destinations \subseteq Int
    /\ {Patient, Failures} \subseteq BOOLEAN
    /\ NULL \notin Addr \cup Int
    /\ NULL \notin [destination : Destinations, timer : {"armed", "idle"}]

VARIABLES
    position,          \* where the motor is
    goal,              \* where its controller moves it
    backlashMove,      \* motor->backlash_move_in_progress
    serverBacklash,    \* motor->server_backlash_in_progress
    message,           \* message[a]: the destination and the timer of the message
                       \* at a, NULL if there is none
    pipe,              \* the backlash messages in the callback pipe
    direction,         \* history: the direction the motor moved in last since the
                       \* latest request
    request,           \* history: what became of the latest request, and the
                       \* destination it was for
    smooth             \* history: the latest request found the motor at rest and
                       \* nothing has failed since

vars == <<position, goal, backlashMove, serverBacklash, message, pipe,
          direction, request, smooth>>
-----------------------------------------------------------------------------
Limits == Lo .. Hi

Message == [destination : Destinations, timer : {"armed", "idle"}]

TypeOK ==
    /\ position \in Limits
    /\ goal \in Limits
    /\ backlashMove \in BOOLEAN
    /\ serverBacklash \in BOOLEAN
    /\ message \in [Addr -> Message \cup {NULL}]
    /\ pipe \in Seq(Addr)
    /\ direction \in {-1, 0, 1}
    /\ request \in [kind : {"none", "accepted", "refused", "aborted"},
                    destination : Destinations \cup {NULL}]
    /\ smooth \in BOOLEAN

Init ==
    /\ position \in Limits
    /\ goal = position
    /\ backlashMove = FALSE
    /\ serverBacklash = FALSE
    /\ message = [a \in Addr |-> NULL]
    /\ pipe = << >>
    /\ direction = 0
    /\ request = [kind |-> "none", destination |-> NULL]
    /\ smooth = TRUE
-----------------------------------------------------------------------------
(* The motor *)

Moving == position # goal

Sign(x) == IF x > 0 THEN 1 ELSE IF x < 0 THEN -1 ELSE 0

\* The positions two readings of the driver one after the other can differ by
Progress == {position, position + Sign(goal - position)}

MotorStep ==
    /\ Moving
    /\ position' = position + Sign(goal - position)
    /\ direction' = Sign(goal - position)
    /\ UNCHANGED <<goal, backlashMove, serverBacklash, message, pipe, request,
                   smooth>>

\* What the status functions do with motor->backlash_move_in_progress
Settled == backlashMove /\ Moving

\* Mutant: only the driver is asked.
DriverBusy == Moving

\* What the server answers to a client that asks for the status of the motor
ReportedBusy == Moving \/ serverBacklash

\* A client asks for the status: the flag is cleared when the motor has stopped.
GetStatus ==
    /\ backlashMove' = Settled
    /\ UNCHANGED <<position, goal, serverBacklash, message, pipe, direction,
                   request, smooth>>
-----------------------------------------------------------------------------
(* Requests of clients *)

Ready == Patient => ~ ReportedBusy

\* The motor is at rest and nothing is left of earlier moves.
Rested ==
    /\ ~ ReportedBusy
    /\ ~ backlashMove
    /\ \A a \in Addr : message[a] = NULL

\* Mutant: the correction is made when the move goes the other way.
WrongSide(d, p) ==
    \/ d < p /\ Backlash > 0
    \/ d > p /\ Backlash < 0

\* The move and the correction have the same sign.
NeedsBacklash(d, p) ==
    \/ d > p /\ Backlash > 0
    \/ d < p /\ Backlash < 0

\* The motor may go on while the request reads its position; trouble is a step of
\* the request that fails.
Answer(kind, d, trouble) ==
    /\ position' \in Progress
    /\ direction' = 0
    /\ request' = [kind |-> kind, destination |-> d]
    /\ smooth' = (Rested /\ ~ trouble)

\* mxp_motor_move_absolute_handler(), when no correction is required
MoveDirect(d) ==
    /\ Ready
    /\ ~ NeedsBacklash(d, position)
    /\ \/ /\ d \in Limits
          /\ goal' = d
          /\ Answer("accepted", d, FALSE)
       \/ /\ d \notin Limits \/ Failures
          /\ Answer("refused", d, TRUE)
          /\ UNCHANGED goal
    /\ UNCHANGED <<backlashMove, serverBacklash, message, pipe>>

\* Mutant: the backlash position is not compared with the limits.
StartsBacklashMoveUnchecked(d, p) ==
    /\ NeedsBacklash(d, p)
    /\ goal' = d + Backlash
    /\ backlashMove' = TRUE

\* The move to the backlash position as mx_motor_move_absolute() starts it, with
\* the position p it reads itself.  It has nothing to do when the motor is past
\* the destination by then.
StartsBacklashMove(d, p) ==
    \/ /\ NeedsBacklash(d, p)
       /\ d + Backlash \in Limits
       /\ goal' = d + Backlash
       /\ backlashMove' = TRUE
    \/ /\ ~ NeedsBacklash(d, p)
       /\ UNCHANGED <<goal, backlashMove>>

\* ... or does not: a limit would be exceeded, or the driver fails.
RefusesBacklashMove(d, p) ==
    /\ NeedsBacklash(d, p)
    /\ \/ d + Backlash \notin Limits /\ UNCHANGED backlashMove
       \/ Failures /\ backlashMove' = FALSE
    /\ UNCHANGED goal

FreeAddr == {a \in Addr : message[a] = NULL}

\* mxp_motor_move_absolute_handler(), when the correction is required
MoveBacklash(d) ==
    /\ Ready
    /\ NeedsBacklash(d, position)
    /\ serverBacklash' = TRUE
    /\ Answer("accepted", d, FALSE)
    /\ StartsBacklashMove(d, position')
    /\ \E a \in FreeAddr :
          message' = [message EXCEPT ![a] = [destination |-> d, timer |-> "armed"]]
    /\ UNCHANGED pipe

\* The same up to one of its error returns, which leave the flag as it is set: no
\* memory for the message, no backlash move, no timer.
MoveBacklashError(d) ==
    /\ Ready
    /\ NeedsBacklash(d, position)
    /\ serverBacklash' = TRUE
    /\ Answer("refused", d, TRUE)
    /\ \/ (Failures \/ FreeAddr = {}) /\ UNCHANGED <<goal, backlashMove>>
       \/ FreeAddr # {} /\ RefusesBacklashMove(d, position')
       \/ FreeAddr # {} /\ Failures /\ StartsBacklashMove(d, position')
    /\ UNCHANGED <<message, pipe>>

\* The timer was created and cannot be started: everything is undone except
\* the move to the backlash position.
MoveBacklashTimerError(d) ==
    /\ Ready
    /\ Failures
    /\ NeedsBacklash(d, position)
    /\ FreeAddr # {}
    /\ Answer("refused", d, TRUE)
    /\ StartsBacklashMove(d, position')
    /\ serverBacklash' = FALSE
    /\ UNCHANGED <<message, pipe>>

\* A soft or an immediate abort, which the driver may fail to carry out
Abort ==
    /\ goal' \in Progress \cup (IF Failures THEN {goal} ELSE {})
    /\ serverBacklash' = FALSE
    /\ request' = [request EXCEPT !.kind = "aborted"]
    /\ smooth' = FALSE
    /\ UNCHANGED <<position, backlashMove, message, pipe, direction>>
-----------------------------------------------------------------------------
(* The backlash callback *)

\* mxp_motor_backlash_vtimer_callback(), in the thread of the master timer
Fire(a) ==
    /\ message[a] # NULL
    /\ message[a].timer = "armed"
    /\ message' = [message EXCEPT ![a].timer = "idle"]
    /\ pipe' = Append(pipe, a)
    /\ UNCHANGED <<position, goal, backlashMove, serverBacklash, direction,
                   request, smooth>>

\* FREE_CALLBACK_OBJECTS()
FreeCallbackObjects(a) ==
    /\ serverBacklash' = FALSE
    /\ message' = [message EXCEPT ![a] = NULL]

\* Mutant: the message is freed when the timer has been started again.
RescheduleAndFree(a) ==
    /\ Moving
    /\ message' = [message EXCEPT ![a] = NULL]
    /\ pipe' = Append(Tail(pipe), a)
    /\ UNCHANGED <<goal, backlashMove, serverBacklash, smooth>>

\* Mutant: nothing starts the timer again.
RescheduleNever(a) ==
    /\ Moving
    /\ pipe' = Tail(pipe)
    /\ UNCHANGED <<goal, backlashMove, serverBacklash, message, smooth>>

\* The motor is still moving: look again later.
Reschedule(a) ==
    /\ Moving
    /\ message' = [message EXCEPT ![a].timer = "armed"]
    /\ pipe' = Tail(pipe)
    /\ UNCHANGED <<goal, backlashMove, serverBacklash, smooth>>

\* The status cannot be read or shows an error, or the timer cannot be started
\* again.
GiveUp(a) ==
    /\ Failures
    /\ backlashMove' \in {backlashMove, Settled}
    /\ FreeCallbackObjects(a)
    /\ pipe' = Tail(pipe)
    /\ smooth' = FALSE
    /\ UNCHANGED goal

\* The flag was reset: the move was aborted.
Terminate(a) ==
    /\ ~ Moving
    /\ ~ serverBacklash
    /\ backlashMove' = FALSE
    /\ FreeCallbackObjects(a)
    /\ pipe' = Tail(pipe)
    /\ UNCHANGED <<goal, smooth>>

\* Mutant: the main move starts without a look at the flag.
StartMainMoveAnyway(a) ==
    /\ ~ Moving
    /\ backlashMove' = FALSE
    /\ goal' = message[a].destination
    /\ FreeCallbackObjects(a)
    /\ pipe' = Tail(pipe)
    /\ UNCHANGED smooth

\* Mutant: what the status says of the backlash move is not looked at.
StartMainMoveGateOpen(a) ==
    /\ ~ Moving
    /\ serverBacklash
    /\ goal' = message[a].destination
    /\ FreeCallbackObjects(a)
    /\ pipe' = Tail(pipe)
    /\ UNCHANGED <<backlashMove, smooth>>

\* The motor has stopped: start the main move, unless a limit would be exceeded
\* or the driver fails.
StartMainMove(a) ==
    /\ ~ Moving
    /\ serverBacklash
    /\ backlashMove' = FALSE
    /\ LET d == message[a].destination
       IN  \/ /\ d \in Limits
              /\ goal' = d
              /\ UNCHANGED smooth
           \/ /\ d \notin Limits \/ Failures
              /\ smooth' = FALSE
              /\ UNCHANGED goal
    /\ FreeCallbackObjects(a)
    /\ pipe' = Tail(pipe)

\* mx_motor_backlash_callback(), for the first message of the pipe
Callback ==
    /\ pipe # << >>
    /\ LET a == Head(pipe)
       IN  Reschedule(a) \/ GiveUp(a) \/ Terminate(a) \/ StartMainMove(a)
    /\ UNCHANGED <<position, direction, request>>
-----------------------------------------------------------------------------
Request ==
    \/ GetStatus
    \/ Abort
    \/ \E d \in Destinations :
          \/ MoveDirect(d)
          \/ MoveBacklash(d)
          \/ MoveBacklashError(d)
          \/ MoveBacklashTimerError(d)

Next == MotorStep \/ Request \/ Callback \/ \E a \in Addr : Fire(a)

Spec == Init /\ [][Next]_vars

(* The motor gets to its goal, timers fire, and the main loop reads the pipe *)
(* (PollingGoesOn and FunctionsGoOn of CallbackLoop).                         *)
Fairness ==
    /\ WF_vars(MotorStep)
    /\ WF_vars(Callback)
    /\ \A a \in Addr : WF_vars(Fire(a))

FairSpec == Spec /\ Fairness
-----------------------------------------------------------------------------
(* Properties *)

(* A motor that is not reported busy has reached the destination of the last *)
(* accepted request: a client that waits for the motor, as a scan does,      *)
(* never goes on between the backlash move and the main move.  Whatever      *)
(* happened before, this holds again for the next request that finds the     *)
(* motor at rest.                                                            *)
DestinationReached ==
    smooth /\ request.kind = "accepted" /\ ~ ReportedBusy
        => position = request.destination

(* What backlash correction is for: whenever the motor has come to rest for  *)
(* its clients it came from the same side, against the sign of the correction. *)
ApproachedFromOneSide ==
    smooth /\ ~ ReportedBusy => direction \in {0, - Sign(Backlash)}

(* The gate of d_gated_backlash.c, which is open while                      *)
(* backlash_move_in_progress is set, is never open in a main move.           *)
NoGateInMainMove ==
    smooth /\ backlashMove => goal # request.destination

InPipe(a) == {i \in 1 .. Len(pipe) : pipe[i] = a}

(* However moves, aborts and failures overlap, each message has its timer    *)
(* running or its address in the pipe once, and no freed message is there.   *)
EachMessageInOnePlace ==
    \A a \in Addr :
        IF message[a] # NULL /\ message[a].timer = "idle"
        THEN \E i \in InPipe(a) : InPipe(a) = {i}
        ELSE InPipe(a) = {}

(* A motor that was aborted, and got no other request since, is not set in   *)
(* motion again, whatever callbacks are on their way.                        *)
AbortIsFinal ==
    [][request.kind = "aborted" /\ request'.kind = "aborted" /\ ~ Moving
          => goal' = goal]_vars

(* A motor that is reported busy does not stay so for ever: a backlash move *)
(* ends, and so does the main move after it, unless something fails.        *)
BusyEnds == smooth /\ ReportedBusy ~> ~ ReportedBusy \/ ~ smooth
=============================================================================
