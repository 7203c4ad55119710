-------------------------------- MODULE Toast --------------------------------
(***************************************************************************)
(* A toast operation of an MX server (libMx/o_toast.c): it moves a motor   *)
(* to and fro between two positions until it is told to stop.              *)
(*                                                                         *)
(* It is a function callback (see CallbackLoop): a message with a one-shot *)
(* timer that goes round the timer, the callback pipe and the main thread, *)
(* which runs the callback when it reads the message and serves requests   *)
(* in between.  Each run of the callback looks at the motor and moves the  *)
(* operation on by one state.  The motor moves all the time, other clients *)
(* may move it as well, and the timer can fire again while the callback is *)
(* still at work.  Reading the address of a freed message sets `fault' and *)
(* ends the behaviour.                                                     *)
(***************************************************************************)
EXTENDS Naturals, Sequences

CONSTANTS
    Addr,           \* the memory malloc() finds for callback messages
    PipeSize,       \* the messages of this operation the callback pipe holds
    Flags,          \* whether MXSF_TOAST_USE_FINISH_POSITION is set: the choices
    Failures,       \* the motor, malloc() and the timers may fail
    Garbage,        \* a pointer that is neither NULL nor an address of Addr
    NULL

ASSUME ToastAssumption ==
    /\ PipeSize \in Nat
    /\ Flags \subseteq BOOLEAN
    /\ Failures \in BOOLEAN
    /\ {Garbage, NULL} \cap Addr = {}
    /\ Garbage # NULL

VARIABLES
    toastState,     \* toast->toast_state
    nextState,      \* toast->next_toast_state
    status,         \* operation->status
    message,        \* toast->callback_message
    due,            \* toast->interval_finish_tick has passed
    useFinish,      \* MXSF_TOAST_USE_FINISH_POSITION in toast->toast_flags
    live,           \* the callback messages that are allocated
    timer,          \* timer[a]: the one-shot timer of the message at a
    pipe,           \* the addresses in the callback pipe
    main,           \* the main thread: "loop", or "work" in the callback
    fault,          \* the main thread read the address of a freed message
    goal,           \* where the motor was sent
    motion,         \* what it does
    asked,          \* history: the latest request and whether it is through
    sent,           \* history: where the operation sent the motor last
    disturbed,      \* history: others moved or halted the motor since the request
    lost            \* history: a full pipe or a failed start dropped the message

operation == <<toastState, nextState, status, message, due, useFinish>>
callback == <<live, timer, pipe, main, fault, lost>>
motor == <<goal, motion>>
history == <<asked, sent, disturbed>>
place == <<message, live, timer>>          \* what the end of the operation changes
still == <<useFinish, pipe, fault, lost>>  \* what the work of the callback never does
vars == <<operation, callback, motor, history>>
-----------------------------------------------------------------------------
State == {"unset", "idle", "fault", "moving_to_high", "moving_to_low",
          "in_turnaround", "stopping", "moving_to_finish"}

\* The types, and that callback_message points to the one message there is.
TypeOK ==
    /\ toastState \in State
    /\ nextState \in State
    /\ status \in {"unset", "idle", "busy", "fault"}
    /\ message \in Addr \cup {NULL, Garbage}
    /\ due \in BOOLEAN
    /\ useFinish \in Flags
    /\ live = {message} \cap Addr
    /\ timer \in [Addr -> {"none", "idle", "armed"}]
    /\ pipe \in Seq(Addr)
    /\ main \in {"loop", "work"}
    /\ fault \in BOOLEAN
    /\ goal \in {"high", "low", "finish", "elsewhere"}
    /\ motion \in {"moving", "slowing", "arrived", "halted"}
    /\ asked \in {"none", "run", "stop", "done"}
    /\ sent \in {"none", "high", "low", "finish"}
    /\ disturbed \in BOOLEAN
    /\ lost \in BOOLEAN

\* The structures come from malloc() and nobody clears them: callback_message may
\* look like a message.  The other three are not read before a start sets them.
Init ==
    /\ toastState = "unset"
    /\ nextState = "unset"
    /\ status = "unset"
    /\ message \in {NULL, Garbage}
    /\ due = FALSE
    /\ useFinish \in Flags
    /\ live = {}
    /\ timer = [a \in Addr |-> "none"]
    /\ pipe = << >>
    /\ main = "loop"
    /\ fault = FALSE
    /\ goal = "elsewhere"
    /\ motion \in {"moving", "arrived"}
    /\ asked = "none"
    /\ sent = "none"
    /\ disturbed = FALSE
    /\ lost = FALSE

At(pc) == ~ fault /\ main = pc
-----------------------------------------------------------------------------
(* The motor *)

Busy == motion \in {"moving", "slowing"}

MotorStep ==
    /\ Busy
    /\ motion' = IF motion = "moving" THEN "arrived" ELSE "halted"
    /\ UNCHANGED <<operation, callback, goal, history>>

\* A client moves the motor elsewhere, aborts it, or it runs into a limit switch.
Meddle ==
    /\ \/ At("loop") /\ goal' = "elsewhere" /\ motion' = "moving"
       \/ motion = "moving" /\ motion' = "slowing" /\ UNCHANGED goal
    /\ disturbed' = TRUE
    /\ UNCHANGED <<operation, callback, asked, sent>>
-----------------------------------------------------------------------------
(* The thread of the master timer *)

\* mx_callback_standard_vtimer_handler()
Fire(a) ==
    /\ ~ fault
    /\ timer[a] = "armed"
    /\ timer' = [timer EXCEPT ![a] = "idle"]
    /\ IF Len(pipe) < PipeSize
       THEN pipe' = Append(pipe, a) /\ UNCHANGED lost
       ELSE lost' = TRUE /\ UNCHANGED pipe
    /\ UNCHANGED <<operation, live, main, fault, motor, history>>
-----------------------------------------------------------------------------
(* Requests of clients *)

\* mxo_toast_start() with mx_function_add_callback().  If there is a message, the
\* request is refused and nothing changes.
Start(a) ==
    /\ At("loop")
    /\ message = NULL
    /\ a \notin live
    /\ toastState' = "idle"
    /\ nextState' = "moving_to_high"
    /\ status' = "busy"
    /\ message' = a
    /\ live' = live \cup {a}
    /\ timer' = [timer EXCEPT ![a] = "armed"]
    /\ lost' = FALSE
    /\ asked' = "run"
    /\ sent' = "none"
    /\ disturbed' = FALSE
    /\ UNCHANGED <<due, useFinish, pipe, main, fault, motor>>

\* The callback cannot be added: the operation stays busy, with nobody at work.
StartFails ==
    /\ At("loop")
    /\ message = NULL
    /\ Failures
    /\ toastState' = "idle"
    /\ nextState' = "moving_to_high"
    /\ status' = "busy"
    /\ UNCHANGED <<message, due, useFinish, callback, motor, history>>

\* mxo_toast_stop() with mx_motor_soft_abort(), whatever the state is
Stop ==
    /\ At("loop")
    /\ nextState' = "idle"
    /\ \/ /\ toastState' = "stopping"
          /\ motion' = IF motion = "moving" THEN "slowing" ELSE motion
       \/ /\ Failures
          /\ toastState' = "fault"
          /\ UNCHANGED motion
    /\ IF message \in Addr
       THEN asked' = "stop" /\ disturbed' = FALSE
       ELSE UNCHANGED asked /\ disturbed' = TRUE
    /\ UNCHANGED <<status, message, due, useFinish, callback, goal, sent>>
-----------------------------------------------------------------------------
(* The callback *)

\* The main loop reads an address, and the callback starts its timer before
\* anything else.  If that fails, it returns.
ReadPipe ==
    /\ At("loop")
    /\ pipe # << >>
    /\ pipe' = Tail(pipe)
    /\ \/ /\ Head(pipe) \notin live
          /\ fault' = TRUE
          /\ UNCHANGED <<timer, main, lost>>
       \/ /\ Head(pipe) \in live
          /\ timer' = [timer EXCEPT ![Head(pipe)] = "armed"]
          /\ main' = "work"
          /\ UNCHANGED <<fault, lost>>
       \/ /\ Head(pipe) \in live
          /\ Failures
          /\ timer' = [timer EXCEPT ![Head(pipe)] = "idle"]
          /\ lost' = TRUE
          /\ UNCHANGED <<main, fault>>
    /\ UNCHANGED <<operation, live, motor, history>>

\* One run of the callback ends, with new values of the three.
Work(state, next, stat) ==
    /\ At("work")
    /\ main' = "loop"
    /\ toastState' = state
    /\ nextState' = next
    /\ status' = stat

\* mx_motor_move_absolute() with MXF_MTR_NOWAIT: nobody asks what the motor does.
Move(p) ==
    /\ goal' = p
    /\ motion' = "moving"
    /\ sent' = p

\* The next leg, to where next_toast_state says: the cases of IDLE and of
\* IN_TURNAROUND that move the motor.
Leg ==
    \/ /\ Work(nextState, "in_turnaround", "busy")
       /\ \/ nextState = "moving_to_high" /\ Move("high")
          \/ nextState = "moving_to_low" /\ Move("low")
    \/ /\ nextState \in {"moving_to_high", "moving_to_low"}
       /\ Failures
       /\ Work("fault", nextState, "fault")
       /\ UNCHANGED <<motor, sent>>

\* The status of the motor cannot be read.
StatusFails ==
    /\ toastState \in {"moving_to_high", "moving_to_low", "stopping", "moving_to_finish"}
    /\ Failures
    /\ Work("fault", nextState, "fault")
    /\ UNCHANGED <<place, due, still, motor, history>>

\* MXST_TOAST_FAULT.  Nothing sets MXST_TOAST_TIMED_OUT.
InFault ==
    /\ toastState = "fault"
    /\ Work("fault", nextState, "fault")
    /\ UNCHANGED <<place, due, still, motor, history>>

\* MXST_TOAST_IDLE: the operation begins, or has ended and could not delete its
\* callback.
InIdle ==
    /\ toastState = "idle"
    /\ \/ Leg
       \/ /\ nextState = "idle"
          /\ Work("idle", "idle", "busy")
          /\ UNCHANGED <<motor, sent>>
    /\ UNCHANGED <<place, due, still, asked, disturbed>>

\* Mutant: the turnaround begins without a look at the motor.
MovingUnseen ==
    /\ toastState \in {"moving_to_high", "moving_to_low"}
    /\ Work("in_turnaround",
            IF toastState = "moving_to_high" THEN "moving_to_low" ELSE "moving_to_high",
            "busy")
    /\ due' = FALSE
    /\ UNCHANGED <<place, still, motor, history>>

\* Mutant: the motor is sent where it has just been.
MovingSameWay ==
    /\ toastState \in {"moving_to_high", "moving_to_low"}
    /\ ~ Busy
    /\ Work("in_turnaround", toastState, "busy")
    /\ due' = FALSE
    /\ UNCHANGED <<place, still, motor, history>>

\* MXST_TOAST_MOVING_TO_HIGH, MXST_TOAST_MOVING_TO_LOW
InMoving ==
    /\ toastState \in {"moving_to_high", "moving_to_low"}
    /\ \/ /\ Busy
          /\ Work(toastState, nextState, "busy")
          /\ UNCHANGED due
       \/ /\ ~ Busy
          /\ Work("in_turnaround",
                  IF toastState = "moving_to_high" THEN "moving_to_low"
                  ELSE "moving_to_high",
                  "busy")
          /\ due' = FALSE
    /\ UNCHANGED <<place, still, motor, history>>

\* The clock passes interval_finish_tick.
TurnaroundPasses ==
    /\ toastState = "in_turnaround"
    /\ ~ due
    /\ due' = TRUE
    /\ UNCHANGED <<toastState, nextState, status, message, useFinish, callback, motor,
                   history>>

\* MXST_TOAST_IN_TURNAROUND
InTurnaround ==
    /\ toastState = "in_turnaround"
    /\ \/ /\ ~ due
          /\ Work("in_turnaround", nextState, "busy")
          /\ UNCHANGED <<motor, sent>>
       \/ /\ due
          /\ Leg
    /\ UNCHANGED <<place, due, still, asked, disturbed>>

\* Mutant: the message is freed, and toast->callback_message still points to it.
DeleteCallbackDangling ==
    /\ Work("idle", "idle", "idle")
    /\ live' = live \ {message}
    /\ timer' = [a \in Addr |-> IF a = message THEN "none" ELSE timer[a]]
    /\ message' = message
    /\ asked' = IF asked = "stop" THEN "done" ELSE asked

\* mx_function_delete_callback() destroys the timer and frees the message; the
\* search of the timer for its events may fail.
DeleteCallback ==
    \/ /\ Work("idle", "idle", "idle")
       /\ live' = live \ {message}
       /\ timer' = [a \in Addr |-> IF a = message THEN "none" ELSE timer[a]]
       /\ message' = NULL
       /\ asked' = IF asked = "stop" THEN "done" ELSE asked
    \/ /\ Failures
       /\ Work("idle", "idle", "fault")
       /\ UNCHANGED <<place, asked>>

\* Mutant: the finish position is forgotten.
StoppingInPlace ==
    /\ toastState = "stopping"
    /\ ~ Busy
    /\ DeleteCallback
    /\ UNCHANGED <<due, still, motor, sent, disturbed>>

\* Mutant: toast_state is left at MXST_TOAST_STOPPING by the move to the finish.
StoppingAgain ==
    /\ toastState = "stopping"
    /\ \/ /\ Busy
          /\ Work("stopping", nextState, status)
          /\ UNCHANGED <<motor, sent>>
       \/ /\ ~ Busy
          /\ Work("stopping", "idle", "busy")
          /\ Move("finish")
    /\ UNCHANGED <<place, asked, due, still, disturbed>>

\* MXST_TOAST_STOPPING
InStopping ==
    /\ toastState = "stopping"
    /\ \/ /\ Busy
          /\ Work("stopping", nextState, status)
          /\ UNCHANGED <<place, motor, sent, asked>>
       \/ /\ ~ Busy /\ useFinish
          /\ \/ Work("moving_to_finish", "idle", "busy") /\ Move("finish")
             \/ Failures /\ Work("fault", "idle", "fault") /\ UNCHANGED <<motor, sent>>
          /\ UNCHANGED <<place, asked>>
       \/ /\ ~ Busy /\ ~ useFinish
          /\ DeleteCallback
          /\ UNCHANGED <<motor, sent>>
    /\ UNCHANGED <<due, still, disturbed>>

\* MXST_TOAST_MOVING_TO_FINISH
InMovingToFinish ==
    /\ toastState = "moving_to_finish"
    /\ \/ /\ Busy
          /\ Work("moving_to_finish", nextState, status)
          /\ UNCHANGED <<place, asked>>
       \/ /\ ~ Busy
          /\ DeleteCallback
    /\ UNCHANGED <<due, still, motor, sent, disturbed>>
-----------------------------------------------------------------------------
Callback ==
    \/ StatusFails \/ InFault \/ InIdle \/ InMoving \/ InTurnaround
    \/ InStopping \/ InMovingToFinish

Next ==
    \/ MotorStep \/ Meddle \/ TurnaroundPasses
    \/ \E a \in Addr : Fire(a) \/ Start(a)
    \/ StartFails \/ Stop
    \/ ReadPipe \/ Callback

Spec == Init /\ [][Next]_vars

(* The motor comes to rest, the clock runs, timers that are armed fire and  *)
(* the main loop gets to the messages of the pipe and returns from the      *)
(* callback (FunctionsGoOn of CallbackLoop).  Nothing makes a client send a *)
(* request or the motor fail.                                               *)
Fairness ==
    /\ WF_vars(MotorStep)
    /\ WF_vars(TurnaroundPasses)
    /\ \A a \in Addr : WF_vars(Fire(a))
    /\ WF_vars(ReadPipe \/ Callback)

FairSpec == Spec /\ Fairness
-----------------------------------------------------------------------------
(* Properties *)

(* An operation that was stopped while it was running, and whose motor      *)
(* others left alone since, has ended with the motor at rest, at the finish *)
(* position if there is one, and it can be started again.                   *)
StoppedAtFinish ==
    asked = "done" /\ ~ disturbed =>
        /\ message = NULL
        /\ ~ Busy
        /\ useFinish => goal = "finish" /\ motion = "arrived"

Motion == INSTANCE ToastMotion WITH
    rested <- toastState = "in_turnaround",
    busy <- Busy

(* The operation moves its motor as ToastMotion says: high and low in turn, *)
(* each time after it has seen the motor at rest; nothing but the finish    *)
(* position after a stop, and nothing at all when that is through.          *)
ImplementsMotion == Motion!Spec

Broken == fault \/ lost \/ toastState = "fault"

(* A stop that reaches a running operation brings it back to the idle       *)
(* state, unless clients stop it again and again or move the motor all the  *)
(* time, or something fails.                                                *)
StopEnds ==
    \/ []<><<Stop>>_vars
    \/ []<><<Meddle>>_vars
    \/ asked = "stop" ~> toastState = "idle" \/ Broken

(* An operation that runs and meets no failure goes on to move the motor to *)
(* one position and to the other.                                           *)
GoesToAndFro ==
    \/ []<><<Meddle>>_vars
    \/ <>[](asked = "run") => []<>(sent = "high" \/ Broken) /\ []<>(sent = "low" \/ Broken)
=============================================================================
