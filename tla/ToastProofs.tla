---------------------------- MODULE ToastProofs ----------------------------
(***************************************************************************)
(* Theorems about Toast, for any number of callback messages, any size of  *)
(* the pipe, with and without a finish position and failures.              *)
(***************************************************************************)
EXTENDS Toast, SequenceTheorems, TLAPS

-----------------------------------------------------------------------------
(* Types, and the one message of the operation *)

\* TypeOK holds at the start.
LEMMA TypeInit == Init => TypeOK
<1> SUFFICES ASSUME Init PROVE TypeOK
  OBVIOUS
<1>1. live = {message} \cap Addr BY ToastAssumption DEF Init
<1>2. timer \in [Addr -> {"none", "idle", "armed"}] BY DEF Init
<1>3. pipe \in Seq(Addr) BY DEF Init
<1> QED BY <1>1, <1>2, <1>3 DEF Init, TypeOK, State

\* The work of the callback keeps the types.
LEMMA TypeCallback == TypeOK /\ Callback => TypeOK'
<1> SUFFICES ASSUME TypeOK, Callback PROVE TypeOK'
  OBVIOUS
<1> USE DEF TypeOK, State, place, still, motor, history, Work, Move
<1>1. CASE StatusFails BY <1>1 DEF StatusFails
<1>2. CASE InFault BY <1>2 DEF InFault
<1>3. CASE InIdle BY <1>3 DEF InIdle, Leg
<1>4. CASE InMoving
  <2>1. CASE Busy BY <1>4, <2>1 DEF InMoving
  <2>2. CASE ~ Busy
    <3>1. toastState' \in State /\ nextState' \in State /\ status' = "busy"
      BY <1>4, <2>2 DEF InMoving
    <3>2. due' \in BOOLEAN BY <1>4, <2>2 DEF InMoving
    <3>3. main' = "loop" BY <1>4, <2>2 DEF InMoving
    <3>4. UNCHANGED <<place, still, motor, history>> BY <1>4, <2>2 DEF InMoving
    <3> QED BY <3>1, <3>2, <3>3, <3>4
  <2> QED BY <2>1, <2>2
<1>5. CASE InTurnaround BY <1>5 DEF InTurnaround, Leg
<1>6. ASSUME DeleteCallback, motor' = motor, sent' = sent,
             UNCHANGED <<due, still, disturbed>>
      PROVE  TypeOK'
  <2>1. live' = {message'} \cap Addr
    BY <1>6, ToastAssumption DEF DeleteCallback
  <2> QED BY <1>6, <2>1 DEF DeleteCallback
<1>7. CASE InStopping
  <2>1. CASE Busy /\ Work("stopping", nextState, status) BY <1>7, <2>1 DEF InStopping
  <2>2. CASE ~ Busy /\ useFinish BY <1>7, <2>2 DEF InStopping
  <2>3. CASE ~ Busy /\ ~ useFinish BY <1>6, <1>7, <2>3 DEF InStopping
  <2> QED BY <1>7, <2>1, <2>2, <2>3 DEF InStopping
<1>8. CASE InMovingToFinish
  <2>1. CASE Busy BY <1>8, <2>1 DEF InMovingToFinish
  <2>2. CASE ~ Busy BY <1>6, <1>8, <2>2 DEF InMovingToFinish
  <2> QED BY <2>1, <2>2
<1> QED BY <1>1, <1>2, <1>3, <1>4, <1>5, <1>7, <1>8 DEF Callback

\* TypeOK is inductive.
LEMMA TypeStep == TypeOK /\ [Next]_vars => TypeOK'
<1> SUFFICES ASSUME TypeOK, [Next]_vars PROVE TypeOK'
  OBVIOUS
<1> USE DEF TypeOK, State, operation, callback, motor, history
<1>1. CASE MotorStep BY <1>1 DEF MotorStep
<1>2. CASE Meddle BY <1>2 DEF Meddle
<1>3. CASE TurnaroundPasses BY <1>3 DEF TurnaroundPasses
<1>4. ASSUME NEW a \in Addr, Fire(a) PROVE TypeOK'
  <2>1. pipe' \in Seq(Addr)
    <3>1. Append(pipe, a) \in Seq(Addr) BY AppendProperties
    <3> QED BY <1>4, <3>1 DEF Fire
  <2>2. timer' \in [Addr -> {"none", "idle", "armed"}] BY <1>4 DEF Fire
  <2>3. lost' \in BOOLEAN BY <1>4 DEF Fire
  <2> QED BY <1>4, <2>1, <2>2, <2>3 DEF Fire
<1>5. ASSUME NEW a \in Addr, Start(a) PROVE TypeOK'
  <2>1. live' = {message'} \cap Addr
    <3>1. live = {} BY <1>5, ToastAssumption DEF Start
    <3> QED BY <1>5, <3>1 DEF Start
  <2>2. timer' \in [Addr -> {"none", "idle", "armed"}] BY <1>5 DEF Start
  <2> QED BY <1>5, <2>1, <2>2 DEF Start
<1>6. CASE StartFails BY <1>6 DEF StartFails
<1>7. CASE Stop
  <2>1. toastState' \in State /\ motion' \in {"moving", "slowing", "arrived", "halted"}
    BY <1>7 DEF Stop
  <2>2. disturbed' \in BOOLEAN BY <1>7 DEF Stop
  <2>3. asked' \in {"none", "run", "stop", "done"} BY <1>7 DEF Stop
  <2> QED BY <1>7, <2>1, <2>2, <2>3 DEF Stop
<1>8. CASE ReadPipe
  <2>1. pipe' \in Seq(Addr)
    <3>1. Tail(pipe) \in Seq(Addr) BY <1>8, HeadTailProperties DEF ReadPipe
    <3> QED BY <1>8, <3>1 DEF ReadPipe
  <2>2. timer' \in [Addr -> {"none", "idle", "armed"}] BY <1>8 DEF ReadPipe
  <2>3. fault' \in BOOLEAN /\ lost' \in BOOLEAN BY <1>8 DEF ReadPipe
  <2>4. main' \in {"loop", "work"} BY <1>8 DEF ReadPipe
  <2> QED BY <1>8, <2>1, <2>2, <2>3, <2>4 DEF ReadPipe
<1>9. CASE Callback BY <1>9, TypeCallback
<1>10. CASE UNCHANGED vars BY <1>10 DEF vars
<1> QED BY <1>1, <1>2, <1>3, <1>4, <1>5, <1>6, <1>7, <1>8, <1>9, <1>10 DEF Next

(* The variables of the operation and of its callback have their types, and *)
(* toast->callback_message points to the one message there is: no start     *)
(* makes a second, and the end of the operation leaves none behind.         *)
THEOREM TypeCorrect == Spec => []TypeOK
<1>1. QED BY TypeInit, TypeStep, PTL DEF Spec

-----------------------------------------------------------------------------
(* How the state of the operation goes with what was asked of it *)

Running ==
    asked = "run" =>
        /\ toastState \in {"idle", "fault", "moving_to_high", "moving_to_low",
                           "in_turnaround"}
        /\ toastState = "idle" => nextState = "moving_to_high" /\ sent = "none"
        /\ toastState = "moving_to_high" => sent = "high"
        /\ toastState = "moving_to_low" => sent = "low"
        /\ toastState = "in_turnaround" =>
              \/ nextState = "moving_to_low" /\ sent = "high"
              \/ nextState = "moving_to_high" /\ sent = "low"

Stopping ==
    asked = "stop" =>
        /\ toastState \in {"stopping", "moving_to_finish", "idle", "fault"}
        /\ nextState = "idle"
        /\ toastState = "moving_to_finish" /\ ~ disturbed =>
              goal = "finish" /\ motion \in {"moving", "arrived"}

Resting ==
    asked \in {"none", "done"} =>
        toastState \in {"unset", "idle", "stopping", "fault"}

HasMessage ==
    /\ message \in Addr <=> asked \in {"run", "stop"}
    /\ asked = "done" => message = NULL
    /\ main = "work" => message \in Addr

PhaseInv == HasMessage /\ Running /\ Stopping /\ Resting /\ StoppedAtFinish

\* PhaseInv holds at the start.
LEMMA PhaseInit == Init => PhaseInv
BY ToastAssumption
DEF Init, PhaseInv, HasMessage, Running, Stopping, Resting, StoppedAtFinish

\* The end of the operation leaves the motor at rest where it is.
LEMMA PhaseDelete ==
    ASSUME TypeOK, PhaseInv, DeleteCallback,
           UNCHANGED <<motor, useFinish, sent, disturbed>>,
           asked = "stop", ~ Busy,
           toastState = "moving_to_finish" \/ (toastState = "stopping" /\ ~ useFinish)
    PROVE  PhaseInv'
<1> USE DEF TypeOK, PhaseInv, HasMessage, Running, Stopping, Resting, motor, place,
            Work, DeleteCallback
<1>1. HasMessage'
  <2>1. CASE asked' = "stop" /\ message' = message BY <2>1
  <2>2. CASE asked' = "done" /\ message' = NULL
    <3>1. NULL \notin Addr BY ToastAssumption
    <3>2. main' = "loop" OBVIOUS
    <3> QED BY <2>2, <3>1, <3>2
  <2> QED BY <2>1, <2>2
<1>2. Running' /\ Stopping' /\ Resting' OBVIOUS
<1>3. StoppedAtFinish'
  <2>1. CASE asked' = "stop" BY <2>1 DEF StoppedAtFinish
  <2>2. CASE asked' = "done" /\ message' = NULL BY <2>2 DEF StoppedAtFinish, Busy
  <2> QED BY <2>1, <2>2
<1> QED BY <1>1, <1>2, <1>3

\* The work of the callback keeps PhaseInv.
LEMMA PhaseCallback == TypeOK /\ PhaseInv /\ Callback => PhaseInv'
<1> SUFFICES ASSUME TypeOK, PhaseInv, Callback PROVE PhaseInv'
  OBVIOUS
<1>0. asked \in {"run", "stop"} /\ message \in Addr
  BY DEF Callback, PhaseInv, HasMessage, StatusFails, InFault, InIdle, Leg, InMoving,
         InTurnaround, InStopping, InMovingToFinish, DeleteCallback, Work, At
<1> USE <1>0 DEF TypeOK, PhaseInv, HasMessage, Running, Stopping, Resting,
                 StoppedAtFinish, Busy, place, still, motor, history, Work, Move
<1>1. CASE StatusFails BY <1>1 DEF StatusFails
<1>2. CASE InFault BY <1>2 DEF InFault
<1>3. CASE InIdle BY <1>3 DEF InIdle, Leg
<1>4. CASE InMoving BY <1>4 DEF InMoving
<1>5. CASE InTurnaround BY <1>5 DEF InTurnaround, Leg
<1>6. CASE InStopping
  <2>1. CASE Busy /\ Work("stopping", nextState, status) BY <1>6, <2>1 DEF InStopping
  <2>2. CASE ~ Busy /\ useFinish BY <1>6, <2>2 DEF InStopping
  <2>3. CASE ~ Busy /\ ~ useFinish BY <1>6, <2>3, PhaseDelete DEF InStopping
  <2> QED BY <1>6, <2>1, <2>2, <2>3 DEF InStopping
<1>7. CASE InMovingToFinish
  <2>1. CASE Busy BY <1>7, <2>1 DEF InMovingToFinish
  <2>2. CASE ~ Busy BY <1>7, <2>2, PhaseDelete DEF InMovingToFinish
  <2> QED BY <2>1, <2>2
<1> QED BY <1>1, <1>2, <1>3, <1>4, <1>5, <1>6, <1>7 DEF Callback

\* PhaseInv is inductive, given the types.
LEMMA PhaseStep == TypeOK /\ PhaseInv /\ [Next]_vars => PhaseInv'
<1> SUFFICES ASSUME TypeOK, PhaseInv, [Next]_vars PROVE PhaseInv'
  OBVIOUS
<1> USE DEF TypeOK, PhaseInv, HasMessage, Running, Stopping, Resting,
            StoppedAtFinish, Busy, operation, callback, motor, history
<1>1. CASE MotorStep BY <1>1 DEF MotorStep
<1>2. CASE Meddle BY <1>2 DEF Meddle
<1>3. CASE TurnaroundPasses BY <1>3 DEF TurnaroundPasses
<1>4. ASSUME NEW a \in Addr, Fire(a) PROVE PhaseInv' BY <1>4 DEF Fire
<1>5. ASSUME NEW a \in Addr, Start(a) PROVE PhaseInv'
  BY <1>5, ToastAssumption DEF Start, At
<1>6. CASE StartFails BY <1>6, ToastAssumption DEF StartFails
<1>7. CASE Stop BY <1>7 DEF Stop, At
<1>8. CASE ReadPipe BY <1>8 DEF ReadPipe
<1>9. CASE Callback BY <1>9, PhaseCallback
<1>10. CASE UNCHANGED vars BY <1>10 DEF vars
<1> QED BY <1>1, <1>2, <1>3, <1>4, <1>5, <1>6, <1>7, <1>8, <1>9, <1>10 DEF Next

\* The two invariants together
LEMMA InvCorrect == Spec => [](TypeOK /\ PhaseInv)
<1>1. Init => TypeOK /\ PhaseInv BY TypeInit, PhaseInit
<1>2. TypeOK /\ PhaseInv /\ [Next]_vars => (TypeOK /\ PhaseInv)'
  BY TypeStep, PhaseStep
<1>3. QED BY <1>1, <1>2, PTL DEF Spec

(* An operation that was stopped while it was running ends with its motor   *)
(* at rest, at the finish position if it has one, unless others moved or    *)
(* halted the motor after the stop.                                         *)
THEOREM StoppedCorrect == Spec => []StoppedAtFinish
<1>1. TypeOK /\ PhaseInv => StoppedAtFinish BY DEF PhaseInv
<1>2. QED BY InvCorrect, <1>1, PTL

-----------------------------------------------------------------------------
(* The operation implements ToastMotion *)

\* Initial states map to initial states.
LEMMA MotionInit == Init => Motion!Init
BY DEF Init, Motion!Init, Busy

\* The work of the callback maps to a step of ToastMotion or a stutter.
LEMMA MotionCallback ==
    TypeOK /\ PhaseInv /\ Callback => [Motion!Next]_(Motion!vars)
<1> SUFFICES ASSUME TypeOK, PhaseInv, Callback
             PROVE  Motion!Next \/ UNCHANGED Motion!vars
  OBVIOUS
<1>0. asked \in {"run", "stop"}
  BY DEF Callback, PhaseInv, HasMessage, StatusFails, InFault, InIdle, Leg, InMoving,
         InTurnaround, InStopping, InMovingToFinish, DeleteCallback, Work, At
<1> USE <1>0 DEF PhaseInv, Running, Stopping, Busy, place, still, motor, history,
                 Work, Move, Motion!Next, Motion!vars
<1>1. CASE StatusFails BY <1>1 DEF StatusFails
<1>2. CASE InFault BY <1>2 DEF InFault
<1>3. CASE InIdle
  <2>1. CASE Failures /\ Work("fault", nextState, "fault") /\ UNCHANGED <<motor, sent>>
    BY <1>3, <2>1 DEF InIdle
  <2>2. CASE nextState = "moving_to_high" /\ Work(nextState, "in_turnaround", "busy")
             /\ Move("high")
    <3>1. Motion!Turn BY <1>3, <2>2 DEF InIdle, Motion!Turn
    <3> QED BY <3>1
  <2>3. CASE nextState = "idle" /\ Work("idle", "idle", "busy") /\ UNCHANGED <<motor, sent>>
    BY <1>3, <2>3 DEF InIdle
  <2> QED BY <1>3, <2>1, <2>2, <2>3 DEF InIdle, Leg
<1>4. CASE InMoving
  <2>1. CASE Busy BY <1>4, <2>1 DEF InMoving
  <2>2. CASE ~ Busy
    <3>1. Motion!SeeRest BY <1>4, <2>2 DEF InMoving, Motion!SeeRest
    <3> QED BY <3>1
  <2> QED BY <2>1, <2>2
<1>5. CASE InTurnaround
  <2>1. CASE Work("in_turnaround", nextState, "busy") /\ UNCHANGED <<motor, sent>>
    BY <1>5, <2>1 DEF InTurnaround
  <2>2. CASE Work("fault", nextState, "fault") /\ UNCHANGED <<motor, sent>>
    <3>1. Motion!Fail BY <1>5, <2>2 DEF InTurnaround, Motion!Fail
    <3> QED BY <3>1
  <2>3. CASE Work(nextState, "in_turnaround", "busy")
             /\ \/ nextState = "moving_to_high" /\ Move("high")
                \/ nextState = "moving_to_low" /\ Move("low")
    <3>1. Motion!Turn BY <1>5, <2>3 DEF InTurnaround, Motion!Turn
    <3> QED BY <3>1
  <2> QED BY <1>5, <2>1, <2>2, <2>3 DEF InTurnaround, Leg
<1>6. ASSUME DeleteCallback, UNCHANGED <<motor, sent>>, ~ Busy, asked = "stop",
             toastState # "in_turnaround"
      PROVE  Motion!Next \/ UNCHANGED Motion!vars
  <2>1. CASE asked' = asked BY <1>6, <2>1 DEF DeleteCallback
  <2>2. CASE asked' = "done"
    <3>1. Motion!End BY <1>6, <2>2 DEF DeleteCallback, Motion!End
    <3> QED BY <3>1
  <2> QED BY <1>6, <2>1, <2>2 DEF DeleteCallback
<1>7. CASE InStopping
  <2>1. CASE Busy /\ Work("stopping", nextState, status)
    BY <1>7, <2>1 DEF InStopping
  <2>2. CASE ~ Busy /\ Work("fault", "idle", "fault") /\ UNCHANGED <<motor, sent, asked>>
    BY <1>7, <2>2 DEF InStopping
  <2>3. CASE ~ Busy /\ Work("moving_to_finish", "idle", "busy") /\ Move("finish")
             /\ UNCHANGED asked
    <3>1. Motion!Finish BY <1>7, <2>3 DEF InStopping, Motion!Finish
    <3> QED BY <3>1
  <2>4. CASE ~ Busy /\ DeleteCallback /\ UNCHANGED <<motor, sent>>
    BY <1>6, <1>7, <2>4 DEF InStopping
  <2> QED BY <1>7, <2>1, <2>2, <2>3, <2>4 DEF InStopping
<1>8. CASE InMovingToFinish
  <2>1. CASE Busy BY <1>8, <2>1 DEF InMovingToFinish
  <2>2. CASE ~ Busy BY <1>6, <1>8, <2>2 DEF InMovingToFinish
  <2> QED BY <2>1, <2>2
<1> QED BY <1>1, <1>2, <1>3, <1>4, <1>5, <1>7, <1>8 DEF Callback

\* Every step maps to a step of ToastMotion or a stutter.
LEMMA MotionStep ==
    TypeOK /\ PhaseInv /\ [Next]_vars => [Motion!Next]_(Motion!vars)
<1> SUFFICES ASSUME TypeOK, PhaseInv, [Next]_vars
             PROVE  Motion!Next \/ UNCHANGED Motion!vars
  OBVIOUS
<1> USE DEF operation, callback, motor, history, Motion!Next, Motion!vars
<1>1. CASE MotorStep
  <2>1. Motion!Motor BY <1>1 DEF MotorStep, Motion!Motor, Busy
  <2> QED BY <2>1
<1>2. CASE Meddle
  <2>1. Motion!Motor BY <1>2 DEF Meddle, Motion!Motor, Busy
  <2> QED BY <2>1
<1>3. CASE TurnaroundPasses BY <1>3 DEF TurnaroundPasses, Busy
<1>4. ASSUME NEW a \in Addr, Fire(a) PROVE UNCHANGED Motion!vars
  BY <1>4 DEF Fire, Busy
<1>5. ASSUME NEW a \in Addr, Start(a) PROVE Motion!Start
  BY <1>5, ToastAssumption DEF Start, Motion!Start, Busy, PhaseInv, HasMessage, TypeOK
<1>6. CASE StartFails
  BY <1>6, ToastAssumption DEF StartFails, Busy, PhaseInv, HasMessage, Resting, TypeOK
<1>7. CASE Stop
  <2>1. CASE message \in Addr
    <3>1. Motion!Stop BY <1>7, <2>1 DEF Stop, Motion!Stop, Busy, PhaseInv, HasMessage
    <3> QED BY <3>1
  <2>2. CASE message \notin Addr
    BY <1>7, <2>2 DEF Stop, Busy, PhaseInv, HasMessage, Resting, TypeOK
  <2> QED BY <2>1, <2>2
<1>8. CASE ReadPipe BY <1>8 DEF ReadPipe, Busy
<1>9. CASE Callback BY <1>9, MotionCallback
<1>10. CASE UNCHANGED vars BY <1>10 DEF vars, Busy
<1> QED BY <1>1, <1>2, <1>3, <1>4, <1>5, <1>6, <1>7, <1>8, <1>9, <1>10 DEF Next

(* The operation moves its motor as ToastMotion says, whatever fails and    *)
(* whatever others do to the motor.                                         *)
THEOREM MotionCorrect == Spec => ImplementsMotion
<1>1. QED BY InvCorrect, MotionInit, MotionStep, PTL DEF Spec, ImplementsMotion, Motion!Spec
=============================================================================
