------------------------- MODULE MotorBacklashProofs -------------------------
(***************************************************************************)
(* Proofs about MotorBacklash, for all limits, corrections, destinations   *)
(* and any number of messages, patient clients or not, with or without     *)
(* failures.                                                               *)
(***************************************************************************)
EXTENDS MotorBacklash, TLAPS

-----------------------------------------------------------------------------
(* Sequences *)

LEMMA AppendFacts ==
    ASSUME NEW S, NEW q \in Seq(S), NEW x \in S
    PROVE  /\ Append(q, x) \in Seq(S)
           /\ Len(Append(q, x)) = Len(q) + 1
           /\ \A i \in 1 .. Len(q) : Append(q, x)[i] = q[i]
           /\ Append(q, x)[Len(q) + 1] = x
OBVIOUS

LEMMA TailFacts ==
    ASSUME NEW S, NEW q \in Seq(S), q # << >>
    PROVE  /\ Head(q) \in S
           /\ Head(q) = q[1]
           /\ Tail(q) \in Seq(S)
           /\ Len(q) \in Nat \ {0}
           /\ Len(Tail(q)) = Len(q) - 1
           /\ \A i \in 1 .. Len(q) - 1 : Tail(q)[i] = q[i + 1]
OBVIOUS

-----------------------------------------------------------------------------
(* The invariant of the messages: MessagePlace(a) is EachMessageInOnePlace for *)
(* one address.                                                                *)

MessagePlace(a) ==
    IF message[a] # NULL /\ message[a].timer = "idle"
    THEN \E i \in InPipe(a) : InPipe(a) = {i}
    ELSE InPipe(a) = {}

Inv == TypeOK /\ EachMessageInOnePlace

\* A message that is read from the pipe is allocated, and was there once.
LEMMA HeadOfPipe ==
    ASSUME Inv, pipe # << >>, NEW a \in Addr, a = Head(pipe)
    PROVE  /\ message[a] \in Message
           /\ message[a].timer = "idle"
           /\ InPipe(a) = {1}
<1>1. a = pipe[1] /\ Len(pipe) \in Nat \ {0}
  BY TailFacts DEF Inv, TypeOK
<1>2. 1 \in InPipe(a)
  BY <1>1 DEF InPipe
<1> QED
  BY <1>2 DEF Inv, TypeOK, EachMessageInOnePlace

\* Taking a from the head of the pipe leaves it nowhere in the pipe, and moves the
\* others up.
LEMMA PipeAfterTail ==
    ASSUME Inv, pipe # << >>, pipe' = Tail(pipe), NEW b \in Addr
    PROVE  InPipe(b)' = {i - 1 : i \in InPipe(b) \ {1}}
<1>1. /\ Len(pipe) \in Nat \ {0}
      /\ Len(pipe') = Len(pipe) - 1
      /\ \A i \in 1 .. Len(pipe) - 1 : pipe'[i] = pipe[i + 1]
  BY TailFacts DEF Inv, TypeOK
<1>2. ASSUME NEW i \in InPipe(b)' PROVE i + 1 \in InPipe(b) \ {1} /\ i = (i + 1) - 1
  BY <1>1, <1>2 DEF InPipe
<1>3. ASSUME NEW i \in InPipe(b) \ {1} PROVE i - 1 \in InPipe(b)'
  <2>1. i \in 2 .. Len(pipe) /\ pipe[i] = b
    BY <1>1, <1>3 DEF InPipe
  <2>2. i - 1 \in 1 .. Len(pipe) - 1 /\ (i - 1) + 1 = i
    BY <1>1, <2>1
  <2>3. pipe'[i - 1] = pipe[i]
    BY <1>1, <2>2
  <2> QED
    BY <1>1, <2>1, <2>2, <2>3 DEF InPipe
<1> QED
  BY <1>2, <1>3

LEMMA PipeAfterAppend ==
    ASSUME Inv, NEW a \in Addr, pipe' = Append(pipe, a), NEW b \in Addr
    PROVE  InPipe(b)' = IF b = a THEN InPipe(b) \cup {Len(pipe) + 1} ELSE InPipe(b)
<1>1. /\ Len(pipe) \in Nat
      /\ Len(pipe') = Len(pipe) + 1
      /\ \A i \in 1 .. Len(pipe) : pipe'[i] = pipe[i]
      /\ pipe'[Len(pipe) + 1] = a
  BY AppendFacts DEF Inv, TypeOK
<1> QED
  BY <1>1 DEF InPipe

-----------------------------------------------------------------------------
(* Type correctness *)

LEMMA TypeInit == Init => TypeOK
<1> SUFFICES ASSUME Init PROVE TypeOK
  OBVIOUS
<1>1. position \in Limits /\ goal \in Limits /\ pipe \in Seq(Addr)
  BY DEF Init
<1>2. message \in [Addr -> Message \cup {NULL}]
  BY DEF Init
<1>3. request \in [kind : {"none", "accepted", "refused", "aborted"},
                  destination : Destinations \cup {NULL}]
  BY DEF Init
<1> QED
  BY <1>1, <1>2, <1>3 DEF Init, TypeOK

LEMMA ProgressInLimits ==
    ASSUME TypeOK PROVE Progress \subseteq Limits
BY MotorAssumption DEF TypeOK, Limits, Progress, Sign

LEMMA AnswerType ==
    ASSUME TypeOK, NEW kind \in {"accepted", "refused"}, NEW d \in Destinations,
           NEW trouble \in BOOLEAN, Answer(kind, d, trouble)
    PROVE  /\ position' \in Limits
           /\ direction' \in {-1, 0, 1}
           /\ request' \in [kind : {"none", "accepted", "refused", "aborted"},
                            destination : Destinations \cup {NULL}]
           /\ smooth' \in BOOLEAN
BY ProgressInLimits DEF Answer, Rested

LEMMA BacklashMoveType ==
    ASSUME TypeOK, NEW d, NEW p, StartsBacklashMove(d, p) \/ RefusesBacklashMove(d, p)
    PROVE  goal' \in Limits /\ backlashMove' \in BOOLEAN
BY DEF StartsBacklashMove, RefusesBacklashMove, TypeOK

\* The requests that move the motor
LEMMA MoveType ==
    ASSUME TypeOK, NEW d \in Destinations,
           \/ MoveDirect(d) \/ MoveBacklash(d)
           \/ MoveBacklashError(d) \/ MoveBacklashTimerError(d)
    PROVE  TypeOK'
<1> USE DEF TypeOK
<1>1. CASE MoveDirect(d)
  <2>1. Answer("accepted", d, FALSE) \/ Answer("refused", d, TRUE)
    BY <1>1 DEF MoveDirect
  <2>2. goal' \in Limits
    BY <1>1 DEF MoveDirect
  <2> QED
    BY <1>1, <2>1, <2>2, AnswerType DEF MoveDirect
<1>2. CASE MoveBacklash(d)
  <2>1. message' \in [Addr -> Message \cup {NULL}]
    BY <1>2 DEF MoveBacklash, FreeAddr, Message
  <2> QED
    BY <1>2, <2>1, AnswerType, BacklashMoveType DEF MoveBacklash
<1>3. CASE MoveBacklashError(d)
  <2>1. goal' \in Limits /\ backlashMove' \in BOOLEAN
    BY <1>3, BacklashMoveType DEF MoveBacklashError
  <2> QED
    BY <1>3, <2>1, AnswerType DEF MoveBacklashError
<1>4. CASE MoveBacklashTimerError(d)
  BY <1>4, AnswerType, BacklashMoveType DEF MoveBacklashTimerError
<1> QED
  BY <1>1, <1>2, <1>3, <1>4

\* The four ways the backlash callback ends
LEMMA CallbackType ==
    ASSUME Inv, Callback PROVE TypeOK'
<1> DEFINE a == Head(pipe)
<1>1. /\ pipe # << >>
      /\ Reschedule(a) \/ GiveUp(a) \/ Terminate(a) \/ StartMainMove(a)
      /\ UNCHANGED <<position, direction, request>>
  BY DEF Callback
<1>2. a \in Addr /\ Tail(pipe) \in Seq(Addr)
  BY <1>1, TailFacts DEF Inv, TypeOK
<1>3. message[a] \in Message
  BY <1>1, <1>2, HeadOfPipe
<1>4. pipe' = Tail(pipe)
  BY <1>1 DEF Reschedule, GiveUp, Terminate, StartMainMove
<1>5. message' \in [Addr -> Message \cup {NULL}] /\ serverBacklash' \in BOOLEAN
  <2>1. [message[a] EXCEPT !.timer = "armed"] \in Message
    BY <1>3 DEF Message
  <2>2. \/ message' = [message EXCEPT ![a].timer = "armed"]
        \/ message' = [message EXCEPT ![a] = NULL]
    BY <1>1 DEF Reschedule, GiveUp, Terminate, StartMainMove, FreeCallbackObjects
  <2>3. message' \in [Addr -> Message \cup {NULL}]
    BY <1>2, <2>1, <2>2 DEF Inv, TypeOK
  <2> QED
    BY <1>1, <2>3
       DEF Inv, TypeOK, Reschedule, GiveUp, Terminate, StartMainMove,
           FreeCallbackObjects
<1>6. goal' \in Limits /\ backlashMove' \in BOOLEAN /\ smooth' \in BOOLEAN
  BY <1>1, <1>3
     DEF Inv, TypeOK, Reschedule, GiveUp, Terminate, StartMainMove, Settled
<1> QED
  BY <1>1, <1>2, <1>4, <1>5, <1>6 DEF Inv, TypeOK

LEMMA TypeStep == Inv /\ [Next]_vars => TypeOK'
<1> SUFFICES ASSUME Inv, [Next]_vars
             PROVE  TypeOK'
  OBVIOUS
<1>1. CASE MotorStep
  BY <1>1, MotorAssumption DEF MotorStep, Moving, Sign, Inv, TypeOK, Limits
<1>2. CASE GetStatus
  BY <1>2 DEF GetStatus, Settled, Inv, TypeOK
<1>3. CASE Abort
  <2>1. goal' \in Limits
    BY <1>3, ProgressInLimits DEF Abort, Inv, TypeOK
  <2> QED
    BY <1>3, <2>1 DEF Abort, Inv, TypeOK
<1>4. ASSUME NEW d \in Destinations,
             \/ MoveDirect(d) \/ MoveBacklash(d)
             \/ MoveBacklashError(d) \/ MoveBacklashTimerError(d)
      PROVE  TypeOK'
  BY <1>4, MoveType DEF Inv
<1>5. CASE Callback
  BY <1>5, CallbackType
<1>6. ASSUME NEW a \in Addr, Fire(a) PROVE TypeOK'
  <2>1. Append(pipe, a) \in Seq(Addr)
    BY AppendFacts DEF Inv, TypeOK
  <2>2. message' \in [Addr -> Message \cup {NULL}]
    BY <1>6 DEF Fire, Inv, TypeOK, Message
  <2> QED
    BY <1>6, <2>1, <2>2 DEF Fire, Inv, TypeOK
<1>7. CASE UNCHANGED vars
  BY <1>7 DEF vars, Inv, TypeOK
<1> QED
  BY <1>1, <1>2, <1>3, <1>4, <1>5, <1>6, <1>7 DEF Next, Request

-----------------------------------------------------------------------------
(* Each message in one place *)

LEMMA PlaceInit == Init => EachMessageInOnePlace
BY DEF Init, EachMessageInOnePlace, InPipe

\* Steps that leave the pipe and the messages alone
LEMMA PlaceUnchanged ==
    ASSUME Inv, UNCHANGED <<message, pipe>> PROVE EachMessageInOnePlace'
BY DEF Inv, EachMessageInOnePlace, InPipe

\* A new message has its timer running and is not in the pipe.
LEMMA PlaceMove ==
    ASSUME Inv, NEW d \in Destinations, MoveBacklash(d) PROVE EachMessageInOnePlace'
<1>1. PICK a \in FreeAddr :
          message' = [message EXCEPT ![a] = [destination |-> d, timer |-> "armed"]]
  BY DEF MoveBacklash
<1>2. pipe' = pipe
  BY DEF MoveBacklash
<1>3. ASSUME NEW b \in Addr PROVE MessagePlace(b)'
  <2>1. MessagePlace(b) /\ InPipe(b)' = InPipe(b)
    BY <1>2 DEF Inv, EachMessageInOnePlace, MessagePlace, InPipe
  <2>2. CASE b = a
    BY <1>1, <2>1, <2>2 DEF Inv, TypeOK, FreeAddr, MessagePlace
  <2>3. CASE b # a
    BY <1>1, <2>1, <2>3 DEF Inv, TypeOK, FreeAddr, MessagePlace
  <2> QED
    BY <2>2, <2>3
<1> QED
  BY <1>3 DEF EachMessageInOnePlace, MessagePlace

\* A timer that fires takes its message to the pipe.
LEMMA PlaceFire ==
    ASSUME Inv, NEW a \in Addr, Fire(a) PROVE EachMessageInOnePlace'
<1>1. /\ message[a] \in Message
      /\ message[a].timer = "armed"
      /\ message' = [message EXCEPT ![a].timer = "idle"]
      /\ pipe' = Append(pipe, a)
  BY DEF Fire, Inv, TypeOK
<1>2. message'[a] \in Message /\ message'[a].timer = "idle"
  BY <1>1 DEF Inv, TypeOK, Message
<1>3. ASSUME NEW b \in Addr PROVE MessagePlace(b)'
  <2>1. MessagePlace(b)
    BY DEF Inv, EachMessageInOnePlace, MessagePlace
  <2>2. CASE b = a
    <3>1. InPipe(b) = {}
      BY <1>1, <2>1, <2>2 DEF MessagePlace
    <3>2. InPipe(b)' = {Len(pipe) + 1}
      BY <1>1, <2>2, <3>1, PipeAfterAppend
    <3> QED
      BY <1>2, <2>2, <3>2, MotorAssumption DEF MessagePlace, Message
  <2>3. CASE b # a
    <3>1. InPipe(b)' = InPipe(b)
      BY <1>1, <2>3, PipeAfterAppend
    <3>2. message'[b] = message[b]
      BY <1>1, <2>3 DEF Inv, TypeOK
    <3> QED
      BY <2>1, <3>1, <3>2 DEF MessagePlace
  <2> QED
    BY <2>2, <2>3
<1> QED
  BY <1>3 DEF EachMessageInOnePlace, MessagePlace

\* The callback frees its message or starts its timer again.
LEMMA PlaceCallback ==
    ASSUME Inv, Callback PROVE EachMessageInOnePlace'
<1> DEFINE a == Head(pipe)
<1>1. /\ pipe # << >>
      /\ Reschedule(a) \/ GiveUp(a) \/ Terminate(a) \/ StartMainMove(a)
  BY DEF Callback
<1>2. a \in Addr
  BY <1>1, TailFacts DEF Inv, TypeOK
<1>3. pipe' = Tail(pipe)
  BY <1>1 DEF Reschedule, GiveUp, Terminate, StartMainMove
<1>4. message[a] \in Message /\ InPipe(a) = {1}
  BY <1>1, <1>2, HeadOfPipe
<1>5. \/ message' = [message EXCEPT ![a] = NULL]
      \/ message' = [message EXCEPT ![a].timer = "armed"]
  BY <1>1 DEF Reschedule, GiveUp, Terminate, StartMainMove, FreeCallbackObjects
<1>6. ASSUME NEW b \in Addr PROVE MessagePlace(b)'
  <2>1. MessagePlace(b)
    BY DEF Inv, EachMessageInOnePlace, MessagePlace
  <2>2. InPipe(b)' = {i - 1 : i \in InPipe(b) \ {1}}
    BY <1>1, <1>3, PipeAfterTail
  <2>3. CASE b = a
    <3>1. InPipe(b)' = {}
      BY <1>4, <2>2, <2>3
    <3>2. message'[a] = NULL \/ message'[a].timer = "armed"
      BY <1>2, <1>4, <1>5 DEF Inv, TypeOK, Message
    <3> QED
      BY <2>3, <3>1, <3>2 DEF MessagePlace
  <2>4. CASE b # a
    <3>1. message'[b] = message[b]
      BY <1>2, <1>5, <2>4 DEF Inv, TypeOK
    <3>2. 1 \notin InPipe(b)
      BY <1>1, <2>4, TailFacts DEF InPipe, Inv, TypeOK
    <3>3. ASSUME NEW i \in InPipe(b), InPipe(b) = {i}
          PROVE  InPipe(b)' = {i - 1}
      BY <2>2, <3>2, <3>3
    <3>4. InPipe(b) = {} => InPipe(b)' = {}
      BY <2>2
    <3> QED
      BY <2>1, <3>1, <3>3, <3>4 DEF MessagePlace
  <2> QED
    BY <2>3, <2>4
<1> QED
  BY <1>6 DEF EachMessageInOnePlace, MessagePlace

LEMMA PlaceStep == Inv /\ [Next]_vars => EachMessageInOnePlace'
<1> SUFFICES ASSUME Inv, [Next]_vars
             PROVE  EachMessageInOnePlace'
  OBVIOUS
<1>1. CASE MotorStep \/ GetStatus \/ Abort
  BY <1>1, PlaceUnchanged DEF MotorStep, GetStatus, Abort
<1>2. ASSUME NEW d \in Destinations, MoveBacklash(d) PROVE EachMessageInOnePlace'
  BY <1>2, PlaceMove
<1>3. ASSUME NEW d \in Destinations,
             MoveDirect(d) \/ MoveBacklashError(d) \/ MoveBacklashTimerError(d)
      PROVE  EachMessageInOnePlace'
  BY <1>3, PlaceUnchanged DEF MoveDirect, MoveBacklashError, MoveBacklashTimerError
<1>4. CASE Callback
  BY <1>4, PlaceCallback
<1>5. ASSUME NEW a \in Addr, Fire(a) PROVE EachMessageInOnePlace'
  BY <1>5, PlaceFire
<1>6. CASE UNCHANGED vars
  BY <1>6, PlaceUnchanged DEF vars
<1> QED
  BY <1>1, <1>2, <1>3, <1>4, <1>5, <1>6 DEF Next, Request

LEMMA InvInit == Init => Inv
BY TypeInit, PlaceInit DEF Inv

LEMMA InvStep == Inv /\ [Next]_vars => Inv'
BY TypeStep, PlaceStep DEF Inv

(* Every variable has its type; with it the motor and its goal are within the *)
(* limits, also when it makes a backlash move.                                *)
THEOREM TypeCorrect == Spec => []TypeOK
<1>1. Inv => TypeOK
  BY DEF Inv
<1> QED
  BY <1>1, InvInit, InvStep, PTL DEF Spec

(* However many moves, aborts and failures overlap, each message has its timer *)
(* running or is in the pipe once, and no freed message is there.              *)
THEOREM MessagesCorrect == Spec => []EachMessageInOnePlace
<1>1. Inv => EachMessageInOnePlace
  BY DEF Inv
<1> QED
  BY <1>1, InvInit, InvStep, PTL DEF Spec

-----------------------------------------------------------------------------
(* Aborts *)

\* After an abort the flag is not set until the next request.
AbortInv == request.kind = "aborted" => ~ serverBacklash

LEMMA AbortInvStep == Inv /\ AbortInv /\ [Next]_vars => AbortInv'
<1> SUFFICES ASSUME Inv, AbortInv, [Next]_vars
             PROVE  AbortInv'
  OBVIOUS
<1> USE DEF AbortInv
<1>1. CASE MotorStep \/ GetStatus
  BY <1>1 DEF MotorStep, GetStatus
<1>2. CASE Abort
  BY <1>2 DEF Abort
<1>3. ASSUME NEW d \in Destinations,
             \/ MoveDirect(d) \/ MoveBacklash(d)
             \/ MoveBacklashError(d) \/ MoveBacklashTimerError(d)
      PROVE  AbortInv'
  BY <1>3
     DEF MoveDirect, MoveBacklash, MoveBacklashError, MoveBacklashTimerError, Answer
<1>4. CASE Callback
  <2>1. request' = request /\ (serverBacklash' = FALSE \/ serverBacklash' = serverBacklash)
    BY <1>4 DEF Callback, Reschedule, GiveUp, Terminate, StartMainMove,
                FreeCallbackObjects
  <2> QED
    BY <2>1
<1>5. ASSUME NEW a \in Addr, Fire(a) PROVE AbortInv'
  BY <1>5 DEF Fire
<1>6. CASE UNCHANGED vars
  BY <1>6 DEF vars
<1> QED
  BY <1>1, <1>2, <1>3, <1>4, <1>5, <1>6 DEF Next, Request

(* What AbortIsFinal says of one step *)
StaysAborted ==
    request.kind = "aborted" /\ request'.kind = "aborted" /\ ~ Moving => goal' = goal

LEMMA AbortStep == Inv /\ AbortInv /\ [Next]_vars => [StaysAborted]_vars
<1> SUFFICES ASSUME Inv, AbortInv, [Next]_vars,
                    request.kind = "aborted", request'.kind = "aborted", ~ Moving
             PROVE  goal' = goal
  BY DEF StaysAborted
<1>1. ~ serverBacklash
  BY DEF AbortInv
<1>2. CASE MotorStep \/ GetStatus
  BY <1>2 DEF MotorStep, GetStatus
<1>3. CASE Abort
  <2>1. Progress = {goal}
    BY MotorAssumption DEF Progress, Moving, Sign, Inv, TypeOK, Limits
  <2> QED
    BY <1>3, <2>1 DEF Abort
<1>4. ASSUME NEW d \in Destinations,
             \/ MoveDirect(d) \/ MoveBacklash(d)
             \/ MoveBacklashError(d) \/ MoveBacklashTimerError(d)
      PROVE  FALSE
  BY <1>4
     DEF MoveDirect, MoveBacklash, MoveBacklashError, MoveBacklashTimerError, Answer
<1>5. CASE Callback
  BY <1>1, <1>5 DEF Callback, Reschedule, GiveUp, Terminate, StartMainMove
<1>6. ASSUME NEW a \in Addr, Fire(a) PROVE goal' = goal
  BY <1>6 DEF Fire
<1>7. CASE UNCHANGED vars
  BY <1>7 DEF vars
<1> QED
  BY <1>2, <1>3, <1>4, <1>5, <1>6, <1>7 DEF Next, Request

(* A motor that was aborted and stands still is not set in motion by a callback *)
(* of an earlier move.                                                          *)
THEOREM AbortCorrect == Spec => AbortIsFinal
<1>1. Init => AbortInv
  BY DEF Init, AbortInv
<1> QED
  BY <1>1, InvInit, InvStep, AbortInvStep, AbortStep, PTL
     DEF Spec, AbortIsFinal, StaysAborted

-----------------------------------------------------------------------------
(* The promises of a move: the phases of a request that found the motor at    *)
(* rest, while nothing fails                                                  *)

NoMessages == \A a \in Addr : message[a] = NULL

NotAskedYet ==
    /\ request.kind = "none" /\ ~ Moving /\ direction = 0
    /\ ~ serverBacklash /\ ~ backlashMove /\ NoMessages

\* The motor goes past the destination, and one message waits for its end.
BacklashPhase ==
    /\ request.kind = "accepted" /\ request.destination \in Destinations
    /\ serverBacklash
    /\ Backlash # 0 /\ goal = request.destination + Backlash
    /\ \E a \in Addr : /\ message[a] # NULL
                       /\ message[a].destination = request.destination
                       /\ \A b \in Addr \ {a} : message[b] = NULL

\* The motor goes to the destination, against the sign of the correction.
MainPhase ==
    /\ request.kind = "accepted" /\ request.destination \in Destinations
    /\ ~ serverBacklash /\ ~ backlashMove /\ NoMessages
    /\ goal = request.destination
    /\ ~ NeedsBacklash(goal, position)
    /\ Backlash # 0 /\ ~ Moving => direction \in {0, - Sign(Backlash)}

MoveInv == smooth => NotAskedYet \/ BacklashPhase \/ MainPhase

LEMMA Numbers ==
    ASSUME TypeOK
    PROVE  /\ position \in Int /\ goal \in Int /\ Backlash \in Int
           /\ Destinations \subseteq Int
BY MotorAssumption DEF TypeOK, Limits

\* Without messages there is no callback.
LEMMA CallbackNeedsMessage ==
    ASSUME Inv, Callback PROVE ~ NoMessages
<1>1. pipe # << >> BY DEF Callback
<1>2. PICK a \in Addr : a = Head(pipe) BY <1>1, TailFacts DEF Inv, TypeOK
<1>3. message[a].timer = "idle" /\ message[a] \in Message BY <1>1, <1>2, HeadOfPipe
<1>4. NULL \notin Message BY MotorAssumption DEF Message
<1> QED BY <1>3, <1>4 DEF NoMessages

\* A motor at rest does not move while a request reads its position.
LEMMA AtRest ==
    ASSUME TypeOK, ~ Moving PROVE Progress = {position}
BY Numbers DEF Progress, Moving, Sign

LEMMA MotorStepMoveInv ==
    ASSUME Inv, MoveInv, MotorStep PROVE MoveInv'
<1> SUFFICES ASSUME smooth PROVE (NotAskedYet \/ BacklashPhase \/ MainPhase)'
  BY DEF MoveInv, MotorStep
<1>1. position \in Int /\ goal \in Int /\ Backlash \in Int
  BY Numbers DEF Inv
<1>2. /\ Moving /\ position' = position + Sign(goal - position)
      /\ direction' = Sign(goal - position)
      /\ UNCHANGED <<goal, backlashMove, serverBacklash, message, pipe, request, smooth>>
  BY DEF MotorStep
<1>3. CASE NotAskedYet BY <1>2, <1>3 DEF NotAskedYet
<1>4. CASE BacklashPhase
  <2>1. BacklashPhase' BY <1>2, <1>4 DEF BacklashPhase
  <2> QED BY <2>1
<1>5. CASE MainPhase
  <2>1. ~ NeedsBacklash(goal, position) BY <1>5 DEF MainPhase
  <2>2. ~ NeedsBacklash(goal, position')
    BY <1>1, <1>2, <2>1 DEF NeedsBacklash, Sign, Moving
  <2>3. Backlash # 0 => direction' = - Sign(Backlash)
    BY <1>1, <1>2, <2>1 DEF NeedsBacklash, Sign, Moving
  <2>4. NeedsBacklash(goal, position)' <=> NeedsBacklash(goal, position')
    BY <1>2 DEF NeedsBacklash
  <2>5. NoMessages' BY <1>2, <1>5 DEF MainPhase, NoMessages
  <2>6. MainPhase' BY <1>2, <1>5, <2>2, <2>3, <2>4, <2>5 DEF MainPhase, Sign
  <2> QED BY <2>6
<1> QED BY <1>3, <1>4, <1>5 DEF MoveInv

\* A request that finds the motor at rest and is accepted
LEMMA RequestMoveInv ==
    ASSUME Inv, MoveInv, NEW d \in Destinations,
           \/ MoveDirect(d) \/ MoveBacklash(d)
           \/ MoveBacklashError(d) \/ MoveBacklashTimerError(d)
    PROVE  MoveInv'
<1> SUFFICES ASSUME smooth' PROVE (BacklashPhase \/ MainPhase)'
  BY DEF MoveInv
<1>1. /\ position \in Int /\ goal \in Int /\ Backlash \in Int /\ d \in Int
      /\ NULL \notin Destinations
  BY Numbers, MotorAssumption DEF Inv
<1>2. Rested
  BY DEF MoveDirect, MoveBacklash, MoveBacklashError, MoveBacklashTimerError, Answer
<1>3. /\ ~ Moving /\ ~ serverBacklash /\ ~ backlashMove
      /\ \A a \in Addr : message[a] = NULL
  BY <1>2 DEF Rested, ReportedBusy
<1>4. Progress = {position} BY <1>3, AtRest DEF Inv
<1>5. ~ Answer("refused", d, TRUE) BY DEF Answer
<1>6. ASSUME Answer("accepted", d, FALSE)
      PROVE  /\ position' = position /\ direction' = 0
             /\ request'.kind = "accepted" /\ request'.destination = d
  BY <1>4, <1>6 DEF Answer
<1>7. CASE MoveDirect(d)
  <2>1. /\ ~ NeedsBacklash(d, position) /\ goal' = d /\ Answer("accepted", d, FALSE)
        /\ UNCHANGED <<backlashMove, serverBacklash, message, pipe>>
    BY <1>5, <1>7 DEF MoveDirect
  <2>2. ~ NeedsBacklash(goal, position)'
    BY <1>6, <2>1 DEF NeedsBacklash
  <2>3. MainPhase' BY <1>3, <1>6, <2>1, <2>2 DEF MainPhase, NoMessages
  <2> QED BY <2>3
<1>8. CASE MoveBacklash(d)
  <2>1. /\ NeedsBacklash(d, position) /\ serverBacklash' = TRUE
        /\ Answer("accepted", d, FALSE) /\ StartsBacklashMove(d, position')
    BY <1>8 DEF MoveBacklash
  <2>2. Backlash # 0 /\ goal' = d + Backlash
    BY <1>1, <1>6, <2>1 DEF NeedsBacklash, StartsBacklashMove
  <2>3. PICK a \in Addr :
           message' = [message EXCEPT ![a] = [destination |-> d, timer |-> "armed"]]
    BY <1>8 DEF MoveBacklash, FreeAddr
  <2>4. /\ message'[a] = [destination |-> d, timer |-> "armed"]
        /\ \A b \in Addr \ {a} : message'[b] = NULL
    BY <1>3, <2>3 DEF Inv, TypeOK
  <2>5. message'[a] # NULL
    <3>1. message'[a] \in [destination : Destinations, timer : {"armed", "idle"}]
      BY <2>4
    <3> QED BY <3>1, MotorAssumption
  <2>6. message'[a].destination = d BY <2>4
  <2>7. BacklashPhase' BY <1>6, <2>1, <2>2, <2>4, <2>5, <2>6 DEF BacklashPhase
  <2> QED BY <2>7
<1>9. CASE MoveBacklashError(d) \/ MoveBacklashTimerError(d)
  BY <1>5, <1>9 DEF MoveBacklashError, MoveBacklashTimerError
<1> QED BY <1>7, <1>8, <1>9

\* The callback ends the backlash phase, and no other phase has one.
LEMMA CallbackMoveInv ==
    ASSUME Inv, MoveInv, Callback PROVE MoveInv'
<1> SUFFICES ASSUME smooth' PROVE (BacklashPhase \/ MainPhase)'
  BY DEF MoveInv
<1>1. /\ position \in Int /\ goal \in Int /\ Backlash \in Int /\ Destinations \subseteq Int
  BY Numbers DEF Inv
<1>2. pipe # << >> /\ UNCHANGED <<position, direction, request>> BY DEF Callback
<1>3. PICK a \in Addr : a = Head(pipe) BY <1>2, TailFacts DEF Inv, TypeOK
<1>4. Reschedule(a) \/ GiveUp(a) \/ Terminate(a) \/ StartMainMove(a)
  BY <1>3 DEF Callback
<1>5. smooth /\ ~ GiveUp(a)
  BY <1>4 DEF Reschedule, GiveUp, Terminate, StartMainMove
<1>6. BacklashPhase
  BY <1>5, CallbackNeedsMessage DEF MoveInv, NotAskedYet, MainPhase
<1>7. message[a] \in Message BY <1>2, <1>3, HeadOfPipe
<1>8. /\ message[a].destination = request.destination
      /\ \A b \in Addr \ {a} : message[b] = NULL
  <2>1. NULL \notin Message BY MotorAssumption DEF Message
  <2> QED BY <1>6, <1>7, <2>1 DEF BacklashPhase
<1>9. CASE Reschedule(a)
  <2>1. /\ message' = [message EXCEPT ![a].timer = "armed"]
        /\ UNCHANGED <<goal, backlashMove, serverBacklash, smooth>>
    BY <1>9 DEF Reschedule
  <2>2. message'[a] \in Message /\ message'[a].destination = message[a].destination
    BY <1>7, <2>1 DEF Inv, TypeOK, Message
  <2>3. message'[a] # NULL BY <2>2, MotorAssumption DEF Message
  <2>4. \A b \in Addr \ {a} : message'[b] = NULL BY <1>8, <2>1 DEF Inv, TypeOK
  <2>5. BacklashPhase' BY <1>2, <1>6, <1>8, <2>1, <2>2, <2>3, <2>4 DEF BacklashPhase
  <2> QED BY <2>5
<1>10. CASE Terminate(a) BY <1>6, <1>10 DEF Terminate, BacklashPhase
<1>11. CASE StartMainMove(a)
  <2>1. /\ ~ Moving /\ backlashMove' = FALSE /\ serverBacklash' = FALSE
        /\ message' = [message EXCEPT ![a] = NULL]
        /\ goal' = message[a].destination
    BY <1>5, <1>11 DEF StartMainMove, FreeCallbackObjects
  <2>2. NoMessages' BY <1>8, <2>1 DEF Inv, TypeOK, NoMessages
  <2>3. /\ goal' = request.destination /\ goal' \in Int
        /\ position' = goal' + Backlash /\ Backlash # 0
    BY <1>1, <1>2, <1>6, <1>8, <2>1 DEF BacklashPhase, Moving
  <2>4. ~ NeedsBacklash(goal, position)' BY <1>1, <2>3 DEF NeedsBacklash
  <2>5. Moving' BY <1>1, <2>3 DEF Moving
  <2>6. MainPhase' BY <1>2, <1>6, <2>1, <2>2, <2>3, <2>4, <2>5 DEF MainPhase, BacklashPhase
  <2> QED BY <2>6
<1> QED BY <1>4, <1>5, <1>9, <1>10, <1>11

LEMMA MoveInvStep == Inv /\ MoveInv /\ [Next]_vars => MoveInv'
<1> SUFFICES ASSUME Inv, MoveInv, [Next]_vars PROVE MoveInv'
  OBVIOUS
<1>1. CASE MotorStep BY <1>1, MotorStepMoveInv
<1>2. CASE GetStatus
  <2>1. /\ backlashMove' => backlashMove
        /\ UNCHANGED <<position, goal, serverBacklash, message, pipe, direction,
                       request, smooth>>
    BY <1>2 DEF GetStatus, Settled
  <2>2. NotAskedYet => NotAskedYet' BY <2>1 DEF NotAskedYet, NoMessages, Moving
  <2>3. BacklashPhase => BacklashPhase' BY <2>1 DEF BacklashPhase
  <2>4. MainPhase => MainPhase'
    BY <2>1 DEF MainPhase, NoMessages, Moving, NeedsBacklash
  <2> QED BY <2>1, <2>2, <2>3, <2>4 DEF MoveInv
<1>3. CASE Abort BY <1>3 DEF Abort, MoveInv
<1>4. ASSUME NEW d \in Destinations,
             \/ MoveDirect(d) \/ MoveBacklash(d)
             \/ MoveBacklashError(d) \/ MoveBacklashTimerError(d)
      PROVE  MoveInv'
  BY <1>4, RequestMoveInv
<1>5. CASE Callback BY <1>5, CallbackMoveInv
<1>6. ASSUME NEW a \in Addr, Fire(a) PROVE MoveInv'
  <2>1. /\ message[a] # NULL
        /\ message' = [message EXCEPT ![a].timer = "idle"]
        /\ UNCHANGED <<position, goal, backlashMove, serverBacklash, direction,
                       request, smooth>>
    BY <1>6 DEF Fire
  <2> SUFFICES ASSUME smooth PROVE BacklashPhase'
    BY <2>1 DEF MoveInv
  <2>2. BacklashPhase BY <2>1 DEF MoveInv, NotAskedYet, MainPhase, NoMessages
  <2>3. /\ message[a] \in Message /\ message[a].destination = request.destination
        /\ \A b \in Addr \ {a} : message[b] = NULL
    BY <2>1, <2>2 DEF BacklashPhase, Inv, TypeOK
  <2>4. message'[a] \in Message /\ message'[a].destination = message[a].destination
    BY <2>1, <2>3 DEF Inv, TypeOK, Message
  <2>5. message'[a] # NULL BY <2>4, MotorAssumption DEF Message
  <2>6. \A b \in Addr \ {a} : message'[b] = NULL BY <2>1, <2>3 DEF Inv, TypeOK
  <2> QED BY <2>1, <2>2, <2>3, <2>4, <2>5, <2>6 DEF BacklashPhase
<1>7. CASE UNCHANGED vars
  <2>1. NotAskedYet => NotAskedYet' BY <1>7 DEF vars, NotAskedYet, NoMessages, Moving
  <2>2. BacklashPhase => BacklashPhase' BY <1>7 DEF vars, BacklashPhase
  <2>3. MainPhase => MainPhase'
    BY <1>7 DEF vars, MainPhase, NoMessages, Moving, NeedsBacklash
  <2> QED BY <1>7, <2>1, <2>2, <2>3 DEF vars, MoveInv
<1> QED
  BY <1>1, <1>2, <1>3, <1>4, <1>5, <1>6, <1>7 DEF Next, Request

LEMMA MoveInvariance == Spec => [](Inv /\ MoveInv)
<1>1. Init => MoveInv
  BY DEF Init, MoveInv, NotAskedYet, NoMessages, Moving
<1> QED BY <1>1, InvInit, InvStep, MoveInvStep, PTL DEF Spec

(* A motor that is not reported busy is where the last accepted request asked *)
(* for, and not at the end of a backlash move, for any number of clients that *)
(* move, abort and look, if that request found it at rest and nothing failed. *)
THEOREM DestinationCorrect == Spec => []DestinationReached
<1>1. Inv /\ MoveInv => DestinationReached
  BY DEF MoveInv, NotAskedYet, BacklashPhase, MainPhase, DestinationReached,
         ReportedBusy, Moving
<1> QED BY <1>1, MoveInvariance, PTL

(* The motor comes to rest for its clients from one side only. *)
THEOREM OneSideCorrect ==
    ASSUME Backlash # 0
    PROVE  Spec => []ApproachedFromOneSide
<1>1. Inv /\ MoveInv => ApproachedFromOneSide
  BY DEF MoveInv, NotAskedYet, BacklashPhase, MainPhase, ApproachedFromOneSide,
         ReportedBusy
<1> QED BY <1>1, MoveInvariance, PTL

(* The flag that opens the gate of d_gated_backlash.c is not set in a main move. *)
THEOREM GateCorrect == Spec => []NoGateInMainMove
<1>1. Inv /\ MoveInv => NoGateInMainMove
  <2> SUFFICES ASSUME Inv, MoveInv, smooth, backlashMove
               PROVE  goal # request.destination
    BY DEF NoGateInMainMove
  <2>1. BacklashPhase BY DEF MoveInv, NotAskedYet, MainPhase
  <2>2. Backlash \in Int /\ request.destination \in Int
    BY <2>1, Numbers DEF Inv, BacklashPhase
  <2> QED BY <2>1, <2>2 DEF BacklashPhase
<1> QED BY <1>1, MoveInvariance, PTL
=============================================================================
