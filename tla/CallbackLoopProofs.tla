------------------------- MODULE CallbackLoopProofs -------------------------
(***************************************************************************)
(* Proofs about CallbackLoop, for every number of function callbacks and   *)
(* every size of the pipe.                                                 *)
(***************************************************************************)
EXTENDS CallbackLoop, FiniteSetTheorems, TLAPS

-----------------------------------------------------------------------------
(* Type correctness *)

LEMMA TypeInit == Init => TypeOK
<1> SUFFICES ASSUME Init PROVE TypeOK
  OBVIOUS
<1>1. Poll \in Messages
  BY DEF Messages
<1>2. timer \in [Messages -> {"none", "idle", "armed"}]
  BY DEF Init
<1>3. pipe \in Seq(Messages)
  BY DEF Init
<1>4. main \in [pc : MainPC, message : Messages \cup {NULL}]
  BY DEF Init, MainPC
<1> QED
  BY <1>1, <1>2, <1>3, <1>4 DEF Init, TypeOK

LEMMA TypeStep == TypeOK /\ [Next]_vars => TypeOK'
<1> SUFFICES ASSUME TypeOK, [Next]_vars
             PROVE  TypeOK'
  OBVIOUS
<1> USE DEF TypeOK, MainPC, At, GoTo
<1>1. ASSUME NEW m \in Messages, Fire(m) PROVE TypeOK'
  BY <1>1 DEF Fire, WriteAddress
<1>2. ASSUME NEW m \in Functions, AddFunction(m) PROVE TypeOK'
  BY <1>2 DEF AddFunction, Messages
<1>3. ASSUME NEW m \in Functions, ChangeInterval(m) PROVE TypeOK'
  BY <1>3 DEF ChangeInterval, Messages
<1>4. CASE SocketsDone
  BY <1>4 DEF SocketsDone
<1>5. CASE PipeEmpty
  BY <1>5 DEF PipeEmpty
<1>6. CASE ReadPipe
  <2>1. Head(pipe) \in Messages /\ Tail(pipe) \in Seq(Messages)
    BY <1>6 DEF ReadPipe
  <2>2. pipe' = Tail(pipe) /\ UNCHANGED <<timer, live, lost, overrun>>
    BY <1>6 DEF ReadPipe
  <2>3. CASE GoTo("handler", Head(pipe)) /\ UNCHANGED fault
    BY <2>1, <2>2, <2>3
  <2>4. CASE fault' = TRUE /\ UNCHANGED main
    BY <2>1, <2>2, <2>4
  <2> QED
    BY <1>6, <2>3, <2>4 DEF ReadPipe
<1>7. CASE Restart
  <2>1. main.message \in Messages
    BY <1>7 DEF Restart
  <2> QED
    BY <1>7, <2>1 DEF Restart
<1>8. CASE Return
  BY <1>8 DEF Return
<1>9. CASE DeleteFunction
  BY <1>9 DEF DeleteFunction
<1>10. CASE UNCHANGED vars
  BY <1>10 DEF vars
<1> QED
  BY <1>1, <1>2, <1>3, <1>4, <1>5, <1>6, <1>7, <1>8, <1>9, <1>10
     DEF Next, Request, MainStep

(* The variables keep their types, and a handler that runs has a message:  *)
(* the main loop does not call one when the pipe is empty.                 *)
THEOREM TypeCorrect == Spec => []TypeOK
BY TypeInit, TypeStep, PTL DEF Spec
-----------------------------------------------------------------------------
(* The invariants the proofs use *)

PollInv == Poll \in live /\ PollGoesRound

(* Whatever the main thread is going to look at is allocated.              *)
OnlyLiveMessages ==
    /\ ~ fault
    /\ \A i \in 1 .. Len(pipe) : pipe[i] \in live
    /\ \A m \in Messages : timer[m] # "none" => m \in live
    /\ main.pc \in {"handler", "work"} => main.message \in live

(* A handler that may delete its callback works while the message is not   *)
(* in the pipe.                                                            *)
DeletableInv ==
    \A m \in Deletable :
        /\ AtMostOnePlace(m)
        /\ main = [pc |-> "work", message |-> m] => ~ Queued(m)

StaleInv == overrun = {} => OnlyLiveMessages /\ DeletableInv

SteadyInv == OnlyLiveMessages /\ NothingLost /\ \A m \in live : OnePlace(m)
-----------------------------------------------------------------------------
(* The pipe *)

LEMMA AppendFacts ==
    ASSUME NEW S, NEW q \in Seq(S), NEW x \in S
    PROVE  /\ Len(Append(q, x)) = Len(q) + 1
           /\ \A i \in 1 .. Len(q) : Append(q, x)[i] = q[i]
           /\ Append(q, x)[Len(q) + 1] = x
OBVIOUS

LEMMA TailFacts ==
    ASSUME NEW S, NEW q \in Seq(S), q # << >>
    PROVE  /\ Len(q) \in Nat \ {0}
           /\ Len(Tail(q)) = Len(q) - 1
           /\ \A i \in 1 .. Len(q) - 1 : Tail(q)[i] = q[i + 1]
           /\ Head(q) = q[1]
OBVIOUS

(* A write adds the message at the end, and nothing else.                  *)
LEMMA QueueAfterWrite ==
    ASSUME TypeOK, NEW m \in Messages, NEW n \in Messages,
           pipe' = Append(pipe, n)
    PROVE  /\ Queued(m)' <=> Queued(m) \/ m = n
           /\ (/\ ~ Queued(n) \/ m # n
               /\ \A i, j \in 1 .. Len(pipe) : pipe[i] = m /\ pipe[j] = m => i = j)
              => \A i, j \in 1 .. Len(pipe') : pipe'[i] = m /\ pipe'[j] = m => i = j
<1>1. pipe \in Seq(Messages) /\ Len(pipe) \in Nat
  BY DEF TypeOK
<1>2. /\ Len(pipe') = Len(pipe) + 1
      /\ \A i \in 1 .. Len(pipe) : pipe'[i] = pipe[i]
      /\ pipe'[Len(pipe) + 1] = n
  BY <1>1, AppendFacts
<1>3. 1 .. Len(pipe') = (1 .. Len(pipe)) \cup {Len(pipe) + 1}
  BY <1>1, <1>2
<1>4. Queued(m)' <=> Queued(m) \/ m = n
  BY <1>2, <1>3 DEF Queued
<1> QED
  BY <1>2, <1>3, <1>4 DEF Queued

(* A read takes the first message away.                                    *)
LEMMA QueueAfterRead ==
    ASSUME TypeOK, NEW m \in Messages, pipe # << >>, pipe' = Tail(pipe)
    PROVE  /\ Queued(m)' => Queued(m)
           /\ Queued(m) /\ m # Head(pipe) => Queued(m)'
           /\ Head(pipe) \in Messages /\ Queued(Head(pipe))
           /\ (\A i, j \in 1 .. Len(pipe) : pipe[i] = m /\ pipe[j] = m => i = j)
              => /\ \A i, j \in 1 .. Len(pipe') : pipe'[i] = m /\ pipe'[j] = m => i = j
                 /\ m = Head(pipe) => ~ Queued(m)'
<1>1. pipe \in Seq(Messages)
  BY DEF TypeOK
<1>2. /\ Len(pipe) \in Nat \ {0}
      /\ Len(pipe') = Len(pipe) - 1
      /\ \A i \in 1 .. Len(pipe) - 1 : pipe'[i] = pipe[i + 1]
      /\ Head(pipe) = pipe[1]
  BY <1>1, TailFacts
<1>3. \A i \in 1 .. Len(pipe') : i + 1 \in 1 .. Len(pipe) /\ pipe'[i] = pipe[i + 1]
  BY <1>2
<1>4. Queued(m)' => Queued(m)
  BY <1>3 DEF Queued
<1>5. Queued(m) /\ m # Head(pipe) => Queued(m)'
  <2> SUFFICES ASSUME NEW i \in 1 .. Len(pipe), pipe[i] = m, m # Head(pipe)
               PROVE  Queued(m)'
    BY DEF Queued
  <2>1. i - 1 \in 1 .. Len(pipe') /\ (i - 1) + 1 = i
    BY <1>2
  <2> QED
    BY <1>3, <2>1 DEF Queued
<1>6. Head(pipe) \in Messages /\ Queued(Head(pipe))
  <2>1. 1 \in 1 .. Len(pipe)
    BY <1>2
  <2> QED
    BY <1>1, <1>2, <2>1 DEF Queued
<1>7. ASSUME \A i, j \in 1 .. Len(pipe) : pipe[i] = m /\ pipe[j] = m => i = j
      PROVE  /\ \A i, j \in 1 .. Len(pipe') : pipe'[i] = m /\ pipe'[j] = m => i = j
             /\ m = Head(pipe) => ~ Queued(m)'
  <2>1. \A i, j \in 1 .. Len(pipe') : pipe'[i] = m /\ pipe'[j] = m => i = j
    <3> SUFFICES ASSUME NEW i \in 1 .. Len(pipe'), NEW j \in 1 .. Len(pipe'),
                        pipe'[i] = m, pipe'[j] = m
                 PROVE  i = j
      OBVIOUS
    <3>1. i + 1 = j + 1
      BY <1>3, <1>7
    <3> QED
      BY <3>1, <1>2
  <2>2. ASSUME m = Head(pipe), NEW i \in 1 .. Len(pipe'), pipe'[i] = m
        PROVE  FALSE
    <3>1. i + 1 = 1
      BY <1>2, <1>3, <1>7, <2>2
    <3> QED
      BY <3>1, <1>2
  <2> QED
    BY <2>1, <2>2 DEF Queued
<1> QED
  BY <1>4, <1>5, <1>6, <1>7
-----------------------------------------------------------------------------
(* One message *)

Unique(m) == \A i, j \in 1 .. Len(pipe) : pipe[i] = m /\ pipe[j] = m => i = j

(* No step brings a message to a second place: not the timer, whose write  *)
(* disarms it, and not a handler, which starts the timer of the message it *)
(* took out of the pipe.                                                   *)
LEMMA AtMostOneStep ==
    ASSUME TypeOK, NEW m \in Messages \ Adjustable,
           AtMostOnePlace(m), [Next]_vars,
           m \in Functions /\ AddFunction(m) => ~ Queued(m)
    PROVE  AtMostOnePlace(m)'
<1> USE DEF At, GoTo
<1>1. AtMostOnePlace(m) <=>
        /\ ~ (timer[m] = "armed" /\ (Queued(m) \/ Starting(m)))
        /\ ~ (Queued(m) /\ Starting(m))
        /\ Unique(m)
  BY DEF AtMostOnePlace, Unique
<1>2. AtMostOnePlace(m)' <=>
        /\ ~ (timer'[m] = "armed" /\ (Queued(m)' \/ Starting(m)'))
        /\ ~ (Queued(m)' /\ Starting(m)')
        /\ Unique(m)'
  BY DEF AtMostOnePlace, Unique
<1>3. pipe' = pipe => (Queued(m)' <=> Queued(m)) /\ (Unique(m)' <=> Unique(m))
  BY DEF Queued, Unique
<1>4. timer \in [Messages -> {"none", "idle", "armed"}]
  BY DEF TypeOK
<1>5. ASSUME NEW n \in Messages, Fire(n) PROVE AtMostOnePlace(m)'
  <2>1. Starting(m)' <=> Starting(m)
    BY <1>5 DEF Fire, WriteAddress, Starting
  <2>2. timer'[m] = IF m = n THEN "idle" ELSE timer[m]
    BY <1>4, <1>5 DEF Fire, WriteAddress
  <2>3. CASE pipe' = Append(pipe, n)
    <3>1. Queued(m)' <=> Queued(m) \/ m = n
      BY <2>3, QueueAfterWrite
    <3>2. ~ Queued(n) \/ m # n => (Unique(m) => Unique(m)')
      BY <2>3, QueueAfterWrite DEF Unique
    <3>3. n = m => ~ Queued(m) /\ ~ Starting(m)
      BY <1>1, <1>5 DEF Fire, WriteAddress
    <3> QED
      BY <1>1, <1>2, <2>1, <2>2, <3>1, <3>2, <3>3
  <2>4. CASE pipe' = pipe
    BY <1>1, <1>2, <1>3, <2>1, <2>2, <2>4
  <2> QED
    BY <1>5, <2>3, <2>4 DEF Fire, WriteAddress
<1>6. ASSUME NEW n \in Functions, AddFunction(n) PROVE AtMostOnePlace(m)'
  <2>1. ~ Starting(m)' /\ pipe' = pipe
    BY <1>6 DEF AddFunction, Starting
  <2>2. m = n => ~ Queued(m)
    BY <1>6
  <2>3. m # n => timer'[m] = timer[m]
    BY <1>4, <1>6 DEF AddFunction
  <2> QED
    BY <1>1, <1>2, <1>3, <2>1, <2>2, <2>3
<1>7. ASSUME NEW n \in Functions, ChangeInterval(n) PROVE AtMostOnePlace(m)'
  <2>1. timer'[m] = timer[m] /\ pipe' = pipe /\ main' = main
    BY <1>4, <1>7 DEF ChangeInterval
  <2> QED
    BY <1>1, <1>2, <1>3, <2>1 DEF Starting
<1>8. CASE SocketsDone
  <2>1. ~ Starting(m)' /\ pipe' = pipe /\ timer' = timer
    BY <1>8 DEF SocketsDone, Starting
  <2> QED
    BY <1>1, <1>2, <1>3, <2>1
<1>9. CASE PipeEmpty
  <2>1. ~ Starting(m)' /\ pipe' = pipe /\ timer' = timer
    BY <1>9 DEF PipeEmpty, Starting
  <2> QED
    BY <1>1, <1>2, <1>3, <2>1
<1>10. CASE ReadPipe
  <2>1. pipe # << >> /\ pipe' = Tail(pipe) /\ timer' = timer /\ ~ Starting(m)
    BY <1>10 DEF ReadPipe, Starting
  <2>2. Starting(m)' => m = Head(pipe)
    BY <1>10 DEF ReadPipe, Starting
  <2>3. /\ Queued(m)' => Queued(m)
        /\ Queued(Head(pipe))
        /\ Unique(m) => Unique(m)' /\ (m = Head(pipe) => ~ Queued(m)')
    BY <2>1, QueueAfterRead DEF Unique
  <2> QED
    BY <1>1, <1>2, <2>1, <2>2, <2>3
<1>11. CASE Restart
  <2>1. ~ Starting(m)' /\ pipe' = pipe
    BY <1>11 DEF Restart, Starting
  <2>2. main.message = m => Starting(m)
    BY <1>11 DEF Restart, Starting, TypeOK
  <2>3. main.message # m => timer'[m] = timer[m]
    BY <1>4, <1>11 DEF Restart
  <2> QED
    BY <1>1, <1>2, <1>3, <2>1, <2>2, <2>3
<1>12. CASE Return
  <2>1. ~ Starting(m)' /\ pipe' = pipe /\ timer' = timer
    BY <1>12 DEF Return, Starting
  <2> QED
    BY <1>1, <1>2, <1>3, <2>1
<1>13. CASE DeleteFunction
  <2>1. ~ Starting(m)' /\ pipe' = pipe
    BY <1>13 DEF DeleteFunction, Starting
  <2>2. timer'[m] = "armed" => timer[m] = "armed"
    BY <1>4, <1>13 DEF DeleteFunction
  <2> QED
    BY <1>1, <1>2, <1>3, <2>1, <2>2
<1>14. CASE UNCHANGED vars
  BY <1>1, <1>2, <1>3, <1>14 DEF vars, Starting
<1> QED
  BY <1>5, <1>6, <1>7, <1>8, <1>9, <1>10, <1>11, <1>12, <1>13, <1>14
     DEF Next, Request, MainStep

Somewhere(m) == timer[m] = "armed" \/ Queued(m) \/ Starting(m)

(* A step that neither drops a message nor frees it leaves it somewhere.   *)
LEMMA SomewhereStep ==
    ASSUME TypeOK, NEW m \in Messages, Somewhere(m),
           [Next]_vars, m \notin lost', m \in live'
    PROVE  Somewhere(m)'
<1> USE DEF At, GoTo
<1>1. Somewhere(m)' <=> timer'[m] = "armed" \/ Queued(m)' \/ Starting(m)'
  BY DEF Somewhere
<1>2. pipe' = pipe => (Queued(m)' <=> Queued(m))
  BY DEF Queued
<1>3. timer \in [Messages -> {"none", "idle", "armed"}]
  BY DEF TypeOK
<1>4. ASSUME NEW n \in Messages, Fire(n) PROVE Somewhere(m)'
  <2>1. Starting(m)' <=> Starting(m)
    BY <1>4 DEF Fire, WriteAddress, Starting
  <2>2. m # n => timer'[m] = timer[m]
    BY <1>3, <1>4 DEF Fire, WriteAddress
  <2>3. CASE pipe' = Append(pipe, n)
    <3>1. Queued(m)' <=> Queued(m) \/ m = n
      BY <2>3, QueueAfterWrite
    <3> QED
      BY <1>1, <2>1, <2>2, <3>1 DEF Somewhere
  <2>4. CASE pipe' = pipe /\ lost' = lost \cup {n}
    BY <1>1, <1>2, <2>1, <2>2, <2>4 DEF Somewhere
  <2> QED
    BY <1>4, <2>3, <2>4 DEF Fire, WriteAddress
<1>5. ASSUME NEW n \in Functions, AddFunction(n) PROVE Somewhere(m)'
  <2>1. ~ Starting(m) /\ pipe' = pipe
    BY <1>5 DEF AddFunction, Starting
  <2>2. timer'[m] = IF m = n THEN "armed" ELSE timer[m]
    BY <1>3, <1>5 DEF AddFunction
  <2> QED
    BY <1>1, <1>2, <2>1, <2>2 DEF Somewhere
<1>6. ASSUME NEW n \in Functions, ChangeInterval(n) PROVE Somewhere(m)'
  <2>1. ~ Starting(m) /\ pipe' = pipe
    BY <1>6 DEF ChangeInterval, Starting
  <2>2. timer'[m] = IF m = n THEN "armed" ELSE timer[m]
    BY <1>3, <1>6 DEF ChangeInterval
  <2> QED
    BY <1>1, <1>2, <2>1, <2>2 DEF Somewhere
<1>7. CASE SocketsDone
  <2>1. ~ Starting(m) /\ pipe' = pipe /\ timer' = timer
    BY <1>7 DEF SocketsDone, Starting
  <2> QED
    BY <1>1, <1>2, <2>1 DEF Somewhere
<1>8. CASE PipeEmpty
  <2>1. ~ Starting(m) /\ pipe' = pipe /\ timer' = timer
    BY <1>8 DEF PipeEmpty, Starting
  <2> QED
    BY <1>1, <1>2, <2>1 DEF Somewhere
<1>9. CASE ReadPipe
  <2>1. pipe # << >> /\ pipe' = Tail(pipe) /\ timer' = timer /\ ~ Starting(m)
    BY <1>9 DEF ReadPipe, Starting
  <2>2. m = Head(pipe) => Starting(m)'
    BY <1>9 DEF ReadPipe, Starting
  <2>3. Queued(m) /\ m # Head(pipe) => Queued(m)'
    BY <2>1, QueueAfterRead
  <2> QED
    BY <1>1, <2>1, <2>2, <2>3 DEF Somewhere
<1>10. CASE Restart
  <2>1. pipe' = pipe
    BY <1>10 DEF Restart
  <2>2. Starting(m) => main.message = m
    BY DEF Starting
  <2>3. main.message # m => timer'[m] = timer[m]
    BY <1>3, <1>10 DEF Restart
  <2>4. main.message = m => timer'[m] = "armed"
    BY <1>3, <1>10 DEF Restart
  <2> QED
    BY <1>1, <1>2, <2>1, <2>2, <2>3, <2>4 DEF Somewhere
<1>11. CASE Return
  <2>1. ~ Starting(m) /\ pipe' = pipe /\ timer' = timer
    BY <1>11 DEF Return, Starting
  <2> QED
    BY <1>1, <1>2, <2>1 DEF Somewhere
<1>12. CASE DeleteFunction
  <2>1. ~ Starting(m) /\ pipe' = pipe
    BY <1>12 DEF DeleteFunction, Starting
  <2>2. timer'[m] = timer[m]
    BY <1>3, <1>12 DEF DeleteFunction
  <2> QED
    BY <1>1, <1>2, <2>1, <2>2 DEF Somewhere
<1>13. CASE UNCHANGED vars
  BY <1>1, <1>2, <1>13 DEF vars, Starting, Somewhere
<1> QED
  BY <1>4, <1>5, <1>6, <1>7, <1>8, <1>9, <1>10, <1>11, <1>12, <1>13
     DEF Next, Request, MainStep
-----------------------------------------------------------------------------
(* The poll message *)

LEMMA PollInit == Init => PollInv
<1> SUFFICES ASSUME Init PROVE PollInv
  OBVIOUS
<1>1. timer[Poll] = "armed" /\ ~ Starting(Poll)
  BY DEF Init, Messages, Starting
<1>2. Len(pipe) = 0
  BY DEF Init
<1>3. ~ Queued(Poll)
  BY <1>2 DEF Queued
<1> QED
  BY <1>1, <1>2, <1>3 DEF Init, PollInv, PollGoesRound, OnePlace, AtMostOnePlace

LEMMA PollStep ==
    TypeOK /\ PollInv /\ [Next]_vars => PollInv'
<1> SUFFICES ASSUME TypeOK, PollInv, [Next]_vars PROVE PollInv'
  OBVIOUS
<1>1. Poll \in Messages \ Adjustable /\ Poll \notin Functions
  BY CallbackAssumption DEF Messages
<1>2. Poll \in live'
  BY <1>1, CallbackAssumption DEF PollInv, Next, Request, MainStep, Fire, WriteAddress, AddFunction,
     ChangeInterval, SocketsDone, PipeEmpty, ReadPipe, Restart, Return,
     DeleteFunction, vars
<1>3. Poll \notin lost' => Poll \notin lost
  BY <1>1 DEF Next, Request, MainStep, Fire, WriteAddress, AddFunction, ChangeInterval,
     SocketsDone, PipeEmpty, ReadPipe, Restart, Return, DeleteFunction, vars
<1>4. ASSUME Poll \notin lost' PROVE OnePlace(Poll)'
  <2>1. OnePlace(Poll)
    BY <1>3, <1>4 DEF PollInv, PollGoesRound
  <2>2. AtMostOnePlace(Poll)'
    BY <1>1, <2>1, AtMostOneStep DEF OnePlace
  <2>3. Somewhere(Poll)'
    BY <1>1, <1>2, <1>4, <2>1, SomewhereStep DEF OnePlace, Somewhere
  <2> QED
    BY <2>2, <2>3 DEF OnePlace, Somewhere
<1> QED
  BY <1>2, <1>4 DEF PollInv, PollGoesRound

(* The poll message is in exactly one place for as long as no write found  *)
(* the pipe full and no start of its timer failed, whatever is added,      *)
(* deleted, changed and dropped beside it.                                 *)
THEOREM PollCorrect == Spec => []PollGoesRound
<1>1. PollInv => PollGoesRound
  BY DEF PollInv
<1> QED
  BY TypeInit, TypeStep, PollInit, PollStep, <1>1, PTL DEF Spec
-----------------------------------------------------------------------------
(* Freed messages *)

LEMMA LiveInit == Init => OnlyLiveMessages /\ DeletableInv
<1> SUFFICES ASSUME Init PROVE OnlyLiveMessages /\ DeletableInv
  OBVIOUS
<1>1. Len(pipe) = 0 /\ 1 .. Len(pipe) = {}
  BY DEF Init
<1>2. \A m \in Messages : m # Poll => timer[m] = "none"
  BY DEF Init
<1>3. \A m \in Deletable : m \in Messages /\ m # Poll
  BY CallbackAssumption DEF Messages
<1>4. OnlyLiveMessages
  BY <1>1, <1>2 DEF Init, OnlyLiveMessages
<1>5. DeletableInv
  BY <1>1, <1>2, <1>3 DEF Init, DeletableInv, AtMostOnePlace, Queued, Starting
<1> QED
  BY <1>4, <1>5

LEMMA LiveStep ==
    ASSUME TypeOK, OnlyLiveMessages, DeletableInv, [Next]_vars,
           overrun' = {} \/ Deletable = {},
           Deletable \cap Adjustable = {}
    PROVE  OnlyLiveMessages' /\ DeletableInv'
<1> USE DEF At, GoTo
<1>1. timer \in [Messages -> {"none", "idle", "armed"}] /\ pipe \in Seq(Messages)
  BY DEF TypeOK
<1>2. \A m \in Messages : m \notin live => ~ Queued(m)
  BY DEF OnlyLiveMessages, Queued
<1>3. pipe' = pipe => \A m : Queued(m)' <=> Queued(m)
  BY DEF Queued
<1>4. ASSUME NEW m \in Deletable PROVE AtMostOnePlace(m)'
  <2>1. m \in Messages \ Adjustable
    BY <1>4, CallbackAssumption DEF Messages
  <2>2. m \in Functions /\ AddFunction(m) => ~ Queued(m)
    BY <1>2, <2>1 DEF AddFunction
  <2> QED
    BY <1>4, <2>1, <2>2, AtMostOneStep DEF DeletableInv
<1>5. ASSUME NEW m \in Deletable, main' = [pc |-> "work", message |-> m]
      PROVE  ~ Queued(m)'
  <2>1. m \in Messages /\ (main = [pc |-> "work", message |-> m] => ~ Queued(m))
    BY <1>5, CallbackAssumption DEF DeletableInv, Messages
  <2>2. main.pc = "work" /\ main' = main => ~ Queued(m)
    BY <1>5, <2>1
  <2>3. ASSUME NEW n \in Messages, Fire(n) PROVE ~ Queued(m)'
    <3>1. main = [pc |-> "work", message |-> m]
      BY <1>5, <2>3 DEF Fire, WriteAddress
    <3>2. n # m
      <4> SUFFICES ASSUME n = m PROVE FALSE
        OBVIOUS
      <4>1. overrun' = overrun \cup {m}
        BY <2>3, <3>1 DEF Fire, WriteAddress
      <4> QED
        BY <1>5, <4>1
    <3>3. ~ Queued(m)
      BY <2>1, <3>1
    <3>4. pipe' = Append(pipe, n) \/ pipe' = pipe
      BY <2>3 DEF Fire, WriteAddress
    <3> QED
      BY <1>3, <2>1, <3>2, <3>3, <3>4, QueueAfterWrite
  <2>4. CASE Restart
    <3>1. main.message = m /\ pipe' = pipe
      BY <1>5, <2>4 DEF Restart
    <3>2. Starting(m)
      BY <2>4, <3>1 DEF Restart, Starting, TypeOK
    <3> QED
      BY <1>3, <1>5, <3>1, <3>2 DEF DeletableInv, AtMostOnePlace
  <2>5. CASE UNCHANGED vars
    BY <1>3, <1>5, <2>1, <2>5 DEF vars
  <2>6. ASSUME NEW n \in Functions, AddFunction(n) PROVE FALSE
    BY <1>5, <2>6 DEF AddFunction
  <2>7. ASSUME NEW n \in Functions, ChangeInterval(n) PROVE FALSE
    BY <1>5, <2>7 DEF ChangeInterval
  <2>8. ~ (SocketsDone \/ PipeEmpty \/ Return \/ DeleteFunction)
    BY <1>5 DEF SocketsDone, PipeEmpty, Return, DeleteFunction
  <2>9. ~ ReadPipe
    BY <1>5 DEF ReadPipe
  <2> QED
    BY <2>3, <2>4, <2>5, <2>6, <2>7, <2>8, <2>9 DEF Next, Request, MainStep
<1>6. OnlyLiveMessages'
  <2> USE DEF OnlyLiveMessages
  <2>1. ASSUME NEW n \in Messages, Fire(n) PROVE OnlyLiveMessages'
    <3>1. n \in live /\ live' = live /\ main' = main /\ fault' = fault
      BY <2>1 DEF Fire, WriteAddress
    <3>2. \A m \in Messages : timer'[m] # "none" => timer[m] # "none"
      BY <1>1, <2>1 DEF Fire, WriteAddress
    <3>3. \A i \in 1 .. Len(pipe') : pipe'[i] \in live
      <4>1. CASE pipe' = Append(pipe, n)
        BY <1>1, <3>1, <4>1, AppendFacts
      <4>2. CASE pipe' = pipe
        BY <4>2
      <4> QED
        BY <2>1, <4>1, <4>2 DEF Fire, WriteAddress
    <3> QED
      BY <3>1, <3>2, <3>3
  <2>2. ASSUME NEW n \in Functions, AddFunction(n) PROVE OnlyLiveMessages'
    BY <1>1, <2>2 DEF AddFunction
  <2>3. ASSUME NEW n \in Functions, ChangeInterval(n) PROVE OnlyLiveMessages'
    BY <1>1, <2>3 DEF ChangeInterval
  <2>4. CASE SocketsDone
    BY <2>4 DEF SocketsDone
  <2>5. CASE PipeEmpty
    BY <2>5 DEF PipeEmpty
  <2>6. CASE ReadPipe
    <3>1. pipe # << >> /\ pipe' = Tail(pipe) /\ UNCHANGED <<timer, live>>
      BY <2>6 DEF ReadPipe
    <3>2. /\ Len(pipe) \in Nat \ {0}
          /\ Len(pipe') = Len(pipe) - 1
          /\ \A i \in 1 .. Len(pipe) - 1 : pipe'[i] = pipe[i + 1]
          /\ Head(pipe) = pipe[1]
      BY <1>1, <3>1, TailFacts
    <3>3. Head(pipe) \in live
      BY <3>2
    <3>4. \A i \in 1 .. Len(pipe') : pipe'[i] \in live
      BY <3>2
    <3>5. fault' = fault /\ main' = [pc |-> "handler", message |-> Head(pipe)]
      BY <2>6, <3>3 DEF ReadPipe
    <3> QED
      BY <3>1, <3>3, <3>4, <3>5
  <2>7. CASE Restart
    BY <1>1, <2>7 DEF Restart
  <2>8. CASE Return
    BY <2>8 DEF Return
  <2>9. CASE DeleteFunction
    <3>1. /\ main.message \in Deletable
          /\ main = [pc |-> "work", message |-> main.message]
      BY <2>9 DEF DeleteFunction, TypeOK
    <3>2. ~ Queued(main.message)
      BY <3>1 DEF DeletableInv
    <3> QED
      BY <1>1, <2>9, <3>2 DEF DeleteFunction, Queued
  <2>10. CASE UNCHANGED vars
    BY <2>10 DEF vars
  <2> QED
    BY <2>1, <2>2, <2>3, <2>4, <2>5, <2>6, <2>7, <2>8, <2>9, <2>10
       DEF Next, Request, MainStep
<1> QED
  BY <1>4, <1>5, <1>6 DEF DeletableInv

(* As long as no function callback that deletes itself also has its        *)
(* interval changed by clients, the main thread meets a freed message only *)
(* if a timer fired during the handler that deleted the message.           *)
THEOREM StaleCorrect ==
    ASSUME Deletable \cap Adjustable = {}
    PROVE  Spec => []StaleOnlyAfterOverrun
<1>1. Init => StaleInv
  BY LiveInit DEF StaleInv
<1>2. TypeOK /\ StaleInv /\ [Next]_vars => StaleInv'
  <2> SUFFICES ASSUME TypeOK, StaleInv, [Next]_vars, overrun' = {}
               PROVE  OnlyLiveMessages' /\ DeletableInv'
    BY DEF StaleInv
  <2>1. overrun = {}
    BY DEF Next, Request, MainStep, Fire, WriteAddress, AddFunction, ChangeInterval, SocketsDone,
       PipeEmpty, ReadPipe, Restart, Return, DeleteFunction, vars
  <2> QED
    BY <2>1, LiveStep DEF StaleInv
<1>3. StaleInv => StaleOnlyAfterOverrun
  BY DEF StaleInv, OnlyLiveMessages, StaleOnlyAfterOverrun
<1> QED
  BY TypeInit, TypeStep, <1>1, <1>2, <1>3, PTL DEF Spec
-----------------------------------------------------------------------------
(* Callbacks that are neither deleted nor changed *)

Steady ==
    /\ Deletable = {}
    /\ Adjustable = {}
    /\ ~ TimersFail
    /\ Cardinality(Functions) < PipeSize

(* A message whose timer is running has room in the pipe: the others are   *)
(* in it once at most.                                                     *)
LEMMA RoomForOneMore ==
    ASSUME TypeOK, SteadyInv, Steady, NEW m \in Messages, timer[m] = "armed"
    PROVE  Len(pipe) < PipeSize
<1>1. pipe \in Seq(Messages) /\ Len(pipe) \in Nat
  BY DEF TypeOK
<1>2. /\ IsFiniteSet(Messages)
      /\ Cardinality(Messages) = Cardinality(Functions) + 1
      /\ Cardinality(Functions) \in Nat
  BY CallbackAssumption, FS_AddElement, FS_CardinalityType DEF Messages
<1>3. /\ IsFiniteSet(Messages \ {m})
      /\ Cardinality(Messages \ {m}) = Cardinality(Functions)
  BY <1>2, FS_RemoveElement
<1>4. IsFiniteSet(1 .. Len(pipe)) /\ Cardinality(1 .. Len(pipe)) = Len(pipe)
  BY <1>1, FS_Interval
<1>5. ~ Queued(m)
  BY DEF SteadyInv, OnlyLiveMessages, OnePlace, AtMostOnePlace
<1>6. pipe \in [1 .. Len(pipe) -> Messages \ {m}]
  BY <1>1, <1>5 DEF Queued
<1>7. \A i, j \in 1 .. Len(pipe) : pipe[i] = pipe[j] => i = j
  BY DEF SteadyInv, OnlyLiveMessages, OnePlace, AtMostOnePlace
<1>8. ~ (Cardinality(Messages \ {m}) < Cardinality(1 .. Len(pipe)))
  BY <1>3, <1>4, <1>6, <1>7, FS_PigeonHole
<1> QED
  BY <1>1, <1>2, <1>3, <1>4, <1>8, CallbackAssumption DEF Steady

LEMMA SteadyInit == Init => SteadyInv
<1> SUFFICES ASSUME Init PROVE SteadyInv
  OBVIOUS
<1>1. live = {Poll} /\ lost = {}
  BY DEF Init
<1>2. OnePlace(Poll)
  BY <1>1, PollInit DEF PollInv, PollGoesRound
<1> QED
  BY <1>1, <1>2, LiveInit DEF SteadyInv, NothingLost

LEMMA SteadyStep ==
    ASSUME Steady
    PROVE  TypeOK /\ SteadyInv /\ [Next]_vars => SteadyInv'
<1> SUFFICES ASSUME TypeOK, SteadyInv, [Next]_vars PROVE SteadyInv'
  OBVIOUS
<1>1. OnlyLiveMessages'
  BY LiveStep DEF SteadyInv, Steady, DeletableInv
<1>2. lost' = {}
  <2>1. ASSUME NEW m \in Messages, Fire(m) PROVE lost' = {}
    BY <2>1, RoomForOneMore DEF Fire, WriteAddress, SteadyInv, NothingLost
  <2> QED
    BY <2>1 DEF SteadyInv, NothingLost, Steady, Next, Request, MainStep, AddFunction,
       ChangeInterval, SocketsDone, PipeEmpty, ReadPipe, Restart, Return,
       DeleteFunction, vars
<1>3. ASSUME NEW m \in live' PROVE OnePlace(m)'
  <2>1. m \in Messages
    BY <1>3, TypeStep DEF TypeOK
  <2>2. CASE m \in live
    <3>1. OnePlace(m)
      BY <2>2 DEF SteadyInv
    <3>2. AtMostOnePlace(m)'
      <4>1. m \in Functions /\ AddFunction(m) => ~ Queued(m)
        BY <2>2 DEF AddFunction
      <4> QED
        BY <2>1, <3>1, <4>1, AtMostOneStep DEF OnePlace, Steady
    <3>3. Somewhere(m)'
      BY <1>2, <1>3, <2>1, <3>1, SomewhereStep DEF OnePlace, Somewhere
    <3> QED
      BY <3>2, <3>3 DEF OnePlace, Somewhere
  <2>3. CASE m \notin live
    <3>1. ~ Queued(m) /\ timer[m] = "none" /\ ~ Starting(m)
      BY <2>1, <2>3 DEF SteadyInv, OnlyLiveMessages, Queued, Starting
    <3>2. AtMostOnePlace(m)
      BY <3>1 DEF AtMostOnePlace, Queued
    <3>3. AtMostOnePlace(m)'
      BY <2>1, <3>1, <3>2, AtMostOneStep DEF Steady
    <3>4. m \in Functions /\ AddFunction(m)
      BY <1>3, <2>3 DEF Next, Request, MainStep, Fire, WriteAddress, AddFunction, ChangeInterval,
         SocketsDone, PipeEmpty, ReadPipe, Restart, Return, DeleteFunction, vars
    <3>5. timer'[m] = "armed"
      BY <2>1, <3>4 DEF AddFunction, TypeOK
    <3> QED
      BY <3>3, <3>5 DEF OnePlace
  <2> QED
    BY <2>2, <2>3
<1> QED
  BY <1>1, <1>2, <1>3 DEF SteadyInv, NothingLost

(* With a pipe that has room for the poll message and one of each function *)
(* callback, no write to it ever fails.                                    *)
THEOREM NothingLostCorrect ==
    ASSUME Steady
    PROVE  Spec => []NothingLost
<1>1. SteadyInv => NothingLost
  BY DEF SteadyInv
<1> QED
  BY TypeInit, TypeStep, SteadyInit, SteadyStep, <1>1, PTL DEF Spec

(* Each function callback is in exactly one place for ever.                *)
THEOREM FunctionsCorrect ==
    ASSUME Steady
    PROVE  Spec => []FunctionsGoRound
<1>1. SteadyInv => FunctionsGoRound
  BY DEF SteadyInv, FunctionsGoRound
<1> QED
  BY TypeInit, TypeStep, SteadyInit, SteadyStep, <1>1, PTL DEF Spec
-----------------------------------------------------------------------------
(* Refinement *)

PlaceMap == [m \in Messages |-> Place(m)]

(* One message, and the cycle it is on                                     *)
LEMMA PlaceOf ==
    ASSUME TypeOK, SteadyInv, NEW m \in Messages
    PROVE  /\ Place(m) = "none" <=> m \notin live
           /\ Place(m) = "timer" <=> timer[m] = "armed"
           /\ Place(m) = "handler" <=> Starting(m)
           /\ Place(m) = "pipe" <=> Queued(m)
<1>1. m \notin live => timer[m] = "none" /\ ~ Queued(m) /\ ~ Starting(m)
  BY DEF SteadyInv, OnlyLiveMessages, Queued, Starting
<1>2. m \in live => OnePlace(m)
  BY DEF SteadyInv
<1> QED
  BY <1>1, <1>2 DEF Place, OnePlace, AtMostOnePlace

LEMMA SamePlace ==
    ASSUME NEW m, m \in live' <=> m \in live,
           timer'[m] = "armed" <=> timer[m] = "armed",
           Starting(m)' <=> Starting(m)
    PROVE  Place(m)' = Place(m)
BY DEF Place

(* A step that moves one message from a place to the next one              *)
LEMMA Move ==
    ASSUME NEW n \in Messages, NEW p, Place(n)' = p,
           \A m \in Messages \ {n} : Place(m)' = Place(m)
    PROVE  PlaceMap' = [PlaceMap EXCEPT ![n] = p]
BY DEF PlaceMap

LEMMA CycleInit == Init => Cycle!Init
<1> SUFFICES ASSUME Init PROVE PlaceMap \in [Messages -> {"none", "timer"}]
  BY DEF Cycle!Init, PlaceMap
<1>1. ASSUME NEW m \in Messages PROVE Place(m) \in {"none", "timer"}
  <2>1. m \in live => timer[m] = "armed"
    BY DEF Init
  <2> QED
    BY <2>1 DEF Place
<1> QED
  BY <1>1 DEF PlaceMap

LEMMA CycleStep ==
    ASSUME Steady, TypeOK, SteadyInv, [Next]_vars, TypeOK', SteadyInv'
    PROVE  Cycle!Next \/ PlaceMap' = PlaceMap
<1> USE DEF At, GoTo
<1>1. timer \in [Messages -> {"none", "idle", "armed"}]
  BY DEF TypeOK
<1>2. \A m \in Messages : PlaceMap[m] = Place(m)
  BY DEF PlaceMap
<1>3. (\A m \in Messages : Place(m)' = Place(m)) => PlaceMap' = PlaceMap
  BY DEF PlaceMap
<1>4. ASSUME NEW n \in Messages, Fire(n) PROVE Cycle!Fire(n)
  <2>1. PlaceMap[n] = "timer"
    BY <1>2, <1>4, PlaceOf DEF Fire, WriteAddress
  <2>2. Place(n)' = "pipe"
    <3>1. pipe' = Append(pipe, n)
      BY <1>4, RoomForOneMore DEF Fire, WriteAddress
    <3>2. Queued(n)'
      BY <3>1, QueueAfterWrite
    <3>3. n \in live' /\ timer'[n] = "idle"
      BY <1>1, <1>4 DEF Fire, WriteAddress, SteadyInv, OnlyLiveMessages
    <3>4. OnePlace(n)'
      BY <3>3 DEF SteadyInv
    <3> QED
      BY <3>2, <3>3, <3>4 DEF Place, OnePlace, AtMostOnePlace
  <2>3. ASSUME NEW m \in Messages \ {n} PROVE Place(m)' = Place(m)
    <3>1. timer'[m] = timer[m] /\ live' = live /\ main' = main
      BY <1>1, <1>4 DEF Fire, WriteAddress
    <3> QED
      BY <3>1, SamePlace DEF Starting
  <2> QED
    BY <2>1, <2>2, <2>3, Move DEF Cycle!Fire, PlaceMap
<1>5. ASSUME NEW n \in Functions, AddFunction(n) PROVE Cycle!Add(n)
  <2>1. n \in Messages /\ PlaceMap[n] = "none"
    BY <1>2, <1>5, PlaceOf DEF AddFunction, Messages
  <2>2. Place(n)' = "timer"
    BY <1>1, <1>5, <2>1 DEF AddFunction, Place
  <2>3. ASSUME NEW m \in Messages \ {n} PROVE Place(m)' = Place(m)
    <3>1. /\ timer'[m] = timer[m]
          /\ main' = main
          /\ m \in live' <=> m \in live
      BY <1>1, <1>5 DEF AddFunction
    <3> QED
      BY <3>1, SamePlace DEF Starting
  <2> QED
    BY <2>1, <2>2, <2>3, Move DEF Cycle!Add, PlaceMap
<1>6. ASSUME NEW n \in Functions, ChangeInterval(n) PROVE FALSE
  BY <1>6 DEF ChangeInterval, Steady
<1>7. CASE SocketsDone \/ PipeEmpty \/ Return
  <2>1. timer' = timer /\ live' = live /\ \A m : ~ Starting(m) /\ ~ Starting(m)'
    BY <1>7 DEF SocketsDone, PipeEmpty, Return, Starting
  <2> QED
    BY <1>3, <2>1, SamePlace
<1>8. CASE ReadPipe
  <2>1. pipe # << >> /\ pipe' = Tail(pipe) /\ UNCHANGED <<timer, live>>
    BY <1>8 DEF ReadPipe
  <2>0. Head(pipe) \in Messages /\ Queued(Head(pipe))
    BY <2>1, QueueAfterRead DEF Messages
  <2>2. PICK n \in Messages : n = Head(pipe) /\ Queued(n)
    BY <2>0
  <2>3. PlaceMap[n] = "pipe" /\ n \in live /\ timer[n] # "armed"
    BY <1>2, <2>2, PlaceOf DEF SteadyInv, OnlyLiveMessages, Queued, OnePlace, AtMostOnePlace
  <2>4. \A m : ~ Starting(m)
    BY <1>8 DEF ReadPipe, Starting
  <2>5. main' = [pc |-> "handler", message |-> n]
    BY <1>8, <2>2, <2>3 DEF ReadPipe
  <2>6. Place(n)' = "handler"
    BY <2>1, <2>3, <2>5 DEF Place, Starting
  <2>7. ASSUME NEW m \in Messages \ {n} PROVE Place(m)' = Place(m)
    BY <2>1, <2>4, <2>5, SamePlace DEF Starting
  <2>8. \A d \in Messages : PlaceMap[d] # "handler"
    BY <1>2, <2>4, PlaceOf
  <2>9. Cycle!Take(n)
    BY <2>2, <2>3, <2>6, <2>7, <2>8, Move DEF Cycle!Take, PlaceMap
  <2> QED
    BY <2>2, <2>9 DEF Cycle!Next
<1>9. CASE Restart
  <2>1. PICK n \in Messages : n = main.message /\ Starting(n)
    BY <1>9 DEF Restart, Starting, TypeOK
  <2>2. PlaceMap[n] = "handler"
    BY <1>2, <2>1, PlaceOf
  <2>3. timer'[n] = "armed" /\ live' = live /\ n \in live
    BY <1>1, <1>9, <2>1 DEF Restart, Steady, SteadyInv, OnlyLiveMessages
  <2>4. Place(n)' = "timer"
    BY <2>3 DEF Place
  <2>5. ASSUME NEW m \in Messages \ {n} PROVE Place(m)' = Place(m)
    <3>1. timer'[m] = timer[m] /\ ~ Starting(m) /\ ~ Starting(m)'
      BY <1>1, <1>9, <2>1 DEF Restart, Starting
    <3> QED
      BY <2>3, <3>1, SamePlace
  <2>6. Cycle!Restart(n)
    BY <2>1, <2>2, <2>4, <2>5, Move DEF Cycle!Restart, PlaceMap
  <2> QED
    BY <2>1, <2>6 DEF Cycle!Next
<1>10. CASE DeleteFunction
  BY <1>10 DEF DeleteFunction, Steady
<1>11. CASE UNCHANGED vars
  BY <1>3, <1>11, SamePlace DEF vars, Starting
<1>12. \A n \in Messages : Cycle!Fire(n) \/ Cycle!Add(n) => Cycle!Next
  BY DEF Cycle!Next
<1> QED
  BY <1>4, <1>5, <1>6, <1>7, <1>8, <1>9, <1>10, <1>11, <1>12
     DEF Next, Request, MainStep, Messages

(* The timers, the pipe and the main loop implement the cycle.             *)
THEOREM CycleCorrect ==
    ASSUME Steady
    PROVE  Spec => ImplementsCycle
<1>1. TypeOK /\ SteadyInv /\ [Next]_vars /\ TypeOK' /\ SteadyInv'
      => [Cycle!Next]_PlaceMap
  BY CycleStep
<1> QED
  BY TypeInit, TypeStep, SteadyInit, SteadyStep, CycleInit, <1>1, PTL
     DEF Spec, ImplementsCycle, Cycle!Spec, PlaceMap
=============================================================================
