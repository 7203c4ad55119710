------------------------- MODULE VirtualTimerProofs -------------------------
(***************************************************************************)
(* Theorems about VirtualTimer, for any timers, threads, memory and        *)
(* periods.  The order in which events fire, and how often, does not       *)
(* depend on the stops that walk down the list without its mutex: these    *)
(* can only take events away.  That no memory is used after it was freed   *)
(* is proved for programs that do not stop or destroy timers.              *)
(***************************************************************************)
EXTENDS VirtualTimer, FiniteSetTheorems, SequenceTheorems, TLAPS

Unlocked == {"idle", "lock"}

\* The calls that take the mutex
Locking == {"start", "query"}

TimerOf(i) == event[list[i]].vtimer
TimeOf(i) == event[list[i]].expiration

\* What is allocated is in the list, once, and in the order of the times.
ListInv ==
    /\ \A i, j \in DOMAIN list : list[i] = list[j] => i = j
    /\ \A a \in Addr : event[a] # NULL => \E i \in DOMAIN list : list[i] = a
    /\ \A i, j \in DOMAIN list : i < j => TimeOf(i) <= TimeOf(j)

\* A timer with an event was started.
StartedInv == \A i \in DOMAIN list : vtimer[TimerOf(i)].period # 0

\* Who is at work on the list has the mutex, except in a stop.
LockInv ==
    /\ master.pc # "idle" => mutex = Master
    /\ \A t \in Threads :
          thread[t].pc \notin Unlocked /\ thread[t].call \in Locking => mutex = t

\* The master callback is at an event
AtEvent == master.pc \in {"fire", "delete"}

\* The event is the first of the list, if a stop has not freed it meanwhile.
MasterInv ==
    /\ master.time <= now
    /\ AtEvent =>
          /\ master.current # NULL
          /\ event[master.current] # NULL => list # << >> /\ master.current = list[1]
    /\ master.pc = "fire" /\ event[master.current] # NULL =>
          event[master.current].expiration <= now

\* A timer has one event, and a periodic one besides that the one that fires.
OneEventInv ==
    \A i, j \in DOMAIN list :
        TimerOf(i) = TimerOf(j) =>
            \/ i = j
            \/ /\ AtEvent
               /\ TimerOf(i) \in Periodic
               /\ master.current \in {list[i], list[j]}

\* A one-shot timer whose callback ran has no event but the one it ran for.
OneShotInv ==
    \A v \in VTimers \ Periodic :
        /\ fired.count[v] <= 1
        /\ fired.count[v] = 1 =>
              \A i \in DOMAIN list :
                 TimerOf(i) = v => master.pc = "delete" /\ list[i] = master.current

\* A start that walks down the list has left no event of its timer behind but
\* the victim.  If a stop has freed the event it looks at next, its next step
\* ends the behaviour: nothing is said of where that event was.
Cleared(t) ==
    \A i \in DOMAIN list :
        TimerOf(i) = thread[t].vtimer =>
            \/ thread[t].pc # "add" /\ list[i] = thread[t].victim
            \/ /\ thread[t].pc = "search"
               /\ thread[t].victim = NULL
               /\ thread[t].search # NULL
               /\ event[thread[t].search] # NULL =>
                     \E k \in DOMAIN list : k <= i /\ list[k] = thread[t].search

\* Where a thread is in its call
CallInv(t) ==
    /\ thread[t].pc # "idle" => thread[t].vtimer # NULL
    /\ thread[t].pc # "idle" /\ thread[t].call = "start" =>
          vtimer[thread[t].vtimer].period # 0
    /\ thread[t].pc \in {"lock", "query", "add", "unlock"} => thread[t].call \in Locking
    /\ thread[t].pc = "add" => thread[t].call = "start"
    /\ thread[t].pc \in {"search", "delete"} => thread[t].call # "query"
    /\ thread[t].pc = "lock" => thread[t].victim = NULL
    /\ thread[t].pc = "delete" => thread[t].victim # NULL
    /\ thread[t].call = "start" /\ thread[t].pc \in {"search", "delete", "add"} =>
          Cleared(t)

IInv ==
    /\ TypeOK
    /\ ListInv
    /\ StartedInv
    /\ LockInv
    /\ MasterInv
    /\ OneEventInv
    /\ OneShotInv
    /\ \A t \in Threads : CallInv(t)
    /\ FiredInOrder
-----------------------------------------------------------------------------
(* The list *)

\* What InsertAt returns.
LEMMA InsertFacts ==
    ASSUME NEW S, NEW s \in Seq(S), NEW p \in 1 .. Len(s) + 1, NEW e \in S
    PROVE  /\ InsertAt(s, p, e) \in Seq(S)
           /\ Len(InsertAt(s, p, e)) = Len(s) + 1
           /\ \A i \in 1 .. Len(s) + 1 :
                 InsertAt(s, p, e)[i] = IF i < p THEN s[i]
                                        ELSE IF i = p THEN e ELSE s[i - 1]
<1>1. Len(s) \in Nat /\ p \in Nat OBVIOUS
<1> DEFINE front == SubSeq(s, 1, p - 1)
           back == SubSeq(s, p, Len(s))
<1>2. /\ front \in Seq(S) /\ Len(front) = p - 1
      /\ \A i \in 1 .. p - 1 : front[i] = s[i]
  OBVIOUS
<1>3. /\ back \in Seq(S) /\ Len(back) = Len(s) - p + 1
      /\ \A i \in 1 .. Len(s) - p + 1 : back[i] = s[p + i - 1]
  OBVIOUS
<1> HIDE DEF front, back
<1>4. /\ front \o <<e>> \in Seq(S) /\ Len(front \o <<e>>) = p
      /\ \A i \in 1 .. p - 1 : (front \o <<e>>)[i] = s[i]
      /\ (front \o <<e>>)[p] = e
  BY <1>2
<1>5. InsertAt(s, p, e) = (front \o <<e>>) \o back
  BY DEF InsertAt, front, back
<1> DEFINE h == front \o <<e>>
<1> HIDE DEF h
<1>6. h \in Seq(S) /\ Len(h) = p /\ (\A i \in 1 .. p - 1 : h[i] = s[i]) /\ h[p] = e
  BY <1>4 DEF h
<1>7. h \o back \in Seq(S) /\ Len(h \o back) = Len(s) + 1
  <2>1. h \o back \in Seq(S) /\ Len(h \o back) = Len(h) + Len(back)
    BY <1>3, <1>6, ConcatProperties
  <2> QED BY <1>1, <1>3, <1>6, <2>1
<1>8. ASSUME NEW i \in 1 .. Len(s) + 1
      PROVE  (h \o back)[i] = IF i < p THEN s[i] ELSE IF i = p THEN e ELSE s[i - 1]
  <2>1. CASE i <= p BY <1>3, <1>6, <2>1
  <2>2. CASE i > p
    <3>1. (h \o back)[i] = back[i - p] BY <1>3, <1>6, <2>2
    <3>2. i - p \in 1 .. Len(s) - p + 1 BY <2>2
    <3> QED BY <1>3, <2>2, <3>1, <3>2
  <2>3. i <= p \/ i > p BY <1>1
  <2> QED BY <2>1, <2>2, <2>3
<1> QED BY <1>5, <1>7, <1>8 DEF h

\* What RemoveAt returns.
LEMMA RemoveFacts ==
    ASSUME NEW S, NEW s \in Seq(S), NEW p \in 1 .. Len(s)
    PROVE  /\ RemoveAt(s, p) \in Seq(S)
           /\ Len(RemoveAt(s, p)) = Len(s) - 1
           /\ \A i \in 1 .. Len(s) - 1 :
                 RemoveAt(s, p)[i] = IF i < p THEN s[i] ELSE s[i + 1]
<1>1. Len(s) \in Nat /\ p \in Nat OBVIOUS
<1> DEFINE front == SubSeq(s, 1, p - 1)
           back == SubSeq(s, p + 1, Len(s))
<1>2. /\ front \in Seq(S) /\ Len(front) = p - 1
      /\ \A i \in 1 .. p - 1 : front[i] = s[i]
  OBVIOUS
<1>3. /\ back \in Seq(S) /\ Len(back) = Len(s) - p
      /\ \A i \in 1 .. Len(s) - p : back[i] = s[p + i]
  OBVIOUS
<1>4. RemoveAt(s, p) = front \o back
  BY DEF RemoveAt
<1> HIDE DEF front, back
<1>5. front \o back \in Seq(S) /\ Len(front \o back) = Len(s) - 1
  BY <1>2, <1>3
<1>6. ASSUME NEW i \in 1 .. Len(s) - 1
      PROVE  (front \o back)[i] = IF i < p THEN s[i] ELSE s[i + 1]
  <2>1. CASE i < p BY <1>2, <1>3, <2>1
  <2>2. CASE i >= p
    <3>1. (front \o back)[i] = back[i - p + 1] BY <1>2, <1>3, <2>2
    <3>2. i - p + 1 \in 1 .. Len(s) - p BY <2>2
    <3> QED BY <1>3, <2>2, <3>1, <3>2
  <2>3. i < p \/ i >= p BY <1>1
  <2> QED BY <2>1, <2>2, <2>3
<1> QED BY <1>4, <1>5, <1>6

LEMMA PeriodFacts == \A q \in Periods : q \in Nat /\ q > 0
<1>1. Periods \subseteq Nat \ {0} BY VTimerAssumption
<1> QED BY <1>1

\* The events of the list are structures with a timer and a time.
LEMMA EventFacts ==
    ASSUME TypeOK, NEW i \in DOMAIN list
    PROVE  /\ list[i] \in Addr /\ event[list[i]] \in Event
           /\ TimerOf(i) \in VTimers /\ TimeOf(i) \in Nat
<1>1. list[i] \in Addr /\ event[list[i]] # NULL /\ event[list[i]] \in Event \cup {NULL}
  BY DEF TypeOK
<1> QED BY <1>1 DEF Event, TimerOf, TimeOf

\* In a sorted list there is a place for every time.
LEMMA PositionExists ==
    ASSUME TypeOK, ListInv, NEW x \in Nat
    PROVE  /\ InsertPosition(x) \in 1 .. Len(list) + 1
           /\ \A j \in 1 .. InsertPosition(x) - 1 : TimeOf(j) <= x
           /\ InsertPosition(x) <= Len(list) => TimeOf(InsertPosition(x)) > x
<1> DEFINE n == Len(list)
           K == {i \in 1 .. n : TimeOf(i) <= x}
           c == Cardinality(K)
<1>1. n \in Nat /\ DOMAIN list = 1 .. n BY DEF TypeOK
<1>2. ASSUME NEW i \in 1 .. n, NEW j \in 1 .. n, i < j, j \in K PROVE i \in K
  BY <1>1, <1>2, EventFacts DEF ListInv
<1> HIDE DEF n
<1>3. IsFiniteSet(K) /\ c \in Nat /\ c <= n
  <2>1. IsFiniteSet(1 .. n) /\ Cardinality(1 .. n) = n BY <1>1, FS_Interval
  <2>2. K \in SUBSET (1 .. n) OBVIOUS
  <2>3. IsFiniteSet(K) /\ Cardinality(K) <= Cardinality(1 .. n)
    BY <2>1, <2>2, FS_Subset
  <2>4. Cardinality(K) \in Nat BY <2>3, FS_CardinalityType
  <2> QED BY <2>1, <2>3, <2>4
<1>4. ASSUME NEW j \in 1 .. c PROVE j \in K
  <2>1. SUFFICES ASSUME j \notin K PROVE FALSE OBVIOUS
  <2>2. K \subseteq 1 .. j - 1
    <3>1. ASSUME NEW k \in K, k >= j PROVE FALSE
      BY <1>1, <1>2, <1>3, <2>1, <3>1
    <3> QED BY <1>1, <1>3, <3>1
  <2>3. IsFiniteSet(1 .. j - 1) /\ Cardinality(1 .. j - 1) = j - 1
    <3>1. j \in Int /\ j >= 1 /\ j - 1 \in Int BY <1>3
    <3>2. Cardinality(1 .. j - 1) = IF 1 > j - 1 THEN 0 ELSE (j - 1) - 1 + 1
      BY <3>1, FS_Interval
    <3> QED BY <3>1, <3>2, FS_Interval
  <2> HIDE DEF K
  <2>4. K \in SUBSET (1 .. j - 1) BY <2>2
  <2>5. Cardinality(K) <= Cardinality(1 .. j - 1)
    BY <2>3, <2>4, FS_Subset
  <2> QED BY <1>3, <2>3, <2>5
<1>5. c + 1 <= n => c + 1 \notin K
  <2>1. SUFFICES ASSUME c + 1 \in K, c + 1 <= n PROVE FALSE OBVIOUS
  <2>2. 1 .. c + 1 \subseteq K
    BY <1>1, <1>3, <1>4, <2>1
  <2>3. IsFiniteSet(1 .. c + 1) /\ Cardinality(1 .. c + 1) = c + 1
    BY <1>3, FS_Interval
  <2>4. Cardinality(1 .. c + 1) <= Cardinality(K)
    BY <1>3, <2>2, FS_Subset
  <2> QED BY <1>3, <2>3, <2>4
<1>6. /\ c + 1 \in 1 .. n + 1
      /\ \A j \in 1 .. (c + 1) - 1 : TimeOf(j) <= x
      /\ c + 1 <= n => TimeOf(c + 1) > x
  <2>1. c + 1 \in 1 .. n + 1 BY <1>1, <1>3
  <2>2. \A j \in 1 .. (c + 1) - 1 : TimeOf(j) <= x BY <1>3, <1>4
  <2>3. c + 1 <= n => c + 1 \in 1 .. n /\ c + 1 \notin K BY <1>1, <1>3, <1>5
  <2>4. c + 1 <= n => TimeOf(c + 1) \in Nat BY <1>1, <2>3, EventFacts
  <2> QED BY <2>1, <2>2, <2>3, <2>4
<1> HIDE DEF c
<1>7. \E k \in 1 .. n + 1 :
         /\ \A j \in 1 .. k - 1 : event[list[j]].expiration <= x
         /\ k <= n => event[list[k]].expiration > x
  BY <1>6 DEF TimeOf
<1> QED BY <1>7 DEF InsertPosition, TimeOf, n
-----------------------------------------------------------------------------
(* A new event in the list *)

\* An event at address a of timer v for time x got place p.
Grown(p, a, v, x) ==
    /\ p \in 1 .. Len(list) + 1
    /\ DOMAIN list' = 1 .. Len(list) + 1
    /\ list'[p] = a /\ TimerOf(p)' = v /\ TimeOf(p)' = x
    /\ \A i \in DOMAIN list : list[i] # a
    /\ \A j \in 1 .. Len(list) + 1 :
          /\ j < p => /\ j \in DOMAIN list
                      /\ list'[j] = list[j]
                      /\ TimerOf(j)' = TimerOf(j)
                      /\ TimeOf(j)' = TimeOf(j)
                      /\ TimeOf(j) <= x
          /\ j > p => /\ j - 1 \in DOMAIN list
                      /\ list'[j] = list[j - 1]
                      /\ TimerOf(j)' = TimerOf(j - 1)
                      /\ TimeOf(j)' = TimeOf(j - 1)
                      /\ TimeOf(j - 1) > x

LEMMA AddFacts ==
    ASSUME TypeOK, ListInv, NEW a \in FreeAddr, NEW v \in VTimers, NEW x \in Nat,
           AddEvent(a, v, x)
    PROVE  /\ list' \in Seq(Addr)
           /\ event' \in [Addr -> Event \cup {NULL}]
           /\ \A i \in DOMAIN list' : event'[list'[i]] # NULL
           /\ \E p \in Nat : Grown(p, a, v, x)
<1> DEFINE n == Len(list)
<1>1. n \in Nat /\ DOMAIN list = 1 .. n /\ list \in Seq(Addr) BY DEF TypeOK
<1>2. PICK p \in 1 .. n + 1 :
         /\ p = InsertPosition(x)
         /\ \A j \in 1 .. p - 1 : TimeOf(j) <= x
         /\ p <= n => TimeOf(p) > x
  BY PositionExists
<1>3. a \in Addr /\ event[a] = NULL BY DEF FreeAddr
<1>4. /\ list' \in Seq(Addr)
      /\ Len(list') = n + 1
      /\ \A i \in 1 .. n + 1 :
            list'[i] = IF i < p THEN list[i] ELSE IF i = p THEN a ELSE list[i - 1]
  <2>1. list' = InsertAt(list, p, a) BY <1>2 DEF AddEvent
  <2>2. /\ InsertAt(list, p, a) \in Seq(Addr)
        /\ Len(InsertAt(list, p, a)) = n + 1
        /\ \A i \in 1 .. n + 1 :
              InsertAt(list, p, a)[i] =
                 IF i < p THEN list[i] ELSE IF i = p THEN a ELSE list[i - 1]
    <3>1. list \in Seq(Addr) /\ p \in 1 .. Len(list) + 1 /\ a \in Addr
      BY <1>1, <1>2, <1>3
    <3>2. InsertAt(list, p, a) \in Seq(Addr) BY <3>1, InsertFacts
    <3>3. Len(InsertAt(list, p, a)) = Len(list) + 1 BY <3>1, InsertFacts
    <3>4. \A i \in 1 .. Len(list) + 1 :
              InsertAt(list, p, a)[i] =
                 IF i < p THEN list[i] ELSE IF i = p THEN a ELSE list[i - 1]
      BY <3>1, InsertFacts
    <3> QED BY <3>2, <3>3, <3>4
  <2> QED BY <2>1, <2>2
<1> HIDE DEF n
<1>5. DOMAIN list' = 1 .. n + 1 BY <1>1, <1>4
<1>6. /\ event' \in [Addr -> Event \cup {NULL}]
      /\ event'[a] = [vtimer |-> v, expiration |-> x]
      /\ \A b \in Addr : b # a => event'[b] = event[b]
  BY <1>3 DEF AddEvent, TypeOK, Event
<1>7. \A i \in DOMAIN list : list[i] \in Addr /\ list[i] # a /\ event[list[i]] # NULL
  BY <1>3 DEF TypeOK
<1>8. /\ list'[p] = a /\ TimerOf(p)' = v /\ TimeOf(p)' = x
  <2>1. list'[p] = a BY <1>1, <1>2, <1>4
  <2> QED BY <1>6, <2>1 DEF TimerOf, TimeOf
<1>9. ASSUME NEW j \in 1 .. n + 1, j < p
      PROVE  /\ j \in DOMAIN list /\ list'[j] = list[j]
             /\ TimerOf(j)' = TimerOf(j) /\ TimeOf(j)' = TimeOf(j)
             /\ TimeOf(j) <= x
  <2>1. j \in 1 .. n /\ j \in 1 .. p - 1 BY <1>1, <1>2, <1>9
  <2>2. list'[j] = list[j] BY <1>4, <1>9
  <2> QED BY <1>1, <1>2, <1>6, <1>7, <2>1, <2>2 DEF TimerOf, TimeOf
<1>10. ASSUME NEW j \in 1 .. n + 1, j > p
       PROVE  /\ j - 1 \in DOMAIN list /\ list'[j] = list[j - 1]
              /\ TimerOf(j)' = TimerOf(j - 1) /\ TimeOf(j)' = TimeOf(j - 1)
              /\ TimeOf(j - 1) > x
  <2>1. j - 1 \in 1 .. n /\ p <= j - 1 /\ p \in 1 .. n BY <1>1, <1>2, <1>10
  <2>2. list'[j] = list[j - 1] BY <1>1, <1>2, <1>4, <1>10
  <2>3. TimeOf(p) > x BY <1>1, <1>2, <2>1
  <2>4. TimeOf(j - 1) > x
    <3>1. TimeOf(p) <= TimeOf(j - 1) \/ p = j - 1
      BY <1>1, <2>1 DEF ListInv
    <3>2. TimeOf(p) \in Nat /\ TimeOf(j - 1) \in Nat BY <1>1, <2>1, EventFacts
    <3> QED BY <2>3, <3>1, <3>2
  <2> QED BY <1>1, <1>6, <1>7, <2>1, <2>2, <2>4 DEF TimerOf, TimeOf
<1>11. \A i \in DOMAIN list' : event'[list'[i]] # NULL
  <2> SUFFICES ASSUME NEW i \in 1 .. n + 1 PROVE event'[list'[i]] # NULL
    BY <1>5
  <2>1. CASE i < p BY <1>6, <1>7, <1>9, <2>1
  <2>2. CASE i > p BY <1>6, <1>7, <1>10, <2>2
  <2>3. CASE i = p
    <3>1. event'[list'[i]] = [vtimer |-> v, expiration |-> x] BY <1>6, <1>8, <2>3
    <3>2. event'[list'[i]] \in [vtimer : VTimers, expiration : Nat] BY <3>1
    <3> QED BY <3>2, VTimerAssumption
  <2> QED BY <1>1, <1>2, <2>1, <2>2, <2>3
<1> QED BY <1>2, <1>4, <1>5, <1>6, <1>7, <1>8, <1>9, <1>10, <1>11 DEF Grown, n

\* The list stays what it is when it grows.
LEMMA GrownListInv ==
    ASSUME TypeOK, ListInv, NEW a \in FreeAddr, NEW v \in VTimers, NEW x \in Nat,
           AddEvent(a, v, x), NEW p \in Nat, Grown(p, a, v, x)
    PROVE  ListInv'
<1> DEFINE n == Len(list)
<1>1. n \in Nat /\ DOMAIN list = 1 .. n BY DEF TypeOK
<1>2. p \in 1 .. n + 1 /\ DOMAIN list' = 1 .. n + 1 BY DEF Grown
<1>3. ASSUME NEW i \in 1 .. n + 1, NEW j \in 1 .. n + 1, list'[i] = list'[j], i # j
      PROVE  FALSE
  <2>1. ASSUME NEW k \in 1 .. n + 1
        PROVE  /\ k = p => list'[k] = a
               /\ k < p => k \in 1 .. n /\ list'[k] = list[k]
               /\ k > p => k - 1 \in 1 .. n /\ list'[k] = list[k - 1]
    BY <1>1, <1>2 DEF Grown
  <2>2. \A k \in 1 .. n : list[k] # a BY <1>1 DEF Grown
  <2>3. \A k, l \in 1 .. n : list[k] = list[l] => k = l BY <1>1 DEF ListInv
  <2>4. i \in Int /\ j \in Int /\ p \in Int BY <1>1, <1>2
  <2> HIDE DEF n
  <2>5. CASE i = p BY <1>3, <2>1, <2>2, <2>4, <2>5
  <2>6. CASE i < p BY <1>3, <2>1, <2>2, <2>3, <2>4, <2>6
  <2>7. CASE i > p BY <1>3, <2>1, <2>2, <2>3, <2>4, <2>7
  <2> QED BY <2>4, <2>5, <2>6, <2>7
<1>4. ASSUME NEW b \in Addr, event'[b] # NULL
      PROVE  \E i \in 1 .. n + 1 : list'[i] = b
  <2>1. CASE b = a BY <1>2, <2>1 DEF Grown
  <2>2. CASE b # a
    <3>1. event[b] # NULL BY <1>4, <2>2 DEF AddEvent, TypeOK
    <3>2. PICK i \in 1 .. n : list[i] = b BY <1>1, <3>1 DEF ListInv
    <3>3. CASE i < p BY <1>1, <1>2, <3>2, <3>3 DEF Grown
    <3>4. CASE i >= p
      <4>1. i + 1 \in 1 .. n + 1 /\ i + 1 > p /\ (i + 1) - 1 = i
        BY <1>1, <1>2, <3>4
      <4>2. list'[i + 1] = list[(i + 1) - 1] BY <4>1 DEF Grown
      <4> QED BY <3>2, <4>1, <4>2
    <3>5. i < p \/ i >= p BY <1>1, <1>2
    <3> QED BY <3>3, <3>4, <3>5
  <2> QED BY <2>1, <2>2
<1>5. ASSUME NEW i \in 1 .. n + 1, NEW j \in 1 .. n + 1, i < j
      PROVE  TimeOf(i)' <= TimeOf(j)'
  <2>1. ASSUME NEW k \in DOMAIN list PROVE TimeOf(k) \in Nat BY EventFacts
  <2>2. CASE j < p BY <1>1, <1>2, <1>5, <2>2 DEF Grown, ListInv
  <2>3. CASE j = p BY <1>1, <1>2, <1>5, <2>3 DEF Grown
  <2>4. CASE i = p BY <1>1, <1>2, <1>5, <2>1, <2>4 DEF Grown
  <2>5. CASE i > p
    <3>1. i - 1 \in 1 .. n /\ j - 1 \in 1 .. n /\ i - 1 < j - 1 /\ j > p
      BY <1>1, <1>2, <1>5, <2>5
    <3>2. TimeOf(i - 1) <= TimeOf(j - 1) BY <1>1, <3>1 DEF ListInv
    <3> QED BY <2>5, <3>1, <3>2 DEF Grown
  <2>6. CASE i < p /\ p < j
    <3>1. TimeOf(i)' = TimeOf(i) /\ TimeOf(i) <= x /\ i \in DOMAIN list
      BY <2>6 DEF Grown
    <3>2. TimeOf(j)' = TimeOf(j - 1) /\ TimeOf(j - 1) > x /\ j - 1 \in DOMAIN list
      BY <2>6 DEF Grown
    <3> QED BY <2>1, <3>1, <3>2
  <2> QED BY <1>1, <1>2, <1>5, <2>2, <2>3, <2>4, <2>5, <2>6
<1> QED BY <1>2, <1>3, <1>4, <1>5 DEF ListInv
-----------------------------------------------------------------------------
(* An event less in the list *)

\* The event at place p has gone.
Shrunk(p) ==
    /\ p \in DOMAIN list
    /\ DOMAIN list' = 1 .. Len(list) - 1
    /\ \A j \in 1 .. Len(list) - 1 :
          /\ j < p => /\ list'[j] = list[j]
                      /\ TimerOf(j)' = TimerOf(j)
                      /\ TimeOf(j)' = TimeOf(j)
          /\ j >= p => /\ list'[j] = list[j + 1]
                       /\ TimerOf(j)' = TimerOf(j + 1)
                       /\ TimeOf(j)' = TimeOf(j + 1)

LEMMA DeleteFacts ==
    ASSUME TypeOK, ListInv, NEW p \in DOMAIN list, DeleteEvent(list[p])
    PROVE  /\ list' \in Seq(Addr)
           /\ event' \in [Addr -> Event \cup {NULL}]
           /\ \A i \in DOMAIN list' : event'[list'[i]] # NULL
           /\ Shrunk(p)
           /\ ListInv'
<1> DEFINE n == Len(list)
<1>1. /\ n \in Nat /\ DOMAIN list = 1 .. n /\ list \in Seq(Addr)
      /\ p \in 1 .. n /\ list[p] \in Addr
  BY DEF TypeOK
<1>2. p = CHOOSE i \in DOMAIN list : list[i] = list[p] BY DEF ListInv
<1>3. list' = RemoveAt(list, p) BY <1>2 DEF DeleteEvent
<1>4. list' \in Seq(Addr) BY <1>1, <1>3, RemoveFacts
<1>5. DOMAIN list' = 1 .. n - 1 BY <1>1, <1>3, <1>4, RemoveFacts
<1>6. \A i \in 1 .. n - 1 : list'[i] = IF i < p THEN list[i] ELSE list[i + 1]
  BY <1>1, <1>3, RemoveFacts
<1> HIDE DEF n
<1>7. /\ event' \in [Addr -> Event \cup {NULL}]
      /\ event'[list[p]] = NULL
      /\ \A b \in Addr : b # list[p] => event'[b] = event[b]
  BY <1>1 DEF DeleteEvent, TypeOK
<1>8. \A i \in 1 .. n : /\ list[i] \in Addr /\ event[list[i]] # NULL
                        /\ i # p => list[i] # list[p]
  <2>1. \A i \in 1 .. n : list[i] \in Addr /\ event[list[i]] # NULL
    <3>1. \A i \in DOMAIN list : event[list[i]] # NULL BY DEF TypeOK
    <3>2. \A i \in DOMAIN list : list[i] \in Addr BY <1>1
    <3> QED BY <1>1, <3>1, <3>2
  <2>2. \A i \in 1 .. n : i # p => list[i] # list[p] BY <1>1 DEF ListInv
  <2> QED BY <2>1, <2>2
<1>9. ASSUME NEW j \in 1 .. n - 1, j < p
      PROVE  /\ list'[j] = list[j] /\ event'[list'[j]] # NULL
             /\ TimerOf(j)' = TimerOf(j) /\ TimeOf(j)' = TimeOf(j)
  <2>1. j \in 1 .. n /\ j # p BY <1>1, <1>9
  <2> QED BY <1>6, <1>7, <1>8, <1>9, <2>1 DEF TimerOf, TimeOf
<1>10. ASSUME NEW j \in 1 .. n - 1, j >= p
       PROVE  /\ list'[j] = list[j + 1] /\ event'[list'[j]] # NULL
              /\ TimerOf(j)' = TimerOf(j + 1) /\ TimeOf(j)' = TimeOf(j + 1)
  <2>1. j + 1 \in 1 .. n /\ j + 1 # p BY <1>1, <1>10
  <2>2. list'[j] = list[j + 1] BY <1>1, <1>6, <1>10
  <2> QED BY <1>7, <1>8, <2>1, <2>2 DEF TimerOf, TimeOf
<1>11. \A i \in DOMAIN list' : event'[list'[i]] # NULL
  BY <1>1, <1>5, <1>9, <1>10
<1>12. Shrunk(p) BY <1>1, <1>5, <1>9, <1>10 DEF Shrunk, n
<1>13. ASSUME NEW i \in 1 .. n - 1, NEW j \in 1 .. n - 1, list'[i] = list'[j]
       PROVE  i = j
  <2> DEFINE old(k) == IF k < p THEN k ELSE k + 1
  <2>1. old(i) \in 1 .. n /\ old(j) \in 1 .. n /\ (old(i) = old(j) => i = j)
    BY <1>1
  <2>2. list'[i] = list[old(i)] /\ list'[j] = list[old(j)] BY <1>6
  <2> HIDE DEF old
  <2>3. old(i) = old(j) BY <1>1, <1>13, <2>1, <2>2 DEF ListInv
  <2> QED BY <2>1, <2>3
<1>14. ASSUME NEW b \in Addr, event'[b] # NULL
       PROVE  \E i \in 1 .. n - 1 : list'[i] = b
  <2>1. b # list[p] /\ event[b] # NULL BY <1>7, <1>14
  <2>2. PICK i \in 1 .. n : list[i] = b BY <1>1, <2>1 DEF ListInv
  <2>3. CASE i < p
    <3>1. i \in 1 .. n - 1 BY <1>1, <2>3
    <3> QED BY <1>6, <2>2, <2>3, <3>1
  <2>4. CASE i > p
    <3>1. i - 1 \in 1 .. n - 1 /\ ~ (i - 1 < p) /\ (i - 1) + 1 = i BY <1>1, <2>4
    <3>2. list'[i - 1] = list[(i - 1) + 1] BY <1>6, <3>1
    <3> QED BY <2>2, <3>1, <3>2
  <2>5. i # p BY <2>1, <2>2
  <2> QED BY <1>1, <2>3, <2>4, <2>5
<1>15. ASSUME NEW i \in 1 .. n - 1, NEW j \in 1 .. n - 1, i < j
       PROVE  TimeOf(i)' <= TimeOf(j)'
  <2>1. \A k, l \in 1 .. n : k < l => TimeOf(k) <= TimeOf(l)
    BY <1>1 DEF ListInv
  <2>2. i \in 1 .. n /\ j \in 1 .. n /\ i + 1 \in 1 .. n /\ j + 1 \in 1 .. n
    BY <1>1
  <2>3. CASE j < p BY <1>1, <1>9, <1>15, <2>1, <2>2, <2>3
  <2>4. CASE i >= p BY <1>1, <1>10, <1>15, <2>1, <2>2, <2>4
  <2>5. CASE i < p /\ j >= p
    <3>1. TimeOf(i)' = TimeOf(i) BY <1>9, <2>5
    <3>2. TimeOf(j)' = TimeOf(j + 1) BY <1>10, <2>5
    <3>3. i < j + 1 BY <1>15
    <3> QED BY <2>1, <2>2, <3>1, <3>2, <3>3
  <2> QED BY <1>1, <1>15, <2>3, <2>4, <2>5
<1>16. ListInv' BY <1>5, <1>13, <1>14, <1>15 DEF ListInv
<1> QED BY <1>4, <1>7, <1>11, <1>12, <1>16
\* The event after the one at place k.
LEMMA NextFacts ==
    ASSUME TypeOK, ListInv, NEW k \in DOMAIN list
    PROVE  /\ NextEvent(list[k]) \in Addr \cup {NULL}
           /\ NextEvent(list[k]) # NULL =>
                 k + 1 \in DOMAIN list /\ list[k + 1] = NextEvent(list[k])
           /\ k + 1 \in DOMAIN list => NextEvent(list[k]) = list[k + 1]
<1>1. k = CHOOSE j \in DOMAIN list : list[j] = list[k] BY DEF ListInv
<1>2. NextEvent(list[k]) = IF k < Len(list) THEN list[k + 1] ELSE NULL
  BY <1>1 DEF NextEvent
<1>3. list \in Seq(Addr) /\ DOMAIN list = 1 .. Len(list) /\ Len(list) \in Nat
  BY DEF TypeOK
<1> QED BY <1>2, <1>3

-----------------------------------------------------------------------------
(* What a step leaves alone *)

CallRecord == [pc : ThreadPC, call : Call, vtimer : VTimers \cup {NULL},
               search : Addr \cup {NULL}, victim : Addr \cup {NULL}]

MasterRecord == [pc : MasterPC, current : Addr \cup {NULL}, time : Nat]

TimerRecord == [life : {"none", "live", "freed"}, period : Periods \cup {0}]

FiredRecord == [latest : Nat, count : [VTimers -> Nat]]

LEMMA Types ==
    ASSUME TypeOK
    PROVE  /\ thread \in [Threads -> CallRecord]
           /\ master \in MasterRecord
           /\ vtimer \in [VTimers -> TimerRecord]
           /\ event \in [Addr -> Event \cup {NULL}]
           /\ fired \in FiredRecord
           /\ fired.latest \in Nat /\ fired.count \in [VTimers -> Nat]
           /\ mutex \in Threads \cup {Master, NULL}
           /\ list \in Seq(Addr) /\ Len(list) \in Nat /\ DOMAIN list = 1 .. Len(list)
           /\ now \in Nat /\ master.time \in Nat
<1>1. /\ thread \in [Threads -> CallRecord] /\ vtimer \in [VTimers -> TimerRecord]
      /\ event \in [Addr -> Event \cup {NULL}] /\ mutex \in Threads \cup {Master, NULL}
      /\ list \in Seq(Addr)
  BY DEF TypeOK, CallRecord, TimerRecord
<1>2. fired \in FiredRecord BY DEF TypeOK, FiredRecord
<1>3. master \in MasterRecord BY DEF TypeOK, MasterRecord
<1>4. fired.latest \in Nat /\ fired.count \in [VTimers -> Nat] BY <1>2 DEF FiredRecord
<1>5. master.time \in Nat BY <1>3 DEF MasterRecord
<1>6. now \in Nat BY VTimerAssumption DEF TypeOK
<1> QED BY <1>1, <1>2, <1>3, <1>4, <1>5, <1>6

\* Timers are created, destroyed and given periods, but lose none.
PeriodsKept ==
    /\ vtimer' \in [VTimers -> TimerRecord]
    /\ \A v \in VTimers : vtimer[v].period # 0 => vtimer'[v].period # 0

\* A thread on its way through the list to start a timer
Clearing(t) == thread[t].call = "start" /\ thread[t].pc \in {"search", "delete", "add"}

LEMMA ListAlone ==
    ASSUME IInv, UNCHANGED <<list, event>>, PeriodsKept
    PROVE  ListInv' /\ StartedInv'
<1>1. ListInv' BY DEF IInv, ListInv, TimeOf
<1>2. \A i \in DOMAIN list : TimerOf(i) \in VTimers /\ TimerOf(i)' = TimerOf(i)
  BY EventFacts DEF IInv, TimerOf
<1>3. StartedInv' BY <1>2 DEF IInv, StartedInv, PeriodsKept
<1> QED BY <1>1, <1>3

\* A thread that did not move is where it was, if the list is the same or it is
\* not at work on it.
LEMMA OtherThread ==
    ASSUME IInv, NEW u \in Threads, thread'[u] = thread[u], PeriodsKept,
           UNCHANGED <<list, event>> \/ ~ Clearing(u)
    PROVE  CallInv(u)'
<1>1. CallInv(u) /\ thread[u].vtimer \in VTimers \cup {NULL}
  BY Types DEF IInv, CallRecord
<1>2. Clearing(u) => Cleared(u)'
  <2>1. CASE ~ Clearing(u) BY <2>1
  <2>2. CASE Clearing(u) /\ UNCHANGED <<list, event>>
    <3>1. Cleared(u) BY <1>1, <2>2 DEF CallInv, Clearing
    <3> QED BY <2>2, <3>1 DEF Cleared, TimerOf
  <2> QED BY <2>1, <2>2
<1>3. thread[u].pc # "idle" /\ thread[u].call = "start" =>
          vtimer'[thread[u].vtimer].period # 0
  BY <1>1 DEF CallInv, PeriodsKept
<1> QED BY <1>1, <1>2, <1>3 DEF CallInv, Clearing

\* A step of one thread, of the mutex, of the life of a timer, or into a fault
LEMMA ThreadMoves ==
    ASSUME IInv, NEW t \in Threads, PeriodsKept,
           UNCHANGED <<now, list, event, master, fired>>, fault' \in BOOLEAN,
           thread' \in [Threads -> CallRecord],
           \A u \in Threads \ {t} : thread'[u] = thread[u],
           mutex' \in Threads \cup {Master, NULL},
           LockInv', CallInv(t)'
    PROVE  IInv'
<1>1. TypeOK' BY DEF IInv, TypeOK, CallRecord, PeriodsKept, TimerRecord
<1>2. ListInv' /\ StartedInv' BY ListAlone
<1>3. MasterInv' BY DEF IInv, MasterInv, AtEvent
<1>4. OneEventInv' BY DEF IInv, OneEventInv, TimerOf, AtEvent
<1>5. OneShotInv' BY DEF IInv, OneShotInv, TimerOf
<1>6. ASSUME NEW u \in Threads PROVE CallInv(u)'
  <2>1. CASE u = t BY <2>1
  <2>2. CASE u # t BY <2>2, OtherThread
  <2> QED BY <2>1, <2>2
<1>7. FiredInOrder' BY DEF IInv, FiredInOrder
<1> QED BY <1>1, <1>2, <1>3, <1>4, <1>5, <1>6, <1>7 DEF IInv

\* A thread that does not come to work on the list, or has the mutex
LEMMA LockKept ==
    ASSUME IInv, NEW t \in Threads, UNCHANGED <<mutex, master>>,
           \A u \in Threads \ {t} : thread'[u] = thread[u],
           thread'[t].pc \notin Unlocked /\ thread'[t].call \in Locking => mutex = t
    PROVE  LockInv'
BY DEF IInv, LockInv

LEMMA SamePeriods ==
    ASSUME IInv, UNCHANGED vtimer
    PROVE  PeriodsKept
BY Types DEF IInv, PeriodsKept

\* A use of freed memory changes nothing that is said here.
LEMMA FaultStep ==
    ASSUME IInv, Fault
    PROVE  IInv'
<1>1. TypeOK' BY DEF IInv, TypeOK, Fault
<1>2. PeriodsKept BY SamePeriods DEF Fault
<1>3. ListInv' /\ StartedInv' BY <1>2, ListAlone DEF Fault
<1>4. MasterInv' /\ LockInv' BY DEF IInv, MasterInv, LockInv, AtEvent, Fault
<1>5. OneEventInv' /\ OneShotInv'
  BY DEF IInv, OneEventInv, OneShotInv, TimerOf, AtEvent, Fault
<1>6. \A u \in Threads : CallInv(u)' BY <1>2, OtherThread DEF Fault
<1>7. FiredInOrder' BY DEF IInv, FiredInOrder, Fault
<1> QED BY <1>1, <1>3, <1>4, <1>5, <1>6, <1>7 DEF IInv

\* Who starts or queries a timer has it to itself.
LEMMA WorkFacts ==
    ASSUME IInv, NEW t \in Threads,
           thread[t].pc \notin Unlocked, thread[t].call \in Locking
    PROVE  /\ mutex = t /\ master.pc = "idle"
           /\ \A u \in Threads \ {t} :
                 thread[u].pc \in Unlocked \/ thread[u].call \notin Locking
           /\ \A u \in Threads \ {t} : ~ Clearing(u)
<1>1. mutex = t BY DEF IInv, LockInv
<1>2. master.pc = "idle" BY <1>1, VTimerAssumption DEF IInv, LockInv
<1>3. \A u \in Threads \ {t} :
         thread[u].pc \in Unlocked \/ thread[u].call \notin Locking
  BY <1>1 DEF IInv, LockInv
<1>4. \A u \in Threads \ {t} : ~ Clearing(u)
  BY <1>3 DEF Clearing, Unlocked, Locking
<1> QED BY <1>1, <1>2, <1>3, <1>4
-----------------------------------------------------------------------------
(* Steps of a thread that leave the list alone *)

LEMMA CreateStep ==
    ASSUME IInv, NEW t \in Threads, NEW v \in VTimers, Create(t, v)
    PROVE  IInv'
<1>1. /\ vtimer' = [vtimer EXCEPT ![v].life = "live"]
      /\ UNCHANGED <<now, mutex, list, event, master, thread, fault, fired>>
  BY DEF Create
<1>2. vtimer \in [VTimers -> TimerRecord] BY Types DEF IInv
<1>3. PeriodsKept BY <1>1, <1>2 DEF PeriodsKept, TimerRecord
<1>4. /\ thread' \in [Threads -> CallRecord] /\ mutex' \in Threads \cup {Master, NULL}
      /\ fault' \in BOOLEAN
  BY <1>1, Types DEF IInv, TypeOK
<1>5. LockInv' BY <1>1 DEF IInv, LockInv
<1>6. CallInv(t)' BY <1>1, <1>3, OtherThread
<1> QED BY <1>1, <1>3, <1>4, <1>5, <1>6, ThreadMoves

\* The calls that go to the mutex first
LEMMA BeginStep ==
    ASSUME IInv, NEW t \in Threads, NEW v \in VTimers,
           \/ \E period \in Periods : StartCall(t, v, period)
           \/ RestartCall(t, v)
           \/ QueryCall(t, v)
    PROVE  IInv'
<1>1. /\ vtimer \in [VTimers -> TimerRecord] /\ thread \in [Threads -> CallRecord]
      /\ mutex \in Threads \cup {Master, NULL}
  BY Types DEF IInv
<1>2. PICK c \in Locking :
         /\ thread' = [thread EXCEPT ![t] = [NoCall EXCEPT !.pc = "lock", !.call = c,
                                                           !.vtimer = v]]
         /\ c = "start" => vtimer'[v].period # 0
         /\ PeriodsKept
  <2>1. CASE \E period \in Periods : StartCall(t, v, period)
    <3>1. PICK period \in Periods : StartCall(t, v, period) BY <2>1
    <3>2. period # 0 BY PeriodFacts
    <3>3. vtimer' = [vtimer EXCEPT ![v].period = period] BY <3>1 DEF StartCall
    <3>4. vtimer'[v].period # 0 /\ PeriodsKept
      BY <1>1, <3>2, <3>3 DEF PeriodsKept, TimerRecord
    <3> QED BY <3>1, <3>4 DEF StartCall, Begin, Locking
  <2>2. CASE RestartCall(t, v)
    <3>1. PeriodsKept BY <2>2, SamePeriods DEF RestartCall
    <3> QED BY <2>2, <3>1 DEF RestartCall, Begin, Locking
  <2>3. CASE QueryCall(t, v)
    <3>1. PeriodsKept BY <2>3, SamePeriods DEF QueryCall
    <3> QED BY <2>3, <3>1 DEF QueryCall, Begin, Locking
  <2> QED BY <2>1, <2>2, <2>3
<1>3. UNCHANGED <<now, mutex, list, event, master, fault, fired>>
  BY DEF StartCall, RestartCall, QueryCall
<1>4. thread'[t] = [pc |-> "lock", call |-> c, vtimer |-> v,
                    search |-> NULL, victim |-> NULL]
  BY <1>1, <1>2 DEF NoCall
<1>5. thread'[t] \in CallRecord BY <1>4 DEF CallRecord, ThreadPC, Call, Locking
<1>6. /\ thread' \in [Threads -> CallRecord]
      /\ \A u \in Threads \ {t} : thread'[u] = thread[u]
  BY <1>1, <1>2, <1>5
<1>7. /\ thread'[t].pc = "lock" /\ thread'[t].call = c
      /\ thread'[t].vtimer = v /\ thread'[t].victim = NULL
  BY <1>4
<1>8. LockInv' BY <1>3, <1>6, <1>7, LockKept DEF Unlocked
<1>9. CallInv(t)'
  <2>1. v # NULL BY VTimerAssumption
  <2> QED BY <1>2, <1>7, <2>1 DEF CallInv
<1>10. fault' \in BOOLEAN BY <1>3 DEF IInv, TypeOK
<1> QED BY <1>1, <1>2, <1>3, <1>6, <1>8, <1>9, <1>10, ThreadMoves

LEMMA FirstFacts ==
    ASSUME TypeOK
    PROVE  /\ FirstEvent \in Addr \cup {NULL}
           /\ \A i \in DOMAIN list : /\ FirstEvent = list[1]
                                     /\ FirstEvent # NULL
                                     /\ 1 \in DOMAIN list /\ 1 <= i
<1>1. list \in Seq(Addr) /\ Len(list) \in Nat /\ DOMAIN list = 1 .. Len(list) BY Types
<1>2. NULL \notin Addr BY VTimerAssumption
<1>3. FirstEvent \in Addr \cup {NULL} BY <1>1 DEF FirstEvent
<1>4. ASSUME NEW i \in DOMAIN list
      PROVE  /\ FirstEvent = list[1] /\ FirstEvent # NULL
             /\ 1 \in DOMAIN list /\ 1 <= i
  BY <1>1, <1>2, <1>4 DEF FirstEvent
<1> QED BY <1>3, <1>4

LEMMA StopCallStep ==
    ASSUME IInv, NEW t \in Threads, NEW v \in VTimers,
           NEW call \in {"stop", "destroy"}, StopCall(t, v, call)
    PROVE  IInv'
<1>1. /\ thread' = [thread EXCEPT ![t] = [NoCall EXCEPT !.pc = "search", !.call = call,
                                                        !.vtimer = v,
                                                        !.search = FirstEvent]]
      /\ UNCHANGED <<now, mutex, list, event, vtimer, master, fault, fired>>
  BY DEF StopCall
<1>2. thread \in [Threads -> CallRecord] /\ mutex \in Threads \cup {Master, NULL}
  BY Types DEF IInv
<1>3. FirstEvent \in Addr \cup {NULL} BY FirstFacts DEF IInv
<1>4. thread'[t] = [pc |-> "search", call |-> call, vtimer |-> v,
                    search |-> FirstEvent, victim |-> NULL]
  BY <1>1, <1>2 DEF NoCall
<1>5. thread'[t] \in CallRecord BY <1>3, <1>4 DEF CallRecord, ThreadPC, Call
<1>6. /\ thread' \in [Threads -> CallRecord]
      /\ \A u \in Threads \ {t} : thread'[u] = thread[u]
  BY <1>1, <1>2, <1>5
<1>7. /\ thread'[t].pc = "search" /\ thread'[t].call \notin Locking
      /\ thread'[t].call # "query" /\ thread'[t].call # "start"
      /\ thread'[t].vtimer # NULL
  BY <1>4, VTimerAssumption DEF Locking
<1>8. LockInv' BY <1>1, <1>6, <1>7, LockKept
<1>9. CallInv(t)' BY <1>7 DEF CallInv
<1>10. PeriodsKept /\ fault' \in BOOLEAN BY <1>1, SamePeriods DEF IInv, TypeOK
<1> QED BY <1>1, <1>2, <1>6, <1>8, <1>9, <1>10, ThreadMoves

LEMMA LockStep ==
    ASSUME IInv, NEW t \in Threads, Lock(t)
    PROVE  IInv'
<1>1. thread \in [Threads -> CallRecord] /\ thread[t] \in CallRecord
  BY Types DEF IInv
<1>2. FirstEvent \in Addr \cup {NULL} BY FirstFacts DEF IInv
<1>3. CallInv(t) /\ thread[t].pc = "lock" BY DEF IInv, Lock, At
<1>4. PICK pc \in {"query", "search"} :
         /\ pc = IF thread[t].call = "query" THEN "query" ELSE "search"
         /\ thread'[t] = [thread[t] EXCEPT !.pc = pc, !.search = FirstEvent]
         /\ \A u \in Threads \ {t} : thread'[u] = thread[u]
         /\ thread' = [thread EXCEPT ![t] = thread'[t]]
  BY <1>1 DEF Lock
<1>5. /\ thread'[t] \in CallRecord
      /\ thread'[t].pc = pc /\ thread'[t].call = thread[t].call
      /\ thread'[t].vtimer = thread[t].vtimer /\ thread'[t].victim = thread[t].victim
      /\ thread'[t].search = FirstEvent
  BY <1>1, <1>2, <1>4 DEF CallRecord, ThreadPC
<1>6. thread' \in [Threads -> CallRecord] BY <1>1, <1>4, <1>5
<1>7. /\ mutex = NULL /\ mutex' = t
      /\ UNCHANGED <<now, list, event, vtimer, master, fault, fired>>
  BY DEF Lock
<1>8. LockInv'
  <2>1. /\ master.pc = "idle"
        /\ \A u \in Threads :
              thread[u].pc \in Unlocked \/ thread[u].call \notin Locking
    BY <1>7, VTimerAssumption DEF IInv, LockInv
  <2> QED BY <1>4, <1>7, <2>1 DEF LockInv
<1>9. CallInv(t)'
  <2>1. /\ thread[t].call \in {"start", "query"} /\ thread[t].victim = NULL
        /\ thread[t].vtimer # NULL
        /\ thread[t].call = "start" => vtimer[thread[t].vtimer].period # 0
    BY <1>3 DEF CallInv, Locking
  <2>2. pc = "search" => Cleared(t)'
    <3>1. \A i \in DOMAIN list : /\ FirstEvent = list[1] /\ FirstEvent # NULL
                                 /\ 1 \in DOMAIN list /\ 1 <= i
      BY FirstFacts DEF IInv
    <3> QED BY <1>5, <1>7, <2>1, <3>1 DEF Cleared
  <2>3. pc = "search" <=> thread[t].call = "start" BY <1>4, <2>1
  <2> QED BY <1>5, <1>7, <2>1, <2>2, <2>3 DEF CallInv, Locking
<1>10. PeriodsKept /\ fault' \in BOOLEAN BY <1>7, SamePeriods DEF IInv, TypeOK
<1> QED BY <1>4, <1>6, <1>7, <1>8, <1>9, <1>10, ThreadMoves

\* The end of a call
LEMMA EndStep ==
    ASSUME IInv, NEW t \in Threads,
           StopDeletedAll(t) \/ DestroyDeletedAll(t) \/ Unlock(t)
    PROVE  IInv'
<1>1. /\ thread \in [Threads -> CallRecord] /\ vtimer \in [VTimers -> TimerRecord]
      /\ mutex \in Threads \cup {Master, NULL}
  BY Types DEF IInv
<1>2. /\ thread' = [thread EXCEPT ![t] = NoCall]
      /\ UNCHANGED <<now, list, event, master, fault, fired>>
  BY DEF StopDeletedAll, DestroyDeletedAll, Unlock
<1>3. /\ NoCall \in CallRecord /\ NoCall.pc = "idle" /\ NoCall.call = "query"
  BY DEF NoCall, CallRecord, ThreadPC, Call
<1>4. /\ thread'[t].pc = "idle" /\ thread'[t].call = "query"
      /\ thread' \in [Threads -> CallRecord]
      /\ \A u \in Threads \ {t} : thread'[u] = thread[u]
  BY <1>1, <1>2, <1>3
<1>5. PeriodsKept
  <2>1. \/ vtimer' = vtimer
        \/ vtimer' = [vtimer EXCEPT ![thread[t].vtimer].life = "freed"]
    BY DEF StopDeletedAll, DestroyDeletedAll, Unlock
  <2> QED BY <1>1, <2>1 DEF PeriodsKept, TimerRecord
<1>6. LockInv' /\ mutex' \in Threads \cup {Master, NULL}
  <2>1. CASE mutex' = mutex
    <3>1. LockInv' BY <1>2, <1>4, <2>1, LockKept DEF Unlocked
    <3> QED BY <1>1, <2>1, <3>1
  <2>2. CASE Unlock(t)
    <3>1. thread[t].pc = "unlock" /\ CallInv(t) BY <2>2 DEF Unlock, At, IInv
    <3>2. thread[t].pc \notin Unlocked /\ thread[t].call \in Locking
      BY <3>1 DEF CallInv, Unlocked
    <3>3. /\ master.pc = "idle"
          /\ \A u \in Threads \ {t} :
                thread[u].pc \in Unlocked \/ thread[u].call \notin Locking
      BY <3>2, WorkFacts
    <3> QED BY <1>2, <1>4, <2>2, <3>3 DEF LockInv, Unlock, Unlocked
  <2> QED BY <2>1, <2>2 DEF StopDeletedAll, DestroyDeletedAll
<1>7. CallInv(t)' BY <1>4 DEF CallInv
<1>8. fault' \in BOOLEAN BY <1>2 DEF IInv, TypeOK
<1> QED BY <1>2, <1>4, <1>5, <1>6, <1>7, <1>8, ThreadMoves

\* One node of the walk
LEMMA SearchStep ==
    ASSUME IInv, NEW t \in Threads, Search(t)
    PROVE  IInv'
<1> DEFINE a == thread[t].search
           v == thread[t].vtimer
<1>1. thread[t].pc = "search" /\ a # NULL BY DEF Search, At
<1>2. thread \in [Threads -> CallRecord] /\ thread[t] \in CallRecord /\ CallInv(t)
  BY Types DEF IInv
<1>3. CASE Fault BY <1>3, FaultStep
<1>4. CASE ~ Fault
  <2>1. event[a] # NULL BY <1>4 DEF Search
  <2>2. /\ UNCHANGED <<now, mutex, list, event, vtimer, master, fault, fired>>
        /\ thread' = IF event[a].vtimer # v
                     THEN [thread EXCEPT ![t].search = NextEvent(a)]
                     ELSE IF thread[t].victim = NULL
                     THEN [thread EXCEPT ![t].search = NextEvent(a), ![t].victim = a]
                     ELSE [thread EXCEPT ![t].pc = "delete"]
    BY <1>4 DEF Search
  <2>3. a \in Addr BY <1>1, <1>2 DEF CallRecord
  <2>4. PICK k \in DOMAIN list : list[k] = a BY <2>1, <2>3 DEF IInv, ListInv
  <2>5. /\ NextEvent(a) \in Addr \cup {NULL}
        /\ NextEvent(a) # NULL => k + 1 \in DOMAIN list /\ list[k + 1] = NextEvent(a)
        /\ k + 1 \in DOMAIN list => NextEvent(a) = list[k + 1]
    BY <2>4, NextFacts DEF IInv
  <2>6. /\ thread' \in [Threads -> CallRecord] /\ thread'[t] \in CallRecord
        /\ \A u \in Threads \ {t} : thread'[u] = thread[u]
        /\ thread'[t].call = thread[t].call /\ thread'[t].vtimer = v
        /\ \/ /\ event[a].vtimer # v
              /\ thread'[t].pc = "search" /\ thread'[t].search = NextEvent(a)
              /\ thread'[t].victim = thread[t].victim
           \/ /\ event[a].vtimer = v /\ thread[t].victim = NULL
              /\ thread'[t].pc = "search" /\ thread'[t].search = NextEvent(a)
              /\ thread'[t].victim = a
           \/ /\ event[a].vtimer = v /\ thread[t].victim # NULL
              /\ thread'[t].pc = "delete" /\ thread'[t].victim = thread[t].victim
    <3> HIDE DEF a, v
    <3>1. CASE event[a].vtimer # v
      BY <1>1, <1>2, <2>2, <2>5, <3>1 DEF CallRecord, v
    <3>2. CASE event[a].vtimer = v /\ thread[t].victim = NULL
      BY <1>1, <1>2, <2>2, <2>3, <2>5, <3>2 DEF CallRecord, v
    <3>3. CASE event[a].vtimer = v /\ thread[t].victim # NULL
      BY <1>1, <1>2, <2>2, <3>3 DEF CallRecord, ThreadPC, v
    <3> QED BY <3>1, <3>2, <3>3
  <2>7. Clearing(t) => Cleared(t)'
    <3> SUFFICES ASSUME thread[t].call = "start", NEW i \in DOMAIN list, TimerOf(i) = v
                 PROVE  \/ thread'[t].pc # "add" /\ list[i] = thread'[t].victim
                        \/ /\ thread'[t].pc = "search"
                           /\ thread'[t].victim = NULL
                           /\ thread'[t].search # NULL
                           /\ event[thread'[t].search] # NULL =>
                                 \E m \in DOMAIN list :
                                    m <= i /\ list[m] = thread'[t].search
      <4>1. UNCHANGED <<list, event>> /\ thread'[t].vtimer = v BY <2>2, <2>6
      <4> HIDE DEF a
      <4> QED BY <4>1 DEF Clearing, Cleared, TimerOf
    <3>1. \/ list[i] = thread[t].victim
          \/ thread[t].victim = NULL /\ \E m \in DOMAIN list : m <= i /\ list[m] = a
      BY <1>1, <1>2, <2>1 DEF CallInv, Cleared
    <3>2. CASE list[i] = thread[t].victim
      <4>1. list[i] # NULL BY EventFacts, VTimerAssumption DEF IInv
      <4> QED BY <2>6, <3>2, <4>1
    <3>3. CASE thread[t].victim = NULL /\ \E m \in DOMAIN list : m <= i /\ list[m] = a
      <4>1. k <= i BY <2>4, <3>3 DEF IInv, ListInv
      <4>2. CASE event[a].vtimer # v
        <5>1. i # k BY <2>4, <4>2 DEF TimerOf
        <5>2. k + 1 \in DOMAIN list /\ k + 1 <= i
          BY <4>1, <5>1, Types DEF IInv
        <5>3. NextEvent(a) = list[k + 1] /\ list[k + 1] # NULL
          BY <2>5, <5>2, EventFacts, VTimerAssumption DEF IInv
        <5> QED BY <2>6, <3>3, <4>2, <5>2, <5>3
      <4>3. CASE event[a].vtimer = v
        <5>1. TimerOf(k) = TimerOf(i) BY <2>4, <4>3 DEF TimerOf
        <5>2. master.pc = "idle"
          BY <1>1, WorkFacts DEF Unlocked, Locking
        <5>3. k = i BY <5>1, <5>2 DEF IInv, OneEventInv, AtEvent
        <5> QED BY <2>4, <2>6, <3>3, <4>3, <5>3
      <4> QED BY <4>2, <4>3
    <3> QED BY <3>1, <3>2, <3>3
  <2>8. LockInv'
    <3>1. thread[t].pc \notin Unlocked BY <1>1 DEF Unlocked
    <3>2. thread'[t].call \in Locking => mutex = t BY <2>6, <3>1, WorkFacts
    <3> QED BY <2>2, <2>6, <3>2, LockKept
  <2>9. CallInv(t)'
    <3>1. thread'[t].pc \in {"search", "delete"}
          /\ (thread'[t].pc = "delete" => thread'[t].victim # NULL)
      BY <2>6
    <3>2. thread[t].call # "query" /\ thread[t].vtimer # NULL
          /\ (thread[t].call = "start" => vtimer[thread[t].vtimer].period # 0)
      BY <1>1, <1>2 DEF CallInv
    <3>3. Clearing(t) <=> thread[t].call = "start" BY <1>1 DEF Clearing
    <3> QED BY <2>2, <2>6, <2>7, <3>1, <3>2, <3>3 DEF CallInv
  <2>10. PeriodsKept /\ fault' \in BOOLEAN /\ mutex' \in Threads \cup {Master, NULL}
    BY <2>2, SamePeriods, Types DEF IInv, TypeOK
  <2> QED BY <2>2, <2>6, <2>8, <2>9, <2>10, ThreadMoves
<1> QED BY <1>3, <1>4

\* The end of the walk, and a query's look at the list
LEMMA SearchEndStep ==
    ASSUME IInv, NEW t \in Threads,
           SearchEnd(t) \/ StartDeletedAll(t) \/ Query(t)
    PROVE  IInv'
<1>1. thread \in [Threads -> CallRecord] /\ thread[t] \in CallRecord /\ CallInv(t)
  BY Types DEF IInv
<1>2. UNCHANGED <<now, mutex, list, event, vtimer, master, fault, fired>>
  BY DEF SearchEnd, StartDeletedAll, Query
<1>3. PICK pc \in {"delete", "add", "unlock"} :
         /\ thread' = [thread EXCEPT ![t].pc = pc]
         /\ pc = "delete" => /\ thread[t].pc = "search" /\ thread[t].search = NULL
                             /\ thread[t].victim # NULL
         /\ pc = "add" => /\ thread[t].pc = "search" /\ thread[t].search = NULL
                          /\ thread[t].victim = NULL /\ thread[t].call = "start"
         /\ pc = "unlock" => thread[t].pc = "query"
  <2>1. CASE SearchEnd(t) BY <2>1 DEF SearchEnd, At
  <2>2. CASE StartDeletedAll(t) BY <2>2 DEF StartDeletedAll, DeletedAll, At
  <2>3. CASE Query(t) BY <2>3 DEF Query, At
  <2> QED BY <2>1, <2>2, <2>3
<1>4. /\ thread'[t] \in CallRecord /\ thread'[t].pc = pc
      /\ thread'[t].call = thread[t].call /\ thread'[t].vtimer = thread[t].vtimer
      /\ thread'[t].victim = thread[t].victim /\ thread'[t].search = thread[t].search
      /\ thread' \in [Threads -> CallRecord]
      /\ \A u \in Threads \ {t} : thread'[u] = thread[u]
  BY <1>1, <1>3 DEF CallRecord, ThreadPC
<1>5. thread[t].pc \in {"search", "query"} BY <1>3
<1>6. LockInv'
  <2>1. thread[t].pc \notin Unlocked BY <1>5 DEF Unlocked
  <2>2. thread'[t].call \in Locking => mutex = t BY <1>4, <2>1, WorkFacts
  <2> QED BY <1>2, <1>4, <2>2, LockKept
<1>7. thread[t].call = "start" /\ pc # "unlock" => Cleared(t)'
  <2> SUFFICES ASSUME thread[t].call = "start", pc # "unlock", NEW i \in DOMAIN list,
                      TimerOf(i) = thread[t].vtimer
               PROVE  pc # "add" /\ list[i] = thread[t].victim
    BY <1>2, <1>4 DEF Cleared, TimerOf
  <2>1. thread[t].pc = "search" /\ thread[t].search = NULL BY <1>3
  <2>2. list[i] = thread[t].victim BY <1>1, <2>1 DEF CallInv, Cleared
  <2>3. list[i] # NULL BY EventFacts, VTimerAssumption DEF IInv
  <2> QED BY <1>3, <2>2, <2>3
<1>8. CallInv(t)'
  <2>1. /\ thread[t].vtimer # NULL
        /\ thread[t].call = "start" => vtimer[thread[t].vtimer].period # 0
        /\ thread[t].pc = "query" => thread[t].call \in Locking
        /\ thread[t].pc = "search" => thread[t].call # "query"
    BY <1>1, <1>5 DEF CallInv
  <2>2. CASE pc = "delete" BY <1>2, <1>3, <1>4, <1>7, <2>1, <2>2 DEF CallInv
  <2>3. CASE pc = "add" BY <1>2, <1>3, <1>4, <1>7, <2>1, <2>3 DEF CallInv, Locking
  <2>4. CASE pc = "unlock" BY <1>2, <1>3, <1>4, <2>1, <2>4 DEF CallInv
  <2> QED BY <2>2, <2>3, <2>4
<1>9. PeriodsKept /\ fault' \in BOOLEAN /\ mutex' \in Threads \cup {Master, NULL}
  BY <1>2, SamePeriods, Types DEF IInv, TypeOK
<1> QED BY <1>2, <1>4, <1>6, <1>8, <1>9, ThreadMoves
-----------------------------------------------------------------------------
(* Steps that take an event from the list *)

\* What is left in the list was there before.
LEMMA ShrunkFrom ==
    ASSUME TypeOK, NEW p \in DOMAIN list, Shrunk(p), NEW i \in DOMAIN list'
    PROVE  \E k \in DOMAIN list : /\ k # p
                                  /\ k = (IF i < p THEN i ELSE i + 1)
                                  /\ list'[i] = list[k]
                                  /\ TimerOf(i)' = TimerOf(k)
                                  /\ TimeOf(i)' = TimeOf(k)
<1> DEFINE n == Len(list)
<1>1. n \in Nat /\ DOMAIN list = 1 .. n /\ p \in 1 .. n BY Types
<1>2. DOMAIN list' = 1 .. n - 1 BY DEF Shrunk
<1>3. CASE i < p
  <2>1. i \in DOMAIN list /\ i # p BY <1>1, <1>2, <1>3
  <2> QED BY <1>2, <1>3, <2>1 DEF Shrunk
<1>4. CASE i >= p
  <2>1. i + 1 \in DOMAIN list /\ i + 1 # p /\ ~ (i < p) BY <1>1, <1>2, <1>4
  <2> QED BY <1>2, <1>4, <2>1 DEF Shrunk
<1> QED BY <1>1, <1>2, <1>3, <1>4

\* Who walks through the list to start a timer has still cleared it behind him.
LEMMA ShrunkCleared ==
    ASSUME IInv, NEW p \in DOMAIN list, DeleteEvent(list[p]), Shrunk(p),
           NEW u \in Threads, thread'[u] = thread[u], Cleared(u)
    PROVE  Cleared(u)'
<1>1. TypeOK /\ event \in [Addr -> Event \cup {NULL}] BY Types DEF IInv
<1>2. thread[u].search \in Addr \cup {NULL} BY Types DEF IInv, CallRecord
<1>3. ASSUME NEW i \in DOMAIN list', TimerOf(i)' = thread[u].vtimer
      PROVE  \/ thread[u].pc # "add" /\ list'[i] = thread[u].victim
             \/ /\ thread[u].pc = "search"
                /\ thread[u].victim = NULL
                /\ thread[u].search # NULL
                /\ event'[thread[u].search] # NULL =>
                      \E m \in DOMAIN list' : m <= i /\ list'[m] = thread[u].search
  <2>1. PICK k \in DOMAIN list : /\ k # p
                                 /\ k = (IF i < p THEN i ELSE i + 1)
                                 /\ list'[i] = list[k]
                                 /\ TimerOf(i)' = TimerOf(k)
    BY <1>1, ShrunkFrom
  <2>2. CASE thread[u].pc # "add" /\ list[k] = thread[u].victim BY <2>1, <2>2
  <2>3. CASE /\ thread[u].pc = "search"
             /\ thread[u].victim = NULL
             /\ thread[u].search # NULL
             /\ event[thread[u].search] # NULL =>
                   \E m \in DOMAIN list : m <= k /\ list[m] = thread[u].search
    <3> SUFFICES ASSUME event'[thread[u].search] # NULL
                 PROVE  \E m \in DOMAIN list' : m <= i /\ list'[m] = thread[u].search
      BY <2>3
    <3>1. thread[u].search \in Addr BY <1>2, <2>3
    <3>2. thread[u].search # list[p] /\ event[thread[u].search] # NULL
      BY <1>1, <3>1 DEF DeleteEvent
    <3>3. PICK m \in DOMAIN list : m <= k /\ list[m] = thread[u].search
      BY <2>3, <3>2
    <3>4. m # p BY <3>2, <3>3
    <3>5. /\ Len(list) \in Nat /\ DOMAIN list = 1 .. Len(list)
          /\ DOMAIN list' = 1 .. Len(list) - 1
      BY <1>1, Types DEF Shrunk
    <3>6. CASE m < p
      <4>1. m \in DOMAIN list' /\ m <= i BY <2>1, <3>3, <3>5, <3>6
      <4>2. list'[m] = list[m] BY <3>5, <3>6, <4>1 DEF Shrunk
      <4> QED BY <3>3, <4>1, <4>2
    <3>7. CASE m > p
      <4>1. m - 1 \in DOMAIN list' /\ m - 1 <= i /\ m - 1 >= p /\ (m - 1) + 1 = m
        BY <2>1, <3>3, <3>5, <3>7
      <4>2. list'[m - 1] = list[(m - 1) + 1] BY <3>5, <4>1 DEF Shrunk
      <4> QED BY <3>3, <4>1, <4>2
    <3> QED BY <3>4, <3>5, <3>6, <3>7
  <2>4. TimerOf(k) = thread[u].vtimer BY <1>3, <2>1
  <2>5. \/ thread[u].pc # "add" /\ list[k] = thread[u].victim
        \/ /\ thread[u].pc = "search"
           /\ thread[u].victim = NULL
           /\ thread[u].search # NULL
           /\ event[thread[u].search] # NULL =>
                 \E m \in DOMAIN list : m <= k /\ list[m] = thread[u].search
    BY <2>4 DEF Cleared
  <2> QED BY <2>2, <2>3, <2>5
<1> QED BY <1>3 DEF Cleared

\* All that a deletion keeps, be it in the middle of what other threads do: the
\* master callback, if it is not the one that deletes, finds its event the first
\* of the list or freed.
LEMMA DeleteKeeps ==
    ASSUME IInv, NEW p \in DOMAIN list, DeleteEvent(list[p]),
           UNCHANGED <<now, vtimer, fired>>,
           \/ master' = master
           \/ /\ master.pc = "delete" /\ list[p] = master.current
              /\ master'.pc = "loop" /\ master'.time = master.time
    PROVE  /\ list' \in Seq(Addr)
           /\ event' \in [Addr -> Event \cup {NULL}]
           /\ \A i \in DOMAIN list' : event'[list'[i]] # NULL
           /\ Shrunk(p) /\ ListInv' /\ StartedInv' /\ MasterInv' /\ OneEventInv'
           /\ OneShotInv' /\ FiredInOrder'
<1>1. TypeOK /\ ListInv BY DEF IInv
<1>2. /\ list' \in Seq(Addr)
      /\ event' \in [Addr -> Event \cup {NULL}]
      /\ \A i \in DOMAIN list' : event'[list'[i]] # NULL
      /\ Shrunk(p)
      /\ ListInv'
  BY <1>1, DeleteFacts
<1>3. ASSUME NEW i \in DOMAIN list'
      PROVE  \E k \in DOMAIN list : /\ k # p
                                    /\ k = (IF i < p THEN i ELSE i + 1)
                                    /\ list'[i] = list[k]
                                    /\ TimerOf(i)' = TimerOf(k)
                                    /\ TimeOf(i)' = TimeOf(k)
  BY <1>1, <1>2, ShrunkFrom
<1>4. StartedInv'
  <2>1. \A i \in DOMAIN list' : vtimer[TimerOf(i)'].period # 0
    BY <1>3 DEF IInv, StartedInv
  <2> QED BY <2>1 DEF StartedInv
<1>5. FiredInOrder'
  <2>1. \A i \in DOMAIN list' : TimeOf(i)' >= fired.latest
    BY <1>3 DEF IInv, FiredInOrder, TimeOf
  <2> QED BY <2>1 DEF IInv, FiredInOrder, TimeOf
<1>6. /\ Len(list) \in Nat /\ DOMAIN list = 1 .. Len(list)
      /\ DOMAIN list' = 1 .. Len(list) - 1 /\ p \in 1 .. Len(list)
      /\ event \in [Addr -> Event \cup {NULL}]
      /\ list \in Seq(Addr) /\ master \in MasterRecord
  BY <1>1, <1>2, Types DEF Shrunk
<1>7. \A i \in DOMAIN list' : list'[i] # list[p]
  BY <1>1, <1>3 DEF ListInv
<1>8. MasterInv'
  <2>1. CASE master' = master
    <3>1. master'.time <= now' BY <2>1 DEF IInv, MasterInv
    <3>2. AtEvent => master.current \in Addr
      BY <1>6 DEF IInv, MasterInv, MasterRecord
    <3>3. ASSUME AtEvent, event'[master.current] # NULL
          PROVE  /\ event[master.current] # NULL
                 /\ event'[master.current] = event[master.current]
                 /\ list' # << >> /\ master.current = list'[1]
      <4>1. /\ event[master.current] # NULL /\ master.current # list[p]
            /\ event'[master.current] = event[master.current]
        BY <1>6, <3>2, <3>3 DEF DeleteEvent
      <4>2. list # << >> /\ master.current = list[1]
        BY <3>3, <4>1 DEF IInv, MasterInv
      <4>3. p > 1 /\ 1 \in DOMAIN list' BY <1>6, <4>1, <4>2
      <4>4. list'[1] = list[1] BY <1>6, <1>2, <4>3 DEF Shrunk
      <4>5. list' # << >>
        <5> SUFFICES ASSUME list' = << >> PROVE FALSE OBVIOUS
        <5> QED BY <4>3
      <4> QED BY <4>1, <4>2, <4>4, <4>5
    <3>4. master.pc = "fire" /\ event'[master.current] # NULL =>
             event'[master.current].expiration <= now
      BY <3>3 DEF IInv, MasterInv, AtEvent
    <3>5. AtEvent => master.current # NULL BY DEF IInv, MasterInv
    <3> QED BY <2>1, <3>1, <3>3, <3>4, <3>5 DEF MasterInv, AtEvent
  <2>2. CASE master'.pc = "loop" /\ master'.time = master.time
    BY <2>2 DEF IInv, MasterInv, AtEvent
  <2> QED BY <2>1, <2>2
<1>9. OneEventInv'
  <2> SUFFICES ASSUME NEW i \in DOMAIN list', NEW j \in DOMAIN list',
                      TimerOf(i)' = TimerOf(j)', i # j
               PROVE  /\ AtEvent'
                      /\ TimerOf(i)' \in Periodic
                      /\ master'.current \in {list'[i], list'[j]}
    BY DEF OneEventInv
  <2>1. PICK k \in DOMAIN list : /\ k = (IF i < p THEN i ELSE i + 1)
                                 /\ list'[i] = list[k] /\ TimerOf(i)' = TimerOf(k)
    BY <1>3
  <2>2. PICK l \in DOMAIN list : /\ l = (IF j < p THEN j ELSE j + 1)
                                 /\ list'[j] = list[l] /\ TimerOf(j)' = TimerOf(l)
    BY <1>3
  <2>3. k # l BY <1>6, <2>1, <2>2
  <2>4. AtEvent /\ TimerOf(k) \in Periodic /\ master.current \in {list[k], list[l]}
    <3>1. TimerOf(k) = TimerOf(l) BY <2>1, <2>2
    <3>2. OneEventInv BY DEF IInv
    <3> QED BY <2>3, <3>1, <3>2 DEF OneEventInv
  <2>5. master.current # list[p] BY <1>7, <2>1, <2>2, <2>4
  <2>6. master' = master BY <2>5
  <2> QED BY <2>1, <2>2, <2>4, <2>6 DEF AtEvent
<1>10. OneShotInv'
  <2> SUFFICES ASSUME NEW w \in VTimers \ Periodic
               PROVE  /\ fired.count[w] <= 1
                      /\ fired.count[w] = 1 =>
                            \A i \in DOMAIN list' :
                               TimerOf(i)' = w =>
                                  master'.pc = "delete" /\ list'[i] = master'.current
    BY DEF OneShotInv
  <2>1. /\ fired.count[w] <= 1
        /\ fired.count[w] = 1 =>
              \A i \in DOMAIN list :
                 TimerOf(i) = w => master.pc = "delete" /\ list[i] = master.current
    BY DEF IInv, OneShotInv
  <2>2. ASSUME fired.count[w] = 1, NEW i \in DOMAIN list', TimerOf(i)' = w
        PROVE  master'.pc = "delete" /\ list'[i] = master'.current
    <3>1. PICK k \in DOMAIN list : list'[i] = list[k] /\ TimerOf(i)' = TimerOf(k)
      BY <1>3
    <3>2. master.pc = "delete" /\ list'[i] = master.current BY <2>1, <2>2, <3>1
    <3>3. master' = master BY <1>7, <3>2
    <3> QED BY <3>2, <3>3
  <2> QED BY <2>1, <2>2
<1> QED BY <1>2, <1>4, <1>5, <1>8, <1>9, <1>10

\* A thread that did not move, while another one takes an event from the list
LEMMA OtherThreadShrunk ==
    ASSUME IInv, NEW p \in DOMAIN list, DeleteEvent(list[p]), Shrunk(p),
           UNCHANGED vtimer, NEW u \in Threads, thread'[u] = thread[u]
    PROVE  CallInv(u)'
<1>1. PeriodsKept BY SamePeriods
<1>2. CASE ~ Clearing(u) BY <1>1, <1>2, OtherThread
<1>3. CASE Clearing(u)
  <2>1. CallInv(u) BY DEF IInv
  <2>2. Cleared(u)' BY <1>3, <2>1, ShrunkCleared DEF CallInv, Clearing
  <2> QED BY <2>1, <2>2 DEF CallInv
<1> QED BY <1>2, <1>3

LEMMA MasterDeleteStep ==
    ASSUME IInv, MasterDelete
    PROVE  IInv'
<1>1. CASE Fault BY <1>1, FaultStep
<1>2. CASE ~ Fault
  <2>1. /\ master.pc = "delete" /\ event[master.current] # NULL
        /\ DeleteEvent(master.current)
        /\ master' = [master EXCEPT !.pc = "loop", !.current = NULL]
        /\ UNCHANGED <<now, mutex, vtimer, thread, fault, fired>>
    BY <1>2 DEF MasterDelete, MasterAt
  <2>2. master \in MasterRecord /\ Len(list) \in Nat /\ DOMAIN list = 1 .. Len(list)
    BY Types DEF IInv
  <2>3. /\ master' \in MasterRecord
        /\ master'.pc = "loop" /\ master'.time = master.time
    BY <2>1, <2>2 DEF MasterRecord, MasterPC
  <2>4. list # << >> /\ master.current = list[1]
    BY <2>1 DEF IInv, MasterInv, AtEvent
  <2>5. PICK p \in DOMAIN list : list[p] = master.current
    <3>1. list \in Seq(Addr) BY Types DEF IInv
    <3>2. 1 \in DOMAIN list BY <2>2, <2>4, <3>1
    <3> QED BY <2>4, <3>2
  <2>6. /\ list' \in Seq(Addr)
        /\ event' \in [Addr -> Event \cup {NULL}]
        /\ \A i \in DOMAIN list' : event'[list'[i]] # NULL
        /\ Shrunk(p) /\ ListInv' /\ StartedInv' /\ MasterInv' /\ OneEventInv'
        /\ OneShotInv' /\ FiredInOrder'
    BY <2>1, <2>3, <2>5, DeleteKeeps
  <2>7. TypeOK' BY <2>1, <2>3, <2>6 DEF IInv, TypeOK, MasterRecord
  <2>8. LockInv' BY <2>1 DEF IInv, LockInv
  <2>9. \A u \in Threads : CallInv(u)'
    BY <2>1, <2>5, <2>6, OtherThreadShrunk
  <2> QED BY <2>6, <2>7, <2>8, <2>9 DEF IInv
<1> QED BY <1>1, <1>2

\* A thread deletes the victim of its walk, with the mutex or without.
LEMMA DeleteVictimStep ==
    ASSUME IInv, NEW t \in Threads, DeleteVictim(t)
    PROVE  IInv'
<1> DEFINE a == thread[t].victim
           b == thread[t].search
<1>1. CASE Fault BY <1>1, FaultStep
<1>2. CASE ~ Fault
  <2>1. PICK next : next = (IF b = NULL THEN NULL ELSE NextEvent(b)) OBVIOUS
  <2>2. /\ thread[t].pc = "delete" /\ event[a] # NULL
        /\ b # NULL => event[b] # NULL
        /\ DeleteEvent(a)
        /\ thread' = [thread EXCEPT ![t].pc = "search", ![t].victim = b,
                                    ![t].search = next]
        /\ UNCHANGED <<now, mutex, vtimer, master, fault, fired>>
    BY <1>2, <2>1 DEF DeleteVictim, At
  <2>3. /\ thread \in [Threads -> CallRecord] /\ thread[t] \in CallRecord
        /\ CallInv(t)
    BY Types DEF IInv
  <2>4. a \in Addr /\ b \in Addr \cup {NULL} BY <2>2, <2>3 DEF CallInv, CallRecord
  <2>5. PICK p \in DOMAIN list : list[p] = a BY <2>2, <2>4 DEF IInv, ListInv
  <2>6. next \in Addr \cup {NULL}
    <3>1. CASE b = NULL BY <2>1, <3>1
    <3>2. CASE b # NULL
      <4>1. PICK k \in DOMAIN list : list[k] = b
        BY <2>2, <2>4, <3>2 DEF IInv, ListInv
      <4>2. NextEvent(list[k]) \in Addr \cup {NULL} BY NextFacts DEF IInv
      <4> QED BY <2>1, <3>2, <4>1, <4>2
    <3> QED BY <3>1, <3>2
  <2>7. /\ list' \in Seq(Addr)
        /\ event' \in [Addr -> Event \cup {NULL}]
        /\ \A i \in DOMAIN list' : event'[list'[i]] # NULL
        /\ Shrunk(p) /\ ListInv' /\ StartedInv' /\ MasterInv' /\ OneEventInv'
        /\ OneShotInv' /\ FiredInOrder'
    BY <2>2, <2>5, DeleteKeeps
  <2>8. /\ thread' \in [Threads -> CallRecord] /\ thread'[t] \in CallRecord
        /\ thread'[t].pc = "search" /\ thread'[t].call = thread[t].call
        /\ thread'[t].vtimer = thread[t].vtimer
        /\ \A u \in Threads \ {t} : thread'[u] = thread[u]
    <3> HIDE DEF a, b
    <3> QED BY <2>2, <2>3, <2>4, <2>6 DEF CallRecord, ThreadPC
  <2>9. TypeOK' BY <2>2, <2>7, <2>8 DEF IInv, TypeOK, CallRecord
  <2>10. LockInv'
    <3>1. thread[t].pc \notin Unlocked BY <2>2 DEF Unlocked
    <3>2. thread'[t].call \in Locking => mutex = t BY <2>8, <3>1, WorkFacts
    <3> QED BY <2>2, <2>8, <3>2, LockKept
  <2>11. thread[t].call = "start" =>
            \A i \in DOMAIN list' : TimerOf(i)' # thread[t].vtimer
    <3> SUFFICES ASSUME thread[t].call = "start", NEW i \in DOMAIN list',
                        TimerOf(i)' = thread[t].vtimer
                 PROVE  FALSE
      OBVIOUS
    <3>1. PICK k \in DOMAIN list : /\ k # p /\ list'[i] = list[k]
                                   /\ TimerOf(i)' = TimerOf(k)
      BY <2>7, ShrunkFrom DEF IInv
    <3>2. list[k] = a BY <2>2, <2>3, <3>1 DEF CallInv, Cleared
    <3> QED BY <2>5, <3>1, <3>2 DEF IInv, ListInv
  <2>12. thread[t].call = "start" => Cleared(t)' BY <2>8, <2>11 DEF Cleared
  <2>13. CallInv(t)'
    <3>1. /\ thread[t].vtimer # NULL /\ thread[t].call # "query"
          /\ thread[t].call = "start" => vtimer[thread[t].vtimer].period # 0
      BY <2>2, <2>3 DEF CallInv
    <3> QED BY <2>2, <2>8, <2>12, <3>1 DEF CallInv
  <2>14. ASSUME NEW u \in Threads PROVE CallInv(u)'
    <3>1. CASE u # t BY <2>2, <2>5, <2>7, <2>8, <3>1, OtherThreadShrunk
    <3> QED BY <2>13, <3>1
  <2> QED BY <2>7, <2>9, <2>10, <2>14 DEF IInv
<1> QED BY <1>1, <1>2
-----------------------------------------------------------------------------
(* The clock and the master callback *)

LEMMA TickStep ==
    ASSUME IInv, Tick
    PROVE  IInv'
<1>1. /\ UNCHANGED <<mutex, list, event, vtimer, master, thread, fault, fired>>
      /\ now \in Nat /\ now' = now + 1 /\ now' \in 0 .. MaxTime
  BY VTimerAssumption DEF IInv, TypeOK, Tick
<1>2. TypeOK' BY <1>1 DEF IInv, TypeOK
<1>3. PeriodsKept BY <1>1, SamePeriods
<1>4. ListInv' /\ StartedInv' BY <1>1, <1>3, ListAlone
<1>5. LockInv' /\ OneEventInv' /\ OneShotInv'
  BY <1>1 DEF IInv, LockInv, OneEventInv, OneShotInv, TimerOf, AtEvent
<1>6. MasterInv'
  <2>1. master.time \in Nat /\ master.time <= now BY Types DEF IInv, MasterInv
  <2>2. ASSUME master.pc = "fire", event[master.current] # NULL
        PROVE  event[master.current].expiration <= now + 1
    <3>1. master.current \in Addr
      BY <2>2, Types DEF IInv, MasterInv, AtEvent, MasterRecord
    <3>2. event[master.current].expiration \in Nat
      BY <2>2, <3>1, Types DEF IInv, Event
    <3>3. event[master.current].expiration <= now BY <2>2 DEF IInv, MasterInv
    <3> QED BY <1>1, <3>2, <3>3
  <2> QED BY <1>1, <2>1, <2>2 DEF IInv, MasterInv, AtEvent
<1>7. \A t \in Threads : CallInv(t)' BY <1>1, <1>3, OtherThread
<1>8. FiredInOrder'
  <2>1. fired.latest \in Nat BY Types DEF IInv
  <2> QED BY <1>1, <2>1 DEF IInv, FiredInOrder
<1> QED BY <1>1, <1>2, <1>4, <1>5, <1>6, <1>7, <1>8 DEF IInv

\* The master callback takes the mutex or gives it back.
LEMMA MasterMutexStep ==
    ASSUME IInv, MasterTrylock \/ (master.pc = "loop" /\ MasterUnlock)
    PROVE  IInv'
<1>1. /\ UNCHANGED <<now, list, event, vtimer, thread, fault, fired>>
      /\ master.pc \in {"idle", "loop"}
  BY DEF MasterTrylock, MasterAt, MasterUnlock
<1>2. master \in MasterRecord /\ now \in Nat BY Types DEF IInv
<1>3. /\ master' \in MasterRecord /\ master'.pc \in {"idle", "loop"}
      /\ master'.time <= now /\ mutex' \in {Master, NULL}
  <2>1. CASE MasterTrylock
    <3>1. /\ mutex' = Master
          /\ master' = [master EXCEPT !.pc = "loop", !.time = now]
      BY <2>1 DEF MasterTrylock
    <3>2. master' = [pc |-> "loop", current |-> master.current, time |-> now]
      BY <1>2, <3>1 DEF MasterRecord
    <3>3. master.current \in Addr \cup {NULL} BY <1>2 DEF MasterRecord
    <3>4. master' \in MasterRecord BY <1>2, <3>2, <3>3 DEF MasterRecord, MasterPC
    <3> QED BY <1>2, <3>1, <3>2, <3>4
  <2>2. CASE MasterUnlock
    BY <1>2, <2>2 DEF MasterUnlock, MasterRecord, MasterPC, IInv, MasterInv
  <2> QED BY <2>1, <2>2
<1>4. TypeOK' BY <1>1, <1>3 DEF IInv, TypeOK, MasterRecord
<1>5. PeriodsKept BY <1>1, SamePeriods
<1>6. ListInv' /\ StartedInv' BY <1>1, <1>5, ListAlone
<1>7. LockInv'
  <2>1. ASSUME NEW t \in Threads
        PROVE  thread[t].pc \in Unlocked \/ thread[t].call \notin Locking
    <3>1. mutex # t BY VTimerAssumption DEF IInv, LockInv, MasterTrylock
    <3> QED BY <3>1 DEF IInv, LockInv
  <2>2. master'.pc # "idle" => mutex' = Master
    BY <1>2 DEF MasterTrylock, MasterUnlock, MasterRecord
  <2> QED BY <1>1, <2>1, <2>2 DEF LockInv
<1>8. MasterInv' BY <1>1, <1>3 DEF MasterInv, AtEvent
<1>9. OneEventInv' /\ OneShotInv'
  <2>1. ~ AtEvent BY <1>1 DEF AtEvent
  <2>2. OneEventInv' BY <1>1, <2>1 DEF IInv, OneEventInv, TimerOf
  <2>3. OneShotInv' BY <1>1 DEF IInv, OneShotInv, TimerOf
  <2> QED BY <2>2, <2>3
<1>10. \A t \in Threads : CallInv(t)' BY <1>1, <1>5, OtherThread
<1>11. FiredInOrder' BY <1>1 DEF IInv, FiredInOrder
<1> QED BY <1>4, <1>6, <1>7, <1>8, <1>9, <1>10, <1>11 DEF IInv

\* While the master callback runs nobody starts a timer.
LEMMA MasterFacts ==
    ASSUME IInv, master.pc # "idle"
    PROVE  /\ mutex = Master
           /\ \A t \in Threads : ~ Clearing(t)
<1>1. mutex = Master BY DEF IInv, LockInv
<1>2. \A t \in Threads : thread[t].pc \in Unlocked \/ thread[t].call \notin Locking
  BY <1>1, VTimerAssumption DEF IInv, LockInv
<1> QED BY <1>1, <1>2 DEF Clearing, Unlocked, Locking

\* What is in a longer list is new or was there before.
LEMMA GrownFrom ==
    ASSUME TypeOK, NEW a \in Addr, NEW v \in VTimers, NEW x \in Nat,
           NEW p \in Nat, Grown(p, a, v, x), NEW i \in DOMAIN list', i # p
    PROVE  \E k \in DOMAIN list : /\ k = (IF i < p THEN i ELSE i - 1)
                                  /\ list'[i] = list[k]
                                  /\ TimerOf(i)' = TimerOf(k)
                                  /\ TimeOf(i)' = TimeOf(k)
<1>1. /\ p \in 1 .. Len(list) + 1 /\ DOMAIN list' = 1 .. Len(list) + 1
      /\ Len(list) \in Nat /\ DOMAIN list = 1 .. Len(list)
  BY Types DEF Grown
<1>2. CASE i < p
  <2>1. i \in DOMAIN list BY <1>1, <1>2 DEF Grown
  <2> QED BY <1>1, <1>2, <2>1 DEF Grown
<1>3. CASE i > p
  <2>1. i - 1 \in DOMAIN list /\ ~ (i < p) BY <1>1, <1>3 DEF Grown
  <2> QED BY <1>1, <1>3, <2>1 DEF Grown
<1> QED BY <1>1, <1>2, <1>3

\* A new event that is not older than what fired
LEMMA GrownKeeps ==
    ASSUME IInv, NEW a \in FreeAddr, NEW v \in VTimers, NEW x \in Nat,
           AddEvent(a, v, x), vtimer[v].period # 0, x >= fired.latest,
           UNCHANGED <<now, vtimer>>, fired'.latest = fired.latest
    PROVE  /\ list' \in Seq(Addr)
           /\ event' \in [Addr -> Event \cup {NULL}]
           /\ \A i \in DOMAIN list' : event'[list'[i]] # NULL
           /\ ListInv' /\ StartedInv' /\ FiredInOrder'
           /\ \E p \in Nat : Grown(p, a, v, x)
<1>1. TypeOK /\ ListInv BY DEF IInv
<1>2. PICK p \in Nat : Grown(p, a, v, x) BY <1>1, AddFacts
<1>3. /\ list' \in Seq(Addr)
      /\ event' \in [Addr -> Event \cup {NULL}]
      /\ \A i \in DOMAIN list' : event'[list'[i]] # NULL
  BY <1>1, AddFacts
<1>4. ListInv' BY <1>1, <1>2, GrownListInv
<1>5. a \in Addr BY DEF FreeAddr
<1>6. ASSUME NEW i \in DOMAIN list'
      PROVE  vtimer[TimerOf(i)'].period # 0 /\ TimeOf(i)' >= fired.latest
  <2>1. CASE i = p BY <1>2, <2>1 DEF Grown
  <2>2. CASE i # p
    <3>1. PICK k \in DOMAIN list : TimerOf(i)' = TimerOf(k) /\ TimeOf(i)' = TimeOf(k)
      BY <1>1, <1>2, <1>5, <2>2, GrownFrom
    <3> QED BY <3>1 DEF IInv, StartedInv, FiredInOrder, TimeOf
  <2> QED BY <2>1, <2>2
<1>7. StartedInv' BY <1>6 DEF StartedInv
<1>8. FiredInOrder' BY <1>6 DEF IInv, FiredInOrder, TimeOf
<1> QED BY <1>2, <1>3, <1>4, <1>7, <1>8

\* The event the master callback is about to take
LEMMA TakeFacts ==
    ASSUME IInv, MasterAt("loop"), FirstEvent # NULL, Expired(FirstEvent)
    PROVE  /\ 1 \in DOMAIN list /\ list # << >> /\ FirstEvent = list[1] /\ list[1] \in Addr
           /\ event[list[1]] # NULL /\ TimerOf(1) \in VTimers /\ TimeOf(1) \in Nat
           /\ vtimer[TimerOf(1)].period \in Periods
           /\ TimeOf(1) <= now
           /\ \A j \in DOMAIN list : TimerOf(j) = TimerOf(1) => j = 1
           /\ master.pc = "loop" /\ ~ AtEvent
<1>1. master.pc = "loop" /\ ~ AtEvent BY DEF MasterAt, AtEvent
<1>2. 1 \in DOMAIN list /\ list # << >> /\ FirstEvent = list[1]
  BY Types DEF FirstEvent, IInv
<1>3. list[1] \in Addr /\ TimerOf(1) \in VTimers /\ TimeOf(1) \in Nat
  BY <1>2, EventFacts DEF IInv
<1>4. event[list[1]] # NULL BY <1>2 DEF IInv, TypeOK
<1>5. vtimer[TimerOf(1)].period \in Periods
  <2>1. vtimer[TimerOf(1)].period # 0 BY <1>2 DEF IInv, StartedInv
  <2>2. vtimer[TimerOf(1)].period \in Periods \cup {0}
    BY <1>3, Types DEF IInv, TimerRecord
  <2> QED BY <2>1, <2>2
<1>6. TimeOf(1) <= now
  <2>1. TimeOf(1) <= master.time BY <1>2 DEF Expired, TimeOf
  <2>2. master.time <= now /\ now \in Nat /\ master.time \in Nat
    BY Types DEF IInv, MasterInv
  <2> QED BY <1>3, <2>1, <2>2
<1>7. \A j \in DOMAIN list : TimerOf(j) = TimerOf(1) => j = 1
  BY <1>1, <1>2 DEF IInv, OneEventInv
<1> QED BY <1>1, <1>2, <1>3, <1>4, <1>5, <1>6, <1>7

LEMMA TakeOneShotStep ==
    ASSUME IInv, MasterAt("loop"), FirstEvent # NULL, Expired(FirstEvent),
           master' = [master EXCEPT !.pc = "fire", !.current = FirstEvent],
           UNCHANGED <<now, mutex, list, event, vtimer, thread, fault, fired>>
    PROVE  IInv'
<1>1. /\ list # << >> /\ FirstEvent = list[1] /\ list[1] \in Addr /\ list[1] # NULL
      /\ TimeOf(1) <= now /\ master.pc = "loop" /\ ~ AtEvent
  BY TakeFacts, VTimerAssumption
<1>2. /\ master' \in MasterRecord
      /\ master'.pc = "fire" /\ master'.time = master.time
      /\ master'.current = list[1]
  BY <1>1, Types DEF MasterRecord, MasterPC, IInv
<1>3. TypeOK' BY <1>2 DEF IInv, TypeOK, MasterRecord
<1>4. PeriodsKept BY SamePeriods
<1>5. ListInv' /\ StartedInv' BY <1>4, ListAlone
<1>6. LockInv' BY <1>1 DEF IInv, LockInv
<1>7. MasterInv' BY <1>1, <1>2 DEF IInv, MasterInv, AtEvent, TimeOf
<1>8. OneEventInv' BY <1>1 DEF IInv, OneEventInv, TimerOf
<1>9. OneShotInv' BY <1>1 DEF IInv, OneShotInv, TimerOf
<1>10. \A t \in Threads : CallInv(t)' BY <1>4, OtherThread
<1>11. FiredInOrder' BY DEF IInv, FiredInOrder
<1> QED BY <1>3, <1>5, <1>6, <1>7, <1>8, <1>9, <1>10, <1>11 DEF IInv

\* The next event of a periodic timer comes behind the one that is about to fire.
LEMMA SuccessorFacts ==
    ASSUME IInv, MasterAt("loop"), FirstEvent # NULL, Expired(FirstEvent),
           NEW b \in FreeAddr, AddEvent(b, TimerOf(1), NextExpiration(FirstEvent)),
           UNCHANGED vtimer
    PROVE  \E p, x \in Nat :
              /\ AddEvent(b, TimerOf(1), x) /\ Grown(p, b, TimerOf(1), x)
              /\ x > TimeOf(1)
              /\ \E period \in Periods : x = TimeOf(1) + period
              /\ 1 \in DOMAIN list' /\ list' # << >> /\ list'[1] = list[1]
              /\ TimerOf(1)' = TimerOf(1) /\ TimeOf(1)' = TimeOf(1)
              /\ p > 1 /\ p \in DOMAIN list'
              /\ TimerOf(p)' = TimerOf(1) /\ TimeOf(p)' = x
              /\ \A i \in DOMAIN list' : TimerOf(i)' = TimerOf(1) => i = 1 \/ i = p
<1>1. /\ 1 \in DOMAIN list /\ FirstEvent = list[1]
      /\ TimerOf(1) \in VTimers /\ TimeOf(1) \in Nat
      /\ vtimer[TimerOf(1)].period \in Periods
      /\ \A j \in DOMAIN list : TimerOf(j) = TimerOf(1) => j = 1
  BY TakeFacts
<1>2. PICK v \in VTimers : v = TimerOf(1) BY <1>1
<1>3. PICK period \in Periods : period = vtimer[v].period BY <1>1, <1>2
<1>4. period \in Nat /\ period > 0 BY <1>3, PeriodFacts
<1>5. PICK x \in Nat : x = TimeOf(1) + period BY <1>1, <1>4
<1>6. NextExpiration(FirstEvent) = x
  BY <1>1, <1>2, <1>3, <1>5 DEF NextExpiration, TimeOf, TimerOf
<1>7. AddEvent(b, v, x) /\ b \in Addr BY <1>2, <1>6 DEF FreeAddr
<1>8. x > TimeOf(1) BY <1>1, <1>4, <1>5
<1>9. PICK p \in Nat : Grown(p, b, v, x) BY <1>7, AddFacts DEF IInv
<1>10. /\ DOMAIN list' = 1 .. Len(list) + 1 /\ p \in 1 .. Len(list) + 1
       /\ Len(list) \in Nat /\ DOMAIN list = 1 .. Len(list)
  BY <1>9, Types DEF Grown, IInv
<1>11. p > 1
  <2>1. SUFFICES ASSUME p = 1 PROVE FALSE BY <1>10
  <2>2. 2 \in 1 .. Len(list) + 1 BY <1>1, <1>10
  <2>3. TimeOf(2 - 1) > x BY <1>9, <2>1, <2>2 DEF Grown
  <2> QED BY <1>1, <1>8, <2>3
<1>12. /\ list'[1] = list[1] /\ TimeOf(1)' = TimeOf(1) /\ TimerOf(1)' = v
       /\ list' # << >> /\ 1 \in DOMAIN list'
  <2>1. 1 \in 1 .. Len(list) + 1 /\ 1 < p BY <1>10, <1>11
  <2>2. list'[1] = list[1] /\ TimerOf(1)' = TimerOf(1) /\ TimeOf(1)' = TimeOf(1)
    BY <1>9, <2>1 DEF Grown
  <2>3. list' # << >>
    <3> SUFFICES ASSUME list' = << >> PROVE FALSE OBVIOUS
    <3> QED BY <1>10, <2>1
  <2> QED BY <1>2, <1>10, <2>1, <2>2, <2>3
<1>13. TimerOf(p)' = v /\ TimeOf(p)' = x BY <1>9 DEF Grown
<1>14. ASSUME NEW i \in DOMAIN list', TimerOf(i)' = v PROVE i = 1 \/ i = p
  <2>1. SUFFICES ASSUME i # p PROVE i = 1 OBVIOUS
  <2>2. PICK k \in DOMAIN list : /\ k = (IF i < p THEN i ELSE i - 1)
                                 /\ TimerOf(i)' = TimerOf(k)
    BY <1>7, <1>9, <2>1, GrownFrom DEF IInv
  <2>3. k = 1 BY <1>1, <1>2, <1>14, <2>2
  <2> QED BY <1>10, <1>11, <2>1, <2>2, <2>3
<1> QED
  BY <1>2, <1>3, <1>5, <1>7, <1>8, <1>9, <1>10, <1>11, <1>12, <1>13, <1>14

LEMMA TakePeriodicStep ==
    ASSUME IInv, MasterAt("loop"), FirstEvent # NULL, Expired(FirstEvent),
           TimerOf(1) \in Periodic,
           NEW b \in FreeAddr, AddEvent(b, TimerOf(1), NextExpiration(FirstEvent)),
           master' = [master EXCEPT !.pc = "fire", !.current = FirstEvent],
           UNCHANGED <<now, mutex, vtimer, thread, fault, fired>>
    PROVE  IInv'
<1>1. /\ 1 \in DOMAIN list /\ list # << >> /\ FirstEvent = list[1]
      /\ list[1] \in Addr /\ list[1] # NULL
      /\ TimerOf(1) \in VTimers /\ TimeOf(1) \in Nat
      /\ vtimer[TimerOf(1)].period \in Periods
      /\ TimeOf(1) <= now /\ master.pc = "loop" /\ ~ AtEvent
      /\ \A j \in DOMAIN list : TimerOf(j) = TimerOf(1) => j = 1
  BY TakeFacts, VTimerAssumption
<1>2. PICK v \in VTimers : v = TimerOf(1) BY <1>1
<1>3. PICK p, x \in Nat :
         /\ AddEvent(b, v, x) /\ Grown(p, b, v, x) /\ x > TimeOf(1)
         /\ 1 \in DOMAIN list' /\ list' # << >> /\ list'[1] = list[1]
         /\ TimerOf(1)' = v /\ TimeOf(1)' = TimeOf(1)
         /\ p > 1 /\ TimerOf(p)' = v
         /\ \A i \in DOMAIN list' : TimerOf(i)' = v => i = 1 \/ i = p
  BY <1>2, SuccessorFacts
<1>4. x >= fired.latest
  <2>1. TimeOf(1) >= fired.latest BY <1>1 DEF IInv, FiredInOrder, TimeOf
  <2>2. fired.latest \in Nat BY Types DEF IInv
  <2> QED BY <1>1, <1>3, <2>1, <2>2
<1>5. vtimer[v].period # 0 BY <1>1, <1>2, PeriodFacts
<1>6. /\ list' \in Seq(Addr)
      /\ event' \in [Addr -> Event \cup {NULL}]
      /\ \A i \in DOMAIN list' : event'[list'[i]] # NULL
      /\ ListInv' /\ StartedInv' /\ FiredInOrder'
  BY <1>3, <1>4, <1>5, GrownKeeps
<1>7. /\ master' \in MasterRecord
       /\ master'.pc = "fire" /\ master'.time = master.time
       /\ master'.current = list[1]
  BY <1>1, Types DEF MasterRecord, MasterPC, IInv
<1>8. TypeOK' BY <1>6, <1>7 DEF IInv, TypeOK, MasterRecord
<1>9. LockInv' BY <1>1 DEF IInv, LockInv
<1>10. /\ DOMAIN list' = 1 .. Len(list) + 1 /\ p \in 1 .. Len(list) + 1
       /\ Len(list) \in Nat /\ DOMAIN list = 1 .. Len(list)
  BY <1>3, Types DEF Grown, IInv
<1>11. MasterInv' BY <1>1, <1>3, <1>7 DEF IInv, MasterInv, AtEvent, TimeOf
<1>12. b \in Addr BY DEF FreeAddr
<1>13. ASSUME NEW i \in DOMAIN list', i # p
       PROVE  \E k \in DOMAIN list : /\ k = (IF i < p THEN i ELSE i - 1)
                                     /\ list'[i] = list[k]
                                     /\ TimerOf(i)' = TimerOf(k)
  BY <1>3, <1>12, <1>13, GrownFrom DEF IInv
<1>14. OneEventInv'
  <2> SUFFICES ASSUME NEW i \in DOMAIN list', NEW j \in DOMAIN list',
                      TimerOf(i)' = TimerOf(j)', i # j
               PROVE  /\ AtEvent'
                      /\ TimerOf(i)' \in Periodic
                      /\ master'.current \in {list'[i], list'[j]}
    BY DEF OneEventInv
  <2>1. AtEvent' BY <1>7 DEF AtEvent
  <2>2. CASE i = p \/ j = p
    <3>1. TimerOf(i)' = v /\ (i = 1 \/ j = 1) BY <1>3, <2>2
    <3> QED BY <1>2, <1>3, <1>7, <2>1, <3>1
  <2>3. CASE i # p /\ j # p
    <3>1. PICK k \in DOMAIN list : /\ k = (IF i < p THEN i ELSE i - 1)
                                   /\ TimerOf(i)' = TimerOf(k)
      BY <1>13, <2>3
    <3>2. PICK l \in DOMAIN list : /\ l = (IF j < p THEN j ELSE j - 1)
                                   /\ TimerOf(j)' = TimerOf(l)
      BY <1>13, <2>3
    <3>3. TimerOf(k) = TimerOf(l) BY <3>1, <3>2
    <3>4. OneEventInv BY DEF IInv
    <3>5. k = l BY <1>1, <3>3, <3>4 DEF OneEventInv
    <3> QED BY <1>10, <2>3, <3>1, <3>2, <3>5
  <2> QED BY <2>2, <2>3
<1>15. OneShotInv'
  <2> SUFFICES ASSUME NEW w \in VTimers \ Periodic
               PROVE  /\ fired.count[w] <= 1
                      /\ fired.count[w] = 1 => \A i \in DOMAIN list' : TimerOf(i)' # w
    BY DEF OneShotInv
  <2>1. /\ fired.count[w] <= 1
        /\ fired.count[w] = 1 => \A i \in DOMAIN list : TimerOf(i) # w
    BY <1>1 DEF IInv, OneShotInv
  <2>2. w # v BY <1>2
  <2>3. ASSUME NEW i \in DOMAIN list', TimerOf(i)' = w
        PROVE  \E k \in DOMAIN list : TimerOf(k) = w
    BY <1>3, <1>13, <2>2, <2>3
  <2> QED BY <2>1, <2>3
<1>16. \A t \in Threads : CallInv(t)'
  <2>1. \A t \in Threads : ~ Clearing(t) BY <1>1, MasterFacts
  <2>2. PeriodsKept BY SamePeriods
  <2> QED BY <2>1, <2>2, OtherThread
<1> QED BY <1>6, <1>8, <1>9, <1>11, <1>14, <1>15, <1>16 DEF IInv

LEMMA MasterTakeStep ==
    ASSUME IInv, MasterTake
    PROVE  IInv'
<1>1. MasterAt("loop") /\ FirstEvent # NULL /\ Expired(FirstEvent) BY DEF MasterTake
<1>2. master.pc = "loop" /\ event[FirstEvent].vtimer = TimerOf(1)
  BY <1>1, TakeFacts DEF TimerOf
<1>3. CASE Fault BY <1>3, FaultStep
<1>4. CASE /\ master' = [master EXCEPT !.pc = "fire", !.current = FirstEvent]
           /\ UNCHANGED <<now, mutex, list, event, vtimer, thread, fault, fired>>
  BY <1>1, <1>4, TakeOneShotStep
<1>5. CASE /\ TimerOf(1) \in Periodic
           /\ \E b \in FreeAddr : AddEvent(b, TimerOf(1), NextExpiration(FirstEvent))
           /\ master' = [master EXCEPT !.pc = "fire", !.current = FirstEvent]
           /\ UNCHANGED <<now, mutex, vtimer, thread, fault, fired>>
  <2>1. PICK b \in FreeAddr : AddEvent(b, TimerOf(1), NextExpiration(FirstEvent))
    BY <1>5
  <2> QED BY <1>1, <1>5, <2>1, TakePeriodicStep
<1>6. CASE MasterUnlock BY <1>2, <1>6, MasterMutexStep
<1> QED BY <1>2, <1>3, <1>4, <1>5, <1>6 DEF MasterTake

LEMMA MasterFireStep ==
    ASSUME IInv, MasterFire
    PROVE  IInv'
<1>1. CASE Fault BY <1>1, FaultStep
<1>2. CASE ~ Fault
  <2>1. master.pc = "fire" /\ Valid(master.current) BY <1>2 DEF MasterFire, MasterAt
  <2>2. event[master.current] # NULL BY <2>1 DEF Valid
  <2>3. list # << >> /\ master.current = list[1] /\ TimeOf(1) <= now
    BY <2>1, <2>2 DEF IInv, MasterInv, AtEvent, TimeOf
  <2>4. 1 \in DOMAIN list /\ DOMAIN list = 1 .. Len(list) /\ Len(list) \in Nat
    BY <2>3, Types DEF IInv
  <2>5. TimerOf(1) \in VTimers /\ TimeOf(1) \in Nat BY <2>4, EventFacts DEF IInv
  <2>6. PICK v \in VTimers : v = TimerOf(1) BY <2>5
  <2>7. /\ fired' = [latest |-> TimeOf(1), count |-> [fired.count EXCEPT ![v] = @ + 1]]
        /\ master' = [master EXCEPT !.pc = "delete"]
        /\ UNCHANGED <<now, mutex, list, event, vtimer, thread, fault>>
    BY <1>2, <2>3, <2>6 DEF MasterFire, TimerOf, TimeOf
  <2>8. fired.count \in [VTimers -> Nat] BY Types DEF IInv
  <2>9. /\ fired'.latest = TimeOf(1)
        /\ fired'.count \in [VTimers -> Nat]
        /\ fired'.count[v] = fired.count[v] + 1
        /\ \A w \in VTimers : w # v => fired'.count[w] = fired.count[w]
    BY <2>7, <2>8
  <2>10. fired' \in FiredRecord BY <2>5, <2>7, <2>9 DEF FiredRecord
  <2>11. /\ master' \in MasterRecord /\ master'.pc = "delete"
         /\ master'.time = master.time /\ master'.current = master.current
    BY <2>7, Types DEF MasterRecord, MasterPC, IInv
  <2>12. TypeOK' BY <2>7, <2>10, <2>11 DEF IInv, TypeOK, MasterRecord, FiredRecord
  <2>13. PeriodsKept BY <2>7, SamePeriods
  <2>14. ListInv' /\ StartedInv' BY <2>7, <2>13, ListAlone
  <2>15. LockInv' BY <2>1, <2>7 DEF IInv, LockInv
  <2>16. MasterInv' BY <2>1, <2>7, <2>11 DEF IInv, MasterInv, AtEvent
  <2>17. OneEventInv' BY <2>1, <2>7, <2>11 DEF IInv, OneEventInv, TimerOf, AtEvent
  <2>18. \A t \in Threads : CallInv(t)' BY <2>7, <2>13, OtherThread
  <2>19. FiredInOrder'
    <3>1. ASSUME NEW i \in DOMAIN list PROVE TimeOf(i) >= TimeOf(1)
      <4>1. TimeOf(i) \in Nat BY EventFacts DEF IInv
      <4>2. i = 1 \/ 1 < i BY <2>4
      <4>3. 1 < i => TimeOf(1) <= TimeOf(i) BY <2>4 DEF IInv, ListInv
      <4> QED BY <2>5, <4>1, <4>2, <4>3
    <3> QED BY <2>3, <2>7, <2>9, <3>1 DEF FiredInOrder, TimeOf
  <2>20. OneShotInv'
    <3> SUFFICES ASSUME NEW w \in VTimers \ Periodic
                 PROVE  /\ fired'.count[w] <= 1
                        /\ fired'.count[w] = 1 =>
                              \A i \in DOMAIN list : TimerOf(i) = w => list[i] = list[1]
      BY <2>3, <2>7, <2>11 DEF OneShotInv, TimerOf
    <3>1. /\ fired.count[w] <= 1
          /\ fired.count[w] = 1 => \A i \in DOMAIN list : TimerOf(i) # w
      BY <2>1 DEF IInv, OneShotInv
    <3>2. CASE w = v
      <4>1. fired.count[w] \in Nat /\ fired.count[w] # 1 BY <2>4, <2>6, <2>8, <3>1, <3>2
      <4>2. \A i \in DOMAIN list : TimerOf(i) = w => i = 1
        BY <2>4, <2>6, <3>2 DEF IInv, OneEventInv
      <4> QED BY <2>9, <3>1, <3>2, <4>1, <4>2
    <3>3. CASE w # v BY <2>9, <3>1, <3>3
    <3> QED BY <3>2, <3>3
  <2> QED BY <2>12, <2>14, <2>15, <2>16, <2>17, <2>18, <2>19, <2>20 DEF IInv
<1> QED BY <1>1, <1>2

\* The end of a start
LEMMA StartAddStep ==
    ASSUME IInv, NEW t \in Threads, StartAdd(t)
    PROVE  IInv'
<1>1. thread[t].pc = "add" BY DEF StartAdd, At
<1>2. /\ thread \in [Threads -> CallRecord] /\ thread[t] \in CallRecord
      /\ CallInv(t)
  BY Types DEF IInv
<1>3. /\ thread[t].call = "start" /\ thread[t].vtimer \in VTimers
      /\ vtimer[thread[t].vtimer].period # 0
      /\ \A i \in DOMAIN list : TimerOf(i) # thread[t].vtimer
  BY <1>1, <1>2 DEF CallInv, CallRecord, Cleared
<1>4. PICK v \in VTimers : v = thread[t].vtimer BY <1>3
<1>5. /\ thread' = [thread EXCEPT ![t].pc = "unlock"]
      /\ UNCHANGED <<now, mutex, vtimer, master, fault>>
  BY DEF StartAdd
<1>6. /\ thread'[t] \in CallRecord /\ thread'[t].pc = "unlock"
      /\ thread'[t].call = "start" /\ thread'[t].vtimer = v
      /\ thread' \in [Threads -> CallRecord]
      /\ \A u \in Threads \ {t} : thread'[u] = thread[u]
  BY <1>2, <1>3, <1>4, <1>5 DEF CallRecord, ThreadPC
<1>7. /\ mutex = t /\ master.pc = "idle"
      /\ \A u \in Threads \ {t} : ~ Clearing(u)
  BY <1>1, <1>3, WorkFacts DEF Unlocked, Locking
<1>8. LockInv' BY <1>5, <1>6, <1>7, LockKept
<1>9. v # NULL BY VTimerAssumption
<1>10. CallInv(t)' BY <1>3, <1>4, <1>5, <1>6, <1>9 DEF CallInv, Locking
<1>11. PeriodsKept /\ fault' \in BOOLEAN /\ mutex' \in Threads \cup {Master, NULL}
  BY <1>5, SamePeriods, Types DEF IInv, TypeOK
<1>12. CASE UNCHANGED <<list, event, fired>>
  BY <1>5, <1>6, <1>8, <1>10, <1>11, <1>12, ThreadMoves
<1>13. CASE /\ \E a \in FreeAddr : AddEvent(a, v, now + vtimer[v].period)
            /\ fired' = [fired EXCEPT !.count[v] = 0]
  <2>1. PICK period \in Nat : period = vtimer[v].period
    <3>1. vtimer[v].period \in Periods \cup {0} BY Types DEF IInv, TimerRecord
    <3> QED BY <3>1, PeriodFacts
  <2>2. now \in Nat BY Types DEF IInv
  <2>3. PICK x \in Nat : x = now + period BY <2>2
  <2>4. PICK a \in FreeAddr : AddEvent(a, v, x) BY <1>13, <2>1, <2>3
  <2>5. fired \in FiredRecord BY Types DEF IInv
  <2>6. /\ fired' \in FiredRecord
        /\ fired'.latest = fired.latest /\ fired'.count[v] = 0
        /\ \A w \in VTimers : w # v => fired'.count[w] = fired.count[w]
    BY <1>13, <2>5 DEF FiredRecord
  <2>7. x >= fired.latest
    <3>1. fired.latest \in Nat BY Types DEF IInv
    <3> QED BY <2>2, <2>3, <3>1 DEF IInv, FiredInOrder
  <2>8. /\ list' \in Seq(Addr)
        /\ event' \in [Addr -> Event \cup {NULL}]
        /\ \A i \in DOMAIN list' : event'[list'[i]] # NULL
        /\ ListInv' /\ StartedInv' /\ FiredInOrder'
        /\ \E p \in Nat : Grown(p, a, v, x)
    BY <1>3, <1>4, <1>5, <2>4, <2>6, <2>7, GrownKeeps
  <2>9. PICK p \in Nat : Grown(p, a, v, x) BY <2>8
  <2>10. TypeOK' BY <1>5, <1>6, <2>6, <2>8 DEF IInv, TypeOK, CallRecord, FiredRecord
  <2>11. MasterInv' BY <1>5, <1>7 DEF IInv, MasterInv, AtEvent
  <2>12. a \in Addr BY DEF FreeAddr
  <2>13. ASSUME NEW i \in DOMAIN list', i # p
         PROVE  \E k \in DOMAIN list : /\ k = (IF i < p THEN i ELSE i - 1)
                                       /\ TimerOf(i)' = TimerOf(k)
    BY <2>9, <2>12, <2>13, GrownFrom DEF IInv
  <2>14. /\ p \in 1 .. Len(list) + 1 /\ DOMAIN list' = 1 .. Len(list) + 1
         /\ Len(list) \in Nat /\ TimerOf(p)' = v
    BY <2>9, Types DEF IInv, Grown
  <2>15. OneEventInv'
    <3> SUFFICES ASSUME NEW i \in DOMAIN list', NEW j \in DOMAIN list',
                        TimerOf(i)' = TimerOf(j)', i # j
                 PROVE  FALSE
      BY DEF OneEventInv
    <3>1. CASE i = p
      <4>1. PICK k \in DOMAIN list : TimerOf(j)' = TimerOf(k) BY <2>13, <3>1
      <4> QED BY <1>3, <1>4, <2>14, <3>1, <4>1
    <3>2. CASE j = p
      <4>1. PICK k \in DOMAIN list : TimerOf(i)' = TimerOf(k) BY <2>13, <3>2
      <4> QED BY <1>3, <1>4, <2>14, <3>2, <4>1
    <3>3. CASE i # p /\ j # p
      <4>1. PICK k \in DOMAIN list : /\ k = (IF i < p THEN i ELSE i - 1)
                                     /\ TimerOf(i)' = TimerOf(k)
        BY <2>13, <3>3
      <4>2. PICK l \in DOMAIN list : /\ l = (IF j < p THEN j ELSE j - 1)
                                     /\ TimerOf(j)' = TimerOf(l)
        BY <2>13, <3>3
      <4>3. TimerOf(k) = TimerOf(l) BY <4>1, <4>2
      <4>4. k = l BY <1>7, <4>3 DEF IInv, OneEventInv, AtEvent
      <4> QED BY <2>14, <3>3, <4>1, <4>2, <4>4
    <3> QED BY <3>1, <3>2, <3>3
  <2>16. OneShotInv'
    <3> SUFFICES ASSUME NEW w \in VTimers \ Periodic
                 PROVE  /\ fired'.count[w] <= 1
                        /\ fired'.count[w] = 1 => \A i \in DOMAIN list' : TimerOf(i)' # w
      BY DEF OneShotInv
    <3>1. CASE w = v BY <2>6, <3>1
    <3>2. CASE w # v
      <4>1. /\ fired.count[w] <= 1
            /\ fired.count[w] = 1 => \A i \in DOMAIN list : TimerOf(i) # w
        BY <1>7 DEF IInv, OneShotInv
      <4>2. ASSUME NEW i \in DOMAIN list', TimerOf(i)' = w
            PROVE  \E k \in DOMAIN list : TimerOf(k) = w
        BY <2>13, <2>14, <3>2, <4>2
      <4> QED BY <2>6, <3>2, <4>1, <4>2
    <3> QED BY <3>1, <3>2
  <2>17. ASSUME NEW u \in Threads PROVE CallInv(u)'
    <3>1. CASE u # t BY <1>6, <1>7, <1>11, <3>1, OtherThread
    <3> QED BY <1>10, <3>1
  <2> QED BY <1>8, <2>8, <2>10, <2>11, <2>15, <2>16, <2>17 DEF IInv
<1> QED BY <1>4, <1>12, <1>13 DEF StartAdd
-----------------------------------------------------------------------------
(* The invariant *)

LEMMA InitIInv == Init => IInv
<1> SUFFICES ASSUME Init PROVE IInv
  OBVIOUS
<1> USE DEF Init
<1>1. list = << >> /\ DOMAIN list = {} /\ list \in Seq(Addr) OBVIOUS
<1>2. TypeOK
  <2>1. now \in 0 .. MaxTime BY VTimerAssumption
  <2>2. event \in [Addr -> Event \cup {NULL}] OBVIOUS
  <2>3. mutex \in Threads \cup {Master, NULL} /\ fault \in BOOLEAN OBVIOUS
  <2>4. vtimer \in [VTimers -> [life : {"none", "live", "freed"},
                                period : Periods \cup {0}]]
    OBVIOUS
  <2>5. master \in [pc : MasterPC, current : Addr \cup {NULL}, time : Nat]
    BY DEF MasterPC
  <2>6. thread \in [Threads -> CallRecord]
    BY DEF NoCall, CallRecord, ThreadPC, Call
  <2>7. fired \in [latest : Nat, count : [VTimers -> Nat]]
    OBVIOUS
  <2> QED BY <1>1, <2>3, <2>4, <2>5, <2>6, <2>7, <2>1, <2>2 DEF TypeOK, CallRecord
<1>3. ListInv /\ StartedInv /\ OneEventInv /\ FiredInOrder /\ OneShotInv
  BY <1>1, VTimerAssumption
     DEF ListInv, StartedInv, OneEventInv, FiredInOrder, OneShotInv
<1>4. LockInv BY DEF LockInv, Unlocked, NoCall
<1>5. MasterInv BY DEF MasterInv, AtEvent
<1>6. \A t \in Threads : CallInv(t) BY DEF CallInv, NoCall
<1> QED BY <1>2, <1>3, <1>4, <1>5, <1>6 DEF IInv

LEMMA NextIInv == IInv /\ [Next]_vars => IInv'
<1> SUFFICES ASSUME IInv, [Next]_vars PROVE IInv'
  OBVIOUS
<1>1. CASE UNCHANGED vars
  BY <1>1 DEF vars, IInv, TypeOK, ListInv, StartedInv, LockInv, MasterInv, OneEventInv,
              OneShotInv, CallInv, Cleared, FiredInOrder, TimerOf, TimeOf, AtEvent
<1>2. CASE Tick BY <1>2, TickStep
<1>3. CASE MasterTrylock BY <1>3, MasterMutexStep
<1>4. CASE MasterStep
  <2>1. CASE MasterDone BY <2>1, MasterMutexStep DEF MasterDone, MasterAt
  <2>2. CASE MasterTake BY <2>2, MasterTakeStep
  <2>3. CASE MasterFire BY <2>3, MasterFireStep
  <2>4. CASE MasterDelete BY <2>4, MasterDeleteStep
  <2> QED BY <1>4, <2>1, <2>2, <2>3, <2>4 DEF MasterStep
<1>5. ASSUME NEW t \in Threads, NewCall(t) PROVE IInv'
  <2>1. PICK v \in VTimers :
           \/ Create(t, v)
           \/ \E p \in Periods : StartCall(t, v, p)
           \/ RestartCall(t, v)
           \/ QueryCall(t, v)
           \/ \E call \in {"stop", "destroy"} : StopCall(t, v, call)
    BY <1>5 DEF NewCall
  <2>2. CASE Create(t, v) BY <2>2, CreateStep
  <2>3. CASE \/ \E p \in Periods : StartCall(t, v, p)
             \/ RestartCall(t, v)
             \/ QueryCall(t, v)
    BY <2>3, BeginStep
  <2>4. CASE \E call \in {"stop", "destroy"} : StopCall(t, v, call)
    BY <2>4, StopCallStep
  <2> QED BY <2>1, <2>2, <2>3, <2>4
<1>6. ASSUME NEW t \in Threads, Lock(t) PROVE IInv' BY <1>6, LockStep
<1>7. ASSUME NEW t \in Threads, ThreadStep(t) PROVE IInv'
  <2>1. CASE Search(t) BY <2>1, SearchStep
  <2>2. CASE SearchEnd(t) \/ StartDeletedAll(t) \/ Query(t) BY <2>2, SearchEndStep
  <2>3. CASE DeleteVictim(t) BY <2>3, DeleteVictimStep
  <2>4. CASE StopDeletedAll(t) \/ DestroyDeletedAll(t) \/ Unlock(t) BY <2>4, EndStep
  <2>5. CASE StartAdd(t) BY <2>5, StartAddStep
  <2> QED BY <1>7, <2>1, <2>2, <2>3, <2>4, <2>5 DEF ThreadStep
<1> QED BY <1>1, <1>2, <1>3, <1>4, <1>5, <1>6, <1>7 DEF Next

LEMMA AlwaysIInv == Spec => []IInv
<1>1. Init => IInv BY InitIInv
<1>2. IInv /\ [Next]_vars => IInv' BY NextIInv
<1> QED BY <1>1, <1>2, PTL DEF Spec

\* Every variable stays in its type.
THEOREM TypeCorrect == Spec => []TypeOK
<1>1. IInv => TypeOK BY DEF IInv
<1> QED BY <1>1, AlwaysIInv, PTL

\* The events fire in the order of their times, never early, whatever starts,
\* restarts and stops the threads of the program make meanwhile.
THEOREM FiresInOrder == Spec => []FiredInOrder
<1>1. IInv => FiredInOrder BY DEF IInv
<1> QED BY <1>1, AlwaysIInv, PTL

\* The callback of a one-shot timer runs at most once for each start, and a start
\* leaves it with one event, however stops that do not wait for the mutex
\* interfere.
THEOREM OneShotIsOnce == Spec => []OneShotFiresOnce
<1>1. ASSUME IInv PROVE OneShotFiresOnce
  <2> SUFFICES ASSUME NEW v \in VTimers \ Periodic, NEW i \in DOMAIN list,
                      NEW j \in DOMAIN list, TimerOf(i) = v, TimerOf(j) = v
               PROVE  i = j
    BY <1>1 DEF IInv, OneShotInv, OneShotFiresOnce, TimerOf
  <2> QED BY <1>1 DEF IInv, OneEventInv
<1> QED BY <1>1, AlwaysIInv, PTL
-----------------------------------------------------------------------------
(* Programs that do not stop or destroy timers *)

LiveInv ==
    /\ \A v \in VTimers : vtimer[v].life # "freed"
    /\ \A i \in DOMAIN list : vtimer[TimerOf(i)].life = "live"

\* The event the master callback is at is there and, when it is about to fire,
\* that of a periodic timer has a successor, one period later.
CurrentInv ==
    /\ AtEvent => event[master.current] # NULL
    /\ master.pc = "fire" =>
          /\ \A j \in DOMAIN list :
                j # 1 /\ TimerOf(j) = TimerOf(1) =>
                   \E p \in Periods : TimeOf(j) = TimeOf(1) + p
          /\ TimerOf(1) \in Periodic =>
                \E j \in DOMAIN list : j # 1 /\ TimerOf(j) = TimerOf(1)

\* A walk down the list holds pointers to events that are there, and deletes
\* its victim at the end of the list only.
PointersInv(t) ==
    /\ thread[t].pc # "idle" =>
          thread[t].call \in Locking /\ vtimer[thread[t].vtimer].life = "live"
    /\ thread[t].pc \in {"search", "delete"} =>
          /\ thread[t].search # NULL => event[thread[t].search] # NULL
          /\ thread[t].victim # NULL =>
                /\ event[thread[t].victim] # NULL
                /\ event[thread[t].victim].vtimer = thread[t].vtimer
          /\ thread[t].search # NULL /\ thread[t].victim # NULL =>
                \E k, l \in DOMAIN list : /\ k < l
                                          /\ list[k] = thread[t].victim
                                          /\ list[l] = thread[t].search
    /\ thread[t].pc = "delete" => thread[t].search = NULL

NoStopInv ==
    /\ ~ fault
    /\ LiveInv
    /\ CurrentInv
    /\ \A t \in Threads : PointersInv(t)

\* Nobody frees a timer, and none is created anew.
LivesKept ==
    \A v \in VTimers : /\ vtimer'[v].life # "freed"
                       /\ vtimer[v].life = "live" => vtimer'[v].life = "live"

LEMMA SameLives ==
    ASSUME NoStopInv, UNCHANGED vtimer
    PROVE  LivesKept
BY DEF NoStopInv, LiveInv, LivesKept

\* A thread that did not move is safe if the list is the same or it has no
\* business with it.
LEMMA OtherPointers ==
    ASSUME IInv, NoStopInv, NEW u \in Threads, thread'[u] = thread[u], LivesKept,
           UNCHANGED <<list, event>> \/ thread[u].pc \in Unlocked
    PROVE  PointersInv(u)'
<1>1. PointersInv(u) /\ CallInv(u) /\ thread[u].vtimer \in VTimers \cup {NULL}
  BY Types DEF IInv, NoStopInv, CallRecord
<1>2. thread[u].pc # "idle" => vtimer'[thread[u].vtimer].life = "live"
  BY <1>1 DEF PointersInv, CallInv, LivesKept
<1>3. CASE UNCHANGED <<list, event>> BY <1>1, <1>2, <1>3 DEF PointersInv
<1>4. CASE thread[u].pc \in Unlocked BY <1>1, <1>2, <1>4 DEF PointersInv, Unlocked
<1> QED BY <1>3, <1>4

\* Who has no mutex has no business with the list.
LEMMA Waiting ==
    ASSUME IInv, NoStopInv, NEW u \in Threads, mutex # u
    PROVE  thread[u].pc \in Unlocked
BY DEF IInv, LockInv, NoStopInv, PointersInv, Unlocked

LEMMA PointersMove ==
    ASSUME IInv, NoStopInv, NEW t \in Threads, LivesKept,
           UNCHANGED <<list, event, master, fault>>,
           \A u \in Threads \ {t} : thread'[u] = thread[u],
           PointersInv(t)'
    PROVE  NoStopInv'
<1>1. LiveInv'
  <2>1. \A i \in DOMAIN list : TimerOf(i) \in VTimers BY EventFacts DEF IInv
  <2> QED BY <2>1 DEF NoStopInv, LiveInv, LivesKept, TimerOf
<1>2. CurrentInv' BY DEF NoStopInv, CurrentInv, AtEvent, TimerOf, TimeOf
<1>3. ASSUME NEW u \in Threads PROVE PointersInv(u)'
  <2>1. CASE u # t BY <2>1, OtherPointers
  <2> QED BY <2>1
<1> QED BY <1>1, <1>2, <1>3 DEF NoStopInv

\* The steps of a thread that leave its pointers alone
LEMMA BeginSafe ==
    ASSUME IInv, NoStopInv, NEW t \in Threads, NEW v \in VTimers,
           \/ Create(t, v)
           \/ \E period \in Periods : StartCall(t, v, period)
           \/ RestartCall(t, v)
           \/ QueryCall(t, v)
    PROVE  NoStopInv'
<1>1. vtimer \in [VTimers -> TimerRecord] /\ thread \in [Threads -> CallRecord]
  BY Types DEF IInv
<1>2. UNCHANGED <<list, event, master, fault>>
  BY DEF Create, StartCall, RestartCall, QueryCall
<1>3. LivesKept
  <2>1. CASE Create(t, v)
    <3>1. vtimer' = [vtimer EXCEPT ![v].life = "live"] BY <2>1 DEF Create
    <3> QED BY <1>1, <3>1 DEF LivesKept, NoStopInv, LiveInv, TimerRecord
  <2>2. CASE \E period \in Periods : StartCall(t, v, period)
    <3>1. PICK period \in Periods : vtimer' = [vtimer EXCEPT ![v].period = period]
      BY <2>2 DEF StartCall
    <3> QED BY <1>1, <3>1 DEF LivesKept, NoStopInv, LiveInv, TimerRecord
  <2>3. CASE UNCHANGED vtimer BY <2>3, SameLives
  <2> QED BY <2>1, <2>2, <2>3 DEF RestartCall, QueryCall
<1>4. CASE Create(t, v)
  <2>1. UNCHANGED thread BY <1>4 DEF Create
  <2>2. PointersInv(t)' BY <1>2, <1>3, <2>1, OtherPointers
  <2> QED BY <1>2, <1>3, <2>1, <2>2, PointersMove
<1>5. CASE ~ Create(t, v)
  <2>1. PICK c \in Locking :
           /\ thread' = [thread EXCEPT ![t] = [NoCall EXCEPT !.pc = "lock", !.call = c,
                                                             !.vtimer = v]]
           /\ vtimer[v].life = "live"
    BY <1>5 DEF StartCall, RestartCall, QueryCall, Begin, Usable, Locking
  <2>2. /\ thread'[t].pc = "lock" /\ thread'[t].call = c /\ thread'[t].vtimer = v
        /\ \A u \in Threads \ {t} : thread'[u] = thread[u]
    BY <1>1, <2>1 DEF NoCall
  <2>3. PointersInv(t)' BY <1>3, <2>1, <2>2 DEF PointersInv, LivesKept
  <2> QED BY <1>2, <1>3, <2>2, <2>3, PointersMove
<1> QED BY <1>4, <1>5

LEMMA LockSafe ==
    ASSUME IInv, NoStopInv, NEW t \in Threads, Lock(t)
    PROVE  NoStopInv'
<1>1. thread \in [Threads -> CallRecord] /\ thread[t] \in CallRecord
  BY Types DEF IInv
<1>2. thread[t].pc = "lock" /\ CallInv(t) /\ PointersInv(t)
  BY DEF IInv, NoStopInv, Lock, At
<1>3. PICK pc \in {"query", "search"} :
         /\ thread'[t] = [thread[t] EXCEPT !.pc = pc, !.search = FirstEvent]
         /\ \A u \in Threads \ {t} : thread'[u] = thread[u]
  BY <1>1 DEF Lock
<1>4. /\ thread'[t].pc = pc /\ thread'[t].call = thread[t].call
      /\ thread'[t].vtimer = thread[t].vtimer /\ thread'[t].victim = thread[t].victim
      /\ thread'[t].search = FirstEvent
  BY <1>1, <1>3 DEF CallRecord
<1>5. UNCHANGED <<list, event, vtimer, master, fault>> BY DEF Lock
<1>6. FirstEvent # NULL => event[FirstEvent] # NULL
  <2>1. ASSUME FirstEvent # NULL PROVE event[FirstEvent] # NULL
    <3>1. 1 \in DOMAIN list /\ FirstEvent = list[1]
      BY <2>1, Types DEF IInv, FirstEvent
    <3> QED BY <3>1 DEF IInv, TypeOK
  <2> QED BY <2>1
<1>7. thread[t].victim = NULL /\ thread[t].call \in Locking
      /\ vtimer[thread[t].vtimer].life = "live"
  BY <1>2 DEF CallInv, PointersInv
<1>8. PointersInv(t)' BY <1>4, <1>5, <1>6, <1>7 DEF PointersInv
<1>9. LivesKept BY <1>5, SameLives
<1> QED BY <1>3, <1>5, <1>8, <1>9, PointersMove

LEMMA SearchSafe ==
    ASSUME IInv, NoStopInv, NEW t \in Threads, Search(t)
    PROVE  NoStopInv'
<1>1. PICK a : a = thread[t].search OBVIOUS
<1>2. thread[t].pc = "search" /\ a # NULL BY <1>1 DEF Search, At
<1>3. /\ thread \in [Threads -> CallRecord] /\ thread[t] \in CallRecord
      /\ CallInv(t) /\ PointersInv(t)
  BY Types DEF IInv, NoStopInv
<1>4. PICK v : v = thread[t].vtimer OBVIOUS
<1>5. event[a] # NULL /\ a \in Addr BY <1>1, <1>2, <1>3 DEF PointersInv, CallRecord
<1>6. PICK k \in DOMAIN list : list[k] = a BY <1>5 DEF IInv, ListInv
<1>7. PICK n \in Addr \cup {NULL} :
         n = NextEvent(a) /\ (n # NULL => k + 1 \in DOMAIN list /\ list[k + 1] = n)
  BY <1>6, NextFacts DEF IInv
<1>8. /\ UNCHANGED <<list, event, vtimer, master, fault>>
      /\ thread' = IF event[a].vtimer # v
                   THEN [thread EXCEPT ![t].search = n]
                   ELSE IF thread[t].victim = NULL
                   THEN [thread EXCEPT ![t].search = n, ![t].victim = a]
                   ELSE [thread EXCEPT ![t].pc = "delete"]
  BY <1>1, <1>4, <1>5, <1>7 DEF Search
<1>9. k \in Nat /\ k < k + 1 /\ DOMAIN list = 1 .. Len(list) /\ Len(list) \in Nat
  BY <1>6, Types DEF IInv
<1>10. n # NULL => event[n] # NULL BY <1>7 DEF IInv, TypeOK
<1>11. ASSUME thread[t].victim # NULL
       PROVE  /\ event[a].vtimer # v
              /\ \E m \in DOMAIN list : m < k /\ list[m] = thread[t].victim
  <2>1. PICK m, l \in DOMAIN list : m < l /\ list[m] = thread[t].victim /\ list[l] = a
    BY <1>1, <1>2, <1>3, <1>11 DEF PointersInv
  <2>2. l = k BY <1>6, <2>1 DEF IInv, ListInv
  <2>3. thread[t].call \in Locking BY <1>2, <1>3 DEF PointersInv
  <2>4. ~ AtEvent BY <1>2, <2>3, WorkFacts DEF Unlocked, AtEvent
  <2>5. TimerOf(m) = v BY <1>2, <1>3, <1>4, <1>11, <2>1 DEF PointersInv, TimerOf
  <2>6. m # k BY <1>9, <2>1, <2>2
  <2>7. TimerOf(k) # v BY <2>4, <2>5, <2>6 DEF IInv, OneEventInv
  <2> QED BY <1>6, <2>1, <2>2, <2>7 DEF TimerOf
<1>12. /\ \A u \in Threads \ {t} : thread'[u] = thread[u]
       /\ thread'[t].call = thread[t].call /\ thread'[t].vtimer = v
       /\ thread'[t].pc = "search" /\ thread'[t].search = n
       /\ \/ thread'[t].victim = thread[t].victim
          \/ /\ event[a].vtimer = v /\ thread'[t].victim = a
  <2>1. CASE event[a].vtimer # v BY <1>2, <1>3, <1>4, <1>8, <2>1 DEF CallRecord
  <2>2. CASE event[a].vtimer = v
    <3>1. thread[t].victim = NULL BY <1>11, <2>2
    <3> QED BY <1>2, <1>3, <1>4, <1>8, <2>2, <3>1 DEF CallRecord
  <2> QED BY <2>1, <2>2
<1>13. PointersInv(t)'
  <2>1. thread[t].call \in Locking /\ vtimer[v].life = "live"
    BY <1>2, <1>3, <1>4 DEF PointersInv
  <2>2. thread'[t].victim # NULL =>
           event[thread'[t].victim] # NULL /\ event[thread'[t].victim].vtimer = v
    BY <1>2, <1>3, <1>4, <1>5, <1>12 DEF PointersInv
  <2>3. ASSUME n # NULL, thread'[t].victim # NULL
        PROVE  \E m, l \in DOMAIN list :
                  m < l /\ list[m] = thread'[t].victim /\ list[l] = n
    <3>1. CASE thread'[t].victim = thread[t].victim
      <4>1. PICK m \in DOMAIN list : m < k /\ list[m] = thread[t].victim
        BY <1>11, <2>3, <3>1
      <4>2. m < k + 1 BY <1>9, <4>1
      <4> QED BY <1>7, <2>3, <3>1, <4>1, <4>2
    <3>2. CASE thread'[t].victim = a BY <1>6, <1>7, <1>9, <2>3, <3>2
    <3> QED BY <1>12, <3>1, <3>2
  <2> QED BY <1>8, <1>10, <1>12, <2>1, <2>2, <2>3 DEF PointersInv
<1>14. LivesKept BY <1>8, SameLives
<1> QED BY <1>8, <1>12, <1>13, <1>14, PointersMove

\* The end of the walk, of a query and of a call; no call is a stop.
LEMMA EndSafe ==
    ASSUME IInv, NoStopInv, NEW t \in Threads,
           \/ SearchEnd(t) \/ StartDeletedAll(t) \/ Query(t) \/ Unlock(t)
           \/ StopDeletedAll(t) \/ DestroyDeletedAll(t)
    PROVE  NoStopInv'
<1>1. /\ thread \in [Threads -> CallRecord] /\ thread[t] \in CallRecord
      /\ PointersInv(t)
  BY Types DEF IInv, NoStopInv
<1>2. thread[t].pc # "idle"
  BY DEF SearchEnd, StartDeletedAll, Query, Unlock, StopDeletedAll, DestroyDeletedAll,
         DeletedAll, At
<1>3. thread[t].call \in Locking /\ vtimer[thread[t].vtimer].life = "live"
  BY <1>1, <1>2 DEF PointersInv
<1>4. ~ StopDeletedAll(t) /\ ~ DestroyDeletedAll(t)
  BY <1>3 DEF StopDeletedAll, DestroyDeletedAll, Locking
<1>5. UNCHANGED <<list, event, vtimer, master, fault>>
  BY <1>4 DEF SearchEnd, StartDeletedAll, Query, Unlock
<1>6. \A u \in Threads \ {t} : thread'[u] = thread[u]
  BY <1>1, <1>4 DEF SearchEnd, StartDeletedAll, Query, Unlock
<1>7. LivesKept BY <1>5, SameLives
<1>8. PointersInv(t)'
  <2>1. CASE Unlock(t)
    <3>1. thread'[t].pc = "idle" BY <1>1, <2>1 DEF Unlock, NoCall
    <3> QED BY <3>1 DEF PointersInv
  <2>2. CASE SearchEnd(t)
    <3>1. /\ thread[t].pc = "search" /\ thread[t].search = NULL
          /\ thread' = [thread EXCEPT ![t].pc = "delete"]
      BY <2>2 DEF SearchEnd, At
    <3>2. /\ thread'[t].pc = "delete" /\ thread'[t].call = thread[t].call
          /\ thread'[t].vtimer = thread[t].vtimer
          /\ thread'[t].search = thread[t].search /\ thread'[t].victim = thread[t].victim
      BY <1>1, <3>1 DEF CallRecord
    <3> QED BY <1>1, <1>3, <1>5, <3>1, <3>2 DEF PointersInv
  <2>3. CASE StartDeletedAll(t) \/ Query(t)
    <3>1. PICK pc \in {"add", "unlock"} : thread' = [thread EXCEPT ![t].pc = pc]
      BY <2>3 DEF StartDeletedAll, Query
    <3>2. /\ thread'[t].pc = pc /\ thread'[t].call = thread[t].call
          /\ thread'[t].vtimer = thread[t].vtimer
      BY <1>1, <3>1 DEF CallRecord
    <3> QED BY <1>3, <1>5, <3>2 DEF PointersInv
  <2> QED BY <1>4, <2>1, <2>2, <2>3
<1> QED BY <1>5, <1>6, <1>7, <1>8, PointersMove

\* A step of the one who has the mutex: the others have no business with the list.
LEMMA OthersWait ==
    ASSUME IInv, NoStopInv, LivesKept, NEW t, mutex = t,
           \A u \in Threads \ {t} : thread'[u] = thread[u]
    PROVE  \A u \in Threads \ {t} : PointersInv(u)'
<1>1. ASSUME NEW u \in Threads \ {t} PROVE PointersInv(u)'
  <2>1. thread[u].pc \in Unlocked BY Waiting
  <2> QED BY <2>1, OtherPointers
<1> QED BY <1>1

LEMMA DeleteVictimSafe ==
    ASSUME IInv, NoStopInv, NEW t \in Threads, DeleteVictim(t)
    PROVE  NoStopInv'
<1>1. thread \in [Threads -> CallRecord] /\ thread[t] \in CallRecord
      /\ CallInv(t) /\ PointersInv(t) /\ thread[t].pc = "delete"
  BY Types DEF IInv, NoStopInv, DeleteVictim, At
<1>2. PICK a : a = thread[t].victim OBVIOUS
<1>3. /\ a \in Addr /\ event[a] # NULL
      /\ thread[t].search = NULL /\ thread[t].call \in Locking
      /\ vtimer[thread[t].vtimer].life = "live"
  BY <1>1, <1>2 DEF CallInv, PointersInv, CallRecord
<1>4. /\ DeleteEvent(a)
      /\ thread' = [thread EXCEPT ![t].pc = "search", ![t].victim = NULL,
                                  ![t].search = NULL]
      /\ UNCHANGED <<now, mutex, vtimer, master, fault, fired>>
  BY <1>2, <1>3 DEF DeleteVictim
<1>5. PICK p \in DOMAIN list : list[p] = a BY <1>3 DEF IInv, ListInv
<1>6. Shrunk(p) BY <1>4, <1>5, DeleteFacts DEF IInv
<1>7. mutex = t /\ master.pc = "idle"
  BY <1>1, <1>3, WorkFacts DEF Unlocked
<1>8. LivesKept BY <1>4, SameLives
<1>9. LiveInv'
  <2>1. ASSUME NEW i \in DOMAIN list' PROVE vtimer[TimerOf(i)'].life = "live"
    <3>1. PICK k \in DOMAIN list : TimerOf(i)' = TimerOf(k)
      BY <1>6, ShrunkFrom DEF IInv
    <3> QED BY <3>1 DEF NoStopInv, LiveInv
  <2> QED BY <1>4, <2>1 DEF NoStopInv, LiveInv
<1>10. CurrentInv' BY <1>4, <1>7 DEF CurrentInv, AtEvent
<1>11. /\ thread'[t].pc = "search" /\ thread'[t].call = thread[t].call
       /\ thread'[t].vtimer = thread[t].vtimer
       /\ thread'[t].search = NULL /\ thread'[t].victim = NULL
       /\ \A u \in Threads \ {t} : thread'[u] = thread[u]
  BY <1>1, <1>4 DEF CallRecord
<1>12. PointersInv(t)' BY <1>3, <1>4, <1>11 DEF PointersInv
<1>13. \A u \in Threads \ {t} : PointersInv(u)' BY <1>7, <1>8, <1>11, OthersWait
<1> QED BY <1>4, <1>9, <1>10, <1>12, <1>13 DEF NoStopInv

LEMMA StartAddSafe ==
    ASSUME IInv, NoStopInv, NEW t \in Threads, StartAdd(t)
    PROVE  NoStopInv'
<1>1. /\ thread \in [Threads -> CallRecord] /\ thread[t] \in CallRecord
      /\ CallInv(t) /\ PointersInv(t) /\ thread[t].pc = "add"
  BY Types DEF IInv, NoStopInv, StartAdd, At
<1>2. /\ thread[t].call \in Locking /\ thread[t].vtimer \in VTimers
      /\ vtimer[thread[t].vtimer].life = "live"
  BY <1>1 DEF CallInv, PointersInv, CallRecord
<1>3. PICK v \in VTimers : v = thread[t].vtimer BY <1>2
<1>4. /\ thread' = [thread EXCEPT ![t].pc = "unlock"]
      /\ UNCHANGED <<now, mutex, vtimer, master, fault>>
  BY DEF StartAdd
<1>5. /\ thread'[t].pc = "unlock" /\ thread'[t].call = thread[t].call
      /\ thread'[t].vtimer = v
      /\ \A u \in Threads \ {t} : thread'[u] = thread[u]
  BY <1>1, <1>3, <1>4 DEF CallRecord
<1>6. mutex = t /\ master.pc = "idle" BY <1>1, <1>2, WorkFacts DEF Unlocked
<1>7. LivesKept BY <1>4, SameLives
<1>8. PointersInv(t)' BY <1>2, <1>3, <1>4, <1>5 DEF PointersInv
<1>9. \A u \in Threads \ {t} : PointersInv(u)' BY <1>5, <1>6, <1>7, OthersWait
<1>10. CurrentInv' BY <1>4, <1>6 DEF CurrentInv, AtEvent
<1>11. LiveInv'
  <2>1. CASE UNCHANGED <<list, event>>
    BY <1>4, <2>1 DEF NoStopInv, LiveInv, TimerOf
  <2>2. CASE \E a \in FreeAddr : AddEvent(a, v, now + vtimer[v].period)
    <3>1. PICK x \in Nat : x = now + vtimer[v].period
      <4>1. vtimer[v].period \in Periods \cup {0} /\ now \in Nat
        BY Types DEF IInv, TimerRecord
      <4> QED BY <4>1, PeriodFacts
    <3>2. PICK a \in FreeAddr : AddEvent(a, v, x) BY <2>2, <3>1
    <3>3. a \in Addr BY DEF FreeAddr
    <3>4. PICK p \in Nat : Grown(p, a, v, x) BY <3>2, AddFacts DEF IInv
    <3>5. ASSUME NEW i \in DOMAIN list' PROVE vtimer[TimerOf(i)'].life = "live"
      <4>1. CASE i = p BY <1>2, <1>3, <3>4, <4>1 DEF Grown
      <4>2. CASE i # p
        <5>1. PICK k \in DOMAIN list : TimerOf(i)' = TimerOf(k)
          BY <3>3, <3>4, <4>2, GrownFrom DEF IInv
        <5> QED BY <5>1 DEF NoStopInv, LiveInv
      <4> QED BY <4>1, <4>2
    <3> QED BY <1>4, <3>5 DEF NoStopInv, LiveInv
  <2> QED BY <1>3, <2>1, <2>2 DEF StartAdd
<1> QED BY <1>4, <1>8, <1>9, <1>10, <1>11 DEF NoStopInv

\* The steps of the clock and of the master callback that leave the list alone
LEMMA MasterMoves ==
    ASSUME IInv, NoStopInv, UNCHANGED <<list, event, vtimer, thread, fault>>,
           CurrentInv'
    PROVE  NoStopInv'
<1>1. LivesKept BY SameLives
<1>2. \A u \in Threads : PointersInv(u)' BY <1>1, OtherPointers
<1>3. LiveInv' BY DEF NoStopInv, LiveInv, TimerOf
<1> QED BY <1>2, <1>3 DEF NoStopInv

LEMMA MasterMutexSafe ==
    ASSUME IInv, NoStopInv, Tick \/ MasterTrylock \/ (MasterAt("loop") /\ MasterUnlock)
    PROVE  NoStopInv'
<1>1. master \in MasterRecord BY Types DEF IInv
<1>2. UNCHANGED <<list, event, vtimer, thread, fault>>
  BY DEF Tick, MasterTrylock, MasterUnlock
<1>3. master' = master \/ master'.pc \in {"idle", "loop"}
  BY <1>1 DEF Tick, MasterTrylock, MasterUnlock, MasterRecord
<1>4. CurrentInv' BY <1>2, <1>3 DEF NoStopInv, CurrentInv, AtEvent, TimerOf, TimeOf
<1> QED BY <1>2, <1>4, MasterMoves

LEMMA MasterFireSafe ==
    ASSUME IInv, NoStopInv, MasterFire
    PROVE  NoStopInv'
<1>1. master.pc = "fire" /\ event[master.current] # NULL
  BY DEF MasterFire, MasterAt, NoStopInv, CurrentInv, AtEvent
<1>2. 1 \in DOMAIN list /\ master.current = list[1]
  BY <1>1, Types DEF IInv, MasterInv, AtEvent
<1>3. vtimer[event[master.current].vtimer].life = "live"
  BY <1>2 DEF NoStopInv, LiveInv, TimerOf
<1>4. Valid(master.current) BY <1>1, <1>3 DEF Valid
<1>5. /\ master' = [master EXCEPT !.pc = "delete"]
      /\ UNCHANGED <<list, event, vtimer, thread, fault>>
  BY <1>4 DEF MasterFire
<1>6. master'.pc = "delete" /\ master'.current = master.current
  BY <1>5, Types DEF IInv, MasterRecord
<1>7. CurrentInv' BY <1>1, <1>5, <1>6 DEF CurrentInv, AtEvent
<1> QED BY <1>5, <1>7, MasterMoves

LEMMA MasterDeleteSafe ==
    ASSUME IInv, NoStopInv, MasterDelete
    PROVE  NoStopInv'
<1>1. master.pc = "delete" /\ event[master.current] # NULL
  BY DEF MasterDelete, MasterAt, NoStopInv, CurrentInv, AtEvent
<1>2. /\ DeleteEvent(master.current)
      /\ master' = [master EXCEPT !.pc = "loop", !.current = NULL]
      /\ UNCHANGED <<now, mutex, vtimer, thread, fault, fired>>
  BY <1>1 DEF MasterDelete
<1>3. PICK p \in DOMAIN list : list[p] = master.current
  <2>1. list # << >> /\ master.current = list[1] BY <1>1 DEF IInv, MasterInv, AtEvent
  <2>2. 1 \in DOMAIN list BY <2>1, Types DEF IInv
  <2> QED BY <2>1, <2>2
<1>4. Shrunk(p) BY <1>2, <1>3, DeleteFacts DEF IInv
<1>5. LiveInv'
  <2>1. ASSUME NEW i \in DOMAIN list' PROVE vtimer[TimerOf(i)'].life = "live"
    <3>1. PICK k \in DOMAIN list : TimerOf(i)' = TimerOf(k)
      BY <1>4, ShrunkFrom DEF IInv
    <3> QED BY <3>1 DEF NoStopInv, LiveInv
  <2> QED BY <1>2, <2>1 DEF NoStopInv, LiveInv
<1>6. CurrentInv'
  <2>1. master'.pc = "loop" BY <1>2, Types DEF IInv, MasterRecord
  <2> QED BY <2>1 DEF CurrentInv, AtEvent
<1>7. mutex = Master BY <1>1, MasterFacts
<1>8. LivesKept BY <1>2, SameLives
<1>9. \A u \in Threads : PointersInv(u)'
  BY <1>2, <1>7, <1>8, OthersWait, VTimerAssumption
<1> QED BY <1>2, <1>5, <1>6, <1>9 DEF NoStopInv

LEMMA MasterTakeSafe ==
    ASSUME IInv, NoStopInv, MasterTake
    PROVE  NoStopInv'
<1>1. MasterAt("loop") /\ FirstEvent # NULL /\ Expired(FirstEvent) BY DEF MasterTake
<1>2. /\ 1 \in DOMAIN list /\ FirstEvent = list[1] /\ list[1] \in Addr
      /\ event[list[1]] # NULL /\ TimerOf(1) \in VTimers
      /\ event[FirstEvent].vtimer = TimerOf(1)
      /\ \A j \in DOMAIN list : TimerOf(j) = TimerOf(1) => j = 1
  BY <1>1, TakeFacts DEF TimerOf
<1>3. vtimer[TimerOf(1)].life = "live" BY <1>2 DEF NoStopInv, LiveInv
<1>4. CASE /\ TimerOf(1) \notin Periodic
           /\ master' = [master EXCEPT !.pc = "fire", !.current = FirstEvent]
           /\ UNCHANGED <<now, mutex, list, event, vtimer, thread, fault, fired>>
  <2>1. master'.pc = "fire" /\ master'.current = list[1]
    BY <1>2, <1>4, Types DEF IInv, MasterRecord
  <2>2. CurrentInv' BY <1>2, <1>4, <2>1 DEF CurrentInv, TimerOf
  <2> QED BY <1>4, <2>2, MasterMoves
<1>5. CASE /\ \E b \in FreeAddr : AddEvent(b, TimerOf(1), NextExpiration(FirstEvent))
           /\ master' = [master EXCEPT !.pc = "fire", !.current = FirstEvent]
           /\ UNCHANGED <<now, mutex, vtimer, thread, fault, fired>>
  <2>1. PICK b \in FreeAddr : AddEvent(b, TimerOf(1), NextExpiration(FirstEvent))
    BY <1>5
  <2>2. PICK v \in VTimers : v = TimerOf(1) BY <1>2
  <2>3. PICK p, x \in Nat :
           /\ AddEvent(b, v, x) /\ Grown(p, b, v, x)
           /\ \E period \in Periods : x = TimeOf(1) + period
           /\ 1 \in DOMAIN list' /\ list'[1] = list[1]
           /\ TimerOf(1)' = v /\ TimeOf(1)' = TimeOf(1)
           /\ p > 1 /\ p \in DOMAIN list'
           /\ TimerOf(p)' = v /\ TimeOf(p)' = x
           /\ \A i \in DOMAIN list' : TimerOf(i)' = v => i = 1 \/ i = p
    BY <1>1, <1>5, <2>1, <2>2, SuccessorFacts
  <2>4. master'.pc = "fire" /\ master'.current = list[1]
    BY <1>2, <1>5, Types DEF IInv, MasterRecord
  <2>5. \A i \in DOMAIN list' : event'[list'[i]] # NULL
    BY <2>1, AddFacts, <2>3 DEF IInv
  <2>6. CurrentInv'
    <3>1. event'[master'.current] # NULL BY <2>3, <2>4, <2>5
    <3>2. p # 1 BY <2>3
    <3> QED BY <2>3, <3>1, <3>2 DEF CurrentInv
  <2>7. LiveInv'
    <3>1. b \in Addr BY DEF FreeAddr
    <3>2. ASSUME NEW i \in DOMAIN list' PROVE vtimer[TimerOf(i)'].life = "live"
      <4>1. CASE i = p BY <1>3, <2>2, <2>3, <4>1
      <4>2. CASE i # p
        <5>1. PICK k \in DOMAIN list : TimerOf(i)' = TimerOf(k)
          BY <2>3, <3>1, <4>2, GrownFrom DEF IInv
        <5> QED BY <5>1 DEF NoStopInv, LiveInv
      <4> QED BY <4>1, <4>2
    <3> QED BY <1>5, <3>2 DEF NoStopInv, LiveInv
  <2>8. mutex = Master BY <1>1, MasterFacts DEF MasterAt
  <2>9. LivesKept BY <1>5, SameLives
  <2>10. \A u \in Threads : PointersInv(u)'
    BY <1>5, <2>8, <2>9, OthersWait, VTimerAssumption
  <2> QED BY <1>5, <2>6, <2>7, <2>10 DEF NoStopInv
<1>6. CASE MasterUnlock BY <1>1, <1>6, MasterMutexSafe
<1> QED BY <1>2, <1>3, <1>4, <1>5, <1>6 DEF MasterTake

LEMMA InitNoStopInv == Init => NoStopInv
BY DEF Init, NoStopInv, LiveInv, CurrentInv, AtEvent, PointersInv, NoCall

LEMMA NextNoStopInv ==
    ASSUME Stoppable = {}, IInv, NoStopInv, [Next]_vars
    PROVE  NoStopInv'
<1>1. CASE UNCHANGED vars
  BY <1>1 DEF vars, NoStopInv, LiveInv, CurrentInv, PointersInv, TimerOf, TimeOf, AtEvent
<1>2. CASE Tick \/ MasterTrylock BY <1>2, MasterMutexSafe
<1>3. CASE MasterStep
  <2>1. CASE MasterDone BY <2>1, MasterMutexSafe DEF MasterDone
  <2>2. CASE MasterTake BY <2>2, MasterTakeSafe
  <2>3. CASE MasterFire BY <2>3, MasterFireSafe
  <2>4. CASE MasterDelete BY <2>4, MasterDeleteSafe
  <2> QED BY <1>3, <2>1, <2>2, <2>3, <2>4 DEF MasterStep
<1>4. ASSUME NEW t \in Threads, NewCall(t) PROVE NoStopInv'
  <2>1. PICK v \in VTimers :
           \/ Create(t, v)
           \/ \E p \in Periods : StartCall(t, v, p)
           \/ RestartCall(t, v)
           \/ QueryCall(t, v)
    BY <1>4 DEF NewCall, StopCall
  <2> QED BY <2>1, BeginSafe
<1>5. ASSUME NEW t \in Threads, Lock(t) PROVE NoStopInv' BY <1>5, LockSafe
<1>6. ASSUME NEW t \in Threads, ThreadStep(t) PROVE NoStopInv'
  <2>1. CASE Search(t) BY <2>1, SearchSafe
  <2>2. CASE DeleteVictim(t) BY <2>2, DeleteVictimSafe
  <2>3. CASE StartAdd(t) BY <2>3, StartAddSafe
  <2>4. CASE \/ SearchEnd(t) \/ StartDeletedAll(t) \/ Query(t) \/ Unlock(t)
             \/ StopDeletedAll(t) \/ DestroyDeletedAll(t)
    BY <2>4, EndSafe
  <2> QED BY <1>6, <2>1, <2>2, <2>3, <2>4 DEF ThreadStep
<1> QED BY <1>1, <1>2, <1>3, <1>4, <1>5, <1>6 DEF Next

LEMMA AlwaysNoStopInv ==
    ASSUME Stoppable = {}
    PROVE  Spec => [](IInv /\ NoStopInv)
<1>1. Init => IInv /\ NoStopInv BY InitIInv, InitNoStopInv
<1>2. IInv /\ NoStopInv /\ [Next]_vars => IInv' /\ NoStopInv'
  BY NextIInv, NextNoStopInv
<1> QED BY <1>1, <1>2, PTL DEF Spec

\* A program that creates, starts, restarts and queries timers but does not stop
\* or destroy them never touches freed memory.
THEOREM StartedTimersAreSafe ==
    ASSUME Stoppable = {}
    PROVE  Spec => []NoUseAfterFree
<1>1. NoStopInv => NoUseAfterFree BY DEF NoStopInv, NoUseAfterFree
<1> QED BY <1>1, AlwaysNoStopInv, PTL
=============================================================================
