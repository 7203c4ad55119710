------------------------- MODULE TimerServiceProofs -------------------------
(***************************************************************************)
(* The proof that VirtualTimer implements TimerService for any timers,     *)
(* threads, memory and periods, while no timer is stopped or destroyed.    *)
(* The order of the list is the matter of VirtualTimerProofs; here the     *)
(* events are seen by their addresses: an event is in the list exactly     *)
(* when it is allocated.                                                   *)
(***************************************************************************)
EXTENDS VirtualTimerProofs

SafeInv == IInv /\ NoStopInv

LEMMA AlwaysSafeInv ==
    ASSUME Stoppable = {}
    PROVE  Spec => []SafeInv
<1>1. SafeInv <=> IInv /\ NoStopInv BY DEF SafeInv
<1> QED BY <1>1, AlwaysNoStopInv, PTL

\* The event at address a makes timer v due at time y: its callback has not run,
\* and no older event of the timer is about to fire.
EventDue(a, v, y) ==
    /\ event[a] # NULL
    /\ event[a].vtimer = v
    /\ event[a].expiration = y
    /\ master.pc = "delete" => a # master.current
    /\ master.pc = "fire" /\ event[master.current].vtimer = v => a = master.current

DueMatches ==
    \A v \in VTimers : \A y : y \in DueTimes(v) <=> \E a \in Addr : EventDue(a, v, y)

\* The events in memory: a timer has one, but for the one the master callback is
\* at, which is the oldest of all and, in a periodic timer, has a successor.
EventView ==
    /\ \A a \in Addr : event[a] # NULL =>
          event[a].vtimer \in VTimers /\ event[a].expiration \in Nat
    /\ \A a, b \in Addr :
          event[a] # NULL /\ event[b] # NULL /\ event[a].vtimer = event[b].vtimer =>
             \/ a = b
             \/ master.pc \in {"fire", "delete"} /\ master.current \in {a, b}
    /\ master.pc \in {"fire", "delete"} =>
          master.current \in Addr /\ event[master.current] # NULL
    /\ master.pc = "fire" =>
          LET e == event[master.current]
          IN  /\ e.expiration <= now
              /\ \A b \in Addr : event[b] # NULL => e.expiration <= event[b].expiration
              /\ \A b \in Addr :
                    event[b] # NULL /\ b # master.current /\ event[b].vtimer = e.vtimer =>
                       /\ e.vtimer \in Periodic
                       /\ \E p \in Periods : event[b].expiration = e.expiration + p
              /\ e.vtimer \in Periodic =>
                    \E b \in Addr : /\ event[b] # NULL /\ b # master.current
                                    /\ event[b].vtimer = e.vtimer

\* The times a timer is due at are those of its events that count.
LEMMA DueElements == SafeInv => DueMatches
<1> SUFFICES ASSUME SafeInv, NEW v \in VTimers, NEW y
             PROVE  y \in DueTimes(v) <=> \E a \in Addr : EventDue(a, v, y)
  BY DEF DueMatches
<1>1. /\ \A j \in DOMAIN list : list[j] \in Addr /\ event[list[j]] # NULL
      /\ \A a \in Addr : event[a] # NULL => \E j \in DOMAIN list : list[j] = a
  <2>1. \A j \in DOMAIN list : list[j] \in Addr BY EventFacts DEF SafeInv, IInv
  <2>2. \A j \in DOMAIN list : event[list[j]] # NULL BY DEF SafeInv, IInv, TypeOK
  <2> QED BY <2>1, <2>2 DEF SafeInv, IInv, ListInv
<1>2. y \in DueTimes(v) <=> \E j \in DOMAIN list : EventDue(list[j], v, y)
  BY <1>1 DEF DueTimes, EventDue
<1>3. (\E j \in DOMAIN list : EventDue(list[j], v, y)) <=>
          \E a \in Addr : EventDue(a, v, y)
  BY <1>1 DEF EventDue
<1> QED BY <1>2, <1>3

LEMMA EventsInView == SafeInv => EventView
<1> SUFFICES ASSUME SafeInv PROVE EventView
  OBVIOUS
<1>1. ASSUME NEW a \in Addr, event[a] # NULL
      PROVE  \E j \in DOMAIN list : /\ list[j] = a
                                    /\ TimerOf(j) = event[a].vtimer
                                    /\ TimeOf(j) = event[a].expiration
                                    /\ event[a].vtimer \in VTimers
                                    /\ event[a].expiration \in Nat
  <2>1. PICK j \in DOMAIN list : list[j] = a BY <1>1 DEF SafeInv, IInv, ListInv
  <2>2. TimerOf(j) \in VTimers /\ TimeOf(j) \in Nat BY EventFacts DEF SafeInv, IInv
  <2> QED BY <2>1, <2>2 DEF TimerOf, TimeOf
<1>2. ASSUME master.pc \in {"fire", "delete"}
      PROVE  /\ 1 \in DOMAIN list /\ master.current = list[1]
             /\ master.current \in Addr /\ event[master.current] # NULL
  <2>1. event[master.current] # NULL
    BY <1>2 DEF SafeInv, NoStopInv, CurrentInv, AtEvent
  <2>2. list # << >> /\ master.current = list[1]
    BY <1>2, <2>1 DEF SafeInv, IInv, MasterInv, AtEvent
  <2>3. 1 \in DOMAIN list BY <2>2, Types DEF SafeInv, IInv
  <2> QED BY <2>1, <2>2, <2>3, EventFacts DEF SafeInv, IInv
<1>3. ASSUME NEW a \in Addr, NEW b \in Addr, event[a] # NULL, event[b] # NULL,
             event[a].vtimer = event[b].vtimer, a # b
      PROVE  master.pc \in {"fire", "delete"} /\ master.current \in {a, b}
  <2>1. PICK i \in DOMAIN list : list[i] = a /\ TimerOf(i) = event[a].vtimer
    BY <1>1, <1>3
  <2>2. PICK j \in DOMAIN list : list[j] = b /\ TimerOf(j) = event[b].vtimer
    BY <1>1, <1>3
  <2>3. i # j /\ TimerOf(i) = TimerOf(j) BY <1>3, <2>1, <2>2
  <2>4. AtEvent /\ master.current \in {list[i], list[j]}
    BY <2>3 DEF SafeInv, IInv, OneEventInv
  <2> QED BY <2>1, <2>2, <2>4 DEF AtEvent
<1>4. ASSUME master.pc = "fire"
      PROVE  LET e == event[master.current]
             IN  /\ e.expiration <= now
                 /\ \A b \in Addr : event[b] # NULL => e.expiration <= event[b].expiration
                 /\ \A b \in Addr :
                       event[b] # NULL /\ b # master.current /\ event[b].vtimer = e.vtimer =>
                          /\ e.vtimer \in Periodic
                          /\ \E p \in Periods : event[b].expiration = e.expiration + p
                 /\ e.vtimer \in Periodic =>
                       \E b \in Addr : /\ event[b] # NULL /\ b # master.current
                                       /\ event[b].vtimer = e.vtimer
  <2> DEFINE e == event[master.current]
  <2>1. /\ 1 \in DOMAIN list /\ master.current = list[1]
        /\ e.vtimer = TimerOf(1) /\ e.expiration = TimeOf(1) /\ TimeOf(1) \in Nat
    BY <1>2, <1>4, EventFacts DEF TimerOf, TimeOf, SafeInv, IInv
  <2>2. e.expiration <= now BY <1>2, <1>4 DEF SafeInv, IInv, MasterInv
  <2>3. ASSUME NEW b \in Addr, event[b] # NULL
        PROVE  e.expiration <= event[b].expiration
    <3>1. PICK j \in DOMAIN list : /\ list[j] = b /\ TimeOf(j) = event[b].expiration
      BY <1>1, <2>3
    <3>2. j = 1 \/ 1 < j BY Types DEF SafeInv, IInv
    <3>3. 1 < j => TimeOf(1) <= TimeOf(j) BY <2>1 DEF SafeInv, IInv, ListInv
    <3> QED BY <2>1, <3>1, <3>2, <3>3
  <2>4. ASSUME NEW b \in Addr, event[b] # NULL, b # master.current,
               event[b].vtimer = e.vtimer
        PROVE  /\ e.vtimer \in Periodic
               /\ \E p \in Periods : event[b].expiration = e.expiration + p
    <3>1. PICK j \in DOMAIN list : /\ list[j] = b /\ TimeOf(j) = event[b].expiration
                                   /\ TimerOf(j) = event[b].vtimer
      BY <1>1, <2>4
    <3>2. j # 1 /\ TimerOf(j) = TimerOf(1) BY <2>1, <2>4, <3>1
    <3>3. TimerOf(1) \in Periodic
      BY <2>1, <3>2 DEF SafeInv, IInv, OneEventInv
    <3>4. \E p \in Periods : TimeOf(j) = TimeOf(1) + p
      BY <1>4, <3>2 DEF SafeInv, NoStopInv, CurrentInv
    <3> QED BY <2>1, <3>1, <3>3, <3>4
  <2>5. ASSUME e.vtimer \in Periodic
        PROVE  \E b \in Addr : /\ event[b] # NULL /\ b # master.current
                               /\ event[b].vtimer = e.vtimer
    <3>1. PICK j \in DOMAIN list : j # 1 /\ TimerOf(j) = TimerOf(1)
      BY <1>4, <2>1, <2>5 DEF SafeInv, NoStopInv, CurrentInv
    <3>2. list[j] \in Addr BY EventFacts DEF SafeInv, IInv
    <3>3. event[list[j]] # NULL BY DEF SafeInv, IInv, TypeOK
    <3>4. list[j] # list[1] BY <2>1, <3>1 DEF SafeInv, IInv, ListInv
    <3>5. event[list[j]].vtimer = e.vtimer BY <2>1, <3>1 DEF TimerOf
    <3> QED BY <2>1, <3>2, <3>3, <3>4, <3>5
  <2> QED BY <2>2, <2>3, <2>4, <2>5
<1>5. \A a \in Addr : event[a] # NULL =>
         event[a].vtimer \in VTimers /\ event[a].expiration \in Nat
  BY <1>1
<1> QED BY <1>2, <1>3, <1>4, <1>5 DEF EventView

LEMMA DueElementsNext == SafeInv' => DueMatches'
BY DueElements, PTL
-----------------------------------------------------------------------------
(* The steps that the users of the timers do not see *)

Due == [v \in VTimers |-> DueTimes(v)]

\* Steps that leave the due events of a timer alone leave its due times alone.
LEMMA SameTimes ==
    ASSUME SafeInv, SafeInv', NEW v \in VTimers,
           \A a \in Addr : \A y : EventDue(a, v, y)' <=> EventDue(a, v, y)
    PROVE  DueTimes(v)' = DueTimes(v)
<1>1. DueMatches /\ DueMatches' BY DueElements, DueElementsNext
<1>2. \A y : y \in DueTimes(v) <=> \E a \in Addr : EventDue(a, v, y)
  BY <1>1 DEF DueMatches
<1>3. \A y : y \in DueTimes(v)' <=> \E a \in Addr : EventDue(a, v, y)'
  BY <1>1 DEF DueMatches
<1>4. \A y : y \in DueTimes(v)' <=> y \in DueTimes(v) BY <1>2, <1>3
<1> QED BY <1>4

LEMMA SameDue ==
    ASSUME SafeInv, SafeInv',
           \A v \in VTimers : \A a \in Addr : \A y :
              EventDue(a, v, y)' <=> EventDue(a, v, y)
    PROVE  Due' = Due
BY SameTimes DEF Due

LEMMA EventsAlone ==
    ASSUME SafeInv, SafeInv', UNCHANGED event,
           UNCHANGED master \/ (master.pc \in {"idle", "loop"} /\
                                master'.pc \in {"idle", "loop"})
    PROVE  Due' = Due
<1>1. \A v \in VTimers : \A a \in Addr : \A y :
         EventDue(a, v, y)' <=> EventDue(a, v, y)
  BY DEF EventDue
<1> QED BY <1>1, SameDue

LEMMA MasterTakeUnseen ==
    ASSUME SafeInv, SafeInv', MasterTake
    PROVE  Due' = Due
<1> DEFINE a == FirstEvent
           w == event[a].vtimer
<1>1. master.pc = "loop" /\ a # NULL BY DEF MasterTake, MasterAt
<1>2. a \in Addr /\ event[a] # NULL
  <2>1. 1 \in DOMAIN list /\ a = list[1] BY <1>1 DEF FirstEvent, SafeInv, IInv, TypeOK
  <2> QED BY <2>1, EventFacts DEF SafeInv, IInv, TypeOK
<1>3. EventView BY EventsInView
<1>4. \A b \in Addr : event[b] # NULL /\ event[b].vtimer = w => b = a
  BY <1>1, <1>2, <1>3 DEF EventView
<1>5. master.pc # "fire" /\ master.pc # "delete" BY <1>1
<1>6. master' = [master EXCEPT !.pc = "fire", !.current = a] =>
         master'.pc = "fire" /\ master'.current = a
  <2>1. master \in [pc : MasterPC, current : Addr \cup {NULL}, time : Nat]
    BY DEF SafeInv, IInv, TypeOK
  <2> QED BY <2>1
<1>7. CASE UNCHANGED event /\ master' = [master EXCEPT !.pc = "fire", !.current = a]
  <2> HIDE DEF a, w
  <2>1. \A v \in VTimers : \A b \in Addr : \A y :
           EventDue(b, v, y)' <=> EventDue(b, v, y)
    BY <1>2, <1>4, <1>5, <1>6, <1>7 DEF EventDue, w
  <2> QED BY <2>1, SameDue
<1>8. CASE /\ \E b \in FreeAddr : AddEvent(b, w, NextExpiration(a))
           /\ master' = [master EXCEPT !.pc = "fire", !.current = a]
  <2>1. PICK b \in FreeAddr : AddEvent(b, w, NextExpiration(a)) BY <1>8
  <2>2. b \in Addr /\ event[b] = NULL /\ b # a BY <1>2 DEF FreeAddr
  <2> HIDE DEF a, w
  <2>3. /\ event'[b].vtimer = w
        /\ \A c \in Addr : c # b => event'[c] = event[c]
    BY <2>1, <2>2 DEF AddEvent, SafeInv, IInv, TypeOK
  <2>4. event'[a].vtimer = w /\ event'[a] = event[a] BY <1>2, <2>2, <2>3 DEF w
  <2>5. ASSUME NEW v \in VTimers, NEW c \in Addr, NEW y
        PROVE  EventDue(c, v, y)' <=> EventDue(c, v, y)
    <3>1. CASE c = b
      <4>1. ~ EventDue(c, v, y) BY <2>2, <3>1 DEF EventDue
      <4>2. ~ EventDue(c, v, y)'
        BY <1>6, <1>8, <2>2, <2>3, <2>4, <3>1 DEF EventDue
      <4> QED BY <4>1, <4>2
    <3>2. CASE c # b
      <4>1. event'[c] = event[c] BY <2>3, <3>2
      <4>2. EventDue(c, v, y) <=> /\ event[c] # NULL /\ event[c].vtimer = v
                                  /\ event[c].expiration = y
        BY <1>5 DEF EventDue
      <4>3. EventDue(c, v, y)' <=> /\ event[c] # NULL /\ event[c].vtimer = v
                                   /\ event[c].expiration = y
                                   /\ w = v => c = a
        BY <1>6, <1>8, <2>4, <4>1 DEF EventDue
      <4> QED BY <1>4, <4>2, <4>3
    <3> QED BY <3>1, <3>2
  <2> QED BY <2>5, SameDue
<1>9. CASE UNCHANGED <<event, master>> BY <1>9, EventsAlone
<1>10. CASE MasterUnlock
  <2>1. UNCHANGED event /\ master'.pc = "idle"
    BY <1>10 DEF MasterUnlock, SafeInv, IInv, TypeOK
  <2> QED BY <1>1, <2>1, EventsAlone
<1>11. \/ UNCHANGED event /\ master' = [master EXCEPT !.pc = "fire", !.current = a]
       \/ /\ \E b \in FreeAddr : AddEvent(b, w, NextExpiration(a))
          /\ master' = [master EXCEPT !.pc = "fire", !.current = a]
       \/ UNCHANGED <<event, master>>
       \/ MasterUnlock
  BY DEF MasterTake, Fault
<1> QED BY <1>7, <1>8, <1>9, <1>10, <1>11

\* An event whose callback ran is not due any more: its end is not seen.
LEMMA MasterDeleteUnseen ==
    ASSUME SafeInv, SafeInv', MasterDelete
    PROVE  Due' = Due
<1>1. CASE UNCHANGED <<event, master>> BY <1>1, EventsAlone
<1>2. CASE /\ DeleteEvent(master.current)
           /\ master' = [master EXCEPT !.pc = "loop", !.current = NULL]
  <2>1. master.pc = "delete" BY DEF MasterDelete, MasterAt
  <2>2. master'.pc = "loop" BY <1>2 DEF SafeInv, IInv, TypeOK
  <2>3. master.current \in Addr BY <2>1, EventsInView DEF EventView
  <2>4. /\ event'[master.current] = NULL
        /\ \A c \in Addr : c # master.current => event'[c] = event[c]
    BY <1>2, <2>3 DEF DeleteEvent, SafeInv, IInv, TypeOK
  <2>5. \A v \in VTimers : \A b \in Addr : \A y :
           EventDue(b, v, y)' <=> EventDue(b, v, y)
    BY <2>1, <2>2, <2>4 DEF EventDue
  <2> QED BY <2>5, SameDue
<1> QED BY <1>1, <1>2 DEF MasterDelete, Fault
-----------------------------------------------------------------------------
(* The steps that they do *)

LEMMA FireSeen ==
    ASSUME SafeInv, SafeInv', MasterFire
    PROVE  (\E v \in VTimers : Service!Fire(v)) \/ UNCHANGED <<now, Due>>
<1>1. CASE UNCHANGED <<now, event, master>> BY <1>1, EventsAlone
<1>2. CASE /\ Valid(master.current)
           /\ master' = [master EXCEPT !.pc = "delete"]
           /\ UNCHANGED <<now, event>>
  <2> DEFINE c == master.current
             e == event[c]
             x == e.expiration
  <2>1. master.pc = "fire" BY DEF MasterFire, MasterAt
  <2>2. /\ EventView /\ c \in Addr /\ event[c] # NULL /\ x <= now
         /\ e.vtimer \in VTimers
    BY <2>1, EventsInView DEF EventView
  <2>3. PICK w \in VTimers : w = e.vtimer BY <2>2
  <2>4. /\ EventView /\ c \in Addr /\ event[c] # NULL /\ x <= now
        /\ w \in VTimers /\ w = event[c].vtimer
    BY <2>2, <2>3
  <2>5. master'.pc = "delete" /\ master'.current = c
    BY <1>2 DEF SafeInv, IInv, TypeOK
  <2>6. DueMatches /\ DueMatches' BY DueElements, DueElementsNext
  <2>7. \A y : y \in DueTimes(w) <=> y = x
    BY <2>1, <2>4, <2>6 DEF DueMatches, EventDue
  <2>8. ASSUME NEW v \in VTimers, v # w PROVE DueTimes(v)' = DueTimes(v)
    <3>1. \A a \in Addr : \A y : EventDue(a, v, y)' <=> EventDue(a, v, y)
      BY <1>2, <2>1, <2>4, <2>5, <2>8 DEF EventDue
    <3> QED BY <3>1, SameTimes
  <2>9. ASSUME NEW u \in VTimers, NEW y \in DueTimes(u) PROVE x <= y
    <3>1. PICK a \in Addr : EventDue(a, u, y) BY <2>6 DEF DueMatches
    <3>2. event[a] # NULL /\ event[a].expiration = y BY <3>1 DEF EventDue
    <3> QED BY <2>1, <2>4, <3>2 DEF EventView
  <2>10. \A y : y \in DueTimes(w)' <=>
                  \E b \in Addr : /\ event[b] # NULL /\ b # c
                                  /\ event[b].vtimer = w /\ event[b].expiration = y
    BY <1>2, <2>4, <2>5, <2>6 DEF DueMatches, EventDue
  <2>11. CASE w \notin Periodic
    <3>1. DueTimes(w)' = {}
      <4>1. \A y : y \notin DueTimes(w)'
        BY <2>1, <2>4, <2>10, <2>11 DEF EventView
      <4> QED BY <4>1
    <3> HIDE DEF x
    <3>2. Due' = [Due EXCEPT ![w] = {}] BY <2>4, <2>8, <3>1 DEF Due
    <3> QED BY <1>2, <2>4, <2>7, <2>9, <2>11, <3>2 DEF Service!Fire, Due
  <2>12. CASE w \in Periodic
    <3>1. PICK b \in Addr : event[b] # NULL /\ b # c /\ event[b].vtimer = w
      BY <2>1, <2>4, <2>12 DEF EventView
    <3>2. PICK p \in Periods : event[b].expiration = x + p
      BY <2>1, <2>4, <3>1 DEF EventView
    <3>3. ASSUME NEW d \in Addr, event[d] # NULL, d # c, event[d].vtimer = w
          PROVE  d = b
      BY <2>4, <3>1, <3>3 DEF EventView
    <3>4. DueTimes(w)' = {x + p}
      <4>1. \A y : y \in DueTimes(w)' <=> y = x + p
        BY <2>10, <3>1, <3>2, <3>3
      <4> QED BY <4>1
    <3> HIDE DEF x
    <3>5. Due' = [Due EXCEPT ![w] = {x + p}] BY <2>4, <2>8, <3>4 DEF Due
    <3> QED BY <1>2, <2>4, <2>7, <2>9, <2>12, <3>5 DEF Service!Fire, Due
  <2> QED BY <2>11, <2>12
<1> QED BY <1>1, <1>2 DEF MasterFire, Fault

\* mx_virtual_timer_start() deletes the event the timer has: a disarm.
LEMMA DeleteVictimSeen ==
    ASSUME SafeInv, SafeInv', NEW t \in Threads, DeleteVictim(t)
    PROVE  (\E v \in VTimers : Service!Disarm(v)) \/ UNCHANGED <<now, Due>>
<1> DEFINE a == thread[t].victim
<1>1. CASE UNCHANGED <<now, event, master>> BY <1>1, EventsAlone
<1>2. CASE DeleteEvent(a) /\ UNCHANGED <<now, master>>
  <2>1. thread[t].pc = "delete" BY DEF DeleteVictim, At
  <2>2. /\ thread[t] \in CallRecord /\ CallInv(t) /\ PointersInv(t)
        /\ thread[t].call \in Locking
    BY <2>1, Types DEF SafeInv, IInv, NoStopInv, PointersInv
  <2>3. master.pc = "idle" BY <2>1, <2>2, WorkFacts DEF Unlocked, SafeInv
  <2>4. thread[t].vtimer \in VTimers /\ thread[t].victim \in Addr
    BY <2>1, <2>2 DEF CallInv, CallRecord
  <2>5. PICK w \in VTimers : w = thread[t].vtimer BY <2>4
  <2>6. master.pc = "idle" /\ w \in VTimers /\ w = thread[t].vtimer
    BY <2>5, <2>3
  <2>7. a \in Addr /\ event[a] # NULL /\ event[a].vtimer = w
    BY <2>1, <2>6, <2>2, <2>4 DEF PointersInv, CallInv
  <2> HIDE DEF a
  <2>8. event'[a] = NULL /\ \A c \in Addr : c # a => event'[c] = event[c]
    BY <1>2, <2>7 DEF DeleteEvent, SafeInv, IInv, TypeOK
  <2>9. \A c \in Addr : event[c] # NULL /\ event[c].vtimer = w => c = a
    BY <2>6, <2>7, EventsInView DEF EventView
  <2>10. ASSUME NEW v \in VTimers, v # w PROVE DueTimes(v)' = DueTimes(v)
    <3>1. \A c \in Addr : \A y : EventDue(c, v, y)' <=> EventDue(c, v, y)
      BY <1>2, <2>6, <2>7, <2>8, <2>10 DEF EventDue
    <3> QED BY <3>1, SameTimes
  <2>11. DueTimes(w)' = {}
    <3>1. DueMatches' BY DueElementsNext
    <3>2. \A y : y \notin DueTimes(w)'
      BY <1>2, <2>6, <2>8, <2>9, <3>1 DEF DueMatches, EventDue
    <3> QED BY <3>2
  <2>12. Due' = [Due EXCEPT ![w] = {}] BY <2>6, <2>10, <2>11 DEF Due
  <2> QED BY <1>2, <2>6, <2>12 DEF Service!Disarm, Due
<1> QED BY <1>1, <1>2 DEF DeleteVictim, Fault

\* Its new event arms the timer.
LEMMA StartAddSeen ==
    ASSUME SafeInv, SafeInv', NEW t \in Threads, StartAdd(t)
    PROVE  (\E v \in VTimers : Service!Arm(v)) \/ UNCHANGED <<now, Due>>
<1> DEFINE u == thread[t].vtimer
           p == vtimer[u].period
<1>1. CASE UNCHANGED <<now, event, master>> BY <1>1, EventsAlone
<1>2. CASE /\ \E a \in FreeAddr : AddEvent(a, u, now + p)
           /\ UNCHANGED <<now, master>>
  <2>1. thread[t].pc = "add" BY DEF StartAdd, At
  <2>2. /\ thread[t] \in CallRecord /\ CallInv(t) /\ thread[t].call = "start"
         /\ u \in VTimers /\ vtimer[u].period # 0 /\ Cleared(t)
    BY <2>1, Types DEF SafeInv, IInv, CallInv, CallRecord
  <2>3. master.pc = "idle"
    BY <2>1, <2>2, WorkFacts DEF Unlocked, Locking, SafeInv
  <2>4. PICK w \in VTimers : w = u BY <2>2
  <2>5. master.pc = "idle" /\ w \in VTimers /\ w = thread[t].vtimer
    BY <2>2, <2>4, <2>3
  <2>6. p \in Periods
    <3>1. p \in Periods \cup {0} BY <2>2, Types DEF SafeInv, IInv, TimerRecord
    <3> QED BY <2>2, <3>1
  <2>7. \A c \in Addr : event[c] # NULL => event[c].vtimer # w
    BY <2>1, <2>5, <2>2 DEF Cleared, SafeInv, IInv, ListInv, TimerOf
  <2>8. PICK a \in FreeAddr : AddEvent(a, w, now + p) BY <1>2, <2>4
  <2>9. a \in Addr /\ event[a] = NULL BY DEF FreeAddr
  <2> HIDE DEF u, p
  <2>10. /\ event'[a].vtimer = w /\ event'[a].expiration = now + p
        /\ \A c \in Addr : c # a => event'[c] = event[c]
    BY <2>8, <2>9 DEF AddEvent, SafeInv, IInv, TypeOK
  <2>11. event'[a] # NULL
    <3>1. event'[a] = [vtimer |-> w, expiration |-> now + p]
      BY <2>8, <2>9 DEF AddEvent, SafeInv, IInv, TypeOK
    <3>2. now \in Nat /\ p \in Nat BY <2>6, PeriodFacts, VTimerAssumption DEF SafeInv, IInv, TypeOK
    <3>3. event'[a] \in [vtimer : VTimers, expiration : Nat] BY <2>5, <3>1, <3>2
    <3> QED BY <3>3, VTimerAssumption
  <2>12. ASSUME NEW v \in VTimers, v # w PROVE DueTimes(v)' = DueTimes(v)
    <3>1. ASSUME NEW c \in Addr, NEW y PROVE EventDue(c, v, y)' <=> EventDue(c, v, y)
      <4>1. CASE c = a BY <2>9, <2>10, <2>12, <4>1 DEF EventDue
      <4>2. CASE c # a BY <1>2, <2>5, <2>10, <4>2 DEF EventDue
      <4> QED BY <4>1, <4>2
    <3> QED BY <3>1, SameTimes
  <2>13. DueTimes(w) = {}
    <3>1. \A y : y \notin DueTimes(w)
      BY <2>5, <2>7, DueElements DEF DueMatches, EventDue
    <3> QED BY <3>1
  <2>14. DueTimes(w)' = {now + p}
    <3>1. DueMatches' BY DueElementsNext
    <3>2. \A y : y \in DueTimes(w)' <=> y = now + p
      BY <1>2, <2>5, <2>7, <2>9, <2>10, <2>11, <3>1 DEF DueMatches, EventDue
    <3> QED BY <3>2
  <2>15. Due' = [Due EXCEPT ![w] = {now + p}] BY <2>5, <2>12, <2>14 DEF Due
  <2> QED BY <1>2, <2>5, <2>6, <2>13, <2>15 DEF Service!Arm, Due
<1> QED BY <1>1, <1>2 DEF StartAdd
-----------------------------------------------------------------------------
(* The refinement *)

\* Every step of the timers is a step of the service or is not seen at all.
LEMMA NextImplements ==
    ASSUME Stoppable = {}, SafeInv, SafeInv', [Next]_vars
    PROVE  [Service!Next]_<<now, Due>>
<1>1. CASE UNCHANGED vars BY <1>1, EventsAlone DEF vars
<1>2. CASE Tick
  <2>1. now < MaxTime /\ now' = now + 1 /\ UNCHANGED <<event, master>>
    BY <1>2 DEF Tick
  <2>2. Due' = Due BY <2>1, EventsAlone
  <2> QED BY <2>1, <2>2 DEF Service!Next, Service!Tick, Due
<1>3. CASE MasterTrylock \/ MasterDone
  <2>1. /\ UNCHANGED <<now, event>> /\ master.pc \in {"idle", "loop"}
        /\ master'.pc \in {"idle", "loop"}
    BY <1>3 DEF MasterTrylock, MasterDone, MasterUnlock, MasterAt, SafeInv, IInv, TypeOK
  <2> QED BY <2>1, EventsAlone
<1>4. CASE MasterTake
  <2>1. now' = now BY <1>4 DEF MasterTake, MasterUnlock, Fault
  <2> QED BY <1>4, <2>1, MasterTakeUnseen
<1>5. CASE MasterFire BY <1>5, FireSeen DEF Service!Next, Due
<1>6. CASE MasterDelete
  <2>1. now' = now BY <1>6 DEF MasterDelete, Fault
  <2> QED BY <1>6, <2>1, MasterDeleteUnseen
<1>7. ASSUME NEW t \in Threads, NewCall(t) \/ Lock(t) \/ ThreadStep(t)
      PROVE  [Service!Next]_<<now, Due>>
  <2>1. CASE NewCall(t)
    <3>1. UNCHANGED <<now, event, master>>
      BY <2>1 DEF NewCall, Create, StartCall, RestartCall, QueryCall, StopCall
    <3> QED BY <3>1, EventsAlone
  <2>2. CASE \/ Lock(t) \/ Search(t) \/ SearchEnd(t) \/ StartDeletedAll(t)
             \/ StopDeletedAll(t) \/ DestroyDeletedAll(t) \/ Query(t) \/ Unlock(t)
    <3>1. UNCHANGED <<now, event, master>>
      BY <2>2 DEF Lock, Search, SearchEnd, StartDeletedAll, StopDeletedAll,
                  DestroyDeletedAll, Query, Unlock, Fault
    <3> QED BY <3>1, EventsAlone
  <2>3. CASE DeleteVictim(t) BY <2>3, DeleteVictimSeen DEF Service!Next, Due
  <2>4. CASE StartAdd(t) BY <2>4, StartAddSeen DEF Service!Next, Due
  <2> QED BY <1>7, <2>1, <2>2, <2>3, <2>4 DEF ThreadStep
<1> QED BY <1>1, <1>2, <1>3, <1>4, <1>5, <1>6, <1>7 DEF Next, MasterStep

LEMMA InitImplements == Init => Service!Init
<1> SUFFICES ASSUME Init PROVE Service!Init
  OBVIOUS
<1>1. now = 0 /\ DOMAIN list = {} BY DEF Init
<1>2. \A v \in VTimers : DueTimes(v) = {} BY <1>1 DEF DueTimes
<1> QED BY <1>1, <1>2 DEF Service!Init

\* The list, the mutex, the master timer's callback and the calls of any number
\* of threads are together the timer service that the users of the timers see.
THEOREM TimersImplementService ==
    ASSUME Stoppable = {}
    PROVE  Spec => ImplementsTimerService
<1>1. Init => Service!Init BY InitImplements
<1>2. SafeInv /\ SafeInv' /\ [Next]_vars =>
         [Service!Next]_<<now, [v \in VTimers |-> DueTimes(v)]>>
  BY NextImplements DEF Due
<1>3. Spec => []SafeInv BY AlwaysSafeInv
<1> QED
  BY <1>1, <1>2, <1>3, PTL DEF Spec, ImplementsTimerService, Service!Spec
=============================================================================
