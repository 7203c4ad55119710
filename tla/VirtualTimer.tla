---------------------------- MODULE VirtualTimer ----------------------------
(***************************************************************************)
(* The virtual timers of libMx/mx_virtual_timer.c.                         *)
(*                                                                         *)
(* All the virtual timers of a process share one master interval timer and *)
(* one linked list of events sorted by expiration time.  On every tick of  *)
(* the master timer its callback, which runs in a thread of its own, takes *)
(* the mutex of the list if nobody else has it, and runs the callback of   *)
(* each event that has expired.  The other threads of the process start,   *)
(* query, stop and destroy virtual timers.                                 *)
(*                                                                         *)
(* mx_delete_all_vtimer_events() is a loop of its own here, one step per   *)
(* list node it looks at, because mx_virtual_timer_stop() runs it without  *)
(* the mutex.  A step that would dereference or free an event or a timer   *)
(* that is freed already sets `fault' and ends the behaviour: the C        *)
(* program has no defined state from there on.                             *)
(***************************************************************************)
EXTENDS SequencesExt

CONSTANTS
    VTimers,     \* the MX_VIRTUAL_TIMER structures the program creates
    Periodic,    \* those created as MXIT_PERIODIC_TIMER; the rest are one-shot
    Stoppable,   \* those the program stops or destroys
    Threads,     \* the threads that call the mx_virtual_timer_...() functions
    Master,      \* the thread that runs the master timer callback
    Addr,        \* the memory that malloc() finds for MX_MASTER_TIMER_EVENTs
    Periods,     \* the timer periods the program asks for, in clock units
    MaxTime,     \* bound on the clock
    NULL

ASSUME VTimerAssumption ==
    /\ Periodic \subseteq VTimers
    /\ Stoppable \subseteq VTimers
    /\ Master \notin Threads
    /\ NULL \notin Addr \cup VTimers \cup Threads \cup {Master}
    /\ NULL \notin [vtimer : VTimers, expiration : Nat]
    /\ Periods \subseteq Nat \ {0}
    /\ MaxTime \in Nat

VARIABLES
    now,      \* mx_high_resolution_time()
    mutex,    \* event_list->mutex: the thread that holds it, or NULL
    list,     \* event_list->timer_event_list: addresses, head first
    event,    \* event[a]: the structure malloc() put at a, NULL if there is none
    vtimer,   \* vtimer[v]: its life and its timer_period
    master,   \* the master callback: program counter and local variables
    thread,   \* thread[t]: the call t is in, its program counter and locals
    fault,    \* freed memory was used
    fired     \* history: the expiration time of the latest event fired, and
              \* for each timer the callbacks since it was last started

vars == <<now, mutex, list, event, vtimer, master, thread, fault, fired>>
-----------------------------------------------------------------------------
(* Types *)

Event == [vtimer : VTimers, expiration : Nat]

MasterPC == {"idle", "loop", "fire", "delete"}

ThreadPC == {"idle", "lock", "search", "delete", "add", "query", "unlock"}

Call == {"start", "query", "stop", "destroy"}

TypeOK ==
    /\ now \in 0 .. MaxTime
    /\ mutex \in Threads \cup {Master, NULL}
    /\ list \in Seq(Addr)
    /\ event \in [Addr -> Event \cup {NULL}]
    /\ \A i \in DOMAIN list : event[list[i]] # NULL
    /\ vtimer \in [VTimers -> [life : {"none", "live", "freed"},
                               period : Periods \cup {0}]]
    /\ master \in [pc : MasterPC, current : Addr \cup {NULL}, time : Nat]
    /\ thread \in [Threads -> [pc : ThreadPC, call : Call,
                               vtimer : VTimers \cup {NULL},
                               search : Addr \cup {NULL},
                               victim : Addr \cup {NULL}]]
    /\ fault \in BOOLEAN
    /\ fired \in [latest : Nat, count : [VTimers -> Nat]]

NoCall == [pc |-> "idle", call |-> "query", vtimer |-> NULL,
           search |-> NULL, victim |-> NULL]

Init ==
    /\ now = 0
    /\ mutex = NULL
    /\ list = << >>
    /\ event = [a \in Addr |-> NULL]
    /\ vtimer = [v \in VTimers |-> [life |-> "none", period |-> 0]]
    /\ master = [pc |-> "idle", current |-> NULL, time |-> 0]
    /\ thread = [t \in Threads |-> NoCall]
    /\ fault = FALSE
    /\ fired = [latest |-> 0, count |-> [v \in VTimers |-> 0]]
-----------------------------------------------------------------------------
(* The event list *)

FreeAddr == {a \in Addr : event[a] = NULL}

FirstEvent == IF list = << >> THEN NULL ELSE list[1]

\* current_event->next_event, for an event that is in the list
NextEvent(a) ==
    LET i == CHOOSE j \in DOMAIN list : list[j] = a
    IN  IF i < Len(list) THEN list[i + 1] ELSE NULL

\* The first event that is to expire strictly later than time x: the new
\* event goes in front of it, hence behind the events that expire at x.
InsertPosition(x) ==
    CHOOSE i \in 1 .. Len(list) + 1 :
        /\ \A j \in 1 .. i - 1 : event[list[j]].expiration <= x
        /\ i <= Len(list) => event[list[i]].expiration > x

AddEvent(a, v, x) ==
    /\ list' = InsertAt(list, InsertPosition(x), a)
    /\ event' = [event EXCEPT ![a] = [vtimer |-> v, expiration |-> x]]

\* mx_delete_vtimer_event(): unlink and free
DeleteEvent(a) ==
    /\ list' = RemoveAt(list, CHOOSE i \in DOMAIN list : list[i] = a)
    /\ event' = [event EXCEPT ![a] = NULL]

Fault ==
    /\ fault' = TRUE
    /\ UNCHANGED <<now, mutex, list, event, vtimer, master, thread, fired>>
-----------------------------------------------------------------------------
(* The clock and the master timer callback *)

\* Where a thread is, as long as the program has a defined state
MasterAt(pc) == ~ fault /\ master.pc = pc

At(t, pc) == ~ fault /\ thread[t].pc = pc

Tick ==
    /\ ~ fault
    /\ now < MaxTime
    /\ now' = now + 1
    /\ UNCHANGED <<mutex, list, event, vtimer, master, thread, fault, fired>>

\* When the mutex is taken the callback returns and does nothing, so only the
\* successful trylock is a step.
MasterTrylock ==
    /\ MasterAt("idle")
    /\ mutex = NULL
    /\ mutex' = Master
    /\ master' = [master EXCEPT !.pc = "loop", !.time = now]
    /\ UNCHANGED <<now, list, event, vtimer, thread, fault, fired>>

\* Mutant: every event counts as expired.
ExpiredAlways(a) == TRUE

\* Mutant: an event does not expire at its expiration time but after it.
ExpiredAfter(a) == event[a].expiration < master.time

Expired(a) == event[a].expiration <= master.time

MasterUnlock ==
    /\ mutex' = NULL
    /\ master' = [master EXCEPT !.pc = "idle", !.current = NULL]
    /\ UNCHANGED <<now, list, event, vtimer, thread, fault, fired>>

\* The list is empty or its first event is in the future.
MasterDone ==
    /\ MasterAt("loop")
    /\ FirstEvent # NULL => ~ Expired(FirstEvent)
    /\ MasterUnlock

\* Mutant: the next event of a periodic timer counts from the current time.
NextExpirationFromNow(a) == master.time + vtimer[event[a].vtimer].period

\* The next event of a periodic timer counts from the old expiration time.
NextExpiration(a) == event[a].expiration + vtimer[event[a].vtimer].period

\* Mutant: if there is no memory for the next event, the callback goes on without it.
MasterTakeAnyway ==
    /\ MasterAt("loop")
    /\ FirstEvent # NULL
    /\ Expired(FirstEvent)
    /\ LET a == FirstEvent
           v == event[a].vtimer
       IN  /\ vtimer[v].life = "live"
           /\ \/ v \in Periodic /\ \E b \in FreeAddr : AddEvent(b, v, NextExpiration(a))
              \/ (v \in Periodic => FreeAddr = {}) /\ UNCHANGED <<list, event>>
    /\ master' = [master EXCEPT !.pc = "fire", !.current = FirstEvent]
    /\ UNCHANGED <<now, mutex, vtimer, thread, fault, fired>>

\* The first event has expired: schedule the next one if the timer is periodic.
MasterTake ==
    /\ MasterAt("loop")
    /\ FirstEvent # NULL
    /\ Expired(FirstEvent)
    /\ LET a == FirstEvent
           v == event[a].vtimer
       IN  \/ /\ vtimer[v].life = "freed"
              /\ Fault
           \/ /\ vtimer[v].life = "live"
              /\ v \notin Periodic
              /\ master' = [master EXCEPT !.pc = "fire", !.current = a]
              /\ UNCHANGED <<now, mutex, list, event, vtimer, thread, fault, fired>>
           \/ /\ vtimer[v].life = "live"
              /\ v \in Periodic
              /\ \E b \in FreeAddr : AddEvent(b, v, NextExpiration(a))
              /\ master' = [master EXCEPT !.pc = "fire", !.current = a]
              /\ UNCHANGED <<now, mutex, vtimer, thread, fault, fired>>
           \/ /\ vtimer[v].life = "live"
              /\ v \in Periodic
              /\ FreeAddr = {}                        \* malloc() failed: break
              /\ MasterUnlock

\* Neither the event at address a nor its timer is freed.
Valid(a) ==
    /\ event[a] # NULL
    /\ vtimer[event[a].vtimer].life = "live"

\* Run the callback function of the event's timer.
MasterFire ==
    /\ MasterAt("fire")
    /\ \/ /\ Valid(master.current)
          /\ LET e == event[master.current]
             IN  fired' = [latest |-> e.expiration,
                           count |-> [fired.count EXCEPT ![e.vtimer] = @ + 1]]
          /\ master' = [master EXCEPT !.pc = "delete"]
          /\ UNCHANGED <<now, mutex, list, event, vtimer, thread, fault>>
       \/ /\ ~ Valid(master.current)
          /\ Fault

MasterDelete ==
    /\ MasterAt("delete")
    /\ \/ /\ event[master.current] # NULL
          /\ DeleteEvent(master.current)
          /\ master' = [master EXCEPT !.pc = "loop", !.current = NULL]
          /\ UNCHANGED <<now, mutex, vtimer, thread, fault, fired>>
       \/ /\ event[master.current] = NULL
          /\ Fault
-----------------------------------------------------------------------------
(* The calls the threads of the program make *)

\* mx_virtual_timer_create()
Create(t, v) ==
    /\ At(t, "idle")
    /\ vtimer[v].life = "none"
    /\ vtimer' = [vtimer EXCEPT ![v].life = "live"]
    /\ UNCHANGED <<now, mutex, list, event, master, thread, fault, fired>>

\* Nobody uses a timer that is being destroyed or is destroyed already: that
\* much the callers of the library see to.
Usable(v) ==
    /\ vtimer[v].life = "live"
    /\ \A t \in Threads : thread[t].vtimer = v => thread[t].call # "destroy"

Begin(t, call, v, pc) ==
    thread' = [thread EXCEPT ![t] = [NoCall EXCEPT !.pc = pc, !.call = call,
                                                   !.vtimer = v]]

\* mx_virtual_timer_start() up to the lock, with a positive period ...
StartCall(t, v, period) ==
    /\ At(t, "idle")
    /\ Usable(v)
    /\ vtimer' = [vtimer EXCEPT ![v].period = period]
    /\ Begin(t, "start", v, "lock")
    /\ UNCHANGED <<now, mutex, list, event, master, fault, fired>>

\* ... and with a period that is not: use the previous one again, if there is one.
RestartCall(t, v) ==
    /\ At(t, "idle")
    /\ Usable(v)
    /\ vtimer[v].period # 0
    /\ Begin(t, "start", v, "lock")
    /\ UNCHANGED <<now, mutex, list, event, vtimer, master, fault, fired>>

\* mx_virtual_timer_is_busy() and mx_virtual_timer_read()
QueryCall(t, v) ==
    /\ At(t, "idle")
    /\ Usable(v)
    /\ Begin(t, "query", v, "lock")
    /\ UNCHANGED <<now, mutex, list, event, vtimer, master, fault, fired>>

\* Mutant: nobody waits for the mutex.
LockAnyway(t) ==
    /\ At(t, "lock")
    /\ mutex' = t
    /\ thread' = [thread EXCEPT
                    ![t].pc = IF thread[t].call = "query" THEN "query" ELSE "search",
                    ![t].search = FirstEvent]
    /\ UNCHANGED <<now, list, event, vtimer, master, fault, fired>>

\* Mutant: a start does not delete the events the timer has.
LockAndAdd(t) ==
    /\ At(t, "lock")
    /\ mutex = NULL
    /\ mutex' = t
    /\ thread' = [thread EXCEPT
                    ![t].pc = IF thread[t].call = "query" THEN "query" ELSE "add"]
    /\ UNCHANGED <<now, list, event, vtimer, master, fault, fired>>

Lock(t) ==
    /\ At(t, "lock")
    /\ mutex = NULL
    /\ mutex' = t
    /\ thread' = [thread EXCEPT
                    ![t].pc = IF thread[t].call = "query" THEN "query" ELSE "search",
                    ![t].search = FirstEvent]
    /\ UNCHANGED <<now, list, event, vtimer, master, fault, fired>>

\* mx_virtual_timer_stop() and mx_virtual_timer_destroy() go to the list at once.
StopCall(t, v, call) ==
    /\ At(t, "idle")
    /\ v \in Stoppable
    /\ Usable(v)
    /\ call = "destroy" => \A u \in Threads : thread[u].vtimer # v
    /\ thread' = [thread EXCEPT ![t] = [NoCall EXCEPT !.pc = "search", !.call = call,
                                            !.vtimer = v, !.search = FirstEvent]]
    /\ UNCHANGED <<now, mutex, list, event, vtimer, master, fault, fired>>

(* mx_delete_all_vtimer_events(): `search' walks down the list, `victim' is *)
(* the timer's event found last, deleted once the one after it is known.   *)

\* mx_get_next_vtimer_event() looks at one node.
Search(t) ==
    /\ At(t, "search")
    /\ thread[t].search # NULL
    /\ LET a == thread[t].search
           v == thread[t].vtimer
       IN  \/ /\ event[a] = NULL
              /\ Fault
           \/ /\ event[a] # NULL
              /\ thread' =
                   IF event[a].vtimer # v
                   THEN [thread EXCEPT ![t].search = NextEvent(a)]
                   ELSE IF thread[t].victim = NULL
                   THEN [thread EXCEPT ![t].search = NextEvent(a), ![t].victim = a]
                   ELSE [thread EXCEPT ![t].pc = "delete"]
              /\ UNCHANGED <<now, mutex, list, event, vtimer, master, fault, fired>>

\* The search ran off the end of the list with one more event to delete.
SearchEnd(t) ==
    /\ At(t, "search")
    /\ thread[t].search = NULL
    /\ thread[t].victim # NULL
    /\ thread' = [thread EXCEPT ![t].pc = "delete"]
    /\ UNCHANGED <<now, mutex, list, event, vtimer, master, fault, fired>>

DeleteVictim(t) ==
    /\ At(t, "delete")
    /\ LET a == thread[t].victim
           b == thread[t].search
       IN  \/ /\ event[a] = NULL \/ (b # NULL /\ event[b] = NULL)
              /\ Fault
           \/ /\ event[a] # NULL
              /\ b # NULL => event[b] # NULL
              /\ DeleteEvent(a)
              /\ thread' = [thread EXCEPT
                              ![t].pc = "search",
                              ![t].victim = b,
                              ![t].search = IF b = NULL THEN NULL ELSE NextEvent(b)]
              /\ UNCHANGED <<now, mutex, vtimer, master, fault, fired>>

\* No event of the timer is left: go on in the function that called.
DeletedAll(t) ==
    /\ At(t, "search")
    /\ thread[t].search = NULL
    /\ thread[t].victim = NULL

StartDeletedAll(t) ==
    /\ DeletedAll(t)
    /\ thread[t].call = "start"
    /\ thread' = [thread EXCEPT ![t].pc = "add"]
    /\ UNCHANGED <<now, mutex, list, event, vtimer, master, fault, fired>>

StopDeletedAll(t) ==
    /\ DeletedAll(t)
    /\ thread[t].call = "stop"
    /\ thread' = [thread EXCEPT ![t] = NoCall]
    /\ UNCHANGED <<now, mutex, list, event, vtimer, master, fault, fired>>

DestroyDeletedAll(t) ==
    /\ DeletedAll(t)
    /\ thread[t].call = "destroy"
    /\ vtimer' = [vtimer EXCEPT ![thread[t].vtimer].life = "freed"]
    /\ thread' = [thread EXCEPT ![t] = NoCall]
    /\ UNCHANGED <<now, mutex, list, event, master, fault, fired>>

\* The rest of mx_virtual_timer_start(): the new event, if malloc() has memory.
StartAdd(t) ==
    /\ At(t, "add")
    /\ LET v == thread[t].vtimer
       IN  \/ /\ \E a \in FreeAddr : AddEvent(a, v, now + vtimer[v].period)
              /\ fired' = [fired EXCEPT !.count[v] = 0]
           \/ /\ FreeAddr = {}
              /\ UNCHANGED <<list, event, fired>>
    /\ thread' = [thread EXCEPT ![t].pc = "unlock"]
    /\ UNCHANGED <<now, mutex, vtimer, master, fault>>

Query(t) ==
    /\ At(t, "query")
    /\ thread' = [thread EXCEPT ![t].pc = "unlock"]
    /\ UNCHANGED <<now, mutex, list, event, vtimer, master, fault, fired>>

Unlock(t) ==
    /\ At(t, "unlock")
    /\ mutex' = NULL
    /\ thread' = [thread EXCEPT ![t] = NoCall]
    /\ UNCHANGED <<now, list, event, vtimer, master, fault, fired>>
-----------------------------------------------------------------------------
MasterStep == MasterDone \/ MasterTake \/ MasterFire \/ MasterDelete

ThreadStep(t) ==
    \/ Search(t) \/ SearchEnd(t) \/ DeleteVictim(t)
    \/ StartDeletedAll(t) \/ StopDeletedAll(t) \/ DestroyDeletedAll(t)
    \/ StartAdd(t) \/ Query(t) \/ Unlock(t)

NewCall(t) ==
    \E v \in VTimers :
        \/ Create(t, v)
        \/ \E p \in Periods : StartCall(t, v, p)
        \/ RestartCall(t, v)
        \/ QueryCall(t, v)
        \/ \E call \in {"stop", "destroy"} : StopCall(t, v, call)

Next ==
    \/ Tick
    \/ MasterTrylock
    \/ MasterStep
    \/ \E t \in Threads : NewCall(t) \/ Lock(t) \/ ThreadStep(t)

Spec == Init /\ [][Next]_vars

(* Time passes, the threads run, and the master timer, which is periodic,   *)
(* keeps on trying the mutex: the holders release it after a bounded number *)
(* of steps and are not in step with the master timer, so that not every    *)
(* one of its attempts meets a holder.                                      *)
Fairness ==
    /\ WF_vars(Tick)
    /\ SF_vars(MasterTrylock)
    /\ WF_vars(MasterStep)
    /\ \A t \in Threads : WF_vars(ThreadStep(t))

FairSpec == Spec /\ Fairness
-----------------------------------------------------------------------------
(* Properties *)

(* The callback of a timer runs when its event has expired and never before, *)
(* and events fire in the order of their expiration times, over all timers   *)
(* and all passes of the master callback: what is still in the list is not   *)
(* older than what was fired last.                                           *)
FiredInOrder ==
    /\ fired.latest <= now
    /\ \A i \in DOMAIN list : event[list[i]].expiration >= fired.latest

(* A one-shot timer that is started has one event at most, and its callback *)
(* runs once at most for a start, however start, stop and the master        *)
(* callback interleave.                                                     *)
OneShotFiresOnce ==
    \A v \in VTimers \ Periodic :
        /\ fired.count[v] <= 1
        /\ \A i, j \in DOMAIN list :
              event[list[i]].vtimer = v /\ event[list[j]].vtimer = v => i = j

\* The timer has an event that the master callback will not delete in this turn.
Scheduled(v) ==
    \E i \in DOMAIN list :
        /\ event[list[i]].vtimer = v
        /\ master.pc \in {"fire", "delete"} => list[i] # master.current

(* A periodic timer stays scheduled until a call starts it again or stops it, *)
(* whether the master callback has memory for its next event or not.  Only a  *)
(* stop of another timer, which does not wait for the mutex, can take away    *)
(* its event: if that has the address of one the master callback has freed.   *)
PeriodicStaysScheduled ==
    [][\A v \in Periodic : Scheduled(v) /\ ~ Scheduled(v)' =>
          \E t \in Threads :
             \/ thread[t].vtimer = v /\ thread[t].call # "query"
             \/ DeleteVictim(t) /\ thread[t].call \in {"stop", "destroy"}]_vars

(* No thread dereferences or frees an event or a timer that was freed. *)
NoUseAfterFree == ~ fault

(* The timers as their users see them: an event counts until its callback  *)
(* runs, and the next event of a periodic timer counts from then on.       *)
DueTimes(v) ==
    {event[list[i]].expiration : i \in
        {j \in DOMAIN list :
            /\ event[list[j]].vtimer = v
            /\ master.pc = "delete" => list[j] # master.current
            /\ master.pc = "fire" /\ event[master.current].vtimer = v
                  => list[j] = master.current}}

Service == INSTANCE TimerService WITH due <- [v \in VTimers |-> DueTimes(v)]

(* The list, the mutex and the two kinds of threads together are the timer  *)
(* service of module TimerService: no timer fires early, twice or out of    *)
(* order, and a periodic one is always due again.                           *)
ImplementsTimerService == Service!Spec

Pending(v) ==
    \E i \in DOMAIN list : /\ event[list[i]].vtimer = v
                          /\ event[list[i]].expiration <= MaxTime

(* An event that comes due while the clock runs is fired, or its timer is *)
(* started anew: no event stays in the list for ever.                     *)
DueEventsAreHandled == \A v \in VTimers : Pending(v) ~> ~ Pending(v)
=============================================================================
