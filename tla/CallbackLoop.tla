---------------------------- MODULE CallbackLoop ----------------------------
(***************************************************************************)
(* The callbacks of an MX process that its virtual timers drive: the poll  *)
(* of the value-changed handlers and the function callbacks of             *)
(* libMx/mx_callback.c, the callback pipe of libMx/mx_pipe.c, and the main *)
(* loop of server/ms_main.c that reads it.                                 *)
(*                                                                         *)
(* Each callback has a message and a one-shot timer.  The callback of the  *)
(* timer, in the thread of the master timer, writes the address of the     *)
(* message to the pipe; the main loop reads one address in each iteration  *)
(* and runs the handler, which begins by starting the timer again.  The    *)
(* pipe does not block: a write that finds it full fails, and the timer    *)
(* callback ignores that.  A timer here is what module TimerService        *)
(* promises, without the time.  Reading an address whose message is freed  *)
(* sets `fault' and ends the behaviour.                                    *)
(***************************************************************************)
EXTENDS Naturals, Sequences, FiniteSets

CONSTANTS
    Poll,         \* the MXCBT_POLL message, made at initialization and kept
    Functions,    \* the memory malloc() finds for MXCBT_FUNCTION messages
    Deletable,    \* those whose handler deletes its callback when it is done
    Adjustable,   \* those whose callback interval clients may change
    PipeSize,     \* the messages the pipe holds
    TimersFail,   \* whether mx_virtual_timer_start() may run out of memory
    NULL

Messages == Functions \cup {Poll}

ASSUME CallbackAssumption ==
    /\ Poll \notin Functions
    /\ IsFiniteSet(Functions)
    /\ Deletable \subseteq Functions
    /\ Adjustable \subseteq Functions
    /\ PipeSize \in Nat
    /\ TimersFail \in BOOLEAN
    /\ NULL \notin Messages

VARIABLES
    pipe,      \* list_head->callback_pipe: the addresses in it
    timer,     \* timer[m]: the one-shot timer of m
    live,      \* the messages that are allocated
    main,      \* the main thread: where it is, and the message it handles
    fault,     \* the main thread read the address of a freed message
    lost,      \* history: messages a full pipe or a failed start dropped
    overrun    \* history: messages whose timer fired before their handler,
               \* which had started it, was through

vars == <<pipe, timer, live, main, fault, lost, overrun>>
-----------------------------------------------------------------------------
MainPC == {"sockets", "pipe", "handler", "work"}

TypeOK ==
    /\ pipe \in Seq(Messages)
    /\ timer \in [Messages -> {"none", "idle", "armed"}]
    /\ live \in SUBSET Messages
    /\ main \in [pc : MainPC, message : Messages \cup {NULL}]
    /\ main.pc \in {"handler", "work"} => main.message \in Messages
    /\ fault \in BOOLEAN
    /\ lost \in SUBSET Messages
    /\ overrun \in SUBSET Messages

At(pc) == ~ fault /\ main.pc = pc

GoTo(pc, m) == main' = [pc |-> pc, message |-> m]

\* mx_initialize_callback_support() has been run, and the main loop begins.
Init ==
    /\ pipe = << >>
    /\ timer = [m \in Messages |-> IF m = Poll THEN "armed" ELSE "none"]
    /\ live = {Poll}
    /\ main = [pc |-> "sockets", message |-> NULL]
    /\ fault = FALSE
    /\ lost = {}
    /\ overrun = {}
-----------------------------------------------------------------------------
(* The thread of the master timer *)

\* The callback of the timer writes the address of its message to the pipe; what
\* becomes of it, nobody asks.
WriteAddress(m) ==
    \/ /\ Len(pipe) < PipeSize
       /\ pipe' = Append(pipe, m)
       /\ UNCHANGED lost
    \/ /\ ~ (Len(pipe) < PipeSize)
       /\ lost' = lost \cup {m}
       /\ UNCHANGED pipe

\* Mutant: the timer is periodic, so that it runs on after it has fired.
FirePeriodic(m) ==
    /\ ~ fault
    /\ timer[m] = "armed"
    /\ WriteAddress(m)
    /\ UNCHANGED <<timer, live, main, fault, overrun>>

\* Mutant: the timer callback does nothing while the main thread is busy.
FireWhenIdle(m) ==
    /\ ~ fault
    /\ timer[m] = "armed"
    /\ timer' = [timer EXCEPT ![m] = "idle"]
    /\ pipe' = IF main.pc = "work" THEN pipe ELSE Append(pipe, m)
    /\ UNCHANGED <<live, main, fault, lost, overrun>>

\* mx_request_value_changed_poll() and mx_callback_standard_vtimer_handler()
Fire(m) ==
    /\ ~ fault
    /\ timer[m] = "armed"
    /\ timer' = [timer EXCEPT ![m] = "idle"]
    /\ WriteAddress(m)
    /\ overrun' = IF main = [pc |-> "work", message |-> m]
                  THEN overrun \cup {m} ELSE overrun
    /\ UNCHANGED <<live, main, fault>>
-----------------------------------------------------------------------------
(* The main thread: requests of clients, then one message of the pipe *)

\* Mutant: the timer is created but not started.
AddFunctionIdle(m) ==
    /\ At("sockets")
    /\ m \notin live
    /\ live' = live \cup {m}
    /\ timer' = [timer EXCEPT ![m] = "idle"]
    /\ UNCHANGED <<pipe, main, fault, lost, overrun>>

\* mx_function_add_callback(), for a request that starts an operation
AddFunction(m) ==
    /\ At("sockets")
    /\ m \notin live
    /\ live' = live \cup {m}
    /\ timer' = [timer EXCEPT ![m] = "armed"]
    /\ lost' = lost \ {m}
    /\ UNCHANGED <<pipe, main, fault, overrun>>

\* mx_function_change_callback_interval() stops the timer and starts it,
\* wherever the message is.
ChangeInterval(m) ==
    /\ At("sockets")
    /\ m \in Adjustable \cap live
    /\ \/ timer' = [timer EXCEPT ![m] = "armed"] /\ UNCHANGED lost
       \/ /\ TimersFail
          /\ timer' = [timer EXCEPT ![m] = "idle"]
          /\ lost' = lost \cup {m}
    /\ UNCHANGED <<pipe, live, main, fault, overrun>>

\* mxsrv_process_sockets() has served the sockets that were ready.
SocketsDone ==
    /\ At("sockets")
    /\ GoTo("pipe", NULL)
    /\ UNCHANGED <<pipe, timer, live, fault, lost, overrun>>

\* mx_pipe_num_bytes_available() finds nothing
PipeEmpty ==
    /\ At("pipe")
    /\ pipe = << >>
    /\ GoTo("sockets", NULL)
    /\ UNCHANGED <<pipe, timer, live, fault, lost, overrun>>

\* Mutant: the address that was read stays in the pipe.
ReadPipePeek ==
    /\ At("pipe")
    /\ pipe # << >>
    /\ GoTo("handler", Head(pipe))
    /\ UNCHANGED <<pipe, timer, live, fault, lost, overrun>>

\* Mutant: the address written last is read first.
ReadPipeLast ==
    /\ At("pipe")
    /\ pipe # << >>
    /\ GoTo("handler", pipe[Len(pipe)])
    /\ pipe' = SubSeq(pipe, 1, Len(pipe) - 1)
    /\ UNCHANGED <<timer, live, fault, lost, overrun>>

\* mx_process_callbacks() reads one address and looks at the type of what is
\* there to find the handler.
ReadPipe ==
    /\ At("pipe")
    /\ pipe # << >>
    /\ pipe' = Tail(pipe)
    /\ \/ /\ Head(pipe) \in live
          /\ GoTo("handler", Head(pipe))
          /\ UNCHANGED fault
       \/ /\ Head(pipe) \notin live
          /\ fault' = TRUE
          /\ UNCHANGED main
    /\ UNCHANGED <<timer, live, lost, overrun>>

\* Mutant: the handler leaves the start of its timer to the end of its work, and
\* the work returns early.
RestartLate ==
    /\ At("handler")
    /\ GoTo("work", main.message)
    /\ UNCHANGED <<pipe, timer, live, fault, lost, overrun>>

\* mx_poll_callback_handler() and the function callbacks start their timer
\* before anything else, and give up if that fails.
Restart ==
    /\ At("handler")
    /\ LET m == main.message
       IN  \/ /\ timer' = [timer EXCEPT ![m] = "armed"]
              /\ GoTo("work", m)
              /\ UNCHANGED lost
           \/ /\ TimersFail
              /\ timer' = [timer EXCEPT ![m] = "idle"]
              /\ lost' = lost \cup {m}
              /\ GoTo("sockets", NULL)
    /\ UNCHANGED <<pipe, live, fault, overrun>>

\* The handler returns, whether it was successful or not.
Return ==
    /\ At("work")
    /\ GoTo("sockets", NULL)
    /\ UNCHANGED <<pipe, timer, live, fault, lost, overrun>>

\* Mutant: the message is freed and its timer is not destroyed.
DeleteFunctionOnly ==
    /\ At("work")
    /\ main.message \in Deletable
    /\ live' = live \ {main.message}
    /\ GoTo("sockets", NULL)
    /\ UNCHANGED <<pipe, timer, fault, lost, overrun>>

\* The handler is done for good: mx_function_delete_callback()
DeleteFunction ==
    /\ At("work")
    /\ LET m == main.message
       IN  /\ m \in Deletable
           /\ timer' = [timer EXCEPT ![m] = "none"]
           /\ live' = live \ {m}
    /\ GoTo("sockets", NULL)
    /\ UNCHANGED <<pipe, fault, lost, overrun>>
-----------------------------------------------------------------------------
Request == \E m \in Functions : AddFunction(m) \/ ChangeInterval(m)

MainStep == SocketsDone \/ PipeEmpty \/ ReadPipe \/ Restart \/ Return \/ DeleteFunction

Next == (\E m \in Messages : Fire(m)) \/ Request \/ MainStep

Spec == Init /\ [][Next]_vars

(* The main loop goes round: mxsrv_process_sockets() serves a socket once   *)
(* and returns, and the handlers return.  A timer that is armed fires:      *)
(* DueEventsAreHandled of VirtualTimer.  Nothing makes a client send        *)
(* requests or a handler delete its callback.                               *)
Fairness ==
    /\ WF_vars(SocketsDone \/ PipeEmpty \/ ReadPipe \/ Restart \/ Return)
    /\ \A m \in Messages : WF_vars(Fire(m))

FairSpec == Spec /\ Fairness
-----------------------------------------------------------------------------
(* Properties *)

Queued(m) == \E i \in 1 .. Len(pipe) : pipe[i] = m

Starting(m) == main = [pc |-> "handler", message |-> m]

AtMostOnePlace(m) ==
    /\ ~ (timer[m] = "armed" /\ (Queued(m) \/ Starting(m)))
    /\ ~ (Queued(m) /\ Starting(m))
    /\ \A i, j \in 1 .. Len(pipe) : pipe[i] = m /\ pipe[j] = m => i = j

(* m has its timer running, one place in the pipe or a handler that is about *)
(* to start the timer: exactly one of the three.                             *)
OnePlace(m) ==
    /\ timer[m] = "armed" \/ Queued(m) \/ Starting(m)
    /\ AtMostOnePlace(m)

(* "This ensures that there is, at most, one poll callback message in the    *)
(* callback pipe at any given time", and never none in the whole cycle:      *)
(* polling has stopped only if a full pipe or a failed start dropped it.     *)
PollGoesRound == Poll \notin lost => OnePlace(Poll)

(* The same for each function callback that exists. *)
FunctionsGoRound == \A m \in live \ lost : OnePlace(m)

(* "In addition, there is no danger of the callback pipe filling up": with   *)
(* room for one message of each callback no write to the pipe fails, however *)
(* long the main thread stays in a handler.                                  *)
NothingLost == lost = {}

(* The main thread reads the address of a freed message only if the timer    *)
(* fired while the handler that was to delete the message was at work.       *)
StaleOnlyAfterOverrun == overrun = {} => ~ fault

Place(m) ==
    IF m \notin live THEN "none"
    ELSE IF timer[m] = "armed" THEN "timer"
    ELSE IF Starting(m) THEN "handler"
    ELSE "pipe"

Cycle == INSTANCE CallbackCycle WITH
            Callbacks <- Messages, place <- [m \in Messages |-> Place(m)]

(* The timers, the pipe and the main loop together send every callback round *)
(* the cycle of CallbackCycle.                                               *)
ImplementsCycle == Cycle!Spec

(* The value-changed handlers are polled again and again, whatever the       *)
(* function callbacks do, unless the poll message was dropped.               *)
PollingGoesOn == []<> (Starting(Poll) \/ Poll \in lost \/ fault)

(* Every function callback is called again and again until it is deleted or  *)
(* dropped: neither the poll nor the other functions starve it.              *)
FunctionsGoOn ==
    \A m \in Functions :
        m \in live \ lost ~> Starting(m) \/ m \notin live \ lost \/ fault
=============================================================================
