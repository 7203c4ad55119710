# A verification of the callback machinery of MX

MX is a library and a set of programs for the control of beamline and
laboratory equipment.  An *MX server* owns devices, which it keeps in a
database of *records* with *fields*; clients connect to it, read and write
fields, and subscribe to be told when one changes.  This directory holds TLA+
modules for the parts whose correctness depends on the order in which threads,
timers, messages and clients act, the TLC configurations that check them on
small instances, and proofs that TLAPS checks for every instance.

Contents: [the inventory](#the-system) of the system, [the modules](#the-modules)
and how they correspond to the code, [the runs](#the-runs) with their bounds,
[fairness](#fairness), [the proofs](#the-proofs), [findings](#findings),
[what is not modelled](#what-is-not-modelled), and [the plan](#the-plan).

## The system

An MX server is one process with (on most platforms) two threads of its own:

* the **main thread** runs the loop of `server/ms_main.c`: serve each socket
  that has a request, then read at most one message of the *callback pipe* and
  run its handler, and again;
* the **master timer thread**, made by the interval timer of the portability
  layer, runs the callback of the master timer of `mx_virtual_timer.c` on every
  tick.  That callback fires the virtual timers that have expired.  What a
  virtual timer's callback does in this process is always the same: it writes
  the address of an `MX_CALLBACK_MESSAGE` to the callback pipe.

So all work is done in the main thread, and everything that has to happen later
or again goes round one cycle: *timer, pipe, handler, timer*.

| Component | State | Operations | Interacts with | Hard because | Correct when |
|---|---|---|---|---|---|
| Virtual timers, `mx_virtual_timer.c` | sorted list of events, its mutex, period and life of each timer | create, start, restart, stop, destroy, is_busy, read; the master timer callback | every callback below | two threads, one of which only *tries* the mutex; a list that is walked by stop without the mutex; freed events and timers | timers fire in order, not early, not twice; a periodic timer never loses its chain; nobody uses freed memory; what is due is fired |
| Callback messages and pipe, `mx_callback.c`, `mx_pipe.c`, `ms_main.c` | the non-blocking pipe, one message and one one-shot timer for each callback, the allocated messages | the poll handler; add, delete and change the interval of a function callback; read the pipe; the timer callbacks that write it | virtual timers, the value-changed poll, toast, motors | a write to a full pipe is lost; the timer runs while the handler works; messages are freed while their address may be in the pipe | each callback is in exactly one place of its cycle; no message is lost; polling never stops |
| Value-changed callbacks, `mx_callback.c`, `mx_process.c` | the handle table of callbacks, for each field its callbacks and its last reported value, for each callback the socket handlers of its clients with their usage counts | subscribe, unsubscribe, poll a field, test for a change, send | requests of clients, the poll message | lists that change while they are walked; one record of "last value" for several callbacks; one failing field in a loop over all | no subscriber misses a change; no freed socket handler is used; counts agree with the lists |
| MX server, `ms_mxserver.c`, `mx_handle.c`, `mx_list.c` | socket handlers, network field handles, the above | accept, read a request, answer, close | the clients, the callbacks | a client goes away at any time | a closed connection leaves nothing behind |
| Motor moves with backlash, `pr_motor.c`, `mx_motor.c` | where the motor is and goes, two flags, one message with a timer for each move in progress | move, abort, get status; the backlash callback | the cycle above, the motor | a move is two moves with a callback between; aborts, new moves and errors in between; the motor moves all the time | a motor that is not busy is where it was sent, and came from the right side; an abort is final; busy ends |
| Toast operations, `o_toast.c` | the state and next state of a motor that goes to and fro | start, stop, callback | function callbacks, motors | a state machine driven by callbacks and stopped by requests, on a motor that others move too | the motor is sent on only after it was seen at rest; a stop ends, at the finish position; a run goes to and fro |
| Network client, `mx_net.c` | message id, the callbacks it registered, the socket | get, put, subscribe, wait for an answer | a server | answers, late answers and callback messages on one connection | an answer is taken for its own request |
| Autosave, `ms_autosave.c` | two files, a backup of each, the values last polled, whose turn it is | restore, poll, save; modes `-r`, `-R`, `-s` | a server that restarts, a file system, a network | crashes at every step, again and again; a server that comes up with its defaults while autosave runs | crashes lose nothing; what is restored is the latest complete file; defaults are not saved over values |
| Scans, `mx_scan.c` | position in the loops of the scan | run | motors, clients | long sequences | the motors are where the data says |
| Records, drivers, fields, `mx_record.c`, `mx_driver.c` | the record list | read the database, look up | all | it is built once, at startup | |
| Portability layers, `mx_thread.c`, `mx_mutex.c`, `mx_socket.c`, `mx_interval_timer.c`, `mx_pipe.c` | operating system objects | | all | | |
| Device drivers (a thousand files), loadable modules, user interfaces | | | | hardware and screens outside the repository | |

`PROJECT.json` has the same list with a status for each, and under `hazards`
the places in the code where these difficulties bite, with the properties that
watch them.

## The modules

Seven components are modelled; each has a module of its own, and an abstract
specification joins one to the next where there is something between them.

    TimerService  <--implements--  VirtualTimer      two threads, mutex, list
         |
         | a timer of CallbackLoop is what TimerService promises, without time
         v
    CallbackCycle <--implements--  CallbackLoop      timers, pipe, main loop
         |
         | the cycle of a backlash message, and that of the poll handler, is the
         | cycle of CallbackCycle
         v
                                   MotorBacklash     requests, motor, callback
    ToastMotion   <--implements--  Toast             requests, motor, callback
                                   ServerCallbacks   connections, requests, poll
                                        |
                                        | messages and answers in the order sent
                                        v
                                   ClientRpc         requests, late answers, reconnection

                                   Autosave          a client of its own: files, crashes

### VirtualTimer

`list` is `event_list->timer_event_list` from its head; `event[a]` is what
`malloc()` put at address `a`; `vtimer[v]` is the life of timer `v` and its
`timer_period`; `mutex` is the thread that holds the mutex of the list.
`master` and `thread[t]` are the program counters and local variables of the
two kinds of threads.

*Master callback.*  `MasterTrylock` is a successful trylock (an unsuccessful
one does nothing); then, for each event that has expired, `MasterTake` (the
next event of a periodic timer is added first, counted from the *old*
expiration time), `MasterFire` (the callback function) and `MasterDelete`.
`MasterDone` unlocks.

*Callers.*  `Create`, `StartCall` (a new period), `RestartCall` (the previous
one), `QueryCall` (`is_busy`, `read`) and `StopCall` (`stop`, `destroy`) begin a
call.  `Lock` waits for the mutex; `StopCall` does not, because the code does
not.  `Search`, `SearchEnd` and `DeleteVictim` are
`mx_delete_all_vtimer_events()`, one step for each node that is looked at, and
`StartAdd` and `Unlock` end a start.

*Granularity.*  Inserting and unlinking an event are single steps: the code does
each in a handful of assignments, and the runs look for what goes wrong between
them and not inside.  A step that uses freed memory sets `fault`, and the
behaviour ends there.  Not modelled: virtual timer functions called from within a
callback of a virtual timer (no callback in `src/libMx` does that), the reuse
of the address of a destroyed timer (of a freed event it *is* modelled: `Addr`
is small on purpose), and `mx_virtual_timer_destroy_master()`, which stops and
destroys the interval timer under the list and is called by test programs only.

`TimerService` says the same with no list, no mutex and no threads: when each
timer is due next, and in which order they fire.

### CallbackLoop

The messages are `Poll`, made at initialization, and the function callbacks.
`pipe` holds addresses; `timer[m]` is the one-shot timer of message `m`; `live`
the allocated messages; `main` where the main loop is.  `Fire` is the timer
callback with its `WriteAddress`; `SocketsDone`, `PipeEmpty`, `ReadPipe`,
`Restart` (the handler starts its timer before anything else), `Return` and
`DeleteFunction` are the main loop; `AddFunction` and `ChangeInterval` stand
for requests of clients.  `lost` and `overrun` are history variables: which
messages a full pipe or a failed start dropped, and whose timer fired before
its handler was through.

The handlers' own work is one step, `Return`, that may take any time; it is
what the modules about motors, toast and value-changed callbacks are for.
Failures of `mx_function_add_callback()` change nothing and are not modelled.
The capacity of the pipe is counted in messages.

`CallbackCycle` says what the authors of a callback rely on: a callback is in
one place of its cycle, and one handler runs at a time.

### MotorBacklash

One motor of a server.  `position` and `goal` are the motor and its controller;
`backlashMove` and `serverBacklash` the flags `backlash_move_in_progress` and
`server_backlash_in_progress`; `message[a]` the backlash message at address `a`
with its destination and its timer; `pipe` the backlash messages in the callback
pipe.  `Request` is what clients ask for: `GetStatus`, `Abort`, and a move, in
one of the ways it can come out (`MoveDirect`, `MoveBacklash`,
`MoveBacklashError`, `MoveBacklashTimerError`).  `Callback` runs
`mx_motor_backlash_callback()` in one of its four ways: `Reschedule`, `GiveUp`,
`Terminate`, `StartMainMove`.  Requests and callbacks are atomic, as they are in
the main thread; `MotorStep` is not part of them, and a request that reads the
position twice may read two values (`Progress`).  `direction`, `request`,
`aborted` and `smooth` are history variables.  `smooth` says that the latest
request found the motor `Rested` (not reported busy, nothing left of earlier
moves) and that nothing failed since: what a move promises is stated for such
requests, so that the properties say what a client that waits gets in a server
where others abort, overlap and fail.

Abstractions: positions are integers and the deadband is zero; backlash is
nonzero or zero but fixed; that messages get lost in a full pipe is left to
CallbackLoop, where it is shown when that cannot happen; an abort stops the motor
where it is or one step further.  `Patient` is TRUE for clients that ask for the
status and wait until the motor is not busy, as the scans do; `Failures` is TRUE
where the driver, `malloc()` and the timers may fail.

### ServerCallbacks

`table[h]` is the `MX_CALLBACK` of handle `h`: its field, its `usage_count`, its
`first_callback`, and its list of socket handlers as the number of uses of each
client; `fieldList[f]` is the `callback_list` of field `f`.  A field has a value in
the hardware, one in the record, and a `last_value`.  `conn[c]` is the connection
of a client: `broken` when the client has gone and the server has not read the end
of the stream yet.  `poll` is the handle the poll handler is at.  `leaked`, `foreign`,
`seen` and `cutShort` are history variables: the uses no socket handler has, because
the client went away or there was no memory for one; the deletions by clients that do
not use the callback; what each client was sent last; whether the latest round of polls
ended with an error.

`Subscribe` takes the old callback (`SubscribeAgain`) or makes a new one
(`SubscribeNew`); when the field has a callback both are possible, because the code
compares it with a variable that nobody has set.  `SubscribeFails` has counted a use
when `malloc()` fails.  `Unsubscribe` takes the id of *any* callback, from any client,
because `mxsrv_handle_delete_callback()` does, and lowers the usage count before
anything else: `DeleteForeign` then finds no socket handler of the client and ends with
an error, `DeleteUse` gives up a use and leaves the callback, and when the count is
zero and nobody is in its list (`LastUse`) the callback is freed.  `Get` and `Put` are
the other requests; `Put` writes the record first and processes it then, and tells
nobody when its answer cannot be sent.  `Refresh` stands for a request for another
field of the same record that makes the driver update this one.  `Close` is
`mxsrv_free_client_socket_handler()`.  The poll handler is `StartPoll`, one of
`PollSkip`, `PollProcess` and `PollTest` for each handle, and `EndPoll`.  Requests
wait for the end of the poll handler, as they do in the main thread; the hardware
and the clients do not.

Abstractions: values are further apart than `value_change_threshold`; a field is a
number (for strings and matrices the code counts every write as a change and no
read); a message on a connection that is not broken arrives; the handle table, which
grows in the code, has `NumHandles` entries, and a callback at most `MaxUses` uses and
`MaxForeign` deletions by clients that do not use it.  Usage counts are unsigned and
wrap at `CountRange`, which is 2^64 in the code, or 2^32, and anything larger than
these bounds here.  A `malloc()` that fails while a *new* callback is made is not
modelled: the callback may then be in the handle table and not in the list of its
field (`mx_callback.c:1638`), and `HandlesConsistent` would not hold of it.

### ClientRpc

One client and the server it is connected to.  `toServer` and `toClient` are the
two directions of the connection; `lastId` is `last_rpc_message_id`; `call` is the
request whose answer `mx_network_wait_for_message_id()` waits for; `list` the
`callback_list`; `reconnected` the flag `MXCS_RECONNECTED`; `restoring` where
`mx_network_restore_callbacks()` is.  `table` is what the server has for this
connection, as ServerCallbacks describes it, reduced to what the client can see: an
object for each id, with a field and the number of times the client uses it.

`Get` stands for every request that is not about a callback; `AddCallback`,
`DeleteCallback` and `Restore` are those that are.  The requests for the network
handle of the field that can come before adding or restoring a callback are no actions
of their own: before adding one they are a `Get`, before restoring one their failure is
that of the request itself.  `ServeDelete` may give no answer, as the server gives
none to a client that does not use the callback, nor when the count of one that is still
in use comes to zero (see ServerCallbacks).  The wait loop takes one message
of `toClient` a step: `ReceiveAnswer`, `ReceiveCallback`, `DiscardOldAnswer` or
`ReceiveUnexpected`; where the code looks at the time, the model may go on or
`GiveUp`.  `TimeOut` finds no message.  `Poll` is the same loop with time 0.  The
connection is lost when something is sent (`SendFails`, `RestoreFails`) or received
(`LoseConnection`), and made again by the next request (`Reconnect`).  A server that
has died is one that does nothing until the client finds out.

`sure` is a history variable: on this connection no request about a callback was
given up or refused to restore one, and no callback was added between the
reconnection and the restoring of the old ones.  What is said about callbacks
(`CallbackForItsField`, `SubscriptionsKept`) is said for such connections, since
without that the lists of client and server differ for good, in the code as in the
model.

Abstractions: the id of a callback is a model value, and that it has the bit
`MX_NETWORK_MESSAGE_IS_CALLBACK` is all that matters of it; the functions of
callbacks may try to make requests, which get an id and are refused, and do nothing
else that counts here; answers say whether the request succeeded.

### Toast

`toastState`, `nextState` and `status` are the fields `toast_state`,
`next_toast_state` and `status` of the operation, `message` is
`callback_message`; `live`, `timer` and `pipe` are the cycle of CallbackLoop for
this one callback; `goal` and `motion` are the motor.  `Start` and `Stop` are the
requests; the callback is `ReadPipe` (which starts the timer first) and one action
for each case of its `switch`: `InFault`, `InIdle`, `InMoving`, `InTurnaround`,
`InStopping`, `InMovingToFinish`, or `StatusFails` for those that read the status
of the motor.  `Meddle` is everybody else: clients that move or abort the motor,
and limit switches.  `MotorStep` goes on between and during the others.

`asked`, `sent`, `disturbed` and `lost` are history variables: the latest request
that reached a running operation, where the operation sent the motor, whether
somebody else did so since, and whether the message was dropped.

`ToastMotion` says what becomes of the motor, with no states, timers or messages:
it is sent to the high and to the low position in turn, each time after it was seen
at rest; after a stop it is sent to the finish at most; and then nowhere.  Others
move it as they like.

Abstractions: three positions, the turnaround delay either over or not; the
positions and flags are not changed while the operation runs; a move is
asked for without waiting.  (With a backlash correction this library call waits in
the main thread until the first half of the move is over, so that nothing else
happens meanwhile.)

### Autosave

The process is at `pc`: it chooses a file (`FileToUse`), copies it (`Choose`,
`Copy`), sends its values (`Send`), then looks at the clock (`Look`), polls
(`Receive`), removes and opens the file whose `turn` it is (`Open`), writes it
(`Write`), and, when it is behind by more than one interval (`due`), polls once more
(`UpdateReturns`) before it looks again.  `mode` is the switch of the command line.
`complete`, `newer` and `bak` are the files: which of the two have the line of
asterisks, which has the later modification time (0: both the same), and what is in
the backups.  Errors are actions of their own: `ReceiveLost` (the process exits),
`ReceiveFails`, `OpenFails`, `WriteFails`, `StopShort`, and copies and sends that
fail.  `Crash` ends the process anywhere and leaves the files as they are.

A value is `lost` if the server has it from its own database, after a restart, and
not from a user or a restore; `held` are the lost values that autosave has polled.
`conn` tells the server that autosave is connected to from one that is gone.
`excused` and `unkept` are history variables: since the process started, an error
was passed over that may leave lost values in the server (or it was told to restore
nothing); a save or a backup failed.

Abstractions: a file is complete or not, and what was in it does not matter, as a
complete one never holds lost values unless `excused`; writes are in the
file system when the file is closed (no power failures); the list of variables is
the same in all runs.

## The runs

Each run is an entry in `PROJECT.json`; the numbers are distinct states.

| Run | Instance | States | What it shows |
|---|---|---|---|
| `vtimer_start` | a one-shot timer and a periodic one, one calling thread, clock to 3 | 155 000 | while nobody stops a timer, the code is the timer service: `ImplementsTimerService`, that is, no timer fires early, twice or out of order, and none loses its chain; `NoUseAfterFree`; `DueEventsAreHandled`: no event is left in the list although the master callback only tries the mutex |
| `vtimer_stop` | two one-shot timers and a periodic one that are stopped and destroyed, no memory for some events | 650 000 | what is left with stop: up to the first use of freed memory the order of firing (`FiredInOrder`) and one shot for one start (`OneShotFiresOnce`) hold; `PeriodicStaysScheduled`: no periodic timer loses its chain for want of memory or otherwise, but to a stop of another timer that deletes an event at a reused address |
| `loop_steady` | the poll and three functions, room for four messages | | `ImplementsCycle`, `FunctionsGoRound`, `NothingLost`: a pipe that has room for one message of each callback never overflows |
| `loop_faults` | functions that delete themselves, that are adjusted, timers that fail, a pipe for three | 25 000 | `PollGoesRound` even then, unless the poll message was dropped; `StaleOnlyAfterOverrun`: which freed messages can be read; `PollingGoesOn`, `FunctionsGoOn`: polling and functions go on as long as nothing was dropped |
| `motor` | impatient clients, aborts, failures, a limit in the way, two messages | 35 000 | a move that found the motor at rest and met no failure keeps its promises (`DestinationReached`, `ApproachedFromOneSide`, `NoGateInMainMove`, `BusyEnds`), whatever came before it; `EachMessageInOnePlace`, `AbortIsFinal` and the limits (in `TypeOK`) hold throughout |
| `server_lists` | two clients, a polled field that may fail, two handles, three uses and two foreign deletions of each | 368 000 | `HandlesConsistent`, `NoFreedSocketHandler`: whatever order clients come, subscribe, delete and go in; `UsersCounted`: how wrong the counts can be; `SubscriptionsAreKept`: nobody loses a callback by that; `PolledFieldsAreTold`: no subscriber is left with an old value |
| `server_poll` | one client, a field polled every second round, one that fails, two handles for both | 105 000 | `HardwareChangesNoticed`: no change stays unseen unless errors keep ending rounds |
| `server_missed` | two clients, a field that is not polled | violation | `AllInterestedClientsAreTold`: see the findings |
| `rpc` | message ids 1 to 4, two callbacks, three messages on their way | 3 304 000 | `AnswerIsOwn`: whatever was given up before, the answer that is taken is the one of the request; `OldAnswersHarmless`: a late answer makes no later request fail, with the exceptions it names; `CallbackForItsField`, `SubscriptionsKept`: messages reach the right callback, and reconnections lose none, unless a request about a callback went wrong |
| `rpc_callback` | two callbacks | violation | `CorrectCallbackInvoked`: see the findings |
| `toast` | a pipe for two, two addresses, with and without a finish position, a motor that others move, failures | 44 000 | `ImplementsMotion`, `StoppedAtFinish`: what the motor is made to do, whatever requests, clients and failures come between two callbacks; `StopEnds`, `GoesToAndFro`: a stop comes to its end and a run goes on, unless others move the motor for ever or something fails |
| `autosave` | two variables, up to two intervals behind, all modes | 389 000 | `NothingLostByCrashes`: any number of crashes at any step leaves a complete file or a whole backup; `RestoresTheLatest`: the file that is chosen; `OnlyRestoredIsSaved`: a server that restarts does not get its defaults saved unless an error is passed over; `TurnsGoOn`: both files are written again and again, also when saves fail |

*Why the bounds are enough.*  VirtualTimer: three timers make events
in front of, at and behind another; two or three addresses make `malloc()` reuse
what was freed and run out; a clock of three units with periods of one and two
lets a periodic timer fire before, together with and after the others.  The bound
`MaxTime` is a guard of `Tick` and nothing else; with it the runs end and deadlock
is not checked.  CallbackLoop has no bound at all: the pipe is bounded by
`PipeSize` in the code as well.  In the run with faults, three places for three
messages, one of which can come to circulate twice, make the pipe overflow.
MotorBacklash: five positions and a backlash of two leave room for a
backlash move of more than one step from either side; two addresses let two
callbacks overlap, and with none free `malloc()` fails.  ServerCallbacks: two
handles let one field have two callbacks (`server_lists`), or two fields one each
(`server_poll`); two uses let two clients share a callback, one client use it twice, and a
use that was left behind keep a callback alive that a client comes back to.  The third
use, with two deletions by clients that do not use the callback, makes counts that are
too high and too low at once, and zero, and below zero.  Counters do not grow.
ClientRpc: with ids 1 to 4 and a mismatch of 2 an old answer can be near enough, too
old, and from before the wraparound; three messages are two late answers and a third
message behind or between them; two callbacks can be of one field, share an id, and
be restored one with and one without an error.  `MaxBehind` says that an answer is on
its way for less than the 2^31 requests after which its id comes again.  Toast: the
second address lets a message be allocated while the address of a freed one is in
the pipe.  Autosave: with two variables a server can restart between two values of
a poll and of a restore; `MaxDue` is two because autosave behaves alike when it is
behind by two intervals and by more.

*Mutants.*  Each property of a passing run has a mutant in the module, next to the
definition it changes: a plausible bug of that code which makes the property
fail under the same configuration.

## Fairness

*VirtualTimer*: time passes (weak fairness of `Tick`), threads that have begun go
on, and the master callback, once it has the mutex, runs to its end (weak).  Of
`MasterTrylock` we assume *strong* fairness: the callback is called on every
tick and does nothing if somebody holds the mutex, so that weak fairness would
allow a program that takes the mutex again and again.  Holders release it after
a few steps that do not wait for anything, and are not in step with the master
timer.  A thread that waits for the mutex has no fairness: nothing is claimed for
it.

*CallbackLoop*: the main loop goes round (weak): `mxsrv_process_sockets()` serves
each socket once and returns, and the handlers return.  Timers that are armed fire
(weak): that is `DueEventsAreHandled` of VirtualTimer.  There is no fairness for
requests, nor for handlers that delete their callback.

*MotorBacklash*: the motor gets to its goal, armed timers fire, and the main loop
gets to the messages (`FunctionsGoOn` of CallbackLoop).  None for requests.

*ServerCallbacks*: the poll message comes round (`PollingGoesOn` of CallbackLoop) and
the poll handler, once begun, goes on: weak fairness of `Poll`.  None for requests,
for the hardware, or for noticing a broken connection.

*Toast*: the main loop goes round and the timer fires, as above, and the motor
comes to rest.  None for requests or for other clients, and none for recovery: the
liveness properties except behaviours in which others move the motor for ever.

*Autosave*: the process, while there is one, goes on (weak fairness of `Step`).
Requests return, as the network client gives them up after a time.  Nothing is
assumed about crashes, starts or the server.

## The proofs

`CallbackLoopProofs` proves six theorems about CallbackLoop for any finite set of
function callbacks and any size of the pipe.  The only assumption of the module
is `CallbackAssumption`, which says what the constants are.

* `TypeCorrect`: `[]TypeOK`.
* `PollCorrect`: `[]PollGoesRound`, for any faults.  `PollGoesRound` is not
  inductive, because a poll message that is not allocated would be a fault and not
  go round: the invariant is `PollInv`, which adds `Poll \in live`.  It rests on
  `AtMostOneStep` (no step but `ChangeInterval` brings a message to a second
  place) and `SomewhereStep` (a message that leaves one place and is not dropped
  gets to another).
* `StaleCorrect`: `[]StaleOnlyAfterOverrun`, if `Deletable` and `Adjustable` are
  disjoint.  The invariant `StaleInv` says that without an overrun every address
  in the pipe, in a timer or in the main thread is that of an allocated message
  (`OnlyLiveMessages`), and that a handler that may delete its message works
  while the message is not in the pipe (`DeletableInv`).
* `NothingLostCorrect` and `FunctionsCorrect`, if `Deletable` and `Adjustable` are
  empty, timers do not fail and the pipe has room for `Cardinality(Messages)`
  messages.  The invariant `SteadyInv` says that every live message is in exactly
  one place; a timer that fires is then not in the pipe, so that the pipe, which
  has no message twice, has room for it (`RoomForOneMore`, a pigeonhole argument).
* `CycleCorrect`: under the same conditions `Spec => Cycle!Spec`.  `CycleInit` and
  `CycleStep` map every step to a step of CallbackCycle or a stutter.

`MotorBacklashProofs` proves six theorems about MotorBacklash, for any number of
messages, any destinations, limits and deadlines, and any failures, under
`MotorAssumption`, which says what the constants are.

* `TypeCorrect` and `MessagesCorrect`: `[]TypeOK` and `[]EachMessageInOnePlace`.
  Neither is inductive alone: the callback writes the destination of the message it
  reads from the pipe, so that the types need that message to be allocated
  (`HeadOfPipe`), and the places need the types of the messages.  The invariant is
  `Inv`, both together.  `PipeAfterTail` and `PipeAfterAppend` say where the
  messages of the pipe are after a read and a write.
* `AbortCorrect`: `AbortIsFinal`.  The invariant `AbortInv` says that the flag
  `server_backlash_in_progress` is not set after an abort, until the next request
  for a move; the only action that starts a main move looks at that flag.
* `DestinationCorrect`, `OneSideCorrect` (for a correction that is not 0) and
  `GateCorrect`: `[]DestinationReached`, `[]ApproachedFromOneSide` and
  `[]NoGateInMainMove`.  The invariant `MoveInv` names the phases of a request that found
  the motor at rest, while nothing fails: before it (`NotAskedYet`), on the way past
  the destination with the one message that is to start the main move
  (`BacklashPhase`), and on the way to the destination with no message left
  (`MainPhase`).  A callback can run in the second phase only (`CallbackNeedsMessage`,
  which needs `Inv`).

`ToastProofs` proves three theorems about Toast, for any set of addresses, any size
of the pipe and any failures, under the assumptions of the module.

* `TypeCorrect`: `[]TypeOK`, which also says that `callback_message` points to the
  one message that is allocated.
* `StoppedCorrect`: `[]StoppedAtFinish`, from an invariant that says for each state
  of the operation what the motor has been told since the latest request.
* `MotionCorrect`: `Spec => Motion!Spec`.  Each action of Toast is mapped to an action
  of ToastMotion or a stutter, under the same invariant.

`AutosaveProofs` proves four theorems about Autosave, for any number of variables,
any bound `MaxDue` and any modes.  The invariant `IInv` has five parts: the types;
`Shape`, what is the case at each `pc`; `Held`, that lost values are in the process
or the server only where that is excused; `Newest`, that of two complete files the
later one is the one completed last; and `Kept`, that a complete file is there
to be copied, or is not the one to be written next, or that a backup is whole.

* `TypeCorrect`: `[]TypeOK`.
* `RestoredCorrect`, `KeptCorrect`, `LatestCorrect`: `OnlyRestoredIsSaved`,
  `NothingLostByCrashes`, `RestoresTheLatest`.

`VirtualTimerProofs` proves four theorems about VirtualTimer, for any timers, periods,
addresses, threads and failures of `malloc()`, under `VTimerAssumption`.

* `TypeCorrect` (`[]TypeOK`), `FiresInOrder` and `OneShotIsOnce` hold for any set
  `Stoppable`, that is, for programs that stop and destroy timers too, although
  stop and destroy change the list without its mutex.  None is inductive.  The invariant
  `IInv` says besides the types: the list is sorted, has no event twice and has all that
  are allocated (`ListInv`), and their timers were started (`StartedInv`); who is at
  work on the list has the mutex, except in a stop (`LockInv`); the event the master
  callback is at is the first of the list *if it is still there* (`MasterInv`); a timer
  has one event besides that (`OneEventInv`); a one-shot timer that fired has none
  (`OneShotInv`); and a start that walks down the list has left no event of its timer
  behind but the one it deletes next, *unless the event it looks at was freed* (`CallInv`
  with `Cleared`).  A stop can only take events away, and each part is such that this
  cannot make it false (`DeleteKeeps`, `ShrunkCleared`): where a stop frees
  an event under somebody's feet, that one's next step uses freed memory, and there the
  model ends.  What a step is bounds the theorem: one node of a walk, one unlinking and
  one insertion are steps, so two threads that change the same pointers at
  the same moment are not in it.
* `StartedTimersAreSafe` (`NoUseAfterFree`) is for `Stoppable = {}`: with stops it does not
  hold.  `NoStopInv` adds to `IInv` that no timer with an event was freed (`LiveInv`),
  that the event the master callback is at is there and has its successor if the
  timer is periodic (`CurrentInv`), and that the two pointers of a walk are to
  events that are there, in their order (`PointersInv`).
* `InsertFacts`, `RemoveFacts` and `PositionExists` are about putting an event in a
  sorted list and taking one out, `AddFacts` and `DeleteFacts` about the two
  functions that do it; every step cites them.

`TimerServiceProofs` proves `TimersImplementService`: for `Stoppable = {}`,
`Spec => TimerService!Spec`, with `Due` as the refinement mapping.  What is due is the
first event of each timer that the master callback has not dealt with; the proof
shows for each step which events come and go there.  The call of a timer's
function is the `Fire` of the service, the end of a start its `Arm`, an event that is
deleted before its time its `Disarm`, and everything about mutexes, addresses and walks
through the list a stutter.

`ClientRpcProofs` proves five theorems about ClientRpc, for any fields and bounds and
any width of the message ids, under `ClientAssumption` and `NullAssumption` (no call or
callback is what stands for the pointer `NULL`).

* `TypeCorrect` and `AnswerCorrect`: `[]TypeOK` and `AnswerIsOwn`.  The invariant
  `IInv` orders everything on its way by age, the number of ids given out since: answers
  before requests and older ones first (`Order`), and none newer than the awaited one
  (`Newest`).  It needs that ids on their way are not given out again (`Room`), which
  `RoomAges` turns into ages.  `Kinds` and `Shape` say that an answer fits the request
  and the list, without which the list would not keep its type.
* `OldAnswersAreHarmless`: `OldAnswersHarmless`, from the types and the arithmetic of
  the wraparound (`NotOld`).
* `CallbacksFitTheirField` and `SubscriptionsAreKept`: `[]CallbackForItsField` and
  `[]SubscriptionsKept`.  Both speak of moments when nothing about callbacks is
  on its way; what holds in between is `CInv`, added to `IInv`.  `Restoring` is where
  the restoring of callbacks after a reconnection can be, and `Requests` that a request
  about callbacks still unread by the server is the awaited one, on its way alone.
  After these comes either `Unanswered`, a deletion that the server carried out without
  an answer and that the client will give up, or `Books`.
  `Books` compares the two ends as bookkeepers do: the uses the
  server has of a callback are those of the client's list, less the entry whose deletion
  was granted and not read yet, plus the one whose addition was (`Counted`); entries with
  one id have one field (`OneField`); and a callback message has an entry of its field
  by the time it will be read, which may be one that an answer before it brings
  (`Told`).  The answers that count are read off the messages under way (`Granted`), so
  that a step of the server and the matching one of the client keep the sums as they are.

`ServerCallbacksProofs` proves six theorems about ServerCallbacks, for any fields,
clients and values, any number of handles, any bounds on uses and on deletions by
clients that do not use a callback, and any range of the counts above these, under
`ServerAssumption` and `NullAssumption`.

* `Types`, `ListsAgree`, `UsesAgree` and `NoDanglingHandlers`: `[]TypeOK`,
  `[]HandlesConsistent`, `[]UsersCounted` and `[]NoFreedSocketHandler`.  They are one
  inductive invariant, `Tables`, since each needs the others: the lists are right if the
  handles are, the types of the history variables need the bound on uses that
  `SubscribeAgain` keeps (`UsesBounded`), and a closed connection leaves no handler
  behind only if the lists have all callbacks.  It needs that a free handle has no uses
  and no deletions left over (`FreeHandles`) and that the uses of a callback can be
  counted at all (`UsesFinite`).
* `KeptTillDeleted`: `SubscriptionsAreKept`.  A callback is freed only when its last
  socket handler is given up (`LastUse`) or closed (`UsedAlone`), whatever its count is.
* `PolledAreTold`: `[]PolledFieldsAreTold`, from `Tables` and
  `TestAndInvokeListTells`: after a comparison every subscriber of the field
  has been sent what the field was compared with, whichever handler made the comparison.
* `UsesPlus`, `UsesMinus`, `UsesOne` and `UsesWithout` say how the number of uses in a
  list of socket handlers changes; `ListWithoutFacts` what deleting entries of a list
  leaves.  The latter is an induction, which needs no theorem with
  an operator as a parameter: `Least` says that a set of numbers has a least one (from
  the library's theorem that finite sets are well-founded by inclusion), and is applied
  to the set of counterexamples.  `KeptExists` shows in the same way that the recursive
  function in `ListWithout` is one.

The types of VirtualTimer, CallbackLoop, ServerCallbacks and Autosave are proved only:
their runs check no type invariant.  Every safety property that a passing run checks is
so stated by a theorem, but for `PeriodicStaysScheduled`.  Only model-checked are that one and the liveness properties
(`DueEventsAreHandled`, `PollingGoesOn`, `FunctionsGoOn`, `BusyEnds`,
`HardwareChangesNoticed`, `StopEnds`, `GoesToAndFro`, `TurnsGoOn`), which rest on fairness
and so on `ENABLED`, which the prover cannot treat.

## Findings

* `mx_virtual_timer_stop()` and `mx_virtual_timer_destroy()` walk and change the
  event list without its mutex, against the warning at `mx_virtual_timer.c:107`.
  What follows from it is in the model: `NoUseAfterFree` does not hold with timers
  that are stopped, and `vtimer_stop` says what still does.
* Without any use of freed memory such a stop can delete the event of *another* timer:
  it holds the address of an event of its own, the master callback fires and frees that
  event and puts the next event of a periodic timer at the same address, and the stop
  then unlinks this one.  The periodic timer is never called again.  This is the
  exception in `PeriodicStaysScheduled`.
* `mx_function_change_callback_interval()` arms the timer of a message that may be in the
  pipe or at its handler: from then on the message goes round twice, and the pipe, in
  which nobody counts on that, can overflow (`lost`).
* A backlash callback recognises an aborted move by a flag of the motor.  If a
  new move has set that flag again, the callback of the old move starts the main
  move that was aborted, and then resets the flag under the new one.  This is what
  `AbortIsFinal` excepts by "until the next request".
* A move that is refused after `server_backlash_in_progress` was set, for example
  because the backlash position is outside the limits, leaves the motor reported
  busy until somebody aborts it (`MoveBacklashError`; three error returns of
  `mxp_motor_move_absolute_handler()`).
* Whether two clients of a field share a callback depends on a variable that is never
  set.  If they do not, and the field is not polled, the poll handler tells the
  clients of one callback and records the change as seen, and the clients of the
  other miss it (run `server_missed`).  For fields that are polled nothing is missed.
* A client that goes away leaves its uses in the usage counts of the callbacks that
  others use as well (`leaked`), and so does a subscription for which there is no memory
  (`SubscribeFails`).  What follows is that a callback can stay, and its field be polled,
  when the last client has unsubscribed.
* A client can delete a callback that it does not use, for example by an id from before
  a reconnection.  It gets no answer, but the usage count is lower by one from then on
  (`foreign`): the count of a callback that is in use comes to zero, which the
  comment at `ms_mxserver.c:5553` takes for impossible; the user whose own deletion
  made it zero gets no answer, and the next deletion takes the unsigned count below zero.
  `UsersCounted` says that no more than this and the item
  before goes wrong with the counts; `SubscriptionsAreKept` says that no client loses
  a callback by it, as the code looks at the list as well.
* A client that receives the message of a callback that is not in its list invokes
  the last callback of the list instead (run `rpc_callback`).
* An old answer is recognised by the difference of two message ids.  The case for
  the wraparound takes one too many, as 0 is not an id, and is taken as well when both
  ids are near the top, where the difference then is too large: such an answer makes
  a request fail (the exceptions in `OldAnswersHarmless`).
* A callback that cannot be restored after a reconnection is passed over and never
  tried again, and one that was restored before the connection was lost once more,
  while the others were being restored, is lost: the flag that would ask for another
  round is cleared at the end of this one (`RestoreFails`, `EndRestore`, and `sure`).

Of a toast operation:

* `mxo_toast_start()` reports the operation busy before it adds the callback; when
  that fails (`StartFails`), or when the callback cannot start its timer again, the
  operation is busy with nobody at work, until it is started anew or for ever.
* A stop of an operation that is not running aborts the motor and leaves the state at
  `MXST_TOAST_STOPPING` with no callback to go on from there.
* `callback_message` is read before anybody has set it: the structure comes from
  `malloc()`, and if that memory was not zero every start is refused (`Garbage`).
* `MXST_TOAST_TIMED_OUT` and the field `timeout` are used nowhere.

Of autosave:

* Nothing reads the backups that the restore makes.  `NothingLostByCrashes` counts
  them: writing always begins with file 1, so that when autosave crashes twice, while
  it writes file 1 after a restore from file 1 with file 2 incomplete, the backup is
  all that is left, and has to be put in place by hand.
* The turn goes on when a save fails, so that file 2 may be as old as one likes; of
  two files with times in the same second file 1 is taken (`newer`).  After autosave
  was stopped for a while it makes up for the saves it missed every 10 ms, so that
  this is not rare.
* `mx_copy_file()` opens the backup without truncating it: a copy that is broken off
  is the new beginning of the file with the old end (`"mixed"`), which has its line of
  asterisks and looks complete.
* `fprintf()` and `fclose()` are not checked: on a full disk both files can be
  incomplete without an error (`WriteFails`, `unkept`).
* Only `MXE_NETWORK_CONNECTION_LOST` ends the process.  After any other error the
  library connects again by itself, to a server that may have restarted, and autosave
  saves what it finds there (`excused`).

## What is not modelled

Device drivers, loadable modules and user interfaces: hardware, vendors'
libraries and screens outside the repository.  The record, driver and field
framework: data structures that are built once, by one thread.  The portability
layers: the models use what the callers rely on (a mutex excludes, a trylock does
not wait, a pipe keeps order and does not block).  Overflow of clock ticks: the
ticks are 64 or 128 bits wide.  Threads other than those two, which programs
with other user interfaces may have.  Scans: loops in one thread over records whose
drivers are outside the model; what is concurrent in them, clients that move the same
motors, is in MotorBacklash.

By lines most of the repository is of these kinds (a thousand drivers, and the
classes of detectors, cameras and analyzers that hand calls to them), which is why
the modules stand for a small share of it: they cover the files that decide what
happens when, and little of the others.

## The plan

Done: VirtualTimer with TimerService and the proofs of both, CallbackLoop with
CallbackCycle and its proofs, MotorBacklash with the proofs about its messages, aborts
and promises, ServerCallbacks and its proofs, ClientRpc with the proofs about answers and
subscriptions, Toast with ToastMotion and its proofs, Autosave and its proofs.
Next: compositions, MotorBacklash with the pipe of CallbackLoop and Toast with MotorBacklash
in place of its abstract motor.
