--------------------------- MODULE ServerCallbacks ---------------------------
(***************************************************************************)
(* The value-changed callbacks of an MX server (libMx/mx_callback.c,       *)
(* libMx/mx_process.c, server/ms_mxserver.c).                              *)
(*                                                                         *)
(* A client that wants to be told of the changes of a field subscribes.    *)
(* The clients of a field share an MX_CALLBACK, which is in the server's   *)
(* handle table and in the field's list of callbacks, and which has a list *)
(* of socket handlers with the number of subscriptions of each.  Requests  *)
(* of clients and, at regular intervals, the poll handler process fields   *)
(* and send what has changed.  A client can go away at any time; the       *)
(* server sees that when it reads the socket.                              *)
(*                                                                         *)
(* The main thread runs requests and the poll handler one after the other; *)
(* the poll handler is a step for each handle here, because the hardware   *)
(* and the clients do not wait for it.                                     *)
(***************************************************************************)
EXTENDS SequencesExt

CONSTANTS
    Fields,      \* the fields clients subscribe to
    Polled,      \* those with MXFF_POLL set
    Slow,        \* those polled in every second round: timer_interval = 2
    Failing,     \* those that sometimes cannot be processed
    Clients,
    Values,      \* values of a field, further apart than value_change_threshold
    NumHandles,  \* bound on the handle table
    MaxUses,     \* bound on the uses of a callback
    MaxForeign,  \* bound on the deletions of a callback by clients it does not have
    CountRange,  \* usage counts are unsigned, modulo this: 2^64
    NULL

ASSUME ServerAssumption ==
    /\ Polled \cup Slow \cup Failing \subseteq Fields
    /\ Values # {}
    /\ NumHandles \in Nat \ {0} /\ MaxUses \in Nat \ {0}
    /\ MaxForeign \in Nat /\ CountRange \in Nat /\ MaxUses + MaxForeign < CountRange
    /\ NULL \notin Fields

VARIABLES
    table,     \* table[h]: the MX_CALLBACK of handle h, NULL if there is none
    fieldList, \* fieldList[f]: record_field->callback_list, as handles
    hw,        \* hw[f]: the value in the hardware
    value,     \* value[f]: the value in the record
    last,      \* last[f]: record_field->last_value
    conn,      \* conn[c]: the connection of client c as both sides see it
    poll,      \* the handle the poll handler is at, 0 while it is not running
    polls,     \* list_head->num_poll_callbacks modulo 2
    cutShort,  \* history: the latest round of the poll handler ended with an error
    leaked,    \* history: leaked[h]: the uses of h no socket handler has, because
               \* its client has gone away or there was no memory for it
    foreign,   \* history: foreign[h]: the deletions of h by clients it did not have
    seen       \* history: seen[c][f]: the value of f client c was told last, at
               \* first the last_value at the time it subscribed

lists == <<table, fieldList, leaked, foreign>>
data == <<hw, value, last>>
poller == <<poll, polls, cutShort>>
vars == <<lists, data, conn, poller, seen>>
-----------------------------------------------------------------------------
Handles == 1 .. NumHandles

\* sockets[c] is the usage count of the socket handler of c, 0 if c is not in the
\* list of socket handlers.
Callback == [field : Fields, usage : 0 .. CountRange - 1, first : BOOLEAN,
             sockets : [Clients -> 0 .. MaxUses]]

ASSUME NullAssumption == NULL \notin Callback

TypeOK ==
    /\ table \in [Handles -> Callback \cup {NULL}]
    /\ fieldList \in [Fields -> Seq(Handles)]
    /\ {hw, value, last} \subseteq [Fields -> Values]
    /\ conn \in [Clients -> {"open", "broken", "closed"}]
    /\ poll \in 0 .. NumHandles + 1
    /\ polls \in {0, 1}
    /\ cutShort \in BOOLEAN
    /\ leaked \in [Handles -> 0 .. MaxUses]
    /\ foreign \in [Handles -> 0 .. MaxForeign]
    /\ seen \in [Clients -> [Fields -> Values \cup {NULL}]]

Init ==
    /\ table = [h \in Handles |-> NULL]
    /\ fieldList = [f \in Fields |-> << >>]
    /\ hw \in [Fields -> Values]
    /\ value = hw
    /\ last = hw
    /\ conn = [c \in Clients |-> "closed"]
    /\ poll = 0
    /\ polls = 0
    /\ cutShort = FALSE
    /\ leaked = [h \in Handles |-> 0]
    /\ foreign = [h \in Handles |-> 0]
    /\ seen = [c \in Clients |-> [f \in Fields |-> NULL]]
-----------------------------------------------------------------------------
(* Sending *)

\* The clients in the list of socket handlers of callback h
Users(h) == {c \in Clients : table[h].sockets[c] > 0}

Subscribed(c, f) ==
    \E h \in Handles : table[h] # NULL /\ table[h].field = f /\ c \in Users(h)

\* Clients cs are sent the value of f.  What is sent on a broken connection is lost.
Send(cs, f) ==
    seen' = [c \in Clients |->
                IF c \in cs THEN [seen[c] EXCEPT ![f] = value'[f]] ELSE seen[c]]

\* Mutant: only the first callback of the field is invoked.
InvokeFirst(f) == Send(IF fieldList[f] = << >> THEN {} ELSE Users(Head(fieldList[f])), f)

\* mx_local_field_invoke_callback_list(), which never fails
InvokeCallbackList(f) == Send(UNION {Users(h) : h \in ToSet(fieldList[f])}, f)

\* mx_test_for_value_changed() and, if it has, the whole list of callbacks
TestAndInvokeList(f) ==
    /\ last' = [last EXCEPT ![f] = value'[f]]
    /\ IF value'[f] # last[f] THEN InvokeCallbackList(f) ELSE UNCHANGED seen
-----------------------------------------------------------------------------
(* Requests of clients *)

\* The main thread serves client c.
Request(c) == conn[c] = "open" /\ poll = 0

\* mx_local_field_find_old_callback(), when the types it compares agree
OldCallback(f) == Head(fieldList[f])

\* usage_count-- and usage_count++ of an unsigned long
Minus(n) == IF n = 0 THEN CountRange - 1 ELSE n - 1

Plus(n) == IF n = CountRange - 1 THEN 0 ELSE n + 1

\* Callback h with this usage count when the socket handler of c has n uses more
WithUses(h, count, c, n) == [field |-> table[h].field,
                             usage |-> count,
                             first |-> table[h].first,
                             sockets |-> [table[h].sockets EXCEPT ![c] = @ + n]]

\* The uses that the socket handlers in a list make, one by one
Uses(sockets) == {u \in Clients \X (1 .. MaxUses) : u[2] <= sockets[u[1]]}

MayBeUsedMore(h) == Cardinality(Uses(table[h].sockets)) + leaked[h] < MaxUses

\* Mutant: one more use of the callback is not counted.
SubscribeAgainUncounted(c, f) ==
    /\ fieldList[f] # << >>
    /\ LET h == OldCallback(f)
       IN  /\ MayBeUsedMore(h)
           /\ table' = [table EXCEPT ![h].sockets[c] = @ + 1]
    /\ UNCHANGED <<fieldList, leaked, foreign>>

\* The field has a callback: one more use, and one more of this socket handler.
SubscribeAgain(c, f) ==
    /\ fieldList[f] # << >>
    /\ LET h == OldCallback(f)
       IN  /\ MayBeUsedMore(h)
           /\ table' = [table EXCEPT ![h] = WithUses(h, Plus(table[h].usage), c, 1)]
    /\ UNCHANGED <<fieldList, leaked, foreign>>

\* The use is counted, but there is no memory to add the socket handler.
SubscribeFails(c, f) ==
    /\ fieldList[f] # << >>
    /\ LET h == OldCallback(f)
       IN  /\ MayBeUsedMore(h)
           /\ c \notin Users(h)
           /\ table' = [table EXCEPT ![h] = WithUses(h, Plus(table[h].usage), c, 0)]
           /\ leaked' = [leaked EXCEPT ![h] = @ + 1]
    /\ Request(c)
    /\ UNCHANGED <<fieldList, foreign, data, conn, poller, seen>>

\* A new callback gets the first free handle.  It is also made when the field has
\* one, because the types that are compared with those of the callback are read
\* from a variable nobody has set.
SubscribeNew(c, f) ==
    /\ \E h \in Handles :
          /\ table[h] = NULL
          /\ \A i \in 1 .. h - 1 : table[i] # NULL
          /\ table' = [table EXCEPT ![h] =
                         [field |-> f, usage |-> 1, first |-> TRUE,
                          sockets |-> [d \in Clients |-> IF d = c THEN 1 ELSE 0]]]
          /\ fieldList' = [fieldList EXCEPT ![f] = Append(@, h)]
    /\ UNCHANGED <<leaked, foreign>>

Subscribe(c, f) ==
    /\ Request(c)
    /\ SubscribeAgain(c, f) \/ SubscribeNew(c, f)
    /\ seen' = [seen EXCEPT ![c][f] = IF Subscribed(c, f) THEN @ ELSE last[f]]
    /\ UNCHANGED <<data, conn, poller>>

\* List s without the entries in H: mx_list_delete_entry() for each of them
ListWithout(s, H) ==
    LET Kept[i \in 0 .. Len(s)] ==
            IF i = 0 THEN << >>
            ELSE IF s[i] \in H THEN Kept[i - 1]
            ELSE Append(Kept[i - 1], s[i])
    IN  Kept[Len(s)]

\* Mutant: the list of the field keeps a callback that is freed.
FreeHandleOnly(h) ==
    /\ table' = [table EXCEPT ![h] = NULL]
    /\ leaked' = [leaked EXCEPT ![h] = 0]
    /\ foreign' = [foreign EXCEPT ![h] = 0]
    /\ UNCHANGED fieldList

\* Take a callback out of the handle table and out of its field's list and free it.
FreeCallback(h) ==
    /\ table' = [table EXCEPT ![h] = NULL]
    /\ fieldList' = [fieldList EXCEPT ![table[h].field] = ListWithout(@, {h})]
    /\ leaked' = [leaked EXCEPT ![h] = 0]
    /\ foreign' = [foreign EXCEPT ![h] = 0]

\* Mutant: the callback is freed when the count is zero, whoever is in its list.
LastCounted(c, h) == table[h].usage = 1

\* The count goes to zero and the list of socket handlers is empty.
LastUse(c, h) ==
    /\ table[h].usage = 1
    /\ Users(h) = {c} /\ table[h].sockets[c] = 1

\* Client c keeps a subscription to the field when it gives up one use of h.
StaysSubscribed(c, h) ==
    \/ table[h].sockets[c] > 1
    \/ \E g \in Handles \ {h} : /\ table[g] # NULL
                                /\ table[g].field = table[h].field
                                /\ c \in Users(g)

\* The client does not use the callback.  The usage count is lowered before the
\* socket handler is looked for; then there is only an error.
DeleteForeign(c, h) ==
    /\ c \notin Users(h)
    /\ foreign[h] < MaxForeign
    /\ table' = [table EXCEPT ![h] = WithUses(h, Minus(table[h].usage), c, 0)]
    /\ foreign' = [foreign EXCEPT ![h] = @ + 1]
    /\ UNCHANGED <<fieldList, leaked>>

\* One use less.  If the count is zero then and the list is not empty, the client
\* gets no answer but an error is reported.
DeleteUse(c, h) ==
    /\ c \in Users(h)
    /\ ~ LastUse(c, h)
    /\ table' = [table EXCEPT ![h] = WithUses(h, Minus(table[h].usage), c, -1)]
    /\ UNCHANGED <<fieldList, leaked, foreign>>

\* mxsrv_handle_delete_callback(): any client can name any callback.
Unsubscribe(c, h) ==
    /\ Request(c)
    /\ table[h] # NULL
    /\ \/ DeleteForeign(c, h)
       \/ DeleteUse(c, h)
       \/ c \in Users(h) /\ LastUse(c, h) /\ FreeCallback(h)
    /\ seen' = [seen EXCEPT ![c][table[h].field] = IF StaysSubscribed(c, h) THEN @ ELSE NULL]
    /\ UNCHANGED <<data, conn, poller>>

\* mxsrv_get_array...(): the client gets the value, then the others are told.
Get(c, f) ==
    /\ Request(c)
    /\ \/ /\ value' = [value EXCEPT ![f] = hw[f]]
          /\ TestAndInvokeList(f)
       \/ /\ f \in Failing
          /\ UNCHANGED <<value, last, seen>>
    /\ UNCHANGED <<lists, hw, conn, poller>>

\* The value of the record is overwritten with that of the request before the field
\* is processed.
Put(c, f, v) ==
    /\ Request(c)
    /\ value' = [value EXCEPT ![f] = v]
    /\ \/ /\ hw' = [hw EXCEPT ![f] = v]
          /\ TestAndInvokeList(f)
          /\ UNCHANGED conn
       \/ /\ f \in Failing
          /\ UNCHANGED <<hw, last, seen, conn>>
       \/ /\ hw' = [hw EXCEPT ![f] = v]           \* the answer cannot be sent
          /\ conn' = [conn EXCEPT ![c] = "broken"]
          /\ UNCHANGED <<last, seen>>
    /\ UNCHANGED <<lists, poller>>

\* A request for another field of the record makes the driver update this one,
\* without a look at its callbacks.
Refresh(c, f) ==
    /\ Request(c)
    /\ value' = [value EXCEPT ![f] = hw[f]]
    /\ UNCHANGED <<lists, hw, last, conn, poller, seen>>
-----------------------------------------------------------------------------
(* Connections *)

Connect(c) ==
    /\ poll = 0
    /\ conn[c] = "closed"
    /\ conn' = [conn EXCEPT ![c] = "open"]
    /\ UNCHANGED <<lists, data, poller, seen>>

\* The client or the network fails; the server does not know yet.
Break(c) ==
    /\ conn[c] = "open"
    /\ conn' = [conn EXCEPT ![c] = "broken"]
    /\ UNCHANGED <<lists, data, poller, seen>>

\* Mutant: the search ends with the first callback the client uses.
UsedOnce(c) ==
    LET used == {h \in Handles : table[h] # NULL /\ c \in Users(h)}
    IN  {h \in used : \A g \in used : h <= g}

\* The callbacks client c uses ...
UsedBy(c) == {h \in Handles : table[h] # NULL /\ c \in Users(h)}

\* ... and those among them nobody else uses, which are deleted
UsedAlone(c) == {h \in UsedBy(c) : Users(h) = {c}}

\* The socket handler of c is taken out of the callback; the uses it had stay in
\* the usage count.
Without(c, h) == [table[h] EXCEPT !.sockets[c] = 0]

\* mxsrv_free_client_socket_handler(), when the server reads the end of the stream
Close(c) ==
    /\ poll = 0
    /\ conn[c] = "broken"
    /\ conn' = [conn EXCEPT ![c] = "closed"]
    /\ table' = [h \in Handles |->
                    IF h \in UsedAlone(c) THEN NULL
                    ELSE IF h \in UsedBy(c) THEN Without(c, h)
                    ELSE table[h]]
    /\ leaked' = [h \in Handles |->
                    IF h \in UsedAlone(c) THEN 0
                    ELSE IF h \in UsedBy(c) THEN leaked[h] + table[h].sockets[c]
                    ELSE leaked[h]]
    /\ foreign' = [h \in Handles |-> IF h \in UsedAlone(c) THEN 0 ELSE foreign[h]]
    /\ fieldList' = [f \in Fields |-> ListWithout(fieldList[f], UsedAlone(c))]
    /\ seen' = [seen EXCEPT ![c] = [f \in Fields |-> NULL]]
    /\ UNCHANGED <<data, poller>>

HwChange(f, v) ==
    /\ v # hw[f]
    /\ hw' = [hw EXCEPT ![f] = v]
    /\ UNCHANGED <<lists, value, last, conn, poller, seen>>
-----------------------------------------------------------------------------
(* The poll handler, mx_poll_callback_handler() *)

StartPoll ==
    /\ poll = 0
    /\ poll' = 1
    /\ polls' = 1 - polls
    /\ UNCHANGED <<lists, data, conn, cutShort, seen>>

Due(h) == table[h] # NULL /\ (table[h].field \in Slow => polls = 0)

\* Mutant: MXFF_POLL is not looked at.
ReadsFirst(h) == table[h].first

\* A new value is fetched the first time and for the fields that are polled.
ReadsHardware(h) == table[h].first \/ table[h].field \in Polled

PollSkip ==
    /\ poll \in Handles
    /\ ~ Due(poll)
    /\ poll' = poll + 1
    /\ UNCHANGED <<lists, data, conn, polls, cutShort, seen>>

\* The round ends here with an error.
CutShort == poll' = 0 /\ cutShort' = TRUE

GoOn == poll' = poll + 1 /\ UNCHANGED cutShort

\* mx_process_record_field()
PollProcess ==
    /\ poll \in Handles
    /\ Due(poll)
    /\ ReadsHardware(poll)
    /\ table' = [table EXCEPT ![poll].first = FALSE]
    /\ LET f == table[poll].field
       IN  \/ /\ value' = [value EXCEPT ![f] = hw[f]]
              /\ TestAndInvokeList(f)
              /\ GoOn
           \/ /\ f \in Failing
              /\ CutShort
              /\ UNCHANGED <<value, last, seen>>
    /\ UNCHANGED <<fieldList, leaked, foreign, hw, conn, polls>>

\* The value the record has is compared with the one sent last, and sent to the
\* clients of this callback.  An error on one of the sockets ends the round.
PollTest ==
    /\ poll \in Handles
    /\ Due(poll)
    /\ ~ ReadsHardware(poll)
    /\ LET f == table[poll].field
       IN  /\ last' = [last EXCEPT ![f] = value[f]]
           /\ \/ /\ value[f] = last[f]
                 /\ GoOn
                 /\ UNCHANGED <<value, seen>>
              \/ /\ value[f] # last[f]
                 /\ UNCHANGED value
                 /\ Send(Users(poll), f)
                 /\ \/ GoOn
                    \/ (\E c \in Users(poll) : conn[c] = "broken") /\ CutShort
    /\ UNCHANGED <<lists, hw, conn, polls>>

EndPoll ==
    /\ poll = NumHandles + 1
    /\ poll' = 0
    /\ cutShort' = FALSE
    /\ UNCHANGED <<lists, data, conn, polls, seen>>
-----------------------------------------------------------------------------
Poll == StartPoll \/ PollSkip \/ PollProcess \/ PollTest \/ EndPoll

Next ==
    \/ Poll
    \/ \E c \in Clients :
          \/ Connect(c) \/ Break(c) \/ Close(c)
          \/ \E h \in Handles : Unsubscribe(c, h)
          \/ \E f \in Fields :
                \/ Subscribe(c, f) \/ SubscribeFails(c, f)
                \/ Get(c, f) \/ Refresh(c, f)
                \/ \E v \in Values : Put(c, f, v)
    \/ \E f \in Fields, v \in Values : HwChange(f, v)

Spec == Init /\ [][Next]_vars

(* The poll message comes round again (PollingGoesOn of CallbackLoop), and the *)
(* main loop goes on with the poll handler once it has begun.                  *)
Fairness == WF_vars(Poll)

FairSpec == Spec /\ Fairness
-----------------------------------------------------------------------------
(* Properties *)

(* The handle table and the callback lists of the fields, which subscribing,  *)
(* unsubscribing and disconnecting change in different orders, have the same  *)
(* callbacks, each once, so that none is used after it was freed.             *)
HandlesConsistent ==
    \A f \in Fields :
        /\ ToSet(fieldList[f]) = {h \in Handles : table[h] # NULL /\ table[h].field = f}
        /\ IsInjective(fieldList[f])

\* n as an unsigned long
Unsigned(n) == IF n < 0 THEN n + CountRange ELSE n

(* The usage count of a callback is wrong by exactly what was counted or       *)
(* given back for nobody: the uses of clients that have gone away or for which *)
(* there was no memory are never given back, and every deletion by a client    *)
(* that does not use the callback takes one, below zero too.                   *)
UsersCounted ==
    \A h \in Handles : table[h] # NULL =>
        table[h].usage = Unsigned(Cardinality(Uses(table[h].sockets)) + leaked[h] - foreign[h])

(* However wrong the counts are, a client that uses a callback keeps its uses  *)
(* and the callback till it deletes it itself or its connection is closed.     *)
SubscriptionsAreKept ==
    [][\A c \in Clients, h \in Handles : table[h] # NULL /\ c \in Users(h) =>
         \/ table'[h] # NULL /\ table'[h].sockets[c] >= table[h].sockets[c]
         \/ Unsubscribe(c, h) \/ Close(c)]_vars

(* The socket handler of a connection that was closed is freed: no callback   *)
(* has it in its list any more.                                               *)
NoFreedSocketHandler ==
    \A c \in Clients, h \in Handles :
        table[h] # NULL /\ c \in Users(h) => conn[c] # "closed"

(* Whatever requests, polls and failures come first to see a change of a      *)
(* polled field, no subscriber is left with an older value than the one       *)
(* recorded as sent, and it stays with it till the next change.               *)
PolledFieldsAreTold ==
    \A c \in Clients, f \in Polled : Subscribed(c, f) => seen[c][f] = last[f]

(* "... will be called to forward the change to all interested client         *)
(* programs": the same for every field.                                       *)
AllInterestedClientsAreTold ==
    \A c \in Clients, f \in Fields : Subscribed(c, f) => seen[c][f] = last[f]

(* A change in the hardware of a polled field that has a callback is noticed,  *)
(* unless round after round of the poll handler is ended by an error.          *)
HardwareChangesNoticed ==
    \A f \in Polled :
        []<>(hw[f] = last[f] \/ fieldList[f] = << >> \/ cutShort)
=============================================================================
