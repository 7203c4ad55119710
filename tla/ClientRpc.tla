------------------------------ MODULE ClientRpc ------------------------------
(***************************************************************************)
(* A client of an MX server (libMx/mx_net.c, libMx/mx_callback.c,          *)
(* libMx/n_tcpip.c).                                                       *)
(*                                                                         *)
(* A client sends a request with a message id and reads its connection     *)
(* until the answer with this id is there, or until it gives up.  On the   *)
(* same connection come answers to requests it gave up before, and the     *)
(* messages of the callbacks it added, which are handled while it waits.   *)
(* When the server has gone the next request connects again, and when the  *)
(* client next looks for messages it adds its callbacks again, one after   *)
(* the other.                                                              *)
(*                                                                         *)
(* The server is what the client sees of it: it answers requests in the    *)
(* order in which they were sent, sends messages for the callbacks it      *)
(* knows of, and can go away at any time: it does nothing then, until the  *)
(* client finds out.                                                       *)
(***************************************************************************)
EXTENDS Integers, FiniteSets, FiniteSetsExt, SequencesExt

CONSTANTS
    Fields,        \* the fields that are read and that have callbacks
    IsCallback,    \* MX_NETWORK_MESSAGE_IS_CALLBACK, 0x80000000
    MaxMismatch,   \* MX_NETWORK_MAX_ID_MISMATCH, 10
    MaxCallbacks,  \* bound on the callbacks of the client
    CallbackIds,   \* message ids with the bit MX_NETWORK_MESSAGE_IS_CALLBACK: ids of
                   \* the callbacks of the server
    MaxUses,       \* bound on the uses of a callback of the server
    MaxUnread,     \* bound on the messages on their way
    MaxBehind,     \* bound on the requests begun since an answer that is on its way
    NULL

ASSUME ClientAssumption ==
    /\ {MaxMismatch, MaxCallbacks, MaxUses, MaxUnread} \subseteq Nat \ {0}
    /\ IsCallback \in Nat /\ IsCallback > MaxMismatch + 1
    /\ MaxBehind \in 1 .. IsCallback - 2
    /\ NULL \notin Fields \cup CallbackIds
    /\ CallbackIds \cap 1 .. IsCallback - 1 = {}

VARIABLES
    lastId,      \* server->last_rpc_message_id
    socket,      \* whether the client has a socket
    reconnected, \* MXCS_RECONNECTED in server->connection_status
    list,        \* server->callback_list
    restoring,   \* mx_network_restore_callbacks(): the callback that is next, or 0
    call,        \* the request whose answer is awaited, NULL if there is none
    toServer,    \* the requests the server has not read
    toClient,    \* the messages the client has not read
    table,       \* table[c]: the server's callback of id c for this connection
    sure         \* history: on this connection no request about a callback was given
                 \* up, and none was made before the old callbacks were restored

client == <<list, restoring, call>>
connection == <<socket, reconnected>>
vars == <<lastId, client, connection, toServer, toClient, table, sure>>
-----------------------------------------------------------------------------
Ids == 1 .. IsCallback - 1
Callbacks == 1 .. MaxCallbacks

\* The server's callbacks of one field are the same object or different ones.
ServerCallback == [field : Fields, uses : 1 .. MaxUses]
ClientCallback == [field : Fields, id : CallbackIds]

\* What is awaited: "get" and "add" a field, "delete" and "restore" a callback of
\* the list.
Call == [id : Ids, kind : {"get", "add"}, arg : Fields]
            \cup [id : Ids, kind : {"delete", "restore"}, arg : Callbacks]
Request == [id : Ids, kind : {"get", "add"}, arg : Fields]
            \cup [id : Ids, kind : {"delete"}, arg : CallbackIds]
Message == [id : Ids, ok : BOOLEAN, callback : CallbackIds \cup {NULL}]
            \cup [id : CallbackIds, field : Fields]

ASSUME NullAssumption == NULL \notin Call \cup ServerCallback

TypeOK ==
    /\ lastId \in Ids \cup {0}
    /\ {socket, reconnected, sure} \subseteq BOOLEAN
    /\ list \in Seq(ClientCallback) /\ Len(list) <= MaxCallbacks
    /\ restoring \in 0 .. MaxCallbacks + 1
    /\ call \in Call \cup {NULL}
    /\ toServer \in Seq(Request)
    /\ toClient \in Seq(Message)
    /\ table \in [CallbackIds -> ServerCallback \cup {NULL}]
    /\ ~ socket => toServer = << >> /\ toClient = << >>

Init ==
    /\ lastId = 0
    /\ socket = TRUE /\ reconnected = FALSE
    /\ list = << >> /\ restoring = 0 /\ call = NULL
    /\ toServer = << >> /\ toClient = << >>
    /\ table = [c \in CallbackIds |-> NULL]
    /\ sure = TRUE
-----------------------------------------------------------------------------
(* Message ids *)

\* Mutant: the id does not wrap around.
NextIdUnbounded == lastId + 1

\* mx_network_update_message_id()
NextId == IF lastId + 1 >= IsCallback THEN 1 ELSE lastId + 1

\* Mutant: an id from before the wraparound is not recognised.
DifferenceUnwrapped(expected, received) == (expected - received) % (2 * IsCallback)

\* How much older than the awaited one a message id is, in 32 bit
Difference(expected, received) ==
    (IF IsCallback - received < MaxMismatch
     THEN IsCallback + expected - received
     ELSE expected - received) % (2 * IsCallback)

Old(expected, received) == Difference(expected, received) <= MaxMismatch

\* How many requests were begun between two ids
Behind(received, expected) == (expected - received) % (IsCallback - 1)

InFlight == {m.id : m \in ToSet(toServer)} \cup ({m.id : m \in ToSet(toClient)} \cap Ids)

\* An answer is on its way for less than the 2^31 requests after which ids recur.
Room == \A id \in InFlight : Behind(id, NextId) \in 1 .. MaxBehind
-----------------------------------------------------------------------------
(* The connection *)

Idle == call = NULL /\ restoring = 0

\* The socket is closed; what was on its way is lost, and the server's callbacks.
Disconnect ==
    /\ socket' = FALSE /\ reconnected' = FALSE
    /\ toServer' = << >> /\ toClient' = << >>
    /\ table' = [c \in CallbackIds |-> NULL]

\* What a request does first if there is no connection
Reconnect ==
    /\ ~ socket /\ call = NULL
    /\ socket' = TRUE /\ reconnected' = TRUE
    /\ sure' = (restoring = 0)
    /\ UNCHANGED <<lastId, client, toServer, toClient, table>>
-----------------------------------------------------------------------------
(* Requests *)

Send(kind, arg) ==
    /\ lastId' = NextId
    /\ toServer' = Append(toServer, [id |-> NextId, kind |-> kind, arg |-> arg])
    /\ UNCHANGED <<toClient, connection, table>>

CanSend == socket /\ Len(toServer) + Len(toServer) + Len(toClient) < MaxUnread /\ Room

\* Any request that is not about a callback
Get(f) ==
    /\ Idle /\ CanSend
    /\ Send("get", f)
    /\ call' = [id |-> NextId, kind |-> "get", arg |-> f]
    /\ UNCHANGED <<list, restoring, sure>>

AddCallback(f) ==
    /\ Idle /\ CanSend
    /\ Len(list) < MaxCallbacks
    /\ Send("add", f)
    /\ call' = [id |-> NextId, kind |-> "add", arg |-> f]
    /\ sure' = (sure /\ ~ reconnected)
    /\ UNCHANGED <<list, restoring>>

DeleteCallback(i) ==
    /\ Idle /\ CanSend
    /\ Send("delete", list[i].id)
    /\ call' = [id |-> NextId, kind |-> "delete", arg |-> i]
    /\ UNCHANGED <<list, restoring, sure>>

\* A request cannot be sent.
SendFails ==
    /\ Idle /\ Room
    /\ socket \/ list # << >>
    /\ lastId' = NextId
    /\ Disconnect
    /\ UNCHANGED <<client, sure>>
-----------------------------------------------------------------------------
(* Waiting for a message *)

First == Head(toClient)
IsAnswer(m) == m.id \in Ids

Read == toClient # << >> /\ toClient' = Tail(toClient)

\* The request is over without its answer.
GiveUp ==
    /\ call' = NULL
    /\ sure' = (sure /\ call.kind = "get")

\* The loop goes on, or finds that the time is over.
GoOn == UNCHANGED <<call, sure>> \/ GiveUp

\* Mutant: a callback that is restored keeps its old id.
FinishKeepingId(m) ==
    list' = CASE m.ok /\ call.kind = "add" ->
                    Append(list, [field |-> call.arg, id |-> m.callback])
              [] m.ok /\ call.kind = "delete" -> RemoveAt(list, call.arg)
              [] OTHER -> list

\* What a request does with its answer
Finish(m) ==
    list' = CASE m.ok /\ call.kind = "add" ->
                    Append(list, [field |-> call.arg, id |-> m.callback])
              [] m.ok /\ call.kind = "restore" ->
                    [list EXCEPT ![call.arg].id = m.callback]
              [] m.ok /\ call.kind = "delete" -> RemoveAt(list, call.arg)
              [] OTHER -> list

\* Mutant: any answer is taken, as from servers that do not support message ids.
ReceiveAnyAnswer ==
    /\ call # NULL
    /\ Read /\ IsAnswer(First)
    /\ Finish(First)
    /\ call' = NULL
    /\ UNCHANGED <<lastId, restoring, connection, toServer, table, sure>>

ReceiveAnswer ==
    /\ call # NULL
    /\ Read /\ First.id = call.id
    /\ Finish(First)
    /\ call' = NULL
    /\ sure' = (sure /\ (First.ok \/ call.kind # "restore"))
    /\ UNCHANGED <<lastId, restoring, connection, toServer, table>>

\* Mutant: the search does not stop at the callback.
InvokedLast(c) == Len(list)

\* The search through the list ends with the callback or, if there is none, with the
\* last one in hand, and invokes it.
Invoked(c) ==
    LET found == {i \in DOMAIN list : list[i].id = c} IN
    IF found = {} THEN Len(list) ELSE Min(found)

\* The function that is invoked may try to make requests; they get an id and are
\* refused.
RunCallback ==
    /\ ~ IsAnswer(First) /\ list # << >>
    /\ lastId' = lastId \/ (Room /\ lastId' = NextId)

ReceiveCallback ==
    /\ call # NULL
    /\ Read /\ RunCallback
    /\ GoOn
    /\ UNCHANGED <<list, restoring, connection, toServer, table>>

DiscardOldAnswer ==
    /\ call # NULL
    /\ Read /\ IsAnswer(First) /\ First.id # call.id
    /\ Old(call.id, First.id)
    /\ GoOn
    /\ UNCHANGED <<lastId, list, restoring, connection, toServer, table>>

\* An answer that is not expected, or a callback message without any callback
ReceiveUnexpected ==
    /\ call # NULL
    /\ Read
    /\ IF IsAnswer(First) THEN First.id # call.id /\ ~ Old(call.id, First.id)
                          ELSE list = << >>
    /\ GiveUp
    /\ UNCHANGED <<lastId, list, restoring, connection, toServer, table>>

TimeOut ==
    /\ call # NULL
    /\ toClient = << >>
    /\ GiveUp
    /\ UNCHANGED <<lastId, list, restoring, connection, toServer, toClient, table>>

\* The client finds the connection closed, or a message that stops in the middle.
LoseConnection ==
    /\ socket /\ (call # NULL \/ Idle)
    /\ Disconnect
    /\ IF call = NULL THEN UNCHANGED <<call, sure>> ELSE GiveUp
    /\ UNCHANGED <<lastId, list, restoring>>
-----------------------------------------------------------------------------
(* Looking for messages *)

\* Waits for message id 0 until time 0, so that one message is read at most.
Poll ==
    /\ Idle /\ socket /\ ~ reconnected
    /\ Read
    /\ IF IsAnswer(First) \/ list = << >> THEN UNCHANGED lastId ELSE RunCallback
    /\ UNCHANGED <<client, connection, toServer, table, sure>>

StartRestore ==
    /\ Idle /\ socket /\ reconnected
    /\ restoring' = 1
    /\ UNCHANGED <<lastId, list, call, connection, toServer, toClient, table, sure>>

Restore ==
    /\ restoring \in 1 .. Len(list) /\ call = NULL /\ CanSend
    /\ Send("add", list[restoring].field)
    /\ call' = [id |-> NextId, kind |-> "restore", arg |-> restoring]
    /\ restoring' = restoring + 1
    /\ UNCHANGED <<list, sure>>

\* A callback that cannot be restored is passed over.
RestoreFails ==
    /\ restoring \in 1 .. Len(list) /\ call = NULL
    /\ Disconnect
    /\ restoring' = restoring + 1
    /\ UNCHANGED <<lastId, list, call, sure>>

EndRestore ==
    /\ restoring = Len(list) + 1 /\ call = NULL
    /\ restoring' = 0
    /\ reconnected' = FALSE
    /\ UNCHANGED <<lastId, list, call, socket, toServer, toClient, table, sure>>
-----------------------------------------------------------------------------
(* The server *)

Answer(r, ok, c) ==
    toClient' = Append(toClient, [id |-> r.id, ok |-> ok, callback |-> c])

Use(c, f) ==
    table' = [table EXCEPT ![c] =
                 [field |-> f, uses |-> IF @ = NULL THEN 1 ELSE @.uses + 1]]

Unuse(c) ==
    table' = [table EXCEPT ![c] = IF @.uses = 1 THEN NULL
                                  ELSE [field |-> @.field, uses |-> @.uses - 1]]

\* A callback of the same field, or a new one
CallbackIdsFor(f) ==
    {c \in CallbackIds : table[c] = NULL \/ (table[c].field = f /\ table[c].uses < MaxUses)}

ServeGet(r) == Answer(r, TRUE, NULL) /\ UNCHANGED table

\* The server does not support callbacks, or fails and does not say so.
ServeAdd(r) ==
    \/ \E c \in CallbackIdsFor(r.arg) : Use(c, r.arg) /\ Answer(r, TRUE, c)
    \/ UNCHANGED table /\ (Answer(r, FALSE, NULL) \/ UNCHANGED toClient)

\* There is no answer if the callback is one of other clients only, and none if its
\* usage count is wrong (DeleteUse of ServerCallbacks).
ServeDelete(r) ==
    \/ table[r.arg] # NULL /\ Unuse(r.arg)
       /\ (Answer(r, TRUE, NULL) \/ UNCHANGED toClient)
    \/ table[r.arg] = NULL /\ UNCHANGED table
       /\ (Answer(r, FALSE, NULL) \/ UNCHANGED toClient)

Serve ==
    /\ toServer # << >>
    /\ toServer' = Tail(toServer)
    /\ LET r == Head(toServer) IN
        \/ r.kind = "get" /\ ServeGet(r)
        \/ r.kind = "add" /\ ServeAdd(r)
        \/ r.kind = "delete" /\ ServeDelete(r)
    /\ UNCHANGED <<lastId, client, connection, sure>>

\* A field with a callback has changed.
Notify(c) ==
    /\ socket /\ table[c] # NULL /\ Len(toServer) + Len(toClient) < MaxUnread
    /\ toClient' = Append(toClient, [id |-> c, field |-> table[c].field])
    /\ UNCHANGED <<lastId, client, connection, toServer, table, sure>>
-----------------------------------------------------------------------------
Wait == ReceiveAnswer \/ ReceiveCallback \/ DiscardOldAnswer \/ ReceiveUnexpected \/ TimeOut

Next ==
    \/ \E f \in Fields : Get(f) \/ AddCallback(f)
    \/ \E i \in DOMAIN list : DeleteCallback(i)
    \/ SendFails \/ Reconnect \/ LoseConnection
    \/ Wait \/ Poll
    \/ StartRestore \/ Restore \/ RestoreFails \/ EndRestore
    \/ Serve
    \/ \E c \in CallbackIds : Notify(c)

Spec == Init /\ [][Next]_vars
-----------------------------------------------------------------------------
(* Properties *)

\* The first message the client will read is one of a callback.
CallbackNext == toClient # << >> /\ ~ IsAnswer(First)

(* A request never ends with the answer to an earlier one, which it would take *)
(* for its own: when it has its answer, no request and no answer is on its way. *)
AnswerIsOwn ==
    [][ReceiveAnswer => toServer = << >> /\ \A m \in ToSet(toClient') : ~ IsAnswer(m)]_vars

(* Unless a request about a callback was given up, or a callback was added     *)
(* before the old ones were restored, every callback message is handled by a   *)
(* callback of the field that has changed: ids are used again by the server,   *)
(* those of the time before a reconnection are in the list while new ones      *)
(* arrive, and messages overlap with requests that delete their callback.      *)
CallbackForItsField ==
    sure /\ CallbackNext =>
        /\ list # << >>
        /\ list[Invoked(First.id)].field = First.field

(* In the same conditions the server knows the callbacks of the client, each   *)
(* under its id and as often as the client has it, except while one is         *)
(* being added, deleted or restored.                                           *)
SubscriptionsKept ==
    sure /\ socket /\ ~ reconnected /\ (call = NULL \/ call.kind = "get")
       => \A c \in CallbackIds :
            LET mine == {i \in DOMAIN list : list[i].id = c} IN
            IF table[c] = NULL THEN mine = {}
            ELSE /\ Cardinality(mine) = table[c].uses
                 /\ \A i \in mine : list[i].field = table[c].field

(* A request fails because of an old answer only if more than MaxMismatch      *)
(* requests were begun since.  If the ids wrapped around in between, MaxMismatch *)
(* requests are too many, and near the top of the range one is: what is said   *)
(* there of "the possibility that the message id recently wrapped around to 1" *)
(* holds within these limits.                                                  *)
OldAnswersHarmless ==
    [][ReceiveUnexpected /\ First.id \in Ids =>
          LET age == Behind(First.id, call.id) IN
          IF call.id < First.id THEN age >= MaxMismatch
          ELSE age > MaxMismatch \/ IsCallback - First.id < MaxMismatch]_vars

(* "If we have found the correct callback, then invoke the callback": no       *)
(* callback is invoked with a message that is not its own.                     *)
CorrectCallbackInvoked ==
    [][(ReceiveCallback \/ Poll) /\ CallbackNext /\ list # << >> =>
          \E i \in DOMAIN list : list[i].id = First.id]_vars
=============================================================================
