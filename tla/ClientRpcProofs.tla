--------------------------- MODULE ClientRpcProofs ---------------------------
(***************************************************************************)
(* Theorems about ClientRpc, for any fields, any range of message ids and  *)
(* any bounds: the answers that are on their way are in the order of their *)
(* requests, the awaited one is the newest, and so no request takes the    *)
(* answer to another one for its own; and as long as the client is sure of *)
(* its callbacks, the server counts the uses that the client will find in  *)
(* its list when it has read what is on its way, unless the answer to a    *)
(* deletion is missing, and every callback message finds a callback of its *)
(* field.                                                                  *)
(***************************************************************************)
EXTENDS ClientRpc, TLAPS, FiniteSetTheorems

\* How many ids were given out since this one
Age(id) == Behind(id, lastId)

\* Answers come back in the order in which the requests were sent.
Order ==
    /\ \A i, j \in DOMAIN toClient :
          i < j /\ IsAnswer(toClient[i]) /\ IsAnswer(toClient[j])
             => Age(toClient[i].id) > Age(toClient[j].id)
    /\ \A i, j \in DOMAIN toServer :
          i < j => Age(toServer[i].id) > Age(toServer[j].id)
    /\ \A i \in DOMAIN toClient, j \in DOMAIN toServer :
          IsAnswer(toClient[i]) => Age(toClient[i].id) > Age(toServer[j].id)

\* No request or answer on its way is newer than the awaited one.
Newest ==
    call # NULL =>
        /\ \A j \in DOMAIN toServer : Age(toServer[j].id) >= Age(call.id)
        /\ \A i \in DOMAIN toClient :
              IsAnswer(toClient[i]) => Age(toClient[i].id) >= Age(call.id)

\* A request for a callback is answered with a callback or not at all well.
Kinds ==
    call # NULL /\ call.kind \in {"add", "restore"} =>
        /\ \A j \in DOMAIN toServer :
              toServer[j].id = call.id => toServer[j].kind = "add"
        /\ \A i \in DOMAIN toClient :
              toClient[i].id = call.id /\ toClient[i].ok => toClient[i].callback \in CallbackIds

\* The list of callbacks is as the request that is under way found it.
Shape ==
    call # NULL =>
        /\ call.kind = "add" => Len(list) < MaxCallbacks
        /\ call.kind \in {"delete", "restore"} => call.arg \in DOMAIN list

IInv == TypeOK /\ Order /\ Newest /\ Kinds /\ Shape
-----------------------------------------------------------------------------
(* The callbacks of the client and those of the server *)

Awaits(kinds) == call # NULL /\ call.kind \in kinds
AboutCallback == Awaits({"add", "delete", "restore"})

\* The field of the callback that is added or restored
AddedField == IF call.kind = "add" THEN call.arg ELSE list[call.arg].field

\* Callbacks are restored in their order, on a new connection only.
Restoring ==
    /\ restoring <= Len(list) + 1
    /\ call # NULL => restoring = IF call.kind = "restore" THEN call.arg + 1 ELSE 0
    /\ ~ socket => \A c \in CallbackIds : table[c] = NULL
    /\ sure /\ socket => /\ restoring # 0 => reconnected
                         /\ Awaits({"add"}) => ~ reconnected

\* A request about a callback that the server has not read is the awaited one.
Requests ==
    sure => \A j \in DOMAIN toServer :
        LET r == toServer[j] IN
        /\ r.kind # "get" => AboutCallback /\ r.id = call.id
        /\ call # NULL /\ r.id = call.id =>
             /\ call.kind = "get" => r.kind = "get"
             /\ Awaits({"add", "restore"}) => r.kind = "add" /\ r.arg = AddedField
             /\ Awaits({"delete"}) => r.kind = "delete" /\ r.arg = list[call.arg].id

\* The callbacks that were added or restored on this connection
Current ==
    IF ~ reconnected THEN DOMAIN list
    ELSE 1 .. IF Awaits({"restore"}) THEN restoring - 2 ELSE restoring - 1

\* The answers on their way that grant the awaited request
Granted == {q \in DOMAIN toClient :
                call # NULL /\ toClient[q].id = call.id /\ toClient[q].ok}

\* The callbacks the client will still have then, and the one it will have too
Held == IF Awaits({"delete"}) /\ Granted # {} THEN Current \ {call.arg} ELSE Current
NewUse(c) == Awaits({"add", "restore"}) /\ \E q \in Granted : toClient[q].callback = c

Mine(c) == {i \in Held : list[i].id = c}

\* The server's uses of a callback are those of the client.
Booked(c) ==
    IF table[c] = NULL THEN Mine(c) = {} /\ ~ NewUse(c)
    ELSE /\ table[c].uses = Cardinality(Mine(c)) + IF NewUse(c) THEN 1 ELSE 0
         /\ \A i \in Mine(c) : list[i].field = table[c].field
         /\ NewUse(c) => AddedField = table[c].field

Counted == sure /\ socket => \A c \in CallbackIds : Booked(c)

OneField ==
    sure /\ socket => \A i, j \in Current :
        list[i].id = list[j].id => list[i].field = list[j].field

Has(I, m) == \E i \in I : list[i].id = m.id /\ list[i].field = m.field

\* The client will have a callback for the message when it reads it.
ToldAt(p) ==
    LET m == toClient[p] IN
    IF \E q \in Granted : q < p
    THEN Has(Held, m) \/ (NewUse(m.id) /\ AddedField = m.field)
    ELSE Has(Current, m)

Told ==
    sure /\ socket => \A p \in DOMAIN toClient : ~ IsAnswer(toClient[p]) => ToldAt(p)

Books == Counted /\ OneField /\ Told

\* The server has read the awaited deletion and will not answer it.
Silent ==
    /\ Awaits({"delete"})
    /\ \A j \in DOMAIN toServer : toServer[j].id # call.id
    /\ \A q \in DOMAIN toClient : toClient[q].id # call.id

\* The client has all the callbacks that the server has and tells of.
Known ==
    sure /\ socket =>
        /\ \A c \in CallbackIds : table[c] # NULL =>
               \E i \in Current : list[i].id = c /\ list[i].field = table[c].field
        /\ \A p \in DOMAIN toClient : ~ IsAnswer(toClient[p]) => Has(Current, toClient[p])

\* It is not known whether the deletion was done until it is given up.
Unanswered == Silent /\ OneField /\ Known

CInv == Restoring /\ Requests /\ (Books \/ Unanswered)
-----------------------------------------------------------------------------
(* Message ids *)

LEMMA SmallModulo ==
    ASSUME NEW m \in Nat, m > 0, NEW x \in Int, -m <= x, x < m
    PROVE  x % m = IF x >= 0 THEN x ELSE x + m
<1>1. CASE x >= 0 BY <1>1
<1>2. CASE x < 0 BY <1>2
<1> QED BY <1>1, <1>2

LEMMA ConstantFacts ==
    /\ IsCallback \in Nat /\ MaxMismatch \in Nat /\ MaxMismatch > 0
    /\ IsCallback > MaxMismatch + 1
    /\ MaxCallbacks \in Nat /\ MaxCallbacks > 0 /\ MaxUses \in Nat /\ MaxUses > 0
    /\ MaxBehind \in 1 .. IsCallback - 2
    /\ NULL \notin CallbackIds /\ NULL \notin Fields
    /\ \A id \in Ids : id \notin CallbackIds
<1>1. {MaxMismatch, MaxCallbacks, MaxUses, MaxUnread} \subseteq Nat \ {0}
  BY ClientAssumption
<1>2. CallbackIds \cap Ids = {} BY ClientAssumption DEF Ids
<1> QED BY <1>1, <1>2, ClientAssumption

LEMMA AppendFacts ==
    ASSUME NEW S, NEW s \in Seq(S), NEW e \in S
    PROVE  /\ Append(s, e) \in Seq(S)
           /\ DOMAIN Append(s, e) = 1 .. Len(s) + 1
           /\ Append(s, e)[Len(s) + 1] = e
           /\ \A i \in DOMAIN s : Append(s, e)[i] = s[i]
OBVIOUS

LEMMA RemoveFacts ==
    ASSUME NEW S, NEW s \in Seq(S), NEW p \in 1 .. Len(s)
    PROVE  RemoveAt(s, p) \in Seq(S) /\ Len(RemoveAt(s, p)) = Len(s) - 1
<1> DEFINE front == SubSeq(s, 1, p - 1)
           back == SubSeq(s, p + 1, Len(s))
<1>1. front \in Seq(S) /\ Len(front) = p - 1 OBVIOUS
<1>2. back \in Seq(S) /\ Len(back) = Len(s) - p OBVIOUS
<1>3. RemoveAt(s, p) = front \o back BY DEF RemoveAt
<1> HIDE DEF front, back
<1>4. front \o back \in Seq(S) /\ Len(front \o back) = Len(s) - 1 BY <1>1, <1>2
<1> QED BY <1>3, <1>4

\* An id gets older by one when another one is given out.
LEMMA BehindNext ==
    ASSUME lastId \in Ids \cup {0}, NEW id \in Ids
    PROVE  /\ NextId \in Ids
           /\ Behind(id, lastId) \in Nat /\ Behind(id, NextId) \in Nat
           /\ Behind(NextId, NextId) = 0
           /\ id # NextId => Behind(id, NextId) = Behind(id, lastId) + 1
<1> DEFINE n == IsCallback - 1
<1>1. /\ n \in Nat /\ n > 1 /\ id \in Int /\ id >= 1 /\ id <= n
      /\ lastId \in Int /\ lastId >= 0 /\ lastId <= n
  BY ConstantFacts DEF Ids
<1>2. NextId = IF lastId = n THEN 1 ELSE lastId + 1
  BY <1>1, ConstantFacts DEF NextId
<1>3. NextId \in Ids /\ NextId \in Int /\ NextId >= 1 /\ NextId <= n
  BY <1>1, <1>2 DEF Ids
<1>4. ASSUME NEW a \in Int, a >= 1, a <= n, NEW b \in Int, b >= 0, b <= n
      PROVE  Behind(a, b) = IF a <= b THEN b - a ELSE b - a + n
  <2>1. /\ b - a \in Int /\ -n <= b - a /\ b - a < n BY <1>1, <1>4
  <2>2. (b - a) % n = IF b - a >= 0 THEN b - a ELSE b - a + n
    BY <1>1, <2>1, SmallModulo
  <2>3. Behind(a, b) = (b - a) % n BY DEF Behind
  <2> QED BY <1>4, <2>2, <2>3
<1>5. Behind(id, lastId) = IF id <= lastId THEN lastId - id ELSE lastId - id + n
  BY <1>1, <1>4
<1>6. Behind(id, NextId) = IF id <= NextId THEN NextId - id ELSE NextId - id + n
  BY <1>1, <1>3, <1>4
<1>7. Behind(NextId, NextId) = 0 BY <1>3, <1>4
<1> HIDE DEF n
<1>8. Behind(id, lastId) \in Nat BY <1>1, <1>5
<1>9. Behind(id, NextId) \in Nat BY <1>1, <1>3, <1>6
<1>10. id # NextId => Behind(id, NextId) = Behind(id, lastId) + 1
  BY <1>1, <1>2, <1>5, <1>6
<1> QED BY <1>3, <1>7, <1>8, <1>9, <1>10

\* The ids on their way, all of them in the range, are not given out again.
LEMMA RoomAges ==
    ASSUME TypeOK, Room
    PROVE  /\ \A j \in DOMAIN toServer :
                 /\ toServer[j].id # NextId
                 /\ Behind(toServer[j].id, NextId) = Age(toServer[j].id) + 1
           /\ \A i \in DOMAIN toClient :
                 IsAnswer(toClient[i]) =>
                    /\ toClient[i].id # NextId
                    /\ Behind(toClient[i].id, NextId) = Age(toClient[i].id) + 1
<1>1. lastId \in Ids \cup {0} /\ MaxBehind \in Nat BY ConstantFacts DEF TypeOK
<1>2. ASSUME NEW id \in InFlight, id \in Ids
      PROVE  id # NextId /\ Behind(id, NextId) = Age(id) + 1
  <2>1. Behind(id, NextId) \in 1 .. MaxBehind BY <1>2 DEF Room
  <2>2. id # NextId
    <3>1. Behind(NextId, NextId) = 0 BY <1>1, <1>2, BehindNext
    <3> QED BY <1>1, <2>1, <3>1
  <2> QED BY <1>1, <1>2, <2>2, BehindNext DEF Age
<1>3. ASSUME NEW j \in DOMAIN toServer
      PROVE  toServer[j].id \in InFlight /\ toServer[j].id \in Ids
  <2>1. toServer[j] \in Request BY DEF TypeOK
  <2>2. toServer[j] \in ToSet(toServer) BY DEF ToSet
  <2> QED BY <2>1, <2>2 DEF InFlight, Request
<1>4. ASSUME NEW i \in DOMAIN toClient, IsAnswer(toClient[i])
      PROVE  toClient[i].id \in InFlight /\ toClient[i].id \in Ids
  <2>1. toClient[i] \in ToSet(toClient) BY DEF ToSet
  <2> QED BY <1>4, <2>1 DEF InFlight, IsAnswer
<1> QED BY <1>2, <1>3, <1>4

LEMMA AgesAreNumbers ==
    ASSUME TypeOK
    PROVE  /\ \A j \in DOMAIN toServer : toServer[j].id \in Ids /\ Age(toServer[j].id) \in Nat
           /\ \A i \in DOMAIN toClient :
                 IsAnswer(toClient[i]) => Age(toClient[i].id) \in Nat
           /\ call # NULL => call.id \in Ids /\ Age(call.id) \in Nat
<1>1. lastId \in Ids \cup {0} BY DEF TypeOK
<1>2. \A id \in Ids : Age(id) \in Nat BY <1>1, BehindNext DEF Age
<1>3. \A j \in DOMAIN toServer : toServer[j].id \in Ids BY DEF TypeOK, Request
<1>4. call # NULL => call.id \in Ids BY DEF TypeOK, Call
<1> QED BY <1>2, <1>3, <1>4 DEF IsAnswer

\* What is on its way ages alike, and never gets older than the awaited request
\* was before it.
LEMMA AgesMove ==
    ASSUME TypeOK, lastId' = lastId \/ (Room /\ lastId' = NextId)
    PROVE  /\ lastId' \in Ids \cup {0}
           /\ \E d \in {0, 1} :
                 /\ \A j \in DOMAIN toServer :
                       Behind(toServer[j].id, lastId') = Age(toServer[j].id) + d
                 /\ \A i \in DOMAIN toClient :
                       IsAnswer(toClient[i]) =>
                          Behind(toClient[i].id, lastId') = Age(toClient[i].id) + d
                 /\ call # NULL => /\ Behind(call.id, lastId') \in Nat
                                   /\ Behind(call.id, lastId') <= Age(call.id) + d
<1>1. lastId \in Ids \cup {0} BY DEF TypeOK
<1>2. CASE lastId' = lastId
  <2>1. lastId' \in Ids \cup {0} BY <1>1, <1>2
  <2>2. \A j \in DOMAIN toServer :
           Behind(toServer[j].id, lastId') = Age(toServer[j].id) + 0
    BY <1>2, AgesAreNumbers DEF Age
  <2>3. \A i \in DOMAIN toClient :
           IsAnswer(toClient[i]) =>
              Behind(toClient[i].id, lastId') = Age(toClient[i].id) + 0
    BY <1>2, AgesAreNumbers DEF Age
  <2>4. call # NULL => /\ Behind(call.id, lastId') \in Nat
                       /\ Behind(call.id, lastId') <= Age(call.id) + 0
    BY <1>2, AgesAreNumbers DEF Age
  <2> QED BY <2>1, <2>2, <2>3, <2>4
<1>3. CASE Room /\ lastId' = NextId
  <2>1. NextId \in Ids
    <3>1. 1 \in Ids BY ConstantFacts DEF Ids
    <3> QED BY <1>1, <3>1, BehindNext
  <2>2. call # NULL => /\ Behind(call.id, NextId) \in Nat
                       /\ Behind(call.id, NextId) <= Age(call.id) + 1
    BY <1>1, AgesAreNumbers, BehindNext DEF Age
  <2>3. \A j \in DOMAIN toServer :
           Behind(toServer[j].id, lastId') = Age(toServer[j].id) + 1
    BY <1>3, RoomAges
  <2>4. \A i \in DOMAIN toClient :
           IsAnswer(toClient[i]) =>
              Behind(toClient[i].id, lastId') = Age(toClient[i].id) + 1
    BY <1>3, RoomAges
  <2> QED BY <1>3, <2>1, <2>2, <2>3, <2>4
<1> QED BY <1>2, <1>3
-----------------------------------------------------------------------------
(* What a step does to the messages *)

\* The client takes the first message and goes on with its request or not.
LEMMA ReadKeeps ==
    ASSUME IInv, Read, UNCHANGED toServer, call' = call \/ call' = NULL,
           lastId' = lastId \/ (Room /\ lastId' = NextId)
    PROVE  /\ lastId' \in Ids \cup {0} /\ toClient' \in Seq(Message)
           /\ Order' /\ Newest' /\ Kinds'
<1>1. TypeOK /\ Order /\ Newest /\ Kinds BY DEF IInv
<1>2. /\ toClient \in Seq(Message) /\ toClient # << >> /\ toClient' = Tail(toClient)
  BY <1>1 DEF Read, TypeOK
<1>3. /\ toClient' \in Seq(Message)
      /\ \A i \in DOMAIN toClient' : /\ i + 1 \in DOMAIN toClient /\ i \in Nat
                                     /\ toClient'[i] = toClient[i + 1]
  BY <1>2
<1>4. lastId' \in Ids \cup {0} BY <1>1, AgesMove
<1>5. PICK d \in {0, 1} :
         /\ \A j \in DOMAIN toServer :
               Behind(toServer[j].id, lastId') = Age(toServer[j].id) + d
         /\ \A i \in DOMAIN toClient :
               IsAnswer(toClient[i]) =>
                  Behind(toClient[i].id, lastId') = Age(toClient[i].id) + d
         /\ call # NULL => /\ Behind(call.id, lastId') \in Nat
                           /\ Behind(call.id, lastId') <= Age(call.id) + d
  BY <1>1, AgesMove
<1>6. /\ \A j \in DOMAIN toServer : Age(toServer[j].id) \in Nat
      /\ \A i \in DOMAIN toClient : IsAnswer(toClient[i]) => Age(toClient[i].id) \in Nat
      /\ call # NULL => Age(call.id) \in Nat
  BY <1>1, AgesAreNumbers
<1>7. Order'
  <2>1. ASSUME NEW i \in DOMAIN toClient', NEW j \in DOMAIN toClient', i < j,
               toClient'[i].id \in Ids, toClient'[j].id \in Ids
        PROVE  Behind(toClient'[i].id, lastId') > Behind(toClient'[j].id, lastId')
    <3>1. /\ i + 1 \in DOMAIN toClient /\ j + 1 \in DOMAIN toClient /\ i + 1 < j + 1
          /\ toClient'[i] = toClient[i + 1] /\ toClient'[j] = toClient[j + 1]
      BY <1>3, <2>1
    <3>2. Age(toClient[i + 1].id) > Age(toClient[j + 1].id)
      BY <1>1, <2>1, <3>1 DEF Order, IsAnswer
    <3> QED BY <1>5, <1>6, <2>1, <3>1, <3>2 DEF IsAnswer
  <2>2. \A i, j \in DOMAIN toServer :
           i < j => Behind(toServer[i].id, lastId') > Behind(toServer[j].id, lastId')
    BY <1>1, <1>5, <1>6 DEF Order
  <2>3. ASSUME NEW i \in DOMAIN toClient', NEW j \in DOMAIN toServer,
               toClient'[i].id \in Ids
        PROVE  Behind(toClient'[i].id, lastId') > Behind(toServer[j].id, lastId')
    <3>1. i + 1 \in DOMAIN toClient /\ toClient'[i] = toClient[i + 1] BY <1>3
    <3>2. Age(toClient[i + 1].id) > Age(toServer[j].id)
      BY <1>1, <2>3, <3>1 DEF Order, IsAnswer
    <3> QED BY <1>5, <1>6, <2>3, <3>1, <3>2 DEF IsAnswer
  <2> QED BY <2>1, <2>2, <2>3 DEF Order, Age, IsAnswer
<1>8. Newest'
  <2> SUFFICES ASSUME call' # NULL
               PROVE  /\ \A j \in DOMAIN toServer' :
                            Behind(toServer'[j].id, lastId') >= Behind(call'.id, lastId')
                      /\ \A i \in DOMAIN toClient' :
                            toClient'[i].id \in Ids =>
                               Behind(toClient'[i].id, lastId') >= Behind(call'.id, lastId')
    BY DEF Newest, Age, IsAnswer
  <2>1. call' = call /\ call # NULL OBVIOUS
  <2>2. \A j \in DOMAIN toServer :
           Behind(toServer[j].id, lastId') >= Behind(call.id, lastId')
    BY <1>1, <1>5, <1>6, <2>1 DEF Newest
  <2>3. ASSUME NEW i \in DOMAIN toClient, toClient[i].id \in Ids
        PROVE  Behind(toClient[i].id, lastId') >= Behind(call.id, lastId')
    BY <1>1, <1>5, <1>6, <2>1, <2>3 DEF Newest, IsAnswer
  <2> QED BY <1>3, <2>1, <2>2, <2>3
<1>9. Kinds'
  <2>1. call' # NULL => call' = call OBVIOUS
  <2> QED BY <1>1, <1>3, <2>1 DEF Kinds
<1> QED BY <1>3, <1>4, <1>7, <1>8, <1>9

\* A new request is the newest and the last.
LEMMA SendKeeps ==
    ASSUME IInv, Room, NEW r \in Request, r.id = NextId, lastId' = NextId,
           toServer' = Append(toServer, r), UNCHANGED toClient,
           call'.id = NextId,
           call'.kind \in {"add", "restore"} => r.kind = "add"
    PROVE  /\ lastId' \in Ids \cup {0} /\ toServer' \in Seq(Request)
           /\ Order' /\ Newest' /\ Kinds'
<1>1. TypeOK /\ Order BY DEF IInv
<1>2. /\ toServer \in Seq(Request) /\ Len(toServer) \in Nat
      /\ DOMAIN toServer = 1 .. Len(toServer)
  BY <1>1 DEF TypeOK
<1>3. /\ toServer' \in Seq(Request)
      /\ DOMAIN toServer' = 1 .. Len(toServer) + 1
      /\ toServer'[Len(toServer) + 1] = r
      /\ \A j \in DOMAIN toServer : toServer'[j] = toServer[j]
  BY <1>2, AppendFacts
<1>4. NextId \in Ids BY DEF Request
<1>5. Behind(NextId, lastId') = 0
  <2>1. lastId \in Ids \cup {0} BY <1>1 DEF TypeOK
  <2> QED BY <1>4, <2>1, BehindNext
<1>6. /\ \A j \in DOMAIN toServer :
            /\ toServer[j].id # NextId
            /\ Behind(toServer[j].id, lastId') = Age(toServer[j].id) + 1
            /\ Age(toServer[j].id) \in Nat
      /\ \A i \in DOMAIN toClient :
            toClient[i].id \in Ids =>
               /\ toClient[i].id # NextId
               /\ Behind(toClient[i].id, lastId') = Age(toClient[i].id) + 1
               /\ Age(toClient[i].id) \in Nat
  BY <1>1, AgesAreNumbers, RoomAges DEF IsAnswer
<1>7. \A j \in DOMAIN toServer' : j \in DOMAIN toServer \/ (j = Len(toServer) + 1)
  BY <1>2, <1>3
<1>8. Order'
  <2>1. ASSUME NEW i \in DOMAIN toClient, NEW j \in DOMAIN toClient, i < j,
               toClient[i].id \in Ids, toClient[j].id \in Ids
        PROVE  Behind(toClient[i].id, lastId') > Behind(toClient[j].id, lastId')
    BY <1>1, <1>6, <2>1 DEF Order, IsAnswer
  <2>2. ASSUME NEW i \in DOMAIN toServer', NEW j \in DOMAIN toServer', i < j
        PROVE  Behind(toServer'[i].id, lastId') > Behind(toServer'[j].id, lastId')
    <3>1. i \in DOMAIN toServer BY <1>2, <1>3, <2>2
    <3>2. CASE j \in DOMAIN toServer BY <1>1, <1>3, <1>6, <2>2, <3>1, <3>2 DEF Order
    <3>3. CASE j = Len(toServer) + 1 BY <1>3, <1>5, <1>6, <3>1, <3>3
    <3> QED BY <1>7, <3>2, <3>3
  <2>3. ASSUME NEW i \in DOMAIN toClient, NEW j \in DOMAIN toServer',
               toClient[i].id \in Ids
        PROVE  Behind(toClient[i].id, lastId') > Behind(toServer'[j].id, lastId')
    <3>1. CASE j \in DOMAIN toServer BY <1>1, <1>3, <1>6, <2>3, <3>1 DEF Order, IsAnswer
    <3>2. CASE j = Len(toServer) + 1 BY <1>3, <1>5, <1>6, <2>3, <3>2
    <3> QED BY <1>7, <3>1, <3>2
  <2> QED BY <2>1, <2>2, <2>3 DEF Order, Age, IsAnswer
<1>9. Newest'
  <2>1. ASSUME NEW j \in DOMAIN toServer'
        PROVE  Behind(toServer'[j].id, lastId') >= Behind(call'.id, lastId')
    <3>1. CASE j \in DOMAIN toServer BY <1>3, <1>5, <1>6, <3>1
    <3>2. CASE j = Len(toServer) + 1 BY <1>3, <1>5, <3>2
    <3> QED BY <1>7, <3>1, <3>2
  <2>2. ASSUME NEW i \in DOMAIN toClient, toClient[i].id \in Ids
        PROVE  Behind(toClient[i].id, lastId') >= Behind(call'.id, lastId')
    BY <1>5, <1>6, <2>2
  <2> QED BY <2>1, <2>2 DEF Newest, Age, IsAnswer
<1>10. Kinds'
  <2>1. \A j \in DOMAIN toServer' :
           toServer'[j].id = NextId /\ call'.kind \in {"add", "restore"}
              => toServer'[j].kind = "add"
    BY <1>3, <1>6, <1>7
  <2>2. \A i \in DOMAIN toClient : toClient[i].id # NextId BY <1>4, <1>6
  <2> QED BY <2>1, <2>2 DEF Kinds
<1> QED BY <1>3, <1>4, <1>8, <1>9, <1>10

\* The server takes the first request, and answers it or not.
LEMMA ServeKeeps ==
    ASSUME IInv, toServer # << >>, toServer' = Tail(toServer), UNCHANGED <<lastId, call>>,
           \/ UNCHANGED toClient
           \/ \E m \in Message : /\ toClient' = Append(toClient, m)
                                 /\ m.id = Head(toServer).id
                                 /\ Head(toServer).kind = "add" /\ m.ok
                                       => m.callback \in CallbackIds
    PROVE  /\ toServer' \in Seq(Request) /\ toClient' \in Seq(Message)
           /\ Order' /\ Newest' /\ Kinds'
<1>1. TypeOK /\ Order /\ Newest /\ Kinds BY DEF IInv
<1>2. /\ toServer \in Seq(Request) /\ toClient \in Seq(Message)
      /\ Len(toClient) \in Nat /\ DOMAIN toClient = 1 .. Len(toClient)
      /\ 1 \in DOMAIN toServer /\ Head(toServer) = toServer[1]
  BY <1>1 DEF TypeOK
<1>3. /\ toServer' \in Seq(Request)
      /\ \A j \in DOMAIN toServer' : /\ j + 1 \in DOMAIN toServer /\ 1 < j + 1 /\ j \in Nat
                                     /\ toServer'[j] = toServer[j + 1]
  BY <1>2
<1>4. \A id : Age(id)' = Age(id) BY DEF Age
<1>5. \A i, j \in DOMAIN toServer' :
         i < j => Age(toServer'[i].id) > Age(toServer'[j].id)
  BY <1>1, <1>3 DEF Order
<1>6. CASE UNCHANGED toClient
  <2>1. Order' BY <1>1, <1>3, <1>4, <1>5, <1>6 DEF Order, IsAnswer, Age
  <2>2. Newest' BY <1>1, <1>3, <1>6 DEF Newest, IsAnswer, Age
  <2>3. Kinds' BY <1>1, <1>3, <1>6 DEF Kinds
  <2> QED BY <1>2, <1>3, <1>6, <2>1, <2>2, <2>3
<1>7. CASE \E m \in Message : /\ toClient' = Append(toClient, m)
                              /\ m.id = Head(toServer).id
                              /\ Head(toServer).kind = "add" /\ m.ok
                                    => m.callback \in CallbackIds
  <2>1. PICK m \in Message : /\ toClient' = Append(toClient, m)
                             /\ m.id = toServer[1].id
                             /\ toServer[1].kind = "add" /\ m.ok
                                   => m.callback \in CallbackIds
    BY <1>2, <1>7
  <2> DEFINE n == Len(toClient)
  <2>2. /\ toClient' \in Seq(Message)
        /\ DOMAIN toClient' = 1 .. n + 1
        /\ toClient'[n + 1] = m
        /\ \A i \in DOMAIN toClient : toClient'[i] = toClient[i]
    <3>1. Append(toClient, m) = toClient' BY <2>1
    <3>2. /\ Append(toClient, m) \in Seq(Message)
          /\ DOMAIN Append(toClient, m) = 1 .. Len(toClient) + 1
          /\ Append(toClient, m)[Len(toClient) + 1] = m
          /\ \A i \in DOMAIN toClient : Append(toClient, m)[i] = toClient[i]
      <4> HIDE DEF n
      <4> QED BY <1>2, AppendFacts
    <3> QED BY <3>1, <3>2
  <2>3. \A i \in DOMAIN toClient' : i \in DOMAIN toClient \/ i = n + 1
    BY <1>2, <2>2
  <2>4. Order'
    <3>1. ASSUME NEW i \in DOMAIN toClient', NEW j \in DOMAIN toClient', i < j,
                 toClient'[i].id \in Ids, toClient'[j].id \in Ids
          PROVE  Age(toClient'[i].id) > Age(toClient'[j].id)
      <4>1. i \in DOMAIN toClient BY <1>2, <2>2, <3>1
      <4>2. CASE j \in DOMAIN toClient
        BY <1>1, <2>2, <3>1, <4>1, <4>2 DEF Order, IsAnswer
      <4>3. CASE j = n + 1
        BY <1>1, <1>2, <2>1, <2>2, <3>1, <4>1, <4>3 DEF Order, IsAnswer
      <4> QED BY <2>3, <4>2, <4>3
    <3>2. ASSUME NEW i \in DOMAIN toClient', NEW j \in DOMAIN toServer',
                 toClient'[i].id \in Ids
          PROVE  Age(toClient'[i].id) > Age(toServer'[j].id)
      <4>1. CASE i \in DOMAIN toClient
        BY <1>1, <1>3, <2>2, <3>2, <4>1 DEF Order, IsAnswer
      <4>2. CASE i = n + 1 BY <1>1, <1>2, <1>3, <2>1, <2>2, <4>2 DEF Order
      <4> QED BY <2>3, <4>1, <4>2
    <3> QED BY <1>5, <3>1, <3>2 DEF Order, IsAnswer, Age
  <2>5. Newest'
    <3>1. ASSUME call # NULL, NEW i \in DOMAIN toClient', toClient'[i].id \in Ids
          PROVE  Age(toClient'[i].id) >= Age(call.id)
      <4>1. CASE i \in DOMAIN toClient
        BY <1>1, <2>2, <3>1, <4>1 DEF Newest, IsAnswer
      <4>2. CASE i = n + 1 BY <1>1, <1>2, <2>1, <2>2, <3>1, <4>2 DEF Newest
      <4> QED BY <2>3, <4>1, <4>2
    <3>2. ASSUME call # NULL, NEW j \in DOMAIN toServer'
          PROVE  Age(toServer'[j].id) >= Age(call.id)
      BY <1>1, <1>3, <3>2 DEF Newest
    <3> QED BY <3>1, <3>2 DEF Newest, IsAnswer, Age
  <2>6. Kinds'
    <3> SUFFICES ASSUME call # NULL, call.kind \in {"add", "restore"}
                 PROVE  /\ \A j \in DOMAIN toServer' :
                              toServer'[j].id = call.id => toServer'[j].kind = "add"
                        /\ \A i \in DOMAIN toClient' :
                              toClient'[i].id = call.id /\ toClient'[i].ok
                                 => toClient'[i].callback \in CallbackIds
      BY DEF Kinds
    <3>1. \A j \in DOMAIN toServer' :
             toServer'[j].id = call.id => toServer'[j].kind = "add"
      BY <1>1, <1>3 DEF Kinds
    <3>2. ASSUME NEW i \in DOMAIN toClient', toClient'[i].id = call.id, toClient'[i].ok
          PROVE  toClient'[i].callback \in CallbackIds
      <4>1. CASE i \in DOMAIN toClient BY <1>1, <2>2, <3>2, <4>1 DEF Kinds
      <4>2. CASE i = n + 1
        <5>1. toClient'[i] = m /\ toServer[1].id = call.id BY <2>1, <2>2, <3>2, <4>2
        <5>2. toServer[1].kind = "add" BY <1>1, <1>2, <5>1 DEF Kinds
        <5> QED BY <2>1, <3>2, <5>1, <5>2
      <4> QED BY <2>3, <4>1, <4>2
    <3> QED BY <3>1, <3>2
  <2> QED BY <1>3, <2>2, <2>4, <2>5, <2>6
<1> QED BY <1>6, <1>7
-----------------------------------------------------------------------------
(* The steps *)

LEMMA RecordFacts ==
    /\ \A id \in Ids, k \in {"get", "add"}, f \in Fields :
          /\ [id |-> id, kind |-> k, arg |-> f] \in Call
          /\ [id |-> id, kind |-> k, arg |-> f] \in Request
    /\ \A id \in Ids, k \in {"delete", "restore"}, i \in Callbacks :
          [id |-> id, kind |-> k, arg |-> i] \in Call
    /\ \A id \in Ids, c \in CallbackIds :
          [id |-> id, kind |-> "delete", arg |-> c] \in Request
    /\ \A id \in Ids, ok \in BOOLEAN, c \in CallbackIds \cup {NULL} :
          [id |-> id, ok |-> ok, callback |-> c] \in Message
    /\ \A c \in CallbackIds, f \in Fields : [id |-> c, field |-> f] \in Message
<1>1. \A id \in Ids, k \in {"get", "add"}, f \in Fields :
         /\ [id |-> id, kind |-> k, arg |-> f] \in Call
         /\ [id |-> id, kind |-> k, arg |-> f] \in Request
  BY DEF Call, Request
<1>2. \A id \in Ids, k \in {"delete", "restore"}, i \in Callbacks :
         [id |-> id, kind |-> k, arg |-> i] \in Call
  BY DEF Call
<1>3. \A id \in Ids, c \in CallbackIds :
         [id |-> id, kind |-> "delete", arg |-> c] \in Request
  BY DEF Request
<1>4. \A id \in Ids, ok \in BOOLEAN, c \in CallbackIds \cup {NULL} :
         [id |-> id, ok |-> ok, callback |-> c] \in Message
  BY DEF Message
<1>5. \A c \in CallbackIds, f \in Fields : [id |-> c, field |-> f] \in Message
  BY DEF Message
<1> QED BY <1>1, <1>2, <1>3, <1>4, <1>5

LEMMA NextIdInRange == TypeOK => NextId \in Ids
<1> SUFFICES ASSUME TypeOK PROVE NextId \in Ids OBVIOUS
<1>1. lastId \in Ids \cup {0} BY DEF TypeOK
<1>2. 1 \in Ids BY ConstantFacts DEF Ids
<1> QED BY <1>1, <1>2, BehindNext

\* Nothing is sent, read or answered.
LEMMA QuietStep ==
    ASSUME IInv, UNCHANGED <<lastId, list, toServer, toClient, table>>,
           call' = call \/ call' = NULL,
           socket' \in BOOLEAN, reconnected' \in BOOLEAN, sure' \in BOOLEAN,
           restoring' \in 0 .. MaxCallbacks + 1, socket => socket'
    PROVE  IInv'
<1>1. TypeOK /\ Order /\ Newest /\ Kinds /\ Shape BY DEF IInv
<1>2. TypeOK' BY <1>1 DEF TypeOK
<1>3. Order' BY <1>1 DEF Order, IsAnswer, Age
<1>4. call' # NULL => call' = call OBVIOUS
<1>5. Newest' BY <1>1, <1>4 DEF Newest, IsAnswer, Age
<1>6. Kinds' BY <1>1, <1>4 DEF Kinds
<1>7. Shape' BY <1>1, <1>4 DEF Shape
<1> QED BY <1>2, <1>3, <1>5, <1>6, <1>7 DEF IInv

\* The connection is lost with what was on its way.
LEMMA LostStep ==
    ASSUME IInv, Disconnect, UNCHANGED list, lastId' \in Ids \cup {0},
           call' = call \/ call' = NULL, sure' \in BOOLEAN,
           restoring' \in 0 .. MaxCallbacks + 1
    PROVE  IInv'
<1>1. TypeOK /\ Shape BY DEF IInv
<1>2. /\ toServer' = << >> /\ toClient' = << >>
      /\ DOMAIN toServer' = {} /\ DOMAIN toClient' = {}
  BY DEF Disconnect
<1>3. call' # NULL => call' = call OBVIOUS
<1>4. TypeOK'
  <2>1. toServer' \in Seq(Request) /\ toClient' \in Seq(Message) BY <1>2
  <2>2. table' \in [CallbackIds -> ServerCallback \cup {NULL}] BY DEF Disconnect
  <2>3. socket' \in BOOLEAN /\ reconnected' \in BOOLEAN BY DEF Disconnect
  <2> QED BY <1>1, <1>2, <2>1, <2>2, <2>3 DEF TypeOK
<1>5. Order' BY <1>2 DEF Order
<1>6. Newest' BY <1>2 DEF Newest
<1>7. Kinds' BY <1>2 DEF Kinds
<1>8. Shape' BY <1>1, <1>3 DEF Shape
<1> QED BY <1>4, <1>5, <1>6, <1>7, <1>8 DEF IInv

\* A message is read, and the list stays as it is.
LEMMA ReadStep ==
    ASSUME IInv, Read, UNCHANGED <<list, restoring, connection, toServer, table>>,
           call' = call \/ call' = NULL, sure' \in BOOLEAN,
           lastId' = lastId \/ (Room /\ lastId' = NextId)
    PROVE  IInv'
<1>1. TypeOK /\ Shape BY DEF IInv
<1>2. /\ lastId' \in Ids \cup {0} /\ toClient' \in Seq(Message)
      /\ Order' /\ Newest' /\ Kinds'
  BY ReadKeeps DEF connection
<1>3. call' # NULL => call' = call OBVIOUS
<1>4. socket BY <1>1 DEF Read, TypeOK
<1>5. TypeOK' BY <1>1, <1>2, <1>4 DEF TypeOK, connection
<1>6. Shape' BY <1>1, <1>3 DEF Shape
<1> QED BY <1>2, <1>5, <1>6 DEF IInv

\* A request is sent.
LEMMA SendStep ==
    ASSUME IInv, CanSend, NEW kind, NEW arg, Send(kind, arg), UNCHANGED list,
           [id |-> NextId, kind |-> kind, arg |-> arg] \in Request,
           call' \in Call, call'.id = NextId,
           call'.kind \in {"add", "restore"} => kind = "add",
           sure' \in BOOLEAN, restoring' \in 0 .. MaxCallbacks + 1,
           Shape'
    PROVE  IInv'
<1>1. TypeOK BY DEF IInv
<1>2. PICK r \in Request : r = [id |-> NextId, kind |-> kind, arg |-> arg] OBVIOUS
<1>3. r.id = NextId /\ r.kind = kind BY <1>2
<1>4. /\ lastId' = NextId /\ toServer' = Append(toServer, r) /\ UNCHANGED toClient
      /\ UNCHANGED <<connection, table>> /\ Room /\ socket
  BY <1>2 DEF Send, CanSend
<1>6. /\ lastId' \in Ids \cup {0} /\ toServer' \in Seq(Request)
      /\ Order' /\ Newest' /\ Kinds'
  BY <1>3, <1>4, SendKeeps
<1>7. TypeOK' BY <1>1, <1>4, <1>6 DEF TypeOK, connection
<1> QED BY <1>6, <1>7 DEF IInv

LEMMA ExceptFacts ==
    ASSUME NEW S, NEW s \in Seq(S), NEW p \in DOMAIN s, NEW e \in S
    PROVE  [s EXCEPT ![p] = e] \in Seq(S) /\ Len([s EXCEPT ![p] = e]) = Len(s)
OBVIOUS

\* What an answer does to the list of callbacks
LEMMA AnswerStep == IInv /\ ReceiveAnswer => IInv'
<1> SUFFICES ASSUME IInv, ReceiveAnswer PROVE IInv' OBVIOUS
<1>1. TypeOK /\ Order /\ Newest /\ Kinds /\ Shape BY DEF IInv
<1>2. /\ call # NULL /\ Read /\ First.id = call.id /\ Finish(First) /\ call' = NULL
      /\ UNCHANGED <<lastId, restoring, connection, toServer, table>>
      /\ sure' \in BOOLEAN
  BY DEF ReceiveAnswer
<1>3. /\ lastId' \in Ids \cup {0} /\ toClient' \in Seq(Message)
      /\ Order' /\ Newest' /\ Kinds'
  BY <1>2, ReadKeeps
<1>4. socket BY <1>1, <1>2 DEF Read, TypeOK
<1>5. PICK m \in Message : m = First /\ 1 \in DOMAIN toClient /\ toClient[1] = m
  BY <1>1, <1>2 DEF Read, TypeOK, First
<1>6. list \in Seq(ClientCallback) /\ Len(list) \in Nat /\ Len(list) <= MaxCallbacks
      /\ MaxCallbacks \in Nat
  BY <1>1, ConstantFacts DEF TypeOK
<1>7. list' \in Seq(ClientCallback) /\ Len(list') <= MaxCallbacks
  <2>1. CASE m.ok /\ call.kind = "add"
    <3>1. m.callback \in CallbackIds BY <1>1, <1>2, <1>5, <2>1 DEF Kinds
    <3>2. call.arg \in Fields
      <4>1. call \in Call BY <1>1, <1>2 DEF TypeOK
      <4> QED BY <2>1, <4>1 DEF Call
    <3>3. Len(list) < MaxCallbacks BY <1>1, <1>2, <2>1 DEF Shape
    <3>4. PICK e \in ClientCallback : e = [field |-> call.arg, id |-> m.callback]
      BY <3>1, <3>2 DEF ClientCallback
    <3>5. list' = Append(list, e) BY <1>2, <1>5, <2>1, <3>4 DEF Finish
    <3> QED BY <1>6, <3>3, <3>5
  <2>2. CASE m.ok /\ call.kind = "restore"
    <3>1. m.callback \in CallbackIds BY <1>1, <1>2, <1>5, <2>2 DEF Kinds
    <3>2. call.arg \in DOMAIN list BY <1>1, <1>2, <2>2 DEF Shape
    <3>3. list[call.arg] \in ClientCallback BY <1>6, <3>2
    <3>4. PICK e \in ClientCallback : e = [list[call.arg] EXCEPT !.id = m.callback]
      BY <3>1, <3>3 DEF ClientCallback
    <3>5. list' = [list EXCEPT ![call.arg] = e] BY <1>2, <1>5, <2>2, <3>4 DEF Finish
    <3> QED BY <1>6, <3>2, <3>5, ExceptFacts
  <2>3. CASE m.ok /\ call.kind = "delete"
    <3>1. call.arg \in 1 .. Len(list) BY <1>1, <1>2, <1>6, <2>3 DEF Shape
    <3>2. list' = RemoveAt(list, call.arg) BY <1>2, <1>5, <2>3 DEF Finish
    <3> QED BY <1>6, <3>1, <3>2, RemoveFacts
  <2>4. CASE ~ (m.ok /\ call.kind \in {"add", "restore", "delete"})
    BY <1>2, <1>5, <1>6, <2>4 DEF Finish
  <2> QED BY <2>1, <2>2, <2>3, <2>4
<1>8. TypeOK' BY <1>1, <1>2, <1>3, <1>4, <1>7 DEF TypeOK, connection
<1>9. Shape' BY <1>2 DEF Shape
<1> QED BY <1>3, <1>8, <1>9 DEF IInv

LEMMA ServeStep == IInv /\ Serve => IInv'
<1> SUFFICES ASSUME IInv, Serve PROVE IInv' OBVIOUS
<1>1. TypeOK /\ Shape BY DEF IInv
<1>2. PICK r \in Request : r = Head(toServer)
  BY <1>1 DEF Serve, TypeOK
<1>3. /\ toServer # << >> /\ toServer' = Tail(toServer)
      /\ \/ r.kind = "get" /\ ServeGet(r)
         \/ r.kind = "add" /\ ServeAdd(r)
         \/ r.kind = "delete" /\ ServeDelete(r)
      /\ UNCHANGED <<lastId, list, restoring, call, connection, sure>>
  BY <1>2 DEF Serve, client
<1>4. socket BY <1>1, <1>3 DEF TypeOK
<1>5. r.id \in Ids BY DEF Request
<1>6. ASSUME NEW ok \in BOOLEAN, NEW c \in CallbackIds \cup {NULL}, Answer(r, ok, c),
             r.kind = "add" /\ ok => c \in CallbackIds
      PROVE  \E m \in Message : /\ toClient' = Append(toClient, m)
                                /\ m.id = Head(toServer).id
                                /\ Head(toServer).kind = "add" /\ m.ok
                                      => m.callback \in CallbackIds
  <2>1. PICK m \in Message : m = [id |-> r.id, ok |-> ok, callback |-> c]
    BY <1>5, RecordFacts
  <2>2. toClient' = Append(toClient, m) BY <1>6, <2>1 DEF Answer
  <2>3. m.id = r.id /\ m.ok = ok /\ m.callback = c BY <2>1
  <2> QED BY <1>2, <1>6, <2>2, <2>3
<1>7. /\ table \in [CallbackIds -> ServerCallback \cup {NULL}]
      /\ MaxUses \in Nat /\ MaxUses > 0
  BY <1>1, ConstantFacts DEF TypeOK
<1>8. ASSUME NEW c \in CallbackIdsFor(r.arg), r.arg \in Fields, Use(c, r.arg)
      PROVE  table' \in [CallbackIds -> ServerCallback \cup {NULL}]
  <2>1. c \in CallbackIds
        /\ (table[c] = NULL \/ (table[c].field = r.arg /\ table[c].uses < MaxUses))
    BY DEF CallbackIdsFor
  <2>2. table[c] # NULL => table[c] \in ServerCallback BY <1>7, <2>1
  <2>3. [field |-> r.arg, uses |-> IF table[c] = NULL THEN 1 ELSE table[c].uses + 1]
           \in ServerCallback
    BY <1>7, <1>8, <2>1, <2>2 DEF ServerCallback
  <2> QED BY <1>7, <1>8, <2>1, <2>3 DEF Use
<1>9. ASSUME r.arg \in CallbackIds, table[r.arg] # NULL, Unuse(r.arg)
      PROVE  table' \in [CallbackIds -> ServerCallback \cup {NULL}]
  <2>1. table[r.arg] \in ServerCallback BY <1>7, <1>9
  <2>2. table[r.arg].uses # 1
           => [field |-> table[r.arg].field, uses |-> table[r.arg].uses - 1] \in ServerCallback
    BY <1>7, <2>1 DEF ServerCallback
  <2> QED BY <1>7, <1>9, <2>2 DEF Unuse
<1>10. /\ \/ UNCHANGED toClient
          \/ \E m \in Message : /\ toClient' = Append(toClient, m)
                                /\ m.id = Head(toServer).id
                                /\ Head(toServer).kind = "add" /\ m.ok
                                      => m.callback \in CallbackIds
       /\ table' \in [CallbackIds -> ServerCallback \cup {NULL}]
  <2>1. CASE r.kind = "get" /\ ServeGet(r)
    <3>1. Answer(r, TRUE, NULL) /\ UNCHANGED table BY <2>1 DEF ServeGet
    <3> QED BY <1>6, <1>7, <2>1, <3>1
  <2>2. CASE r.kind = "add" /\ ServeAdd(r)
    <3>1. r.arg \in Fields BY <2>2 DEF Request
    <3>2. CASE \E c \in CallbackIdsFor(r.arg) : Use(c, r.arg) /\ Answer(r, TRUE, c)
      <4>1. PICK c \in CallbackIdsFor(r.arg) : Use(c, r.arg) /\ Answer(r, TRUE, c)
        BY <3>2
      <4>2. c \in CallbackIds BY DEF CallbackIdsFor
      <4> QED BY <1>6, <1>8, <3>1, <4>1, <4>2
    <3>3. CASE UNCHANGED table /\ (Answer(r, FALSE, NULL) \/ UNCHANGED toClient)
      BY <1>6, <1>7, <3>3
    <3> QED BY <2>2, <3>2, <3>3 DEF ServeAdd
  <2>3. CASE r.kind = "delete" /\ ServeDelete(r)
    <3>1. r.arg \in CallbackIds BY <2>3 DEF Request
    <3>2. CASE table[r.arg] # NULL /\ Unuse(r.arg) /\ Answer(r, TRUE, NULL)
      BY <1>6, <1>9, <2>3, <3>1, <3>2
    <3>3. CASE UNCHANGED table /\ (Answer(r, FALSE, NULL) \/ UNCHANGED toClient)
      BY <1>6, <1>7, <3>3
    <3>4. CASE table[r.arg] # NULL /\ Unuse(r.arg) /\ UNCHANGED toClient
      BY <1>9, <3>1, <3>4
    <3> QED BY <2>3, <3>2, <3>3, <3>4 DEF ServeDelete
  <2> QED BY <1>3, <2>1, <2>2, <2>3
<1>11. /\ toServer' \in Seq(Request) /\ toClient' \in Seq(Message)
       /\ Order' /\ Newest' /\ Kinds'
  BY <1>3, <1>10, ServeKeeps
<1>12. TypeOK' BY <1>1, <1>3, <1>4, <1>10, <1>11 DEF TypeOK, connection
<1>13. Shape' BY <1>1, <1>3 DEF Shape
<1> QED BY <1>11, <1>12, <1>13 DEF IInv

\* A message of a callback is no answer.
LEMMA NotifyStep == ASSUME NEW c \in CallbackIds PROVE IInv /\ Notify(c) => IInv'
<1> SUFFICES ASSUME IInv, Notify(c) PROVE IInv' OBVIOUS
<1>1. TypeOK /\ Order /\ Newest /\ Kinds /\ Shape BY DEF IInv
<1>2. /\ socket /\ table[c] # NULL
      /\ toClient' = Append(toClient, [id |-> c, field |-> table[c].field])
      /\ UNCHANGED <<lastId, list, restoring, call, connection, toServer, table, sure>>
  BY DEF Notify, client
<1>3. table[c].field \in Fields
  <2>1. table[c] \in ServerCallback BY <1>1, <1>2 DEF TypeOK
  <2> QED BY <2>1 DEF ServerCallback
<1>4. PICK m \in Message : m = [id |-> c, field |-> table[c].field]
  BY <1>3, RecordFacts
<1>5. m.id = c /\ m.id \notin Ids BY <1>4, ConstantFacts
<1>6. toClient \in Seq(Message) /\ Len(toClient) \in Nat
      /\ DOMAIN toClient = 1 .. Len(toClient)
  BY <1>1 DEF TypeOK
<1>7. /\ toClient' \in Seq(Message)
      /\ DOMAIN toClient' = 1 .. Len(toClient) + 1
      /\ toClient'[Len(toClient) + 1] = m
      /\ \A i \in DOMAIN toClient : toClient'[i] = toClient[i]
  BY <1>2, <1>4, <1>6, AppendFacts
<1>8. \A i \in DOMAIN toClient' :
         \/ i \in DOMAIN toClient /\ toClient'[i] = toClient[i]
         \/ toClient'[i].id \notin Ids
  BY <1>5, <1>6, <1>7
<1>9. Order' BY <1>1, <1>2, <1>8 DEF Order, IsAnswer, Age
<1>10. Newest' BY <1>1, <1>2, <1>8 DEF Newest, IsAnswer, Age
<1>11. Kinds'
  <2>1. call # NULL => call.id \in Ids BY <1>1, AgesAreNumbers
  <2> QED BY <1>1, <1>2, <1>8, <2>1 DEF Kinds
<1>12. TypeOK' BY <1>1, <1>2, <1>7 DEF TypeOK, connection
<1>13. Shape' BY <1>1, <1>2 DEF Shape
<1> QED BY <1>9, <1>10, <1>11, <1>12, <1>13 DEF IInv

LEMMA InitInv == Init => IInv
<1> SUFFICES ASSUME Init PROVE IInv OBVIOUS
<1>1. /\ list = << >> /\ toServer = << >> /\ toClient = << >> /\ call = NULL
      /\ lastId = 0 /\ restoring = 0 /\ socket = TRUE /\ reconnected = FALSE /\ sure = TRUE
      /\ table = [c \in CallbackIds |-> NULL]
  BY DEF Init
<1>2. DOMAIN toServer = {} /\ DOMAIN toClient = {} BY <1>1
<1>3. /\ list \in Seq(ClientCallback) /\ Len(list) = 0
      /\ toServer \in Seq(Request) /\ toClient \in Seq(Message)
  BY <1>1
<1>4. /\ lastId \in Ids \cup {0} /\ call \in Call \cup {NULL}
      /\ restoring \in 0 .. MaxCallbacks + 1 /\ Len(list) <= MaxCallbacks
  BY <1>1, <1>3, ConstantFacts
<1>5. table \in [CallbackIds -> ServerCallback \cup {NULL}] BY <1>1
<1>6. TypeOK BY <1>1, <1>3, <1>4, <1>5 DEF TypeOK
<1> QED BY <1>1, <1>2, <1>6 DEF IInv, Order, Newest, Kinds, Shape

\* The steps that send a request
LEMMA RequestSteps ==
    IInv /\ ((\E f \in Fields : Get(f) \/ AddCallback(f))
             \/ (\E i \in DOMAIN list : DeleteCallback(i)) \/ Restore)
       => IInv'
<1> SUFFICES ASSUME IInv PROVE (\E f \in Fields : Get(f) \/ AddCallback(f))
                                  \/ (\E i \in DOMAIN list : DeleteCallback(i)) \/ Restore
                               => IInv'
  OBVIOUS
<1>1. TypeOK /\ NextId \in Ids BY NextIdInRange DEF IInv
<1>2. /\ list \in Seq(ClientCallback) /\ Len(list) \in Nat /\ Len(list) <= MaxCallbacks
      /\ MaxCallbacks \in Nat /\ restoring \in 0 .. MaxCallbacks + 1
      /\ DOMAIN list = 1 .. Len(list) /\ sure \in BOOLEAN
  BY <1>1, ConstantFacts DEF TypeOK
<1>3. \A i \in DOMAIN list :
         i \in Callbacks /\ list[i].id \in CallbackIds /\ list[i].field \in Fields
  <2>1. \A i \in DOMAIN list : i \in Callbacks BY <1>2 DEF Callbacks
  <2>2. \A i \in DOMAIN list : list[i] \in ClientCallback BY <1>2
  <2> QED BY <2>1, <2>2 DEF ClientCallback
<1>4. ASSUME NEW f \in Fields, Get(f) PROVE IInv'
  <2>1. /\ CanSend /\ Send("get", f) /\ call' = [id |-> NextId, kind |-> "get", arg |-> f]
        /\ UNCHANGED <<list, restoring, sure>>
    BY <1>4 DEF Get
  <2>2. call' \in Call /\ [id |-> NextId, kind |-> "get", arg |-> f] \in Request
    BY <1>1, <2>1, RecordFacts
  <2>3. call'.id = NextId /\ call'.kind = "get" BY <2>1
  <2>4. Shape' BY <2>3 DEF Shape
  <2> QED BY <1>2, <2>1, <2>2, <2>3, <2>4, SendStep
<1>5. ASSUME NEW f \in Fields, AddCallback(f) PROVE IInv'
  <2>1. /\ CanSend /\ Send("add", f) /\ call' = [id |-> NextId, kind |-> "add", arg |-> f]
        /\ UNCHANGED <<list, restoring>> /\ Len(list) < MaxCallbacks /\ sure' \in BOOLEAN
    BY <1>5 DEF AddCallback
  <2>2. call' \in Call /\ [id |-> NextId, kind |-> "add", arg |-> f] \in Request
    BY <1>1, <2>1, RecordFacts
  <2>3. call'.id = NextId /\ call'.kind = "add" BY <2>1
  <2>4. Shape' BY <2>1, <2>3 DEF Shape
  <2> QED BY <1>2, <2>1, <2>2, <2>3, <2>4, SendStep
<1>6. ASSUME NEW i \in DOMAIN list, DeleteCallback(i) PROVE IInv'
  <2>1. /\ CanSend /\ Send("delete", list[i].id)
        /\ call' = [id |-> NextId, kind |-> "delete", arg |-> i]
        /\ UNCHANGED <<list, restoring, sure>>
    BY <1>6 DEF DeleteCallback
  <2>2. call' \in Call /\ [id |-> NextId, kind |-> "delete", arg |-> list[i].id] \in Request
    BY <1>1, <1>3, <2>1, RecordFacts
  <2>3. call'.id = NextId /\ call'.kind = "delete" /\ call'.arg = i BY <2>1
  <2>4. Shape' BY <2>1, <2>3 DEF Shape
  <2> QED BY <1>2, <2>1, <2>2, <2>3, <2>4, SendStep
<1>7. ASSUME Restore PROVE IInv'
  <2>1. /\ restoring \in 1 .. Len(list) /\ CanSend /\ Send("add", list[restoring].field)
        /\ call' = [id |-> NextId, kind |-> "restore", arg |-> restoring]
        /\ restoring' = restoring + 1 /\ UNCHANGED <<list, sure>>
    BY <1>7 DEF Restore
  <2>2. restoring \in DOMAIN list /\ restoring' \in 0 .. MaxCallbacks + 1 BY <1>2, <2>1
  <2>3. /\ call' \in Call
        /\ [id |-> NextId, kind |-> "add", arg |-> list[restoring].field] \in Request
    BY <1>1, <1>3, <2>1, <2>2, RecordFacts
  <2>4. call'.id = NextId /\ call'.kind = "restore" /\ call'.arg = restoring BY <2>1
  <2>5. Shape' BY <2>1, <2>2, <2>4 DEF Shape
  <2> QED BY <1>2, <2>1, <2>2, <2>3, <2>4, <2>5, SendStep
<1> QED BY <1>4, <1>5, <1>6, <1>7

LEMMA StepInv == IInv /\ [Next]_vars => IInv'
<1> SUFFICES ASSUME IInv, [Next]_vars PROVE IInv' OBVIOUS
<1>1. TypeOK BY DEF IInv
<1>2. /\ Len(list) \in Nat /\ Len(list) <= MaxCallbacks
      /\ MaxCallbacks \in Nat /\ restoring \in 0 .. MaxCallbacks + 1
      /\ sure \in BOOLEAN /\ socket \in BOOLEAN /\ reconnected \in BOOLEAN
      /\ lastId \in Ids \cup {0} /\ NextId \in Ids
  BY <1>1, ConstantFacts, NextIdInRange DEF TypeOK
<1>3. CASE (\E f \in Fields : Get(f) \/ AddCallback(f))
           \/ (\E i \in DOMAIN list : DeleteCallback(i)) \/ Restore
  BY <1>3, RequestSteps
<1>4. CASE SendFails BY <1>2, <1>4, LostStep DEF SendFails, client
<1>5. CASE Reconnect
  <2>1. sure' \in BOOLEAN BY <1>5 DEF Reconnect
  <2> QED BY <1>2, <1>5, <2>1, QuietStep DEF Reconnect, client
<1>6. CASE LoseConnection
  <2>1. /\ sure' \in BOOLEAN /\ (call' = call \/ call' = NULL)
        /\ Disconnect /\ UNCHANGED <<lastId, list, restoring>>
    BY <1>2, <1>6 DEF LoseConnection, GiveUp
  <2> QED BY <1>2, <2>1, LostStep
<1>7. CASE ReceiveAnswer BY <1>7, AnswerStep
<1>8. CASE ReceiveCallback
  <2>1. sure' \in BOOLEAN /\ (call' = call \/ call' = NULL)
    BY <1>2, <1>8 DEF ReceiveCallback, GoOn, GiveUp
  <2> QED BY <1>8, <2>1, ReadStep DEF ReceiveCallback, RunCallback
<1>9. CASE DiscardOldAnswer
  <2>1. sure' \in BOOLEAN /\ (call' = call \/ call' = NULL)
    BY <1>2, <1>9 DEF DiscardOldAnswer, GoOn, GiveUp
  <2> QED BY <1>9, <2>1, ReadStep DEF DiscardOldAnswer
<1>10. CASE ReceiveUnexpected
  <2>1. sure' \in BOOLEAN /\ call' = NULL BY <1>10 DEF ReceiveUnexpected, GiveUp
  <2> QED BY <1>10, <2>1, ReadStep DEF ReceiveUnexpected
<1>11. CASE TimeOut
  <2>1. /\ sure' \in BOOLEAN /\ call' = NULL
        /\ UNCHANGED <<lastId, list, restoring, connection, toServer, toClient, table>>
    BY <1>11 DEF TimeOut, GiveUp
  <2> QED BY <1>2, <2>1, QuietStep DEF connection
<1>12. CASE Poll
  <2>1. /\ Read /\ UNCHANGED <<list, restoring, call, connection, toServer, table, sure>>
        /\ lastId' = lastId \/ (Room /\ lastId' = NextId)
    BY <1>12 DEF Poll, RunCallback, client
  <2> QED BY <1>2, <2>1, ReadStep
<1>13. CASE StartRestore
  <2>1. 1 \in 0 .. MaxCallbacks + 1 BY <1>2
  <2> QED BY <1>2, <1>13, <2>1, QuietStep DEF StartRestore, connection
<1>14. CASE RestoreFails
  <2>1. /\ Disconnect /\ UNCHANGED <<lastId, list, call, sure>>
        /\ restoring' \in 0 .. MaxCallbacks + 1
    BY <1>2, <1>14 DEF RestoreFails
  <2> QED BY <1>2, <2>1, LostStep
<1>15. CASE EndRestore
  <2>1. 0 \in 0 .. MaxCallbacks + 1 BY <1>2
  <2> QED BY <1>2, <1>15, <2>1, QuietStep DEF EndRestore
<1>16. CASE Serve BY <1>16, ServeStep
<1>17. CASE \E c \in CallbackIds : Notify(c) BY <1>17, NotifyStep
<1>18. CASE UNCHANGED vars
  BY <1>2, <1>18, QuietStep DEF vars, client, connection
<1> QED BY <1>3, <1>4, <1>5, <1>6, <1>7, <1>8, <1>9, <1>10, <1>11, <1>12, <1>13,
           <1>14, <1>15, <1>16, <1>17, <1>18 DEF Next, Wait
-----------------------------------------------------------------------------
(* Answers, lists and sets *)

\* When the awaited answer is on its way, no later one is, and no request.
LEMMA LastAnswer ==
    ASSUME IInv, call # NULL, NEW q \in DOMAIN toClient, toClient[q].id = call.id
    PROVE  /\ toServer = << >>
           /\ \A p \in DOMAIN toClient : p > q => ~ IsAnswer(toClient[p])
<1>1. TypeOK /\ Order /\ Newest BY DEF IInv
<1>2. IsAnswer(toClient[q]) /\ Age(toClient[q].id) = Age(call.id) /\ Age(call.id) \in Nat
  BY <1>1, AgesAreNumbers DEF IsAnswer
<1>3. toServer = << >>
  <2>1. ASSUME NEW j \in DOMAIN toServer PROVE FALSE
    <3>1. Age(toServer[j].id) \in Nat BY <1>1, AgesAreNumbers
    <3>2. Age(toServer[j].id) >= Age(call.id) BY <1>1 DEF Newest
    <3>3. Age(toClient[q].id) > Age(toServer[j].id) BY <1>1, <1>2 DEF Order
    <3> QED BY <1>2, <3>1, <3>2, <3>3
  <2>2. toServer \in Seq(Request) BY <1>1 DEF TypeOK
  <2>3. Len(toServer) \in Nat /\ DOMAIN toServer = 1 .. Len(toServer) BY <2>2
  <2>4. 1 \notin DOMAIN toServer BY <2>1
  <2>5. Len(toServer) = 0 BY <2>3, <2>4
  <2> QED BY <2>2, <2>5
<1>4. ASSUME NEW p \in DOMAIN toClient, p > q, IsAnswer(toClient[p]) PROVE FALSE
  <2>1. q \in Nat /\ p \in Nat BY <1>1 DEF TypeOK
  <2>2. Age(toClient[p].id) \in Nat /\ Age(toClient[p].id) >= Age(call.id)
    BY <1>1, <1>4, AgesAreNumbers DEF Newest
  <2>3. Age(toClient[q].id) > Age(toClient[p].id)
    BY <1>1, <1>2, <1>4, <2>1 DEF Order
  <2> QED BY <1>2, <2>2, <2>3
<1> QED BY <1>3, <1>4

LEMMA RemovedElements ==
    ASSUME NEW S, NEW s \in Seq(S), NEW p \in 1 .. Len(s)
    PROVE  /\ DOMAIN RemoveAt(s, p) = 1 .. Len(s) - 1
           /\ \A i \in 1 .. Len(s) - 1 :
                 RemoveAt(s, p)[i] = s[IF i < p THEN i ELSE i + 1]
<1> DEFINE t == RemoveAt(s, p)
           front == SubSeq(s, 1, p - 1)
           back == SubSeq(s, p + 1, Len(s))
<1>1. Len(s) \in Nat /\ p \in Nat OBVIOUS
<1>2. /\ front \in Seq(S) /\ Len(front) = p - 1
      /\ \A i \in 1 .. p - 1 : front[i] = s[i]
  OBVIOUS
<1>3. /\ back \in Seq(S) /\ Len(back) = Len(s) - p
      /\ \A i \in 1 .. Len(s) - p : back[i] = s[p + i]
  OBVIOUS
<1>4. t = front \o back BY DEF RemoveAt
<1> HIDE DEF t, front, back
<1>5. t \in Seq(S) /\ Len(t) = Len(s) - 1 /\ DOMAIN t = 1 .. Len(s) - 1
  <2>1. front \o back \in Seq(S) /\ Len(front \o back) = Len(s) - 1 BY <1>2, <1>3
  <2>2. t \in Seq(S) /\ Len(t) = Len(s) - 1 BY <1>4, <2>1
  <2> QED BY <2>2
<1>6. ASSUME NEW i \in 1 .. Len(s) - 1, i < p PROVE t[i] = s[i]
  BY <1>1, <1>2, <1>3, <1>4, <1>6
<1>7. ASSUME NEW i \in 1 .. Len(s) - 1, ~ (i < p) PROVE t[i] = s[i + 1]
  <2>1. i - (p - 1) \in 1 .. Len(s) - p /\ p + (i - (p - 1)) = i + 1 BY <1>1, <1>7
  <2>2. t[i] = back[i - (p - 1)] BY <1>1, <1>2, <1>3, <1>4, <1>7
  <2> QED BY <1>3, <2>1, <2>2
<1> QED BY <1>5, <1>6, <1>7 DEF t

\* Where the positions I of a list of n are when position p, which is none of them,
\* is taken out
MovedPositions(n, p, I) == {j \in 1 .. n - 1 : (IF j < p THEN j ELSE j + 1) \in I}

LEMMA MovedUp ==
    ASSUME NEW n \in Nat, NEW p \in 1 .. n, NEW I \in SUBSET ((1 .. n) \ {p})
    PROVE  Cardinality(MovedPositions(n, p, I)) = Cardinality(I)
<1> DEFINE J == {j \in 1 .. n - 1 : (IF j < p THEN j ELSE j + 1) \in I}
           f == [j \in J |-> IF j < p THEN j ELSE j + 1]
<1>1. p \in Nat /\ (\A j \in J : j \in Nat) /\ \A i \in I : i \in Nat OBVIOUS
<1>2. f \in [J -> I] OBVIOUS
<1>3. \A a, b \in J : f[a] = f[b] => a = b BY <1>1
<1>4. ASSUME NEW i \in I PROVE \E j \in J : f[j] = i
  <2>1. CASE i < p
    <3>1. i \in 1 .. n - 1 BY <1>1, <2>1
    <3> QED BY <2>1, <3>1
  <2>2. CASE i > p
    <3>1. i - 1 \in 1 .. n - 1 /\ ~ (i - 1 < p) /\ (i - 1) + 1 = i BY <1>1, <2>2
    <3>2. i - 1 \in J BY <3>1
    <3>3. f[i - 1] = i BY <3>1, <3>2
    <3> HIDE DEF J, f
    <3> QED BY <3>2, <3>3
  <2>3. i < p \/ i > p BY <1>1
  <2> HIDE DEF J, f
  <2> QED BY <2>1, <2>2, <2>3
<1> HIDE DEF J, f
<1>5. f \in Bijection(J, I)
  BY <1>2, <1>3, <1>4 DEF Bijection, Injection, Surjection, IsInjective
<1>6. ExistsBijection(J, I) BY <1>5 DEF ExistsBijection
<1>7. IsFiniteSet(J)
  <2>1. IsFiniteSet(1 .. n - 1) /\ J \in SUBSET (1 .. n - 1) BY FS_Interval DEF J
  <2> QED BY <2>1, FS_Subset
<1> QED BY <1>6, <1>7, FS_Bijection DEF J, MovedPositions
-----------------------------------------------------------------------------
(* What the books of the client say *)

LEMMA BooksFacts ==
    IInv /\ Restoring =>
        /\ list \in Seq(ClientCallback) /\ Len(list) \in Nat /\ DOMAIN list = 1 .. Len(list)
        /\ restoring \in Nat
        /\ Current \subseteq DOMAIN list /\ Held \subseteq Current
        /\ \A i \in Current : 1 .. i \subseteq Current
        /\ IsFiniteSet(Current)
        /\ \A c : IsFiniteSet(Mine(c))
<1> SUFFICES ASSUME IInv, Restoring
             PROVE  /\ list \in Seq(ClientCallback) /\ Len(list) \in Nat
                    /\ DOMAIN list = 1 .. Len(list) /\ restoring \in Nat
                    /\ Current \subseteq DOMAIN list /\ Held \subseteq Current
                    /\ \A i \in Current : 1 .. i \subseteq Current
                    /\ IsFiniteSet(Current)
                    /\ \A c : IsFiniteSet(Mine(c))
  OBVIOUS
<1>1. TypeOK BY DEF IInv
<1>2. /\ list \in Seq(ClientCallback) /\ Len(list) \in Nat /\ DOMAIN list = 1 .. Len(list)
      /\ restoring \in Nat /\ restoring <= Len(list) + 1
  <2>1. restoring \in 0 .. MaxCallbacks + 1 BY <1>1 DEF TypeOK
  <2> QED BY <1>1, <2>1, ConstantFacts DEF TypeOK, Restoring
<1>3. \E k \in Int : Current = 1 .. k /\ k <= Len(list)
  <2>1. CASE ~ reconnected
    <3>1. Current = 1 .. Len(list) BY <1>2, <2>1 DEF Current
    <3>2. Len(list) \in Int /\ Len(list) <= Len(list) BY <1>2
    <3> QED BY <3>1, <3>2
  <2>2. CASE reconnected /\ Awaits({"restore"})
    <3>1. restoring - 2 \in Int /\ restoring - 2 <= Len(list) BY <1>2
    <3> QED BY <2>2, <3>1 DEF Current
  <2>3. CASE reconnected /\ ~ Awaits({"restore"})
    <3>1. restoring - 1 \in Int /\ restoring - 1 <= Len(list) BY <1>2
    <3> QED BY <2>3, <3>1 DEF Current
  <2> QED BY <2>1, <2>2, <2>3
<1>4. PICK k \in Int : Current = 1 .. k /\ k <= Len(list) BY <1>3
<1>5. Current \subseteq DOMAIN list /\ \A i \in Current : 1 .. i \subseteq Current
  BY <1>2, <1>4
<1>6. IsFiniteSet(Current) BY <1>4, FS_Interval
<1>7. Held \subseteq Current BY DEF Held
<1>8. ASSUME NEW c PROVE IsFiniteSet(Mine(c))
  <2>1. Mine(c) \in SUBSET Current BY <1>7 DEF Mine
  <2> QED BY <1>6, <2>1, FS_Subset
<1> QED BY <1>2, <1>5, <1>6, <1>7, <1>8

LEMMA InTheList ==
    ASSUME IInv, Restoring
    PROVE  \A i \in DOMAIN list : list[i].id \in CallbackIds /\ list[i].field \in Fields
<1>1. \A i \in DOMAIN list : list[i] \in ClientCallback BY BooksFacts
<1> QED BY <1>1 DEF ClientCallback

\* No use of the server's is on its way to the client or from it.
Quiet == Granted = {} \/ ~ AboutCallback

LEMMA QuietFacts == Quiet => Held = Current /\ \A c : ~ NewUse(c)
BY DEF Quiet, AboutCallback, Awaits, Held, NewUse

LEMMA InTable ==
    ASSUME IInv
    PROVE  \A c \in CallbackIds : table[c] # NULL =>
               table[c].field \in Fields /\ table[c].uses \in Nat /\ table[c].uses > 0
<1>1. \A c \in CallbackIds : table[c] # NULL => table[c] \in ServerCallback
  BY DEF IInv, TypeOK
<1> QED BY <1>1, ConstantFacts DEF ServerCallback
-----------------------------------------------------------------------------
(* Restoring *)

LEMMA SentCalls ==
    ASSUME IInv
    PROVE  /\ \A f \in Fields : Get(f) \/ AddCallback(f) => call' # NULL
           /\ \A i \in DOMAIN list : DeleteCallback(i) => call' # NULL
           /\ Restore => call' # NULL
<1>1. IInv => NextId \in Ids BY NextIdInRange DEF IInv
<1>2. list \in Seq(ClientCallback) /\ Len(list) <= MaxCallbacks BY DEF IInv, TypeOK
<1>3. MaxCallbacks \in Nat /\ Len(list) \in Nat BY <1>2, ConstantFacts
<1>4. \A i \in 1 .. Len(list) : i \in Callbacks BY <1>2, <1>3 DEF Callbacks
<1>5. NULL \notin Call BY NullAssumption
<1>6. ASSUME NEW f \in Fields, Get(f) PROVE call' # NULL
  <2>1. call' = [id |-> NextId, kind |-> "get", arg |-> f] BY <1>6 DEF Get
  <2>2. [id |-> NextId, kind |-> "get", arg |-> f] \in Call BY <1>1, RecordFacts
  <2> QED BY <1>5, <2>1, <2>2
<1>7. ASSUME NEW f \in Fields, AddCallback(f) PROVE call' # NULL
  <2>1. call' = [id |-> NextId, kind |-> "add", arg |-> f] BY <1>7 DEF AddCallback
  <2>2. [id |-> NextId, kind |-> "add", arg |-> f] \in Call BY <1>1, RecordFacts
  <2> QED BY <1>5, <2>1, <2>2
<1>8. ASSUME NEW i \in DOMAIN list, DeleteCallback(i) PROVE call' # NULL
  <2>1. call' = [id |-> NextId, kind |-> "delete", arg |-> i] BY <1>8 DEF DeleteCallback
  <2>2. i \in Callbacks BY <1>2, <1>4
  <2>3. [id |-> NextId, kind |-> "delete", arg |-> i] \in Call
    BY <1>1, <2>2, RecordFacts
  <2> QED BY <1>5, <2>1, <2>3
<1>9. ASSUME Restore PROVE call' # NULL
  <2>1. call' = [id |-> NextId, kind |-> "restore", arg |-> restoring]
        /\ restoring \in 1 .. Len(list)
    BY <1>9 DEF Restore
  <2>2. [id |-> NextId, kind |-> "restore", arg |-> restoring] \in Call
    BY <1>1, <1>4, <2>1, RecordFacts
  <2> QED BY <1>5, <2>1, <2>2
<1> QED BY <1>6, <1>7, <1>8, <1>9

\* No step of the restoration, no new request, and no new connection
LEMMA RestoringKept ==
    ASSUME Restoring, UNCHANGED <<list, restoring, socket, reconnected>>,
           call' = call \/ call' = NULL, sure' => sure, UNCHANGED table \/ socket
    PROVE  Restoring'
<1>1. call' # NULL => call' = call OBVIOUS
<1> QED BY <1>1 DEF Restoring, Awaits

LEMMA RestoringLost ==
    ASSUME Restoring, Disconnect, UNCHANGED list, call' = call \/ call' = NULL,
           \/ restoring' = restoring
           \/ call' = NULL /\ restoring' <= Len(list) + 1
    PROVE  Restoring'
<1>1. ~ socket' /\ \A c \in CallbackIds : table'[c] = NULL BY DEF Disconnect
<1>2. call' # NULL => call' = call /\ restoring' = restoring OBVIOUS
<1> QED BY <1>1, <1>2 DEF Restoring

LEMMA RestoringStep == IInv /\ IInv' /\ Restoring /\ [Next]_vars => Restoring'
<1> SUFFICES ASSUME IInv, IInv', Restoring, [Next]_vars PROVE Restoring' OBVIOUS
<1>1. /\ list \in Seq(ClientCallback) /\ Len(list) \in Nat /\ DOMAIN list = 1 .. Len(list)
      /\ restoring \in Nat /\ restoring <= Len(list) + 1
      /\ sure \in BOOLEAN /\ list' \in Seq(ClientCallback) /\ Len(list') \in Nat
  <2>1. list' \in Seq(ClientCallback) /\ sure \in BOOLEAN BY DEF IInv, TypeOK
  <2> QED BY <2>1, BooksFacts DEF Restoring
<1>2. ASSUME NEW f \in Fields, Get(f) PROVE Restoring'
  <2>1. /\ restoring = 0 /\ socket /\ call'.kind = "get"
        /\ UNCHANGED <<list, restoring, socket, reconnected, table, sure>>
    BY <1>2 DEF Get, Idle, CanSend, Send, connection
  <2> QED BY <1>1, <2>1 DEF Restoring, Awaits
<1>3. ASSUME NEW f \in Fields, AddCallback(f) PROVE Restoring'
  <2>1. /\ restoring = 0 /\ socket /\ call'.kind = "add"
        /\ UNCHANGED <<list, restoring, socket, reconnected, table>>
        /\ sure' = (sure /\ ~ reconnected)
    BY <1>3 DEF AddCallback, Idle, CanSend, Send, connection
  <2> QED BY <1>1, <2>1 DEF Restoring, Awaits
<1>4. ASSUME NEW i \in DOMAIN list, DeleteCallback(i) PROVE Restoring'
  <2>1. /\ restoring = 0 /\ socket /\ call'.kind = "delete"
        /\ UNCHANGED <<list, restoring, socket, reconnected, table, sure>>
    BY <1>4 DEF DeleteCallback, Idle, CanSend, Send, connection
  <2> QED BY <1>1, <2>1 DEF Restoring, Awaits
<1>5. CASE Restore
  <2>1. /\ restoring \in 1 .. Len(list) /\ socket
        /\ call'.kind = "restore" /\ call'.arg = restoring /\ restoring' = restoring + 1
        /\ UNCHANGED <<list, socket, reconnected, table, sure>>
    BY <1>5 DEF Restore, CanSend, Send, connection
  <2>2. restoring' <= Len(list') + 1 BY <1>1, <2>1
  <2>3. sure /\ socket => reconnected BY <1>1, <2>1 DEF Restoring
  <2> QED BY <2>1, <2>2, <2>3 DEF Restoring, Awaits
<1>6. CASE SendFails \/ LoseConnection \/ RestoreFails
  <2>1. Disconnect /\ UNCHANGED list BY <1>6 DEF SendFails, LoseConnection, RestoreFails, client
  <2>2. call' = call \/ call' = NULL
    BY <1>6 DEF SendFails, LoseConnection, RestoreFails, GiveUp, client
  <2>3. restoring' = restoring \/ (call' = NULL /\ restoring' <= Len(list) + 1)
    BY <1>1, <1>6 DEF SendFails, LoseConnection, RestoreFails, client
  <2> QED BY <2>1, <2>2, <2>3, RestoringLost
<1>7. CASE Reconnect
  <2>1. /\ ~ socket /\ call' = NULL /\ reconnected'
        /\ UNCHANGED <<list, restoring, table>>
    BY <1>7 DEF Reconnect, client
  <2> QED BY <2>1 DEF Restoring, Awaits
<1>8. CASE ReceiveAnswer
  <2>1. /\ call # NULL /\ call' = NULL /\ Finish(First) /\ (sure' => sure)
        /\ UNCHANGED <<restoring, socket, reconnected, table>>
    BY <1>8 DEF ReceiveAnswer, connection
  <2>2. restoring <= Len(list') + 1
    <3>1. CASE First.ok /\ call.kind = "add"
      <4>1. Len(Append(list, [field |-> call.arg, id |-> First.callback])) = Len(list) + 1
        BY <1>1
      <4> QED BY <1>1, <2>1, <3>1, <4>1 DEF Finish
    <3>2. CASE First.ok /\ call.kind = "restore"
      <4>1. list' = [list EXCEPT ![call.arg].id = First.callback]
        BY <2>1, <3>2 DEF Finish
      <4>2. DOMAIN list' = DOMAIN list BY <4>1
      <4>3. Len(list') = Len(list) BY <1>1, <4>2
      <4> QED BY <1>1, <4>3
    <3>3. CASE First.ok /\ call.kind = "delete"
      <4>1. restoring = 0 BY <2>1, <3>3 DEF Restoring
      <4> QED BY <1>1, <4>1
    <3>4. CASE ~ (First.ok /\ call.kind \in {"add", "restore", "delete"})
      BY <1>1, <2>1, <3>4 DEF Finish
    <3> QED BY <3>1, <3>2, <3>3, <3>4
  <2> QED BY <2>1, <2>2 DEF Restoring, Awaits
<1>9. CASE ReceiveCallback \/ DiscardOldAnswer \/ ReceiveUnexpected \/ TimeOut \/ Poll
  <2>1. /\ UNCHANGED <<list, restoring, socket, reconnected, table>>
        /\ call' = call \/ call' = NULL
    BY <1>9 DEF ReceiveCallback, DiscardOldAnswer, ReceiveUnexpected, TimeOut, Poll,
                GoOn, GiveUp, client, connection
  <2>2. sure' => sure
    BY <1>9 DEF ReceiveCallback, DiscardOldAnswer, ReceiveUnexpected, TimeOut, Poll,
                GoOn, GiveUp
  <2> QED BY <2>1, <2>2, RestoringKept
<1>10. CASE StartRestore
  <2>1. /\ call' = NULL /\ socket /\ reconnected /\ restoring' = 1
        /\ UNCHANGED <<list, socket, reconnected, table, sure>>
    BY <1>10 DEF StartRestore, Idle, connection
  <2>2. restoring' <= Len(list') + 1 BY <1>1, <2>1
  <2> QED BY <2>1, <2>2 DEF Restoring, Awaits
<1>11. CASE EndRestore
  <2>1. /\ call' = NULL /\ restoring' = 0 /\ UNCHANGED <<list, socket, table>>
    BY <1>11 DEF EndRestore
  <2>2. restoring' <= Len(list') + 1 BY <1>1, <2>1
  <2> QED BY <2>1, <2>2 DEF Restoring, Awaits
<1>12. CASE Serve
  <2>1. socket BY <1>12 DEF Serve, IInv, TypeOK
  <2> QED BY <1>12, <2>1, RestoringKept DEF Serve, client, connection
<1>13. ASSUME NEW c \in CallbackIds, Notify(c) PROVE Restoring'
  BY <1>13, RestoringKept DEF Notify, client, connection
<1>14. CASE UNCHANGED vars BY <1>14, RestoringKept DEF vars, client, connection
<1> QED BY <1>2, <1>3, <1>4, <1>5, <1>6, <1>7, <1>8, <1>9, <1>10, <1>11, <1>12, <1>13,
           <1>14 DEF Next, Wait
-----------------------------------------------------------------------------
(* Requests on their way *)

\* No new request: the one that is under way goes on or is over.
LEMMA RequestsKept ==
    ASSUME Requests, sure' => sure, UNCHANGED list,
           \A j \in DOMAIN toServer' : \E k \in DOMAIN toServer : toServer'[j] = toServer[k],
           call' = call \/ (call' = NULL /\ (sure' => ~ AboutCallback))
    PROVE  Requests'
<1> SUFFICES ASSUME sure', NEW j \in DOMAIN toServer'
             PROVE  LET r == toServer'[j] IN
                    /\ r.kind # "get" => AboutCallback' /\ r.id = call'.id
                    /\ call' # NULL /\ r.id = call'.id =>
                         /\ call'.kind = "get" => r.kind = "get"
                         /\ Awaits({"add", "restore"})' => r.kind = "add" /\ r.arg = AddedField'
                         /\ Awaits({"delete"})'
                               => r.kind = "delete" /\ r.arg = list'[call'.arg].id
  BY DEF Requests
<1>1. PICK k \in DOMAIN toServer : toServer'[j] = toServer[k] OBVIOUS
<1>2. CASE call' = call
  <2>1. /\ AboutCallback' = AboutCallback /\ AddedField' = AddedField
        /\ Awaits({"add", "restore"})' = Awaits({"add", "restore"})
        /\ Awaits({"delete"})' = Awaits({"delete"})
    BY <1>2 DEF AboutCallback, Awaits, AddedField
  <2> QED BY <1>1, <1>2, <2>1 DEF Requests
<1>3. CASE call' = NULL /\ ~ AboutCallback
  <2>1. toServer[k].kind = "get" BY <1>3 DEF Requests
  <2>2. ~ Awaits({"add", "restore"})' /\ ~ Awaits({"delete"})' BY <1>3 DEF Awaits
  <2> QED BY <1>1, <1>3, <2>1, <2>2
<1> QED BY <1>2, <1>3

\* A new request, that is what the call is about
LEMMA RequestsSent ==
    ASSUME IInv, Requests, sure' => sure, call = NULL, call' # NULL, Room,
           NEW kind, NEW arg, Send(kind, arg), call'.id = NextId,
           [id |-> NextId, kind |-> kind, arg |-> arg] \in Request,
           kind # "get" => AboutCallback', call'.kind = "get" => kind = "get",
           Awaits({"add", "restore"})' => kind = "add" /\ arg = AddedField',
           Awaits({"delete"})' => kind = "delete" /\ arg = list'[call'.arg].id
    PROVE  Requests'
<1>1. toServer \in Seq(Request) /\ TypeOK BY DEF IInv, TypeOK
<1>2. PICK r \in Request : r = [id |-> NextId, kind |-> kind, arg |-> arg] OBVIOUS
<1>3. r.id = NextId /\ r.kind = kind /\ r.arg = arg BY <1>2
<1>4. toServer' = Append(toServer, r) BY <1>2 DEF Send
<1>5. /\ DOMAIN toServer' = 1 .. Len(toServer) + 1
      /\ toServer'[Len(toServer) + 1] = r
      /\ \A j \in DOMAIN toServer : toServer'[j] = toServer[j]
  BY <1>1, <1>4, AppendFacts
<1>6. \A j \in DOMAIN toServer' : j \in DOMAIN toServer \/ toServer'[j] = r
  BY <1>1, <1>5
<1>7. ~ AboutCallback BY DEF AboutCallback, Awaits
<1>8. ASSUME sure', NEW j \in DOMAIN toServer
      PROVE  toServer[j].kind = "get" /\ toServer[j].id # call'.id
  <2>1. toServer[j].kind = "get" BY <1>7, <1>8 DEF Requests
  <2>2. toServer[j].id # NextId BY <1>1, RoomAges
  <2> QED BY <2>1, <2>2
<1> SUFFICES ASSUME sure', NEW j \in DOMAIN toServer'
             PROVE  LET q == toServer'[j] IN
                    /\ q.kind # "get" => AboutCallback' /\ q.id = call'.id
                    /\ call' # NULL /\ q.id = call'.id =>
                         /\ call'.kind = "get" => q.kind = "get"
                         /\ Awaits({"add", "restore"})' => q.kind = "add" /\ q.arg = AddedField'
                         /\ Awaits({"delete"})'
                               => q.kind = "delete" /\ q.arg = list'[call'.arg].id
  BY DEF Requests
<1>9. CASE j \in DOMAIN toServer BY <1>5, <1>8, <1>9
<1>10. CASE toServer'[j] = r BY <1>3, <1>10
<1> QED BY <1>6, <1>9, <1>10

LEMMA RequestsStep == IInv /\ Restoring /\ Requests /\ [Next]_vars => Requests'
<1> SUFFICES ASSUME IInv, Restoring, Requests, [Next]_vars PROVE Requests' OBVIOUS
<1>1. TypeOK /\ NextId \in Ids BY NextIdInRange DEF IInv
<1>2. /\ toServer \in Seq(Request)
      /\ \A j \in DOMAIN toServer : \E k \in DOMAIN toServer : toServer[j] = toServer[k]
  BY <1>1 DEF TypeOK
<1>3. ASSUME NEW f \in Fields, Get(f) PROVE Requests'
  <2>1. /\ call = NULL /\ Room /\ Send("get", f) /\ call'.id = NextId
        /\ call'.kind = "get" /\ sure' = sure
    BY <1>3 DEF Get, Idle, CanSend
  <2>2. [id |-> NextId, kind |-> "get", arg |-> f] \in Request BY <1>1, RecordFacts
  <2>3. ~ Awaits({"add", "restore"})' /\ ~ Awaits({"delete"})' BY <2>1 DEF Awaits
  <2>4. call' # NULL BY <1>3, SentCalls
  <2> QED BY <2>1, <2>2, <2>3, <2>4, RequestsSent
<1>4. ASSUME NEW f \in Fields, AddCallback(f) PROVE Requests'
  <2>1. /\ call = NULL /\ Room /\ Send("add", f) /\ call'.id = NextId
        /\ call'.kind = "add" /\ call'.arg = f /\ (sure' => sure)
    BY <1>4 DEF AddCallback, Idle, CanSend
  <2>2. [id |-> NextId, kind |-> "add", arg |-> f] \in Request BY <1>1, RecordFacts
  <2>3. AddedField' = f /\ ~ Awaits({"delete"})' BY <2>1 DEF Awaits, AddedField
  <2>4. call' # NULL BY <1>4, SentCalls
  <2>5. AboutCallback' BY <2>1, <2>4 DEF AboutCallback, Awaits
  <2> QED BY <2>1, <2>2, <2>3, <2>4, <2>5, RequestsSent
<1>5. ASSUME NEW i \in DOMAIN list, DeleteCallback(i) PROVE Requests'
  <2>1. /\ call = NULL /\ Room /\ Send("delete", list[i].id) /\ call'.id = NextId
        /\ call'.kind = "delete" /\ call'.arg = i /\ sure' = sure /\ list' = list
    BY <1>5 DEF DeleteCallback, Idle, CanSend
  <2>2. [id |-> NextId, kind |-> "delete", arg |-> list[i].id] \in Request
    BY <1>1, InTheList, RecordFacts
  <2>3. ~ Awaits({"add", "restore"})' BY <2>1 DEF Awaits
  <2>4. call' # NULL BY <1>5, SentCalls
  <2>5. AboutCallback' BY <2>1, <2>4 DEF AboutCallback, Awaits
  <2> QED BY <2>1, <2>2, <2>3, <2>4, <2>5, RequestsSent
<1>6. CASE Restore
  <2>1. /\ restoring \in 1 .. Len(list) /\ call = NULL /\ Room
        /\ Send("add", list[restoring].field) /\ call'.id = NextId
        /\ call'.kind = "restore" /\ call'.arg = restoring /\ sure' = sure /\ list' = list
    BY <1>6 DEF Restore, CanSend
  <2>2. restoring \in DOMAIN list BY <2>1, BooksFacts
  <2>3. [id |-> NextId, kind |-> "add", arg |-> list[restoring].field] \in Request
    BY <1>1, <2>2, InTheList, RecordFacts
  <2>4. AddedField' = list[restoring].field /\ ~ Awaits({"delete"})'
    BY <2>1 DEF Awaits, AddedField
  <2>5. call' # NULL BY <1>6, SentCalls
  <2>6. AboutCallback' BY <2>1, <2>5 DEF AboutCallback, Awaits
  <2> QED BY <2>1, <2>3, <2>4, <2>5, <2>6, RequestsSent
<1>7. CASE SendFails \/ LoseConnection \/ RestoreFails
  <2>1. toServer' = << >> BY <1>7 DEF SendFails, LoseConnection, RestoreFails, Disconnect
  <2>2. DOMAIN toServer' = {} BY <2>1
  <2> QED BY <2>2 DEF Requests
<1>8. CASE Reconnect
  <2>1. toServer' = << >> BY <1>1, <1>8 DEF Reconnect, TypeOK
  <2>2. DOMAIN toServer' = {} BY <2>1
  <2> QED BY <2>2 DEF Requests
<1>9. CASE ReceiveAnswer
  <2>1. /\ call # NULL /\ 1 \in DOMAIN toClient /\ toClient[1].id = call.id
        /\ toServer' = toServer
    BY <1>1, <1>9 DEF ReceiveAnswer, Read, First, TypeOK
  <2>2. toServer' = << >> BY <2>1, LastAnswer
  <2>3. DOMAIN toServer' = {} BY <2>2
  <2> QED BY <2>3 DEF Requests
<1>10. CASE ReceiveCallback \/ DiscardOldAnswer \/ ReceiveUnexpected \/ TimeOut \/ Poll
  <2>1. UNCHANGED <<list, toServer>>
    BY <1>10 DEF ReceiveCallback, DiscardOldAnswer, ReceiveUnexpected, TimeOut, Poll, client
  <2>2. (call' = call /\ sure' = sure) \/ GiveUp
    BY <1>10 DEF ReceiveCallback, DiscardOldAnswer, ReceiveUnexpected, TimeOut, Poll,
                 GoOn, client
  <2>3. GiveUp => call' = NULL /\ (sure' => sure /\ ~ AboutCallback)
    BY DEF GiveUp, AboutCallback, Awaits
  <2> QED BY <1>2, <2>1, <2>2, <2>3, RequestsKept
<1>11. CASE StartRestore \/ EndRestore \/ UNCHANGED vars
  BY <1>2, <1>11, RequestsKept DEF StartRestore, EndRestore, vars, client
<1>12. CASE Serve
  <2>1. /\ UNCHANGED <<list, call, sure>> /\ toServer # << >> /\ toServer' = Tail(toServer)
    BY <1>12 DEF Serve, client
  <2>2. \A j \in DOMAIN toServer' : j + 1 \in DOMAIN toServer /\ toServer'[j] = toServer[j + 1]
    BY <1>2, <2>1
  <2> QED BY <2>1, <2>2, RequestsKept
<1>13. ASSUME NEW c \in CallbackIds, Notify(c) PROVE Requests'
  BY <1>2, <1>13, RequestsKept DEF Notify, client
<1> QED BY <1>3, <1>4, <1>5, <1>6, <1>7, <1>8, <1>9, <1>10, <1>11, <1>12, <1>13
        DEF Next, Wait
-----------------------------------------------------------------------------
(* Books that stay as they are *)

\* Nothing that counts is on its way, before the step or after it.
LEMMA BooksIdle ==
    ASSUME Books, Quiet, Quiet', UNCHANGED <<list, table>>, sure' => sure,
           socket' => socket, Current' = Current,
           \A p \in DOMAIN toClient' : ~ IsAnswer(toClient'[p]) =>
               \E q \in DOMAIN toClient : toClient[q] = toClient'[p]
    PROVE  Books'
<1>1. Held = Current /\ \A c : ~ NewUse(c) BY QuietFacts
<1>2. Held' = Current' /\ \A c : ~ NewUse(c)'
  BY DEF Quiet, AboutCallback, Awaits, Held, NewUse
<1>3. Counted'
  <2> SUFFICES ASSUME sure', socket', NEW c \in CallbackIds PROVE Booked(c)' BY DEF Counted
  <2>1. Booked(c) BY DEF Books, Counted
  <2>2. Mine(c)' = Mine(c) BY <1>1, <1>2 DEF Mine
  <2> QED BY <1>1, <1>2, <2>1, <2>2 DEF Booked
<1>4. OneField' BY DEF Books, OneField
<1>5. Told'
  <2> SUFFICES ASSUME sure', socket', NEW p \in DOMAIN toClient', ~ IsAnswer(toClient'[p])
               PROVE  ToldAt(p)'
    BY DEF Told, IsAnswer
  <2>1. PICK q \in DOMAIN toClient : toClient[q] = toClient'[p] OBVIOUS
  <2>2. ToldAt(q) BY <2>1 DEF Books, Told
  <2>3. Has(Current, toClient[q]) BY <1>1, <2>2 DEF ToldAt
  <2> QED BY <1>2, <2>1, <2>3 DEF ToldAt, Has
<1> QED BY <1>3, <1>4, <1>5 DEF Books

\* A message is read that is no answer to the request, which goes on.
LEMMA BooksRead ==
    ASSUME IInv, Books, Read, UNCHANGED <<list, table, call, restoring, reconnected>>,
           sure' => sure, socket' => socket, call # NULL => First.id # call.id
    PROVE  Books'
<1>1. /\ toClient \in Seq(Message) /\ toClient # << >> /\ toClient' = Tail(toClient)
      /\ First = toClient[1]
  BY DEF IInv, TypeOK, Read, First
<1>2. /\ Len(toClient) \in Nat /\ DOMAIN toClient = 1 .. Len(toClient)
      /\ DOMAIN toClient' = 1 .. Len(toClient) - 1
      /\ \A q \in DOMAIN toClient' : q + 1 \in DOMAIN toClient /\ toClient'[q] = toClient[q + 1]
  BY <1>1
<1>3. \A q \in DOMAIN toClient' : q \in Granted' <=> q + 1 \in Granted
  BY <1>2 DEF Granted
<1>4. \A q \in Granted' : q \in DOMAIN toClient' BY DEF Granted
<1>5. \A q \in Granted : q - 1 \in DOMAIN toClient' /\ (q - 1) + 1 = q
  <2>1. \A q \in Granted : q \in DOMAIN toClient /\ q # 1 BY <1>1 DEF Granted
  <2> QED BY <1>2, <2>1
<1>6. \A q \in Granted : q - 1 \in Granted' /\ toClient'[q - 1] = toClient[q]
  BY <1>2, <1>3, <1>5
<1>7. Granted' = {} <=> Granted = {} BY <1>3, <1>4, <1>6
<1>8. Current' = Current BY DEF Current, Awaits
<1>9. Held' = Held BY <1>7, <1>8 DEF Held, Awaits
<1>10. \A c : NewUse(c)' <=> NewUse(c) BY <1>2, <1>3, <1>4, <1>6 DEF NewUse, Awaits
<1>11. AddedField' = AddedField BY DEF AddedField
<1>12. Counted'
  <2> SUFFICES ASSUME sure', socket', NEW c \in CallbackIds PROVE Booked(c)' BY DEF Counted
  <2>1. Booked(c) BY DEF Books, Counted
  <2>2. Mine(c)' = Mine(c) BY <1>9 DEF Mine
  <2>3. NewUse(c)' <=> NewUse(c) BY <1>10
  <2> QED BY <1>11, <2>1, <2>2, <2>3 DEF Booked
<1>13. OneField' BY <1>8 DEF Books, OneField
<1>14. Told'
  <2> SUFFICES ASSUME sure', socket', NEW p \in DOMAIN toClient', ~ IsAnswer(toClient'[p])
               PROVE  ToldAt(p)'
    BY DEF Told, IsAnswer
  <2>1. p \in Nat /\ p + 1 \in DOMAIN toClient /\ toClient'[p] = toClient[p + 1] BY <1>2
  <2>2. ToldAt(p + 1) BY <2>1 DEF Books, Told
  <2>3. (\E q \in Granted' : q < p) <=> \E q \in Granted : q < p + 1
    <3>1. ASSUME NEW q \in Granted', q < p PROVE \E k \in Granted : k < p + 1
      <4>1. q \in Nat /\ q + 1 \in Granted BY <1>2, <1>3, <1>4
      <4> QED BY <2>1, <3>1, <4>1
    <3>2. ASSUME NEW q \in Granted, q < p + 1 PROVE \E k \in Granted' : k < p
      <4>1. q \in Nat /\ q - 1 \in Granted' BY <1>2, <1>6 DEF Granted
      <4> QED BY <2>1, <3>2, <4>1
    <3> QED BY <3>1, <3>2
  <2> DEFINE m == toClient[p + 1]
  <2>5. /\ Has(Held, m) => \E i \in Held' : list'[i].id = m.id /\ list'[i].field = m.field
        /\ Has(Current, m) => \E i \in Current' : list'[i].id = m.id /\ list'[i].field = m.field
    BY <1>8, <1>9 DEF Has
  <2>6. NewUse(m.id) => NewUse(toClient[p].id)'
    BY <1>2, <1>3, <1>4, <1>6, <2>1 DEF NewUse, Awaits
  <2> QED BY <1>11, <2>1, <2>2, <2>3, <2>5, <2>6 DEF ToldAt, Has
<1> QED BY <1>12, <1>13, <1>14 DEF Books

\* The server sends a message for a callback that the client will have.
LEMMA BooksNotified ==
    ASSUME IInv, Restoring, Books, NEW c \in CallbackIds, Notify(c) PROVE Books'
<1>1. /\ socket /\ table[c] # NULL
      /\ toClient' = Append(toClient, [id |-> c, field |-> table[c].field])
      /\ UNCHANGED <<list, table, call, restoring, reconnected, socket, sure>>
  BY DEF Notify, client, connection
<1>2. table[c].field \in Fields /\ table[c].uses \in Nat /\ table[c].uses > 0
  BY <1>1, InTable
<1>3. PICK m \in Message : m = [id |-> c, field |-> table[c].field]
  BY <1>2, RecordFacts
<1>4. m.id = c /\ m.field = table[c].field /\ m.id \notin Ids BY <1>3, ConstantFacts
<1> DEFINE n == Len(toClient)
<1>5. toClient \in Seq(Message) /\ n \in Nat /\ DOMAIN toClient = 1 .. n
  BY DEF IInv, TypeOK
<1>6. /\ DOMAIN toClient' = 1 .. n + 1 /\ toClient'[n + 1] = m
      /\ \A q \in DOMAIN toClient : toClient'[q] = toClient[q]
  <2>1. toClient' = Append(toClient, m) BY <1>1, <1>3
  <2> HIDE DEF n
  <2> QED BY <1>5, <2>1, AppendFacts DEF n
<1> HIDE DEF n
<1>7. \A q \in DOMAIN toClient' : q \in DOMAIN toClient \/ q = n + 1 BY <1>5, <1>6
<1>8. call # NULL => call.id \in Ids BY AgesAreNumbers DEF IInv
<1>9. Granted' = Granted
  <2>1. n + 1 \notin Granted' BY <1>1, <1>4, <1>6, <1>8 DEF Granted
  <2>2. \A q \in DOMAIN toClient : q \in Granted' <=> q \in Granted
    BY <1>1, <1>5, <1>6 DEF Granted
  <2>3. /\ \A q \in Granted : q \in DOMAIN toClient
        /\ \A q \in Granted' : q \in DOMAIN toClient'
    BY DEF Granted
  <2> QED BY <1>7, <2>1, <2>2, <2>3
<1>10. Current' = Current BY <1>1 DEF Current, Awaits
<1>11. Held' = Held BY <1>1, <1>9, <1>10 DEF Held, Awaits
<1>12. \A q \in Granted : q \in DOMAIN toClient /\ toClient'[q] = toClient[q]
  BY <1>6 DEF Granted
<1>13. \A d : NewUse(d)' <=> NewUse(d) BY <1>1, <1>9, <1>12 DEF NewUse, Awaits
<1>14. AddedField' = AddedField BY <1>1 DEF AddedField
<1>15. Counted'
  <2> SUFFICES ASSUME sure', socket', NEW d \in CallbackIds PROVE Booked(d)' BY DEF Counted
  <2>1. Booked(d) BY <1>1 DEF Books, Counted
  <2>2. Mine(d)' = Mine(d) BY <1>1, <1>11 DEF Mine
  <2>3. NewUse(d)' <=> NewUse(d) BY <1>13
  <2> QED BY <1>1, <1>14, <2>1, <2>2, <2>3 DEF Booked
<1>16. OneField' BY <1>1, <1>10 DEF Books, OneField
<1>17. Told'
  <2> SUFFICES ASSUME sure', socket', NEW p \in DOMAIN toClient', ~ IsAnswer(toClient'[p])
               PROVE  ToldAt(p)'
    BY DEF Told, IsAnswer
  <2>1. CASE p \in DOMAIN toClient
    <3>1. ToldAt(p) BY <1>1, <1>6, <2>1 DEF Books, Told
    <3>2. toClient'[p] = toClient[p] BY <1>6, <2>1
    <3>3. NewUse(toClient[p].id) => NewUse(toClient[p].id)'
      BY <1>1, <1>9, <1>12, <3>2 DEF NewUse, Awaits
    <3> QED BY <1>1, <1>9, <1>10, <1>11, <1>14, <3>1, <3>2, <3>3 DEF ToldAt, Has
  <2>2. CASE p = n + 1
    <3>1. Booked(c) BY <1>1 DEF Books, Counted
    <3>2. Mine(c) # {} \/ NewUse(c)
      <4>1. Mine(c) = {} => Cardinality(Mine(c)) = 0 BY FS_EmptySet
      <4> QED BY <1>1, <1>2, <3>1, <4>1 DEF Booked
    <3>3. \/ \E i \in Held : list[i].id = c /\ list[i].field = table[c].field
          \/ NewUse(c) /\ AddedField = table[c].field
      BY <1>1, <3>1, <3>2 DEF Booked, Mine
    <3>4. toClient'[p] = m BY <1>6, <2>2
    <3>5. NewUse(c) => NewUse(toClient[p].id)'
      BY <1>1, <1>4, <1>9, <1>12, <3>4 DEF NewUse, Awaits
    <3>6. CASE \E q \in Granted' : q < p
      BY <1>1, <1>4, <1>11, <1>14, <3>3, <3>4, <3>5, <3>6 DEF ToldAt, Has
    <3>7. CASE ~ \E q \in Granted' : q < p
      <4>1. Granted = {}
        <5>1. \A q \in Granted : q < p BY <1>5, <2>2 DEF Granted
        <5> QED BY <1>9, <3>7, <5>1
      <4>2. Held = Current /\ ~ NewUse(c) BY <4>1 DEF Held, NewUse
      <4>3. \E i \in Current' : list'[i].id = m.id /\ list'[i].field = m.field
        BY <1>1, <1>4, <1>10, <3>3, <4>2
      <4> QED BY <3>4, <3>7, <4>3 DEF ToldAt, Has
    <3> QED BY <3>6, <3>7
  <2> QED BY <1>7, <2>1, <2>2
<1> QED BY <1>15, <1>16, <1>17 DEF Books
-----------------------------------------------------------------------------
(* The server grants a request *)

\* The answer that grants the request is the last message, and the only one.
LEMMA AnswerGranted ==
    ASSUME IInv, call # NULL, toServer # << >>, UNCHANGED call,
           NEW m \in Message, m.id = call.id, m.ok, toClient' = Append(toClient, m)
    PROVE  /\ Granted = {} /\ Granted' = {Len(toClient) + 1}
           /\ Len(toClient) + 1 \in DOMAIN toClient' /\ toClient'[Len(toClient) + 1] = m
           /\ \A p \in DOMAIN toClient' : ~ IsAnswer(toClient'[p]) =>
                 /\ p \in DOMAIN toClient /\ toClient'[p] = toClient[p]
                 /\ ~ \E q \in Granted' : q < p
<1> DEFINE n == Len(toClient)
<1>1. toClient \in Seq(Message) /\ n \in Nat /\ DOMAIN toClient = 1 .. n
  BY DEF IInv, TypeOK
<1>2. /\ DOMAIN toClient' = 1 .. n + 1 /\ toClient'[n + 1] = m
      /\ \A q \in DOMAIN toClient : toClient'[q] = toClient[q]
  <2> HIDE DEF n
  <2> QED BY <1>1, AppendFacts DEF n
<1>3. call.id \in Ids BY AgesAreNumbers DEF IInv
<1>4. \A q \in DOMAIN toClient : toClient[q].id # call.id BY LastAnswer
<1> HIDE DEF n
<1>5. Granted = {} BY <1>4 DEF Granted
<1>6. Granted' = {n + 1}
  <2>1. n + 1 \in Granted' BY <1>1, <1>2 DEF Granted
  <2>2. ASSUME NEW q \in Granted' PROVE q = n + 1
    <3>1. q \in 1 .. n + 1 /\ toClient'[q].id = call.id BY <1>2 DEF Granted
    <3>2. q \notin DOMAIN toClient BY <1>2, <1>4, <3>1
    <3> QED BY <1>1, <3>1, <3>2
  <2> QED BY <2>1, <2>2
<1>7. ASSUME NEW p \in DOMAIN toClient', ~ IsAnswer(toClient'[p])
      PROVE  /\ p \in DOMAIN toClient /\ toClient'[p] = toClient[p]
             /\ ~ \E q \in Granted' : q < p
  <2>1. p # n + 1 BY <1>2, <1>3, <1>7 DEF IsAnswer
  <2>2. p \in DOMAIN toClient BY <1>1, <1>2, <2>1
  <2>3. ~ (n + 1 < p) BY <1>1, <2>2
  <2> QED BY <1>2, <1>6, <2>2, <2>3
<1>8. n + 1 \in DOMAIN toClient' BY <1>1, <1>2
<1> QED BY <1>2, <1>5, <1>6, <1>7, <1>8 DEF n

\* A request about a callback that the server reads is the awaited one.
LEMMA ServedRequest ==
    ASSUME IInv, Requests, sure, toServer # << >>, NEW r, r = Head(toServer),
           r.kind \in {"add", "delete"}
    PROVE  /\ call # NULL /\ r.id = call.id /\ r.id \in Ids
           /\ r.kind = "add" => /\ Awaits({"add", "restore"}) /\ ~ Awaits({"delete"})
                                /\ r.arg = AddedField
           /\ r.kind = "delete" => /\ Awaits({"delete"}) /\ call.arg \in DOMAIN list
                                   /\ ~ Awaits({"add", "restore"})
                                   /\ r.arg = list[call.arg].id
<1>1. 1 \in DOMAIN toServer /\ toServer[1] = r BY DEF IInv, TypeOK
<1>2. AboutCallback /\ r.id = call.id BY <1>1 DEF Requests
<1>3. call # NULL /\ call.kind \in {"add", "delete", "restore"}
  BY <1>2 DEF AboutCallback, Awaits
<1>4. /\ Awaits({"add", "restore"}) => r.kind = "add" /\ r.arg = AddedField
      /\ Awaits({"delete"}) => r.kind = "delete" /\ r.arg = list[call.arg].id
  BY <1>1, <1>2, <1>3 DEF Requests
<1>5. call.kind = "delete" => call.arg \in DOMAIN list BY <1>3 DEF IInv, Shape
<1>6. call.id \in Ids BY <1>3, AgesAreNumbers DEF IInv
<1>7. CASE call.kind = "delete" BY <1>2, <1>3, <1>4, <1>5, <1>6, <1>7 DEF Awaits
<1>8. CASE call.kind \in {"add", "restore"} BY <1>2, <1>3, <1>4, <1>6, <1>8 DEF Awaits
<1> QED BY <1>3, <1>7, <1>8

LEMMA BooksServedAdd ==
    ASSUME IInv, Restoring, Requests, Books, toServer # << >>,
           NEW r, r = Head(toServer), r.kind = "add", r.arg \in Fields,
           NEW c \in CallbackIdsFor(r.arg), Use(c, r.arg), Answer(r, TRUE, c),
           UNCHANGED <<list, call, restoring, reconnected, socket, sure>>
    PROVE  Books'
<1> SUFFICES ASSUME sure, socket PROVE Books' BY DEF Books, Counted, OneField, Told
<1>1. /\ call # NULL /\ r.id = call.id /\ r.id \in Ids
      /\ Awaits({"add", "restore"}) /\ ~ Awaits({"delete"}) /\ r.arg = AddedField
  BY ServedRequest
<1>2. c \in CallbackIds
      /\ (table[c] = NULL \/ (table[c].field = r.arg /\ table[c].uses < MaxUses))
  BY DEF CallbackIdsFor
<1>3. PICK m \in Message : m = [id |-> r.id, ok |-> TRUE, callback |-> c]
  BY <1>1, <1>2, RecordFacts
<1>4. m.id = call.id /\ m.ok /\ m.callback = c BY <1>1, <1>3
<1>5. toClient' = Append(toClient, m) BY <1>3 DEF Answer
<1>6. /\ Granted = {} /\ Granted' = {Len(toClient) + 1}
      /\ toClient'[Len(toClient) + 1] = m
      /\ \A p \in DOMAIN toClient' : ~ IsAnswer(toClient'[p]) =>
            /\ p \in DOMAIN toClient /\ toClient'[p] = toClient[p]
            /\ ~ \E q \in Granted' : q < p
  BY <1>1, <1>4, <1>5, AnswerGranted
<1>7. Current' = Current BY DEF Current, Awaits
<1>8. Held = Current /\ Held' = Current BY <1>1, <1>7 DEF Held, Awaits
<1>9. \A d : ~ NewUse(d) /\ (NewUse(d)' <=> d = c)
  BY <1>1, <1>4, <1>6 DEF NewUse, Awaits
<1>10. AddedField' = r.arg BY <1>1 DEF AddedField
<1>11. /\ table \in [CallbackIds -> ServerCallback \cup {NULL}]
       /\ table[c] # NULL => table[c].uses \in Nat /\ table[c].uses > 0
  BY <1>2, InTable DEF IInv, TypeOK
<1> DEFINE u == IF table[c] = NULL THEN 1 ELSE table[c].uses + 1
<1>12. u \in 1 .. MaxUses BY <1>2, <1>11, ConstantFacts
<1> HIDE DEF u
<1>13. /\ table'[c] = [field |-> r.arg, uses |-> u]
       /\ \A d \in CallbackIds \ {c} : table'[d] = table[d]
  BY <1>2, <1>11 DEF Use, u
<1>14. table'[c] # NULL /\ table'[c].field = r.arg /\ table'[c].uses = u
  <2>1. [field |-> r.arg, uses |-> u] \in ServerCallback BY <1>12 DEF ServerCallback
  <2>2. NULL \notin ServerCallback BY NullAssumption
  <2> QED BY <1>13, <2>1, <2>2
<1>15. \A d : Mine(d)' = Mine(d) BY <1>8 DEF Mine
<1>16. Counted'
  <2> SUFFICES ASSUME NEW d \in CallbackIds PROVE Booked(d)' BY DEF Counted
  <2>1. Booked(d) /\ Mine(d)' = Mine(d) /\ ~ NewUse(d) BY <1>9, <1>15 DEF Books, Counted
  <2>2. CASE d # c
    <3>1. table'[d] = table[d] /\ ~ NewUse(d)' BY <1>9, <1>13, <2>2
    <3> QED BY <2>1, <3>1 DEF Booked
  <2>3. CASE d = c
    <3>1. Cardinality(Mine(c)) \in Nat /\ (Mine(c) = {} => Cardinality(Mine(c)) = 0)
      BY BooksFacts, FS_CardinalityType, FS_EmptySet
    <3>2. u = Cardinality(Mine(c)) + 1
      <4>1. CASE table[c] = NULL BY <2>1, <2>3, <3>1, <4>1 DEF Booked, u
      <4>2. CASE table[c] # NULL
        <5>1. table[c].uses = Cardinality(Mine(c)) + 0 BY <2>1, <2>3, <4>2 DEF Booked
        <5> QED BY <3>1, <4>2, <5>1 DEF u
      <4> QED BY <4>1, <4>2
    <3>3. \A i \in Mine(c) : list[i].field = r.arg BY <1>2, <2>1, <2>3 DEF Booked
    <3>4. NewUse(c)' BY <1>9
    <3> QED BY <1>10, <1>14, <2>1, <2>3, <3>2, <3>3, <3>4 DEF Booked
  <2> QED BY <2>2, <2>3
<1>17. OneField' BY <1>7 DEF Books, OneField
<1>18. Told'
  <2> SUFFICES ASSUME NEW p \in DOMAIN toClient', ~ IsAnswer(toClient'[p])
               PROVE  ToldAt(p)'
    BY DEF Told, IsAnswer
  <2>1. ToldAt(p) /\ toClient'[p] = toClient[p] BY <1>6 DEF Books, Told
  <2>2. Has(Current, toClient[p]) BY <1>6, <2>1 DEF ToldAt
  <2> QED BY <1>6, <1>7, <2>1, <2>2 DEF ToldAt, Has
<1> QED BY <1>16, <1>17, <1>18 DEF Books

LEMMA BooksServedDelete ==
    ASSUME IInv, Restoring, Requests, Books, toServer # << >>,
           NEW r, r = Head(toServer), r.kind = "delete", r.arg \in CallbackIds,
           table[r.arg] # NULL, Unuse(r.arg), Answer(r, TRUE, NULL),
           UNCHANGED <<list, call, restoring, reconnected, socket, sure>>
    PROVE  Books'
<1> SUFFICES ASSUME sure, socket PROVE Books' BY DEF Books, Counted, OneField, Told
<1>1. /\ call # NULL /\ r.id = call.id /\ r.id \in Ids
      /\ Awaits({"delete"}) /\ ~ Awaits({"add", "restore"})
      /\ call.arg \in DOMAIN list /\ r.arg = list[call.arg].id
  BY ServedRequest
<1>2. PICK m \in Message : m = [id |-> r.id, ok |-> TRUE, callback |-> NULL]
  BY <1>1, RecordFacts
<1>3. m.id = call.id /\ m.ok BY <1>1, <1>2
<1>4. toClient' = Append(toClient, m) BY <1>2 DEF Answer
<1>5. /\ Granted = {} /\ Granted' # {}
      /\ \A p \in DOMAIN toClient' : ~ IsAnswer(toClient'[p]) =>
            /\ p \in DOMAIN toClient /\ toClient'[p] = toClient[p]
            /\ ~ \E q \in Granted' : q < p
  BY <1>1, <1>3, <1>4, AnswerGranted
<1>6. Current' = Current BY DEF Current, Awaits
<1>7. Held = Current /\ Held' = Current \ {call.arg}
  BY <1>1, <1>5, <1>6 DEF Held, Awaits
<1>8. \A d : ~ NewUse(d) /\ ~ NewUse(d)' BY <1>1 DEF NewUse, Awaits
<1> DEFINE c == r.arg
<1>9. /\ table \in [CallbackIds -> ServerCallback \cup {NULL}]
      /\ table[c] \in ServerCallback /\ table[c].uses \in Nat /\ table[c].uses > 0
  BY InTable DEF IInv, TypeOK
<1>10. /\ table'[c] = IF table[c].uses = 1 THEN NULL
                      ELSE [field |-> table[c].field, uses |-> table[c].uses - 1]
       /\ \A d \in CallbackIds \ {c} : table'[d] = table[d]
  BY <1>9 DEF Unuse
<1>11. table[c].uses # 1 => /\ table'[c] # NULL /\ table'[c].field = table[c].field
                            /\ table'[c].uses = table[c].uses - 1
  <2> SUFFICES ASSUME table[c].uses # 1
               PROVE  /\ table'[c] # NULL /\ table'[c].field = table[c].field
                      /\ table'[c].uses = table[c].uses - 1
    OBVIOUS
  <2>1. table'[c] = [field |-> table[c].field, uses |-> table[c].uses - 1] BY <1>10
  <2>2. [field |-> table[c].field, uses |-> table[c].uses - 1] \in ServerCallback
    <3>1. table[c].field \in Fields /\ table[c].uses \in 1 .. MaxUses
      BY <1>9 DEF ServerCallback
    <3>2. table[c].uses - 1 \in 1 .. MaxUses BY <3>1, ConstantFacts
    <3> QED BY <3>1, <3>2 DEF ServerCallback
  <2>3. NULL \notin ServerCallback BY NullAssumption
  <2> QED BY <2>1, <2>2, <2>3
<1> HIDE DEF c
<1>12. c \in CallbackIds /\ c = list[call.arg].id /\ table[c] # NULL BY <1>1 DEF c
<1>13. /\ Booked(c) /\ ~ NewUse(c)
       /\ table[c].uses = Cardinality(Mine(c)) /\ IsFiniteSet(Mine(c))
  <2>1. Booked(c) /\ ~ NewUse(c) BY <1>8, <1>12 DEF Books, Counted
  <2> QED BY <1>9, <1>12, <2>1, BooksFacts, FS_CardinalityType DEF Booked
<1>14. call.arg \in Mine(c)
  <2>1. Mine(c) # {} BY <1>9, <1>13, FS_EmptySet
  <2>2. Current # {} BY <1>7, <2>1 DEF Mine
  <2>3. ~ reconnected
    <3>1. ASSUME reconnected PROVE FALSE
      <4>1. restoring = 0 /\ ~ Awaits({"restore"}) BY <1>1 DEF Restoring, Awaits
      <4>2. Current = 1 .. restoring - 1 BY <3>1, <4>1 DEF Current
      <4> QED BY <2>2, <4>1, <4>2
    <3> QED BY <3>1
  <2>4. Current = DOMAIN list BY <2>3 DEF Current
  <2> QED BY <1>1, <1>7, <1>12, <2>4 DEF Mine
<1>15. /\ Mine(c)' = Mine(c) \ {call.arg}
       /\ \A d : d # c => Mine(d)' = Mine(d)
  BY <1>7, <1>12 DEF Mine
<1>16. Cardinality(Mine(c)') = table[c].uses - 1 /\ IsFiniteSet(Mine(c)')
  BY <1>13, <1>14, <1>15, FS_RemoveElement
<1>17. Counted'
  <2> SUFFICES ASSUME NEW d \in CallbackIds PROVE Booked(d)' BY DEF Counted
  <2>1. ~ NewUse(d) /\ ~ NewUse(d)' /\ Booked(d) BY <1>8 DEF Books, Counted
  <2>2. CASE d # c BY <1>10, <1>15, <2>1, <2>2 DEF Booked, c
  <2>3. CASE d = c /\ table[c].uses = 1
    <3>1. table'[c] = NULL BY <1>10, <2>3 DEF c
    <3>2. Mine(c)' = {} BY <1>9, <1>16, <2>3, FS_EmptySet
    <3> QED BY <2>1, <2>3, <3>1, <3>2 DEF Booked
  <2>4. CASE d = c /\ table[c].uses # 1
    <3>1. \A i \in Mine(c)' : list[i].field = table[c].field
      BY <1>12, <1>13, <1>15 DEF Booked
    <3>2. /\ table'[c] # NULL /\ table'[c].field = table[c].field
          /\ table'[c].uses = Cardinality(Mine(c)') + 0
      BY <1>9, <1>11, <1>16, <2>4 DEF c
    <3> QED BY <2>1, <2>4, <3>1, <3>2 DEF Booked
  <2> QED BY <2>2, <2>3, <2>4
<1>18. OneField' BY <1>6 DEF Books, OneField
<1>19. Told'
  <2> SUFFICES ASSUME NEW p \in DOMAIN toClient', ~ IsAnswer(toClient'[p])
               PROVE  ToldAt(p)'
    BY DEF Told, IsAnswer
  <2>1. ToldAt(p) /\ toClient'[p] = toClient[p] BY <1>5 DEF Books, Told
  <2>2. Has(Current, toClient[p]) BY <1>5, <2>1 DEF ToldAt
  <2> QED BY <1>5, <1>6, <2>1, <2>2 DEF ToldAt, Has
<1> QED BY <1>17, <1>18, <1>19 DEF Books
\* The callback is deleted, or a use of it, and no answer will say so.
LEMMA BooksServedSilently ==
    ASSUME IInv, Restoring, Requests, Books, sure, socket, toServer # << >>,
           toServer' = Tail(toServer),
           NEW r, r = Head(toServer), r.kind = "delete", r.arg \in CallbackIds,
           table[r.arg] # NULL, Unuse(r.arg), UNCHANGED toClient,
           UNCHANGED <<list, call, restoring, reconnected, socket, sure>>
    PROVE  Unanswered'
<1>1. /\ call # NULL /\ r.id = call.id /\ Awaits({"delete"}) /\ ~ Awaits({"add", "restore"})
  BY ServedRequest
<1>2. \A q \in DOMAIN toClient : toClient[q].id # call.id BY <1>1, LastAnswer
<1>3. \A j \in DOMAIN toServer' : toServer'[j].id # call.id
  <2>1. toServer \in Seq(Request) BY DEF IInv, TypeOK
  <2>2. 1 \in DOMAIN toServer /\ toServer[1].id = call.id BY <1>1, <2>1
  <2>3. ASSUME NEW j \in DOMAIN toServer' PROVE toServer'[j].id # call.id
    <3>1. j + 1 \in DOMAIN toServer /\ 1 < j + 1 /\ toServer'[j] = toServer[j + 1] BY <2>1
    <3>2. Age(toServer[1].id) > Age(toServer[j + 1].id) BY <2>2, <3>1 DEF IInv, Order
    <3>3. Age(toServer[1].id) \in Nat BY <2>2, AgesAreNumbers DEF IInv
    <3> QED BY <2>2, <3>1, <3>2, <3>3
  <2> QED BY <2>3
<1>4. Silent' BY <1>1, <1>2, <1>3 DEF Silent, Awaits
<1>5. Granted = {} BY <1>2 DEF Granted
<1>6. Current' = Current BY DEF Current, Awaits
<1>7. Held = Current /\ \A c : ~ NewUse(c) BY <1>5 DEF Held, NewUse
<1>8. OneField' BY <1>6 DEF Books, OneField
<1>9. ASSUME NEW c \in CallbackIds, table'[c] # NULL
      PROVE  table[c] # NULL /\ table'[c].field = table[c].field
  <2>1. table \in [CallbackIds -> ServerCallback \cup {NULL}] BY DEF IInv, TypeOK
  <2>2. CASE c # r.arg BY <1>9, <2>1, <2>2 DEF Unuse
  <2>3. CASE c = r.arg
    <3>1. table'[c] = [field |-> table[c].field, uses |-> table[c].uses - 1]
      BY <1>9, <2>1, <2>3 DEF Unuse
    <3> QED BY <2>3, <3>1
  <2> QED BY <2>2, <2>3
<1>10. ASSUME NEW c \in CallbackIds, table[c] # NULL
       PROVE  \E i \in Current : list[i].id = c /\ list[i].field = table[c].field
  <2>1. Booked(c) /\ ~ NewUse(c) BY <1>7 DEF Books, Counted
  <2>2. table[c].uses \in Nat /\ table[c].uses > 0 BY <1>10, InTable
  <2>3. Mine(c) = {} => Cardinality(Mine(c)) = 0 BY FS_EmptySet
  <2>4. Mine(c) # {} BY <1>10, <2>1, <2>2, <2>3 DEF Booked
  <2> QED BY <1>7, <1>10, <2>1, <2>4 DEF Booked, Mine
<1>11. ASSUME NEW p \in DOMAIN toClient, ~ IsAnswer(toClient[p]) PROVE Has(Current, toClient[p])
  <2>1. ToldAt(p) BY <1>11 DEF Books, Told
  <2> QED BY <1>5, <2>1 DEF ToldAt
<1>12. Known'
  <2>1. ASSUME NEW c \in CallbackIds, table'[c] # NULL
        PROVE  \E i \in Current' : list'[i].id = c /\ list'[i].field = table'[c].field
    BY <1>6, <1>9, <1>10, <2>1
  <2>2. ASSUME NEW p \in DOMAIN toClient', ~ IsAnswer(toClient'[p])
        PROVE  \E i \in Current' : /\ list'[i].id = toClient'[p].id
                                  /\ list'[i].field = toClient'[p].field
    BY <1>6, <1>11, <2>2 DEF Has
  <2> QED BY <2>1, <2>2 DEF Known, Has, IsAnswer
<1> QED BY <1>4, <1>8, <1>12 DEF Unanswered

\* Nothing changes in what the client knows as long as it waits in vain.
LEMMA UnansweredKept ==
    ASSUME Unanswered, UNCHANGED <<list, call, restoring, reconnected, table>>,
           sure' => sure, socket' => socket,
           \A j \in DOMAIN toServer' : \E k \in DOMAIN toServer : toServer'[j] = toServer[k],
           \A p \in DOMAIN toClient' :
              \/ \E q \in DOMAIN toClient : toClient'[p] = toClient[q]
              \/ IsAnswer(toClient'[p]) /\ toClient'[p].id # call.id
              \/ /\ toClient'[p].id # call.id
                 /\ sure /\ socket => Has(Current, toClient'[p])
    PROVE  Unanswered'
<1>1. Current' = Current BY DEF Current, Awaits
<1>2. Silent' BY DEF Unanswered, Silent, Awaits
<1>3. OneField' BY <1>1 DEF Unanswered, OneField
<1>4. Known'
  <2> SUFFICES ASSUME sure', socket' PROVE Known' BY DEF Known
  <2>1. ASSUME NEW c \in CallbackIds, table'[c] # NULL
        PROVE  \E i \in Current' : list'[i].id = c /\ list'[i].field = table'[c].field
    BY <1>1, <2>1 DEF Unanswered, Known
  <2>2. ASSUME NEW p \in DOMAIN toClient', ~ IsAnswer(toClient'[p])
        PROVE  Has(Current, toClient'[p])
    <3>1. CASE \E q \in DOMAIN toClient : toClient'[p] = toClient[q]
      BY <2>2, <3>1 DEF Unanswered, Known
    <3>2. CASE sure /\ socket => Has(Current, toClient'[p]) BY <3>2
    <3> QED BY <2>2, <3>1, <3>2
  <2>3. ASSUME NEW p \in DOMAIN toClient', ~ IsAnswer(toClient'[p])
        PROVE  \E i \in Current' : /\ list'[i].id = toClient'[p].id
                                  /\ list'[i].field = toClient'[p].field
    BY <1>1, <2>2, <2>3 DEF Has
  <2> QED BY <2>1, <2>3 DEF Known, Has, IsAnswer
<1> QED BY <1>2, <1>3, <1>4 DEF Unanswered
-----------------------------------------------------------------------------
(* The client reads its answer *)

\* The answer says that there is one callback more on this connection.
LEMMA BooksGained ==
    ASSUME IInv, Restoring, Books, sure, socket, Awaits({"add", "restore"}),
           Granted = {1}, toClient # << >>, toClient' = Tail(toClient), UNCHANGED table,
           call' = NULL, NEW k, k \notin Current, Current' = Current \cup {k},
           list'[k].id = toClient[1].callback, list'[k].field = AddedField,
           \A i \in Current : list'[i] = list[i]
    PROVE  Books'
<1>1. /\ toClient \in Seq(Message) /\ 1 \in DOMAIN toClient
      /\ \A p \in DOMAIN toClient' : /\ p \in Nat /\ 1 <= p /\ p + 1 \in DOMAIN toClient
                                     /\ toClient'[p] = toClient[p + 1]
  BY DEF IInv, TypeOK
<1>2. PICK cb \in CallbackIds : cb = toClient[1].callback
  <2>1. call # NULL /\ call.kind \in {"add", "restore"} BY DEF Awaits
  <2>2. toClient[1].id = call.id /\ toClient[1].ok BY DEF Granted
  <2> QED BY <1>1, <2>1, <2>2 DEF IInv, Kinds
<1>3. Held = Current BY DEF Held, Awaits
<1>4. Held' = Current' /\ \A c : ~ NewUse(c)' BY DEF Held, NewUse, Awaits
<1>5. \A c : NewUse(c) <=> c = cb BY <1>2 DEF NewUse
<1>6. \A c \in CallbackIds :
         Booked(c) /\ IsFiniteSet(Mine(c)) /\ Cardinality(Mine(c)) \in Nat
  BY BooksFacts, FS_CardinalityType DEF Books, Counted
<1>7. /\ table[cb] # NULL /\ AddedField = table[cb].field
      /\ table[cb].uses = Cardinality(Mine(cb)) + 1
      /\ \A i \in Mine(cb) : list[i].field = table[cb].field
  <2>1. Booked(cb) /\ NewUse(cb) BY <1>2, <1>5, <1>6
  <2> QED BY <2>1 DEF Booked
<1>8. /\ Mine(cb)' = Mine(cb) \cup {k} /\ k \notin Mine(cb)
      /\ \A c : c # cb => Mine(c)' = Mine(c)
  BY <1>2, <1>3, <1>4 DEF Mine
<1>9. Counted'
  <2> SUFFICES ASSUME NEW c \in CallbackIds PROVE Booked(c)' BY DEF Counted
  <2>1. ~ NewUse(c)' BY <1>4
  <2>2. CASE c # cb
    <3>1. Booked(c) /\ ~ NewUse(c) /\ Mine(c)' = Mine(c) BY <1>5, <1>6, <1>8, <2>2
    <3>2. \A i \in Mine(c) : list'[i] = list[i] BY <1>3 DEF Mine
    <3> QED BY <2>1, <3>1, <3>2 DEF Booked
  <2>3. CASE c = cb
    <3>1. Cardinality(Mine(cb)') = Cardinality(Mine(cb)) + 1
      BY <1>2, <1>6, <1>8, FS_AddElement
    <3>2. \A i \in Mine(cb)' : list'[i].field = table[cb].field
      <4>1. \A i \in Mine(cb) : list'[i] = list[i] BY <1>3 DEF Mine
      <4> QED BY <1>7, <1>8, <4>1
    <3>3. table[cb].uses = Cardinality(Mine(cb)') + 0 BY <1>2, <1>6, <1>7, <3>1
    <3> QED BY <1>7, <2>1, <2>3, <3>2, <3>3 DEF Booked
  <2> QED BY <2>2, <2>3
<1>10. OneField'
  <2>1. ASSUME NEW i \in Current, list[i].id = cb PROVE list[i].field = AddedField
    BY <1>3, <1>7, <2>1 DEF Mine
  <2>2. ASSUME NEW i \in Current', NEW j \in Current', list'[i].id = list'[j].id
        PROVE  list'[i].field = list'[j].field
    <3>1. CASE i \in Current /\ j \in Current BY <2>2, <3>1 DEF Books, OneField
    <3>2. CASE i \in Current /\ j = k BY <1>2, <2>1, <2>2, <3>2
    <3>3. CASE i = k /\ j \in Current BY <1>2, <2>1, <2>2, <3>3
    <3>4. CASE i = k /\ j = k BY <3>4
    <3> QED BY <3>1, <3>2, <3>3, <3>4
  <2> QED BY <2>2 DEF OneField
<1>11. Told'
  <2> SUFFICES ASSUME NEW p \in DOMAIN toClient', ~ IsAnswer(toClient'[p])
               PROVE  ToldAt(p)'
    BY DEF Told, IsAnswer
  <2> DEFINE m == toClient[p + 1]
  <2>1. p + 1 \in DOMAIN toClient /\ toClient'[p] = m /\ 1 < p + 1 BY <1>1
  <2>2. ToldAt(p + 1) BY <2>1 DEF Books, Told
  <2>3. Has(Current, m) \/ (m.id = cb /\ AddedField = m.field)
    BY <1>3, <1>5, <2>1, <2>2 DEF ToldAt
  <2>4. \E i \in Current' : list'[i].id = m.id /\ list'[i].field = m.field
    BY <1>2, <2>3 DEF Has
  <2>5. ~ \E q \in Granted' : q < p BY DEF Granted
  <2> QED BY <2>1, <2>4, <2>5 DEF ToldAt, Has
<1> QED BY <1>9, <1>10, <1>11 DEF Books

\* The answer says that a callback is deleted; those behind it move up.
LEMMA BooksDeleted ==
    ASSUME IInv, Restoring, Books, sure, socket, Awaits({"delete"}),
           Granted = {1}, toClient # << >>, toClient' = Tail(toClient),
           UNCHANGED <<table, restoring, reconnected>>,
           call' = NULL, list' = RemoveAt(list, call.arg)
    PROVE  Books'
<1>1. /\ toClient \in Seq(Message) /\ 1 \in DOMAIN toClient
      /\ \A p \in DOMAIN toClient' : /\ p \in Nat /\ 1 <= p /\ p + 1 \in DOMAIN toClient
                                     /\ toClient'[p] = toClient[p + 1]
  BY DEF IInv, TypeOK
<1> DEFINE n == Len(list)
           a == call.arg
           Was(j) == IF j < a THEN j ELSE j + 1
<1>2. list \in Seq(ClientCallback) /\ n \in Nat /\ DOMAIN list = 1 .. n BY BooksFacts
<1>3. a \in 1 .. n /\ a \in Nat BY <1>2 DEF IInv, Shape, Awaits
<1>4. /\ DOMAIN list' = 1 .. n - 1
      /\ \A j \in 1 .. n - 1 : list'[j] = list[Was(j)]
  BY <1>2, <1>3, RemovedElements
<1>5. Held = Current \ {a} BY DEF Held
<1>6. Held' = Current' /\ \A c : ~ NewUse(c) /\ ~ NewUse(c)' BY DEF Held, NewUse, Awaits
<1>7. restoring = 0 /\ ~ Awaits({"restore"}) /\ ~ Awaits({"restore"})'
  BY DEF Restoring, Awaits
<1> HIDE DEF n, a
<1>8. /\ Current' \subseteq 1 .. n - 1 /\ Held \subseteq (1 .. n) \ {a}
      /\ \A j \in 1 .. n - 1 : j \in Current' <=> Was(j) \in Held
  <2>1. CASE reconnected
    <3>1. Current = 1 .. restoring - 1 /\ Current' = 1 .. restoring - 1
      BY <1>7, <2>1 DEF Current
    <3>2. Current = {} /\ Current' = {} BY <1>7, <3>1
    <3> QED BY <1>5, <3>2
  <2>2. CASE ~ reconnected
    <3>1. Current = 1 .. n /\ Current' = 1 .. n - 1 BY <1>2, <1>4, <2>2 DEF Current
    <3>2. \A j \in 1 .. n - 1 : Was(j) \in (1 .. n) \ {a} BY <1>2, <1>3
    <3> QED BY <1>5, <3>1, <3>2
  <2> QED BY <2>1, <2>2
<1>9. ASSUME NEW i \in Held PROVE \E j \in Current' : Was(j) = i
  <2>1. i \in Nat /\ i \in 1 .. n /\ i # a BY <1>8
  <2>2. CASE i < a
    <3>1. i \in 1 .. n - 1 /\ Was(i) = i BY <1>2, <1>3, <2>1, <2>2
    <3> QED BY <1>8, <3>1
  <2>3. CASE i > a
    <3>1. i - 1 \in 1 .. n - 1 /\ Was(i - 1) = i BY <1>2, <1>3, <2>1, <2>3
    <3> QED BY <1>8, <3>1
  <2> QED BY <1>3, <2>1, <2>2, <2>3
<1>10. \A j \in Current' : Was(j) \in Held /\ list'[j] = list[Was(j)] BY <1>4, <1>8
<1> HIDE DEF Was
<1>11. Counted'
  <2> SUFFICES ASSUME NEW c \in CallbackIds PROVE Booked(c)' BY DEF Counted
  <2>1. Booked(c) /\ ~ NewUse(c) /\ ~ NewUse(c)' BY <1>6 DEF Books, Counted
  <2>2. Mine(c)' = {j \in Current' : list'[j].id = c} BY <1>6 DEF Mine
  <2>3. \A j \in 1 .. n - 1 : j \in Mine(c)' <=> Was(j) \in Mine(c)
    BY <1>4, <1>8, <2>2 DEF Mine
  <2>4. Mine(c) \in SUBSET ((1 .. n) \ {a}) /\ Mine(c)' \in SUBSET (1 .. n - 1)
    BY <1>8, <2>2 DEF Mine
  <2>5. Cardinality(Mine(c)') = Cardinality(Mine(c))
    <3>1. Mine(c)' = MovedPositions(n, a, Mine(c)) BY <2>3, <2>4 DEF Was, MovedPositions
    <3> QED BY <1>2, <1>3, <2>4, <3>1, MovedUp
  <2>6. Mine(c) = {} => Mine(c)' = {} BY <2>3, <2>4
  <2>7. \A j \in Mine(c)' : Was(j) \in Mine(c) /\ list'[j].field = list[Was(j)].field
    BY <1>4, <2>3, <2>4
  <2>8. CASE table[c] = NULL BY <2>1, <2>6, <2>8 DEF Booked
  <2>9. CASE table[c] # NULL
    <3>1. table[c].uses = Cardinality(Mine(c)) + 0
          /\ \A i \in Mine(c) : list[i].field = table[c].field
      BY <2>1, <2>9 DEF Booked
    <3>2. \A j \in Mine(c)' : list'[j].field = table[c].field BY <2>7, <3>1
    <3> QED BY <2>1, <2>5, <2>9, <3>1, <3>2 DEF Booked
  <2> QED BY <2>8, <2>9
<1>12. OneField' BY <1>5, <1>10 DEF Books, OneField
<1>13. Told'
  <2> SUFFICES ASSUME NEW p \in DOMAIN toClient', ~ IsAnswer(toClient'[p])
               PROVE  ToldAt(p)'
    BY DEF Told, IsAnswer
  <2> DEFINE m == toClient[p + 1]
  <2>1. p + 1 \in DOMAIN toClient /\ toClient'[p] = m /\ 1 < p + 1 BY <1>1
  <2>2. ToldAt(p + 1) BY <2>1 DEF Books, Told
  <2>3. Has(Held, m) BY <1>6, <2>1, <2>2 DEF ToldAt
  <2>4. PICK i \in Held : list[i].id = m.id /\ list[i].field = m.field BY <2>3 DEF Has
  <2>5. PICK j \in Current' : Was(j) = i BY <1>9
  <2>6. \E q \in Current' : list'[q].id = m.id /\ list'[q].field = m.field
    BY <1>10, <2>4, <2>5
  <2>7. ~ \E q \in Granted' : q < p BY DEF Granted
  <2> QED BY <2>1, <2>6, <2>7 DEF ToldAt, Has
<1> QED BY <1>11, <1>12, <1>13 DEF Books

LEMMA BooksAnswered == ASSUME IInv, Restoring, Books, ReceiveAnswer PROVE Books'
<1>1. /\ call # NULL /\ toClient # << >> /\ toClient' = Tail(toClient)
      /\ First.id = call.id /\ Finish(First) /\ call' = NULL
      /\ sure' = (sure /\ (First.ok \/ call.kind # "restore"))
      /\ UNCHANGED <<restoring, socket, reconnected, table>>
  BY DEF ReceiveAnswer, Read, connection
<1> SUFFICES ASSUME sure', socket' PROVE Books' BY DEF Books, Counted, OneField, Told
<1>2. /\ toClient \in Seq(Message) /\ 1 \in DOMAIN toClient /\ First = toClient[1]
      /\ \A p \in DOMAIN toClient' : p + 1 \in DOMAIN toClient /\ toClient'[p] = toClient[p + 1]
      /\ \A q \in DOMAIN toClient : q = 1 \/ q > 1
  BY <1>1 DEF IInv, TypeOK, First
<1>3. call.id \in Ids /\ call \in Call BY <1>1, AgesAreNumbers DEF IInv, TypeOK
<1>4. \A q \in Granted : q = 1
  <2>1. ASSUME NEW q \in DOMAIN toClient, q > 1, toClient[q].id = call.id PROVE FALSE
    BY <1>1, <1>2, <1>3, <2>1, LastAnswer DEF IsAnswer
  <2> QED BY <1>2, <2>1 DEF Granted
<1>5. call.kind \in {"get", "add", "delete", "restore"} BY <1>3 DEF Call
<1>6. CASE call.kind = "get" \/ ~ First.ok
  <2>1. Quiet BY <1>1, <1>2, <1>4, <1>6 DEF Quiet, AboutCallback, Awaits, Granted
  <2>2. Quiet' BY <1>1 DEF Quiet, AboutCallback, Awaits
  <2>3. list' = list BY <1>1, <1>5, <1>6 DEF Finish
  <2>4. Current' = Current BY <1>1, <1>6, <2>3 DEF Current, Awaits
  <2>5. \A p \in DOMAIN toClient' : \E q \in DOMAIN toClient : toClient[q] = toClient'[p]
    BY <1>2
  <2> QED BY <1>1, <2>1, <2>2, <2>3, <2>4, <2>5, BooksIdle
<1>7. CASE First.ok /\ call.kind # "get"
  <2>1. Granted = {1} BY <1>1, <1>2, <1>4, <1>7 DEF Granted
  <2>2. /\ list \in Seq(ClientCallback) /\ Len(list) \in Nat /\ DOMAIN list = 1 .. Len(list)
        /\ restoring \in Nat
    BY BooksFacts
  <2>3. CASE call.kind = "add"
    <3> DEFINE k == Len(list) + 1
    <3>1. restoring = 0 /\ ~ reconnected /\ Awaits({"add", "restore"})
      BY <1>1, <2>3 DEF Restoring, Awaits
    <3>2. list' = Append(list, [field |-> call.arg, id |-> First.callback])
      BY <1>1, <1>7, <2>3 DEF Finish
    <3>3. /\ DOMAIN list' = 1 .. k
          /\ list'[k] = [field |-> call.arg, id |-> First.callback]
          /\ \A i \in DOMAIN list : list'[i] = list[i]
      BY <2>2, <3>2
    <3>4. list'[k].id = toClient[1].callback /\ list'[k].field = AddedField
      BY <1>2, <2>3, <3>3 DEF AddedField
    <3>5. Current = DOMAIN list /\ Current' = DOMAIN list'
      BY <1>1, <3>1 DEF Current
    <3>6. k \notin Current /\ Current' = Current \cup {k} BY <2>2, <3>3, <3>5
    <3> HIDE DEF k
    <3> QED BY <1>1, <2>1, <3>1, <3>3, <3>4, <3>5, <3>6, BooksGained
  <2>4. CASE call.kind = "restore"
    <3> DEFINE k == call.arg
    <3>1. /\ restoring = k + 1 /\ k \in DOMAIN list /\ k \in Nat /\ k >= 1
          /\ Awaits({"restore"}) /\ Awaits({"add", "restore"}) /\ ~ Awaits({"restore"})'
      <4>1. restoring = k + 1 BY <1>1, <2>4 DEF Restoring
      <4>2. k \in DOMAIN list BY <1>1, <2>4 DEF IInv, Shape
      <4>3. k \in Nat /\ k >= 1 BY <2>2, <4>2
      <4> QED BY <1>1, <2>4, <4>1, <4>2, <4>3 DEF Awaits
    <3>2. reconnected
      <4>1. sure /\ socket BY <1>1
      <4>2. restoring # 0 BY <3>1
      <4> QED BY <4>1, <4>2 DEF Restoring
    <3>3. list' = [list EXCEPT ![k].id = First.callback]
      BY <1>1, <1>7, <2>4 DEF Finish
    <3>4. list[k] \in ClientCallback BY <2>2, <3>1
    <3>5. /\ list'[k] = [list[k] EXCEPT !.id = First.callback]
          /\ \A i \in DOMAIN list : i # k => list'[i] = list[i]
      BY <2>2, <3>1, <3>3
    <3>6. list'[k].id = toClient[1].callback /\ list'[k].field = AddedField
      BY <1>2, <2>4, <3>4, <3>5 DEF AddedField, ClientCallback
    <3>7. Current = 1 .. restoring - 2 /\ Current' = 1 .. restoring - 1
      BY <1>1, <3>1, <3>2 DEF Current
    <3> HIDE DEF k
    <3>8. Current = 1 .. k - 1 /\ Current' = 1 .. k BY <3>1, <3>7
    <3>9. k \notin Current /\ Current' = Current \cup {k} BY <3>1, <3>8
    <3>10. \A i \in Current : list'[i] = list[i]
      <4>1. Current \subseteq DOMAIN list BY BooksFacts
      <4> QED BY <3>5, <3>9, <4>1
    <3> QED BY <1>1, <2>1, <3>1, <3>6, <3>9, <3>10, BooksGained
  <2>5. CASE call.kind = "delete"
    <3>1. Awaits({"delete"}) BY <1>1, <2>5 DEF Awaits
    <3>2. list' = RemoveAt(list, call.arg) BY <1>1, <1>7, <2>5 DEF Finish
    <3> QED BY <1>1, <2>1, <3>1, <3>2, BooksDeleted
  <2> QED BY <1>5, <1>7, <2>3, <2>4, <2>5
<1> QED BY <1>6, <1>7
-----------------------------------------------------------------------------
(* All the steps *)

\* A request is sent: it cannot be granted yet.
LEMMA BooksSent ==
    ASSUME IInv, Books, Room, NEW kind, NEW arg, Send(kind, arg), UNCHANGED list,
           call = NULL, call'.id = NextId, sure' => sure, Current' = Current
    PROVE  Books'
<1>1. TypeOK /\ NextId \in Ids BY NextIdInRange DEF IInv
<1>2. UNCHANGED <<toClient, table, socket>> BY DEF Send, connection
<1>3. Quiet BY DEF Quiet, AboutCallback, Awaits
<1>4. \A q \in DOMAIN toClient : toClient[q].id # NextId BY <1>1, RoomAges DEF IsAnswer
<1>5. Granted' = {} BY <1>2, <1>4 DEF Granted
<1>6. Quiet' BY <1>5 DEF Quiet
<1> QED BY <1>2, <1>3, <1>6, BooksIdle

\* A request that is given up and still leaves the client sure is not about callbacks.
LEMMA BooksGivenUp ==
    ASSUME IInv, Restoring, Books, call # NULL, GiveUp,
           UNCHANGED <<list, restoring, reconnected, socket, table>>,
           UNCHANGED toClient \/ Read
    PROVE  Books'
<1>1. call' = NULL /\ sure' = (sure /\ call.kind = "get") BY DEF GiveUp
<1> SUFFICES ASSUME sure' PROVE Books' BY DEF Books, Counted, OneField, Told
<1>2. Quiet /\ Quiet' BY <1>1 DEF Quiet, AboutCallback, Awaits
<1>3. Current' = Current BY <1>1 DEF Current, Awaits
<1>4. \A p \in DOMAIN toClient' : \E q \in DOMAIN toClient : toClient[q] = toClient'[p]
  <2>1. toClient \in Seq(Message) BY DEF IInv, TypeOK
  <2>2. CASE Read
    <3>1. \A p \in DOMAIN toClient' :
             p + 1 \in DOMAIN toClient /\ toClient'[p] = toClient[p + 1]
      BY <2>1, <2>2 DEF Read
    <3> QED BY <3>1
  <2> QED BY <2>2
<1> QED BY <1>1, <1>2, <1>3, <1>4, BooksIdle

LEMMA BooksServed ==
    ASSUME IInv, Restoring, Requests, Books, Serve PROVE Books' \/ Unanswered'
<1>1. PICK r \in Request : r = Head(toServer) BY DEF Serve, IInv, TypeOK
<1>2. /\ toServer # << >>
      /\ \/ r.kind = "get" /\ ServeGet(r)
         \/ r.kind = "add" /\ ServeAdd(r)
         \/ r.kind = "delete" /\ ServeDelete(r)
      /\ UNCHANGED <<list, call, restoring, reconnected, socket, sure>>
  BY <1>1 DEF Serve, client, connection
<1>3. r.id \in Ids BY DEF Request
<1>4. Granted = {}
  <2>1. \A q \in DOMAIN toClient : call # NULL => toClient[q].id # call.id
    BY <1>2, LastAnswer
  <2> QED BY <2>1 DEF Granted
<1>5. Current' = Current BY <1>2 DEF Current, Awaits
<1>6. toClient \in Seq(Message) /\ Len(toClient) \in Nat /\ DOMAIN toClient = 1 .. Len(toClient)
  BY DEF IInv, TypeOK
<1>7. ASSUME UNCHANGED table, NEW ok \in BOOLEAN,
             UNCHANGED toClient \/ Answer(r, ok, NULL),
             ~ ok \/ r.kind = "get"
      PROVE  Books'
  <2> SUFFICES ASSUME sure' PROVE Books' BY DEF Books, Counted, OneField, Told
  <2>1. CASE UNCHANGED toClient
    <3>1. Quiet /\ Quiet' BY <1>2, <1>4, <2>1 DEF Quiet, Granted
    <3> QED BY <1>2, <1>5, <1>7, <2>1, <3>1, BooksIdle
  <2>2. CASE Answer(r, ok, NULL)
    <3>1. PICK m \in Message : m = [id |-> r.id, ok |-> ok, callback |-> NULL]
      BY <1>3, RecordFacts
    <3>2. m.id = r.id /\ m.ok = ok /\ m.id \in Ids BY <1>3, <3>1
    <3>3. toClient' = Append(toClient, m) BY <2>2, <3>1 DEF Answer
    <3>4. /\ DOMAIN toClient' = 1 .. Len(toClient) + 1 /\ toClient'[Len(toClient) + 1] = m
          /\ \A q \in DOMAIN toClient : toClient'[q] = toClient[q]
      BY <1>6, <3>3, AppendFacts
    <3>5. \A p \in DOMAIN toClient' :
             \/ p \in DOMAIN toClient /\ toClient'[p] = toClient[p]
             \/ toClient'[p] = m
      BY <1>6, <3>4
    <3>6. \A p \in DOMAIN toClient' : ~ IsAnswer(toClient'[p]) =>
             \E q \in DOMAIN toClient : toClient[q] = toClient'[p]
      BY <3>2, <3>5 DEF IsAnswer
    <3>7. Quiet'
      <4>1. CASE ~ ok \/ call = NULL \/ r.id # call.id
        <5>1. \A q \in DOMAIN toClient :
                 ~ (call # NULL /\ toClient[q].id = call.id /\ toClient[q].ok)
          BY <1>4 DEF Granted
        <5>2. Granted' = {} BY <1>2, <3>2, <3>5, <4>1, <5>1 DEF Granted
        <5> QED BY <5>2 DEF Quiet
      <4>2. CASE ok /\ call # NULL /\ r.id = call.id
        <5>1. r.kind = "get" BY <1>7, <4>2
        <5>2. 1 \in DOMAIN toServer /\ toServer[1] = r BY <1>1, <1>2 DEF IInv, TypeOK
        <5>3. ~ Awaits({"add", "restore"}) /\ ~ Awaits({"delete"})
          BY <1>2, <4>2, <5>1, <5>2 DEF Requests
        <5> QED BY <1>2, <5>3 DEF Quiet, AboutCallback, Awaits
      <4> QED BY <4>1, <4>2
    <3>8. Quiet BY <1>4 DEF Quiet
    <3> QED BY <1>2, <1>5, <1>7, <3>6, <3>7, <3>8, BooksIdle
  <2> QED BY <1>7, <2>1, <2>2
<1>8. CASE r.kind = "get" /\ ServeGet(r) BY <1>7, <1>8 DEF ServeGet
<1>9. CASE r.kind = "add" /\ ServeAdd(r)
  <2>1. r.arg \in Fields BY <1>9 DEF Request
  <2>2. CASE \E c \in CallbackIdsFor(r.arg) : Use(c, r.arg) /\ Answer(r, TRUE, c)
    BY <1>1, <1>2, <1>9, <2>1, <2>2, BooksServedAdd
  <2>3. CASE UNCHANGED table /\ (Answer(r, FALSE, NULL) \/ UNCHANGED toClient)
    BY <1>7, <2>3
  <2> QED BY <1>9, <2>2, <2>3 DEF ServeAdd
<1>10. CASE r.kind = "delete" /\ ServeDelete(r)
  <2>1. r.arg \in CallbackIds BY <1>10 DEF Request
  <2>2. CASE table[r.arg] # NULL /\ Unuse(r.arg) /\ Answer(r, TRUE, NULL)
    BY <1>1, <1>2, <1>10, <2>1, <2>2, BooksServedDelete
  <2>3. CASE UNCHANGED table /\ (Answer(r, FALSE, NULL) \/ UNCHANGED toClient)
    BY <1>7, <2>3
  <2>4. CASE table[r.arg] # NULL /\ Unuse(r.arg) /\ UNCHANGED toClient
    <3>1. CASE sure /\ socket
      <4>1. toServer' = Tail(toServer) BY DEF Serve
      <4> QED BY <1>1, <1>2, <1>10, <2>1, <2>4, <3>1, <4>1, BooksServedSilently
    <3>2. CASE ~ (sure /\ socket)
      BY <1>2, <3>2 DEF Books, Counted, OneField, Told
    <3> QED BY <3>1, <3>2
  <2> QED BY <1>10, <2>2, <2>3, <2>4 DEF ServeDelete
<1> QED BY <1>2, <1>8, <1>9, <1>10

LEMMA BooksStep ==
    IInv /\ Restoring /\ Requests /\ Books /\ [Next]_vars => Books' \/ Unanswered'
<1> SUFFICES ASSUME IInv, Restoring, Requests, Books, [Next]_vars
             PROVE  Books' \/ Unanswered'
  OBVIOUS
<1>1. /\ list \in Seq(ClientCallback) /\ DOMAIN list = 1 .. Len(list) /\ Len(list) \in Nat
      /\ restoring \in Nat
  BY BooksFacts
<1>2. toClient \in Seq(Message) BY DEF IInv, TypeOK
<1>3. ASSUME NEW f \in Fields, Get(f) PROVE Books'
  <2>1. /\ Room /\ Send("get", f) /\ UNCHANGED list /\ call = NULL /\ call'.id = NextId
        /\ call'.kind = "get" /\ sure' = sure /\ UNCHANGED <<restoring, reconnected>>
    BY <1>3 DEF Get, Idle, CanSend, Send, connection
  <2>2. Current' = Current BY <2>1 DEF Current, Awaits
  <2> QED BY <2>1, <2>2, BooksSent
<1>4. ASSUME NEW f \in Fields, AddCallback(f) PROVE Books'
  <2>1. /\ Room /\ Send("add", f) /\ UNCHANGED list /\ call = NULL /\ call'.id = NextId
        /\ call'.kind = "add" /\ (sure' => sure) /\ UNCHANGED <<restoring, reconnected>>
    BY <1>4 DEF AddCallback, Idle, CanSend, Send, connection
  <2>2. Current' = Current BY <2>1 DEF Current, Awaits
  <2> QED BY <2>1, <2>2, BooksSent
<1>5. ASSUME NEW i \in DOMAIN list, DeleteCallback(i) PROVE Books'
  <2>1. /\ Room /\ Send("delete", list[i].id) /\ UNCHANGED list /\ call = NULL
        /\ call'.id = NextId /\ call'.kind = "delete" /\ sure' = sure
        /\ UNCHANGED <<restoring, reconnected>>
    BY <1>5 DEF DeleteCallback, Idle, CanSend, Send, connection
  <2>2. Current' = Current BY <2>1 DEF Current, Awaits
  <2> QED BY <2>1, <2>2, BooksSent
<1>6. CASE Restore
  <2>1. /\ Room /\ Send("add", list[restoring].field) /\ UNCHANGED list /\ call = NULL
        /\ call'.id = NextId /\ call'.kind = "restore" /\ sure' = sure
        /\ restoring' = restoring + 1 /\ UNCHANGED reconnected
    BY <1>6 DEF Restore, CanSend, Send, connection
  <2>2. call' # NULL BY <1>6, SentCalls
  <2>3. restoring' - 2 = restoring - 1 BY <1>1, <2>1
  <2>4. Current' = Current BY <2>1, <2>2, <2>3 DEF Current, Awaits
  <2> QED BY <2>1, <2>4, BooksSent
<1>7. CASE SendFails \/ LoseConnection \/ RestoreFails
  <2>1. ~ socket' BY <1>7 DEF SendFails, LoseConnection, RestoreFails, Disconnect
  <2> QED BY <2>1 DEF Books, Counted, OneField, Told
<1>8. CASE Reconnect
  <2> SUFFICES ASSUME sure' PROVE Books' BY DEF Books, Counted, OneField, Told
  <2>1. /\ ~ socket /\ call' = NULL /\ reconnected' /\ restoring' = 0
        /\ UNCHANGED <<list, toClient, table>>
    BY <1>8 DEF Reconnect, client
  <2>2. /\ \A c \in CallbackIds : table'[c] = NULL
        /\ toClient = << >>
    BY <2>1 DEF Restoring, IInv, TypeOK
  <2>3. DOMAIN toClient' = {} BY <2>1, <2>2
  <2>4. Current' = 1 .. restoring' - 1 BY <2>1 DEF Current, Awaits
  <2>5. Current' = {} BY <2>1, <2>4
  <2>6. Held' = {} BY <2>1, <2>5 DEF Held, Awaits
  <2>7. Counted'
    <3> SUFFICES ASSUME NEW c \in CallbackIds PROVE Booked(c)' BY DEF Counted
    <3>1. Mine(c)' = {} /\ ~ NewUse(c)' BY <2>1, <2>6 DEF Mine, NewUse, Awaits
    <3> QED BY <2>2, <3>1 DEF Booked
  <2>8. OneField' BY <2>5 DEF OneField
  <2>9. Told' BY <2>3 DEF Told
  <2> QED BY <2>7, <2>8, <2>9 DEF Books
<1>9. CASE ReceiveAnswer BY <1>9, BooksAnswered
<1>10. CASE ReceiveCallback \/ DiscardOldAnswer
  <2>1. /\ call # NULL /\ Read /\ UNCHANGED <<list, restoring, reconnected, socket, table>>
        /\ (UNCHANGED <<call, sure>> \/ GiveUp)
    BY <1>10 DEF ReceiveCallback, DiscardOldAnswer, GoOn, connection
  <2>2. First.id # call.id
    <3>1. call.id \in Ids BY <2>1, AgesAreNumbers DEF IInv
    <3> QED BY <1>10, <3>1 DEF ReceiveCallback, RunCallback, DiscardOldAnswer, IsAnswer
  <2>3. CASE UNCHANGED <<call, sure>> BY <2>1, <2>2, <2>3, BooksRead
  <2>4. CASE GiveUp BY <2>1, <2>4, BooksGivenUp
  <2> QED BY <2>1, <2>3, <2>4
<1>11. CASE ReceiveUnexpected \/ TimeOut
  <2>1. /\ call # NULL /\ (UNCHANGED toClient \/ Read) /\ GiveUp
        /\ UNCHANGED <<list, restoring, reconnected, socket, table>>
    BY <1>11 DEF ReceiveUnexpected, TimeOut, connection
  <2> QED BY <2>1, BooksGivenUp
<1>12. CASE Poll
  <2>1. /\ call = NULL /\ Read /\ UNCHANGED <<list, table, call, restoring, reconnected>>
        /\ UNCHANGED <<socket, sure>>
    BY <1>12 DEF Poll, Idle, client, connection
  <2> QED BY <2>1, BooksRead
<1>13. CASE StartRestore \/ EndRestore
  <2> SUFFICES ASSUME sure', socket' PROVE Books' BY DEF Books, Counted, OneField, Told
  <2>1. /\ call = NULL /\ UNCHANGED <<list, table, toClient, sure, socket, call>>
    BY <1>13 DEF StartRestore, EndRestore, Idle, connection
  <2>2. Quiet /\ Quiet' BY <2>1 DEF Quiet, AboutCallback, Awaits
  <2>3. ~ Awaits({"restore"}) /\ ~ Awaits({"restore"})' BY <2>1 DEF Awaits
  <2>4. Current' = Current
    <3>1. CASE StartRestore
      <4>1. /\ reconnected /\ reconnected' /\ restoring = 0 /\ restoring' = 1
        BY <3>1 DEF StartRestore, Idle, connection
      <4>2. Current = 1 .. restoring - 1 /\ Current' = 1 .. restoring' - 1
        BY <2>3, <4>1 DEF Current
      <4> QED BY <4>1, <4>2
    <3>2. CASE EndRestore
      <4>1. /\ restoring = Len(list) + 1 /\ ~ reconnected' BY <3>2 DEF EndRestore
      <4>2. reconnected
        <5>1. restoring # 0 /\ sure /\ socket BY <1>1, <2>1, <4>1
        <5> QED BY <5>1 DEF Restoring
      <4>3. Current = 1 .. restoring - 1 /\ Current' = DOMAIN list
        BY <2>1, <2>3, <4>1, <4>2 DEF Current
      <4>4. restoring - 1 = Len(list) BY <1>1, <4>1
      <4> QED BY <1>1, <4>3, <4>4
    <3> QED BY <1>13, <3>1, <3>2
  <2> QED BY <2>1, <2>2, <2>4, BooksIdle
<1>14. CASE Serve BY <1>14, BooksServed
<1>15. ASSUME NEW c \in CallbackIds, Notify(c) PROVE Books' BY <1>15, BooksNotified
<1>16. CASE UNCHANGED vars
  <2>1. UNCHANGED <<list, table, call, restoring, reconnected, socket, sure, toClient>>
    BY <1>16 DEF vars, client, connection
  <2>2. Granted' = Granted /\ Current' = Current /\ AddedField' = AddedField
    BY <2>1 DEF Granted, Current, AddedField, Awaits
  <2>3. Held' = Held BY <2>1, <2>2 DEF Held, Awaits
  <2>4. \A c : NewUse(c)' <=> NewUse(c) BY <2>1, <2>2 DEF NewUse, Awaits
  <2>5. \A c : Mine(c)' = Mine(c) BY <2>1, <2>3 DEF Mine
  <2>6. \A c : Booked(c)' <=> Booked(c) BY <2>1, <2>2, <2>4, <2>5 DEF Booked
  <2>7. ASSUME NEW p PROVE ToldAt(p) => ToldAt(p)'
    <3>1. NewUse(toClient[p].id)' <=> NewUse(toClient[p].id)
      BY <2>1, <2>2 DEF NewUse, Awaits
    <3>2. /\ Has(Held, toClient[p])' <=> Has(Held, toClient[p])
          /\ Has(Current, toClient[p])' <=> Has(Current, toClient[p])
      BY <2>1, <2>2, <2>3 DEF Has
    <3> QED BY <2>1, <2>2, <3>1, <3>2 DEF ToldAt
  <2>8. Counted' /\ OneField' BY <2>1, <2>2, <2>6 DEF Books, Counted, OneField
  <2>9. Told' BY <2>1, <2>7 DEF Books, Told, IsAnswer
  <2> QED BY <2>8, <2>9 DEF Books
<1> QED BY <1>3, <1>4, <1>5, <1>6, <1>7, <1>8, <1>9, <1>10, <1>11, <1>12, <1>13, <1>14,
           <1>15, <1>16 DEF Next, Wait

\* A client that waits in vain goes on waiting, or gives up and is not sure any more.
LEMMA UnansweredStep ==
    IInv /\ Restoring /\ Requests /\ Unanswered /\ [Next]_vars => Books' \/ Unanswered'
<1> SUFFICES ASSUME IInv, Restoring, Requests, Unanswered, [Next]_vars
             PROVE  Books' \/ Unanswered'
  OBVIOUS
<1>1. /\ call # NULL /\ call.kind = "delete" /\ ~ Idle
      /\ \A j \in DOMAIN toServer : toServer[j].id # call.id
      /\ \A q \in DOMAIN toClient : toClient[q].id # call.id
  BY DEF Unanswered, Silent, Awaits, Idle
<1>2. toServer \in Seq(Request) /\ toClient \in Seq(Message) /\ call.id \in Ids
  BY <1>1, AgesAreNumbers DEF IInv, TypeOK
<1>3. ~ sure' \/ ~ socket' => Books' BY DEF Books, Counted, OneField, Told
<1>4. GiveUp => ~ sure' BY <1>1 DEF GiveUp
<1>5. /\ \A j \in DOMAIN toServer : \E k \in DOMAIN toServer : toServer[j] = toServer[k]
      /\ \A p \in DOMAIN toClient : \E q \in DOMAIN toClient : toClient[p] = toClient[q]
  OBVIOUS
<1>6. CASE LoseConnection \/ SendFails \/ RestoreFails
  BY <1>3, <1>6 DEF LoseConnection, SendFails, RestoreFails, Disconnect
<1>7. CASE ReceiveAnswer
  <2>1. 1 \in DOMAIN toClient /\ toClient[1].id = call.id
    BY <1>2, <1>7 DEF ReceiveAnswer, Read, First
  <2> QED BY <1>1, <2>1
<1>8. CASE ReceiveCallback \/ DiscardOldAnswer
  <2>1. /\ Read /\ UNCHANGED <<list, restoring, reconnected, socket, toServer, table>>
        /\ (UNCHANGED <<call, sure>> \/ GiveUp)
    BY <1>8 DEF ReceiveCallback, DiscardOldAnswer, GoOn, connection
  <2>2. \A p \in DOMAIN toClient' : \E q \in DOMAIN toClient : toClient'[p] = toClient[q]
    <3>1. \A p \in DOMAIN toClient' :
             p + 1 \in DOMAIN toClient /\ toClient'[p] = toClient[p + 1]
      BY <1>2, <2>1 DEF Read
    <3> QED BY <3>1
  <2>3. CASE UNCHANGED <<call, sure>> BY <1>5, <2>1, <2>2, <2>3, UnansweredKept
  <2> QED BY <1>3, <1>4, <2>1, <2>3
<1>9. CASE ReceiveUnexpected \/ TimeOut
  BY <1>3, <1>4, <1>9 DEF ReceiveUnexpected, TimeOut
<1>10. CASE Serve
  <2> SUFFICES ASSUME sure' PROVE Unanswered' BY <1>3
  <2>1. PICK r \in Request : r = Head(toServer) BY <1>2, <1>10 DEF Serve
  <2>2. /\ toServer # << >> /\ toServer' = Tail(toServer)
        /\ \/ r.kind = "get" /\ ServeGet(r)
           \/ r.kind = "add" /\ ServeAdd(r)
           \/ r.kind = "delete" /\ ServeDelete(r)
        /\ UNCHANGED <<list, call, restoring, reconnected, socket, sure>>
    BY <1>10, <2>1 DEF Serve, client, connection
  <2>3. 1 \in DOMAIN toServer /\ toServer[1] = r BY <1>2, <2>1, <2>2
  <2>4. r.id # call.id /\ r.id \in Ids BY <1>1, <2>3 DEF Request
  <2>5. r.kind = "get" BY <2>2, <2>3, <2>4 DEF Requests
  <2>6. Answer(r, TRUE, NULL) /\ UNCHANGED table BY <2>2, <2>5 DEF ServeGet
  <2>7. PICK m \in Message : m = [id |-> r.id, ok |-> TRUE, callback |-> NULL]
    BY <2>4, RecordFacts
  <2>8. m.id = r.id BY <2>7
  <2>9. toClient' = Append(toClient, m) BY <2>6, <2>7 DEF Answer
  <2>10. \A p \in DOMAIN toClient' :
            (\E q \in DOMAIN toClient : toClient'[p] = toClient[q]) \/ toClient'[p] = m
    <3> DEFINE n == Len(toClient)
    <3>1. n \in Nat /\ DOMAIN toClient = 1 .. n BY <1>2
    <3> HIDE DEF n
    <3>2. /\ DOMAIN toClient' = 1 .. n + 1 /\ toClient'[n + 1] = m
          /\ \A q \in DOMAIN toClient : toClient'[q] = toClient[q]
      BY <1>2, <2>9, AppendFacts DEF n
    <3> QED BY <3>1, <3>2
  <2>11. \A p \in DOMAIN toClient' :
            \/ \E q \in DOMAIN toClient : toClient'[p] = toClient[q]
            \/ IsAnswer(toClient'[p]) /\ toClient'[p].id # call.id
    BY <2>4, <2>8, <2>10 DEF IsAnswer
  <2>12. \A j \in DOMAIN toServer' : \E k \in DOMAIN toServer : toServer'[j] = toServer[k]
    <3>1. \A j \in DOMAIN toServer' :
             j + 1 \in DOMAIN toServer /\ toServer'[j] = toServer[j + 1]
      BY <1>2, <2>2
    <3> QED BY <3>1
  <2> QED BY <2>2, <2>6, <2>11, <2>12, UnansweredKept
<1>11. ASSUME NEW c \in CallbackIds, Notify(c) PROVE Unanswered'
  <2>1. /\ socket /\ table[c] # NULL
        /\ toClient' = Append(toClient, [id |-> c, field |-> table[c].field])
        /\ UNCHANGED <<list, table, call, restoring, reconnected, socket, sure, toServer>>
    BY <1>11 DEF Notify, client, connection
  <2>2. table[c].field \in Fields BY <2>1, InTable
  <2>3. PICK m \in Message : m = [id |-> c, field |-> table[c].field] BY <2>2, RecordFacts
  <2>4. m.id = c /\ m.field = table[c].field /\ m.id # call.id
    BY <1>2, <2>3, ConstantFacts
  <2>5. toClient' = Append(toClient, m) BY <2>1, <2>3
  <2>6. \A p \in DOMAIN toClient' :
            (\E q \in DOMAIN toClient : toClient'[p] = toClient[q]) \/ toClient'[p] = m
    <3> DEFINE n == Len(toClient)
    <3>1. n \in Nat /\ DOMAIN toClient = 1 .. n BY <1>2
    <3> HIDE DEF n
    <3>2. /\ DOMAIN toClient' = 1 .. n + 1 /\ toClient'[n + 1] = m
          /\ \A q \in DOMAIN toClient : toClient'[q] = toClient[q]
      BY <1>2, <2>5, AppendFacts DEF n
    <3> QED BY <3>1, <3>2
  <2>7. sure /\ socket => Has(Current, m)
    BY <2>1, <2>4 DEF Unanswered, Known, Has
  <2>8. \A p \in DOMAIN toClient' :
            \/ \E q \in DOMAIN toClient : toClient'[p] = toClient[q]
            \/ /\ toClient'[p].id # call.id
               /\ sure /\ socket => Has(Current, toClient'[p])
    BY <2>4, <2>6, <2>7
  <2> QED BY <1>5, <2>1, <2>8, UnansweredKept
<1>12. CASE UNCHANGED vars
  BY <1>5, <1>12, UnansweredKept DEF vars, client, connection
<1>13. CASE Poll \/ StartRestore \/ EndRestore \/ Reconnect \/ Restore
  BY <1>1, <1>13 DEF Poll, StartRestore, EndRestore, Reconnect, Restore
<1>14. ASSUME NEW f \in Fields, Get(f) \/ AddCallback(f) PROVE FALSE
  BY <1>1, <1>14 DEF Get, AddCallback
<1>15. ASSUME NEW i \in DOMAIN list, DeleteCallback(i) PROVE FALSE
  BY <1>1, <1>15 DEF DeleteCallback
<1> QED BY <1>6, <1>7, <1>8, <1>9, <1>10, <1>11, <1>12, <1>13, <1>14, <1>15 DEF Next, Wait

LEMMA InitBooks == Init => CInv
<1> SUFFICES ASSUME Init PROVE CInv OBVIOUS
<1>1. /\ list = << >> /\ toServer = << >> /\ toClient = << >> /\ call = NULL
      /\ restoring = 0 /\ socket = TRUE /\ reconnected = FALSE
      /\ \A c \in CallbackIds : table[c] = NULL
  BY DEF Init
<1>2. DOMAIN list = {} /\ DOMAIN toServer = {} /\ DOMAIN toClient = {} /\ Len(list) = 0
  BY <1>1
<1>3. Restoring BY <1>1, <1>2 DEF Restoring, Awaits
<1>4. Requests BY <1>2 DEF Requests
<1>5. Current = {} /\ Held = {} BY <1>1, <1>2 DEF Current, Held, Awaits
<1>6. \A c : ~ NewUse(c) BY <1>1 DEF NewUse, Awaits
<1>7. Counted BY <1>1, <1>5, <1>6 DEF Counted, Booked, Mine
<1>8. OneField BY <1>5 DEF OneField
<1>9. Told BY <1>2 DEF Told
<1> QED BY <1>3, <1>4, <1>7, <1>8, <1>9 DEF CInv, Books

LEMMA BooksInvariance == Spec => [](IInv /\ CInv)
<1>1. Init => IInv /\ CInv BY InitInv, InitBooks
<1>2. IInv /\ CInv /\ [Next]_vars => (IInv /\ CInv)'
  BY StepInv, RestoringStep, RequestsStep, BooksStep, UnansweredStep DEF CInv
<1> QED BY <1>1, <1>2, PTL DEF Spec

\* A set of numbers has a least one.
LEMMA LeastOf ==
    ASSUME NEW T \in SUBSET Nat, T # {}
    PROVE  Min(T) \in T /\ \A t \in T : Min(T) <= t
<1> DEFINE Below == {0 .. n : n \in T}
<1>1. Below \subseteq FiniteSubsetsOf(Nat)
  <2> SUFFICES ASSUME NEW n \in T PROVE 0 .. n \in FiniteSubsetsOf(Nat) OBVIOUS
  <2>1. IsFiniteSet(0 .. n) BY FS_Interval
  <2> QED BY <2>1 DEF FiniteSubsetsOf
<1>2. Below # {} OBVIOUS
<1>3. PICK B \in Below : \A D \in Below : ~ (<<D, B>> \in StrictSubsetOrdering(Nat))
  <2> HIDE DEF Below
  <2> QED BY <1>1, <1>2, FS_StrictSubsetOrderingWellFounded, WFMin
<1>4. PICK n \in T : B = 0 .. n OBVIOUS
<1>5. ASSUME NEW t \in T, t < n PROVE FALSE
  <2>1. 0 .. t \in Below OBVIOUS
  <2>2. 0 .. t \subseteq B /\ n \in B /\ n \notin 0 .. t BY <1>4, <1>5
  <2>3. 0 .. t \in SUBSET Nat /\ B \in SUBSET Nat BY <1>4
  <2> QED BY <1>3, <2>1, <2>2, <2>3 DEF StrictSubsetOrdering
<1>6. \A t \in T : n <= t BY <1>5
<1> QED BY <1>4, <1>6 DEF Min
-----------------------------------------------------------------------------
(* The theorems *)

LEMMA Invariance == Spec => []IInv
<1> QED BY InitInv, StepInv, PTL DEF Spec

(* The client's variables have their types in every state: a callback that is  *)
(* kept has an id of the server's, and nothing is on its way without a socket. *)
THEOREM TypeCorrect == Spec => []TypeOK
<1>1. IInv => TypeOK BY DEF IInv
<1> QED BY <1>1, Invariance, PTL

(* A request that ends with an answer ends with its own: nothing that was sent *)
(* before it can still be on its way then.                                     *)
THEOREM AnswerCorrect == Spec => AnswerIsOwn
<1>1. IInv /\ ReceiveAnswer
         => toServer = << >> /\ \A m \in ToSet(toClient') : ~ IsAnswer(m)
  <2> SUFFICES ASSUME IInv, ReceiveAnswer
               PROVE  toServer = << >> /\ \A m \in ToSet(toClient') : ~ IsAnswer(m)
    OBVIOUS
  <2>1. call # NULL /\ Read /\ First.id = call.id BY DEF ReceiveAnswer
  <2>2. /\ toClient \in Seq(Message) /\ toClient' = Tail(toClient)
        /\ 1 \in DOMAIN toClient /\ toClient[1].id = call.id
    BY <2>1 DEF IInv, TypeOK, Read, First
  <2>3. ASSUME NEW m \in ToSet(toClient') PROVE ~ IsAnswer(m)
    <3>1. PICK i \in DOMAIN toClient' : m = toClient'[i] BY DEF ToSet
    <3>2. i + 1 \in DOMAIN toClient /\ i + 1 > 1 /\ m = toClient[i + 1] BY <2>2, <3>1
    <3> QED BY <2>1, <2>2, <3>2, LastAnswer
  <2> QED BY <2>1, <2>2, <2>3, LastAnswer
<1> QED BY <1>1, Invariance, PTL DEF Spec, AnswerIsOwn

\* The arithmetic of ids: an answer that is not recognised as an old one
LEMMA NotOld ==
    ASSUME NEW a \in Ids, NEW b \in Ids, ~ Old(b, a)
    PROVE  IF b < a THEN Behind(a, b) >= MaxMismatch
           ELSE Behind(a, b) > MaxMismatch \/ IsCallback - a < MaxMismatch
<1> DEFINE n == IsCallback - 1
           m == 2 * IsCallback
<1>1. /\ IsCallback \in Nat /\ MaxMismatch \in Nat /\ IsCallback > 1
      /\ a \in Int /\ 1 <= a /\ a <= n /\ b \in Int /\ 1 <= b /\ b <= n
      /\ n \in Nat /\ n > 0 /\ m \in Nat /\ m > 0
  BY ConstantFacts DEF Ids
<1>2. Behind(a, b) = IF b >= a THEN b - a ELSE b - a + n
  <2>1. b - a \in Int /\ -n <= b - a /\ b - a < n BY <1>1
  <2>2. (b - a) % n = IF b - a >= 0 THEN b - a ELSE b - a + n
    BY <1>1, <2>1, SmallModulo
  <2> QED BY <1>1, <2>2 DEF Behind
<1>3. Difference(b, a) \in Int /\ Difference(b, a) > MaxMismatch
      /\ Difference(b, a) = IF IsCallback - a < MaxMismatch THEN IsCallback + b - a
                            ELSE IF b >= a THEN b - a ELSE b - a + m
  <2>1. CASE IsCallback - a < MaxMismatch
    <3>1. /\ IsCallback + b - a \in Int /\ -m <= IsCallback + b - a
          /\ IsCallback + b - a < m /\ IsCallback + b - a >= 0
      BY <1>1
    <3>2. (IsCallback + b - a) % m = IsCallback + b - a BY <1>1, <3>1, SmallModulo
    <3>3. Difference(b, a) = IsCallback + b - a BY <2>1, <3>2 DEF Difference
    <3> QED BY <1>1, <2>1, <3>3 DEF Old
  <2>2. CASE ~ (IsCallback - a < MaxMismatch)
    <3>1. b - a \in Int /\ -m <= b - a /\ b - a < m BY <1>1
    <3>2. (b - a) % m = IF b - a >= 0 THEN b - a ELSE b - a + m
      BY <1>1, <3>1, SmallModulo
    <3>3. Difference(b, a) = IF b - a >= 0 THEN b - a ELSE b - a + m
      BY <2>2, <3>2 DEF Difference
    <3> QED BY <1>1, <2>2, <3>3 DEF Old
  <2> QED BY <2>1, <2>2
<1> QED BY <1>1, <1>2, <1>3

(* A request that fails because of an old answer has been overtaken by as many *)
(* requests as the comments of the wraparound allow for, whatever the width of *)
(* a message id.                                                               *)
THEOREM OldAnswersAreHarmless == Spec => OldAnswersHarmless
<1>1. IInv /\ ReceiveUnexpected /\ First.id \in Ids
         => LET age == Behind(First.id, call.id) IN
            IF call.id < First.id THEN age >= MaxMismatch
            ELSE age > MaxMismatch \/ IsCallback - First.id < MaxMismatch
  <2> SUFFICES ASSUME IInv, ReceiveUnexpected, First.id \in Ids
               PROVE  LET age == Behind(First.id, call.id) IN
                      IF call.id < First.id THEN age >= MaxMismatch
                      ELSE age > MaxMismatch \/ IsCallback - First.id < MaxMismatch
    OBVIOUS
  <2>1. call # NULL /\ ~ Old(call.id, First.id)
    BY DEF ReceiveUnexpected, IsAnswer
  <2>2. call.id \in Ids BY <2>1, AgesAreNumbers DEF IInv
  <2> QED BY <2>1, <2>2, NotOld
<1> QED BY <1>1, Invariance, PTL DEF Spec, OldAnswersHarmless

(* As long as the client is sure of its callbacks, every callback message that *)
(* it reads invokes a callback of the field that has changed, whatever the     *)
(* server reuses, restores and sends meanwhile: the callback that the search   *)
(* finds first was granted on this connection, and those of one id have one    *)
(* field.                                                                      *)
THEOREM CallbacksFitTheirField == Spec => []CallbackForItsField
<1>1. IInv /\ CInv => CallbackForItsField
  <2> SUFFICES ASSUME IInv, CInv, sure, CallbackNext
               PROVE  list # << >> /\ list[Invoked(First.id)].field = First.field
    BY DEF CallbackForItsField
  <2>1. Restoring /\ (Books \/ Unanswered) BY DEF CInv
  <2>2. /\ socket /\ 1 \in DOMAIN toClient /\ First = toClient[1]
        /\ \A q \in DOMAIN toClient : ~ (q < 1)
    BY DEF CallbackNext, First, IInv, TypeOK
  <2>3. ~ IsAnswer(toClient[1]) BY <2>2 DEF CallbackNext
  <2>4. OneField BY <2>1 DEF Books, Unanswered
  <2>5. Has(Current, First)
    <3>1. CASE Books
      <4>1. ToldAt(1) BY <2>2, <2>3, <3>1 DEF Books, Told
      <4> QED BY <2>2, <4>1 DEF ToldAt, Granted
    <3>2. CASE Unanswered BY <2>2, <2>3, <3>2 DEF Unanswered, Known
    <3> QED BY <2>1, <3>1, <3>2
  <2>6. PICK i \in Current : list[i].id = First.id /\ list[i].field = First.field
    BY <2>5 DEF Has
  <2>7. /\ list \in Seq(ClientCallback) /\ DOMAIN list = 1 .. Len(list)
        /\ Current \subseteq DOMAIN list /\ 1 .. i \subseteq Current /\ i \in Nat
    BY <2>1, BooksFacts
  <2> DEFINE found == {k \in DOMAIN list : list[k].id = First.id}
  <2>8. found \in SUBSET Nat /\ i \in found BY <2>6, <2>7
  <2>9. Min(found) \in found /\ Min(found) <= i
    <3> HIDE DEF found
    <3> QED BY <2>8, LeastOf
  <2>10. Invoked(First.id) = Min(found) BY <2>8 DEF Invoked
  <2>11. PICK k \in found : k = Min(found) /\ k <= i BY <2>9
  <2>12. k \in Current /\ list[k].id = list[i].id BY <2>6, <2>7, <2>11
  <2>13. list[k].field = list[i].field BY <2>2, <2>4, <2>12 DEF OneField
  <2>14. list # << >> BY <2>7
  <2> QED BY <2>6, <2>10, <2>11, <2>13, <2>14
<1> QED BY <1>1, BooksInvariance, PTL

(* As long as the client is sure of its callbacks and none is being added,     *)
(* deleted or restored, the server has each of them under its id and for its   *)
(* field, and counts as many uses of it as the client has.                     *)
THEOREM SubscriptionsAreKept == Spec => []SubscriptionsKept
<1>1. IInv /\ CInv => SubscriptionsKept
  <2> SUFFICES ASSUME IInv, CInv, sure, socket, ~ reconnected,
                      call = NULL \/ call.kind = "get", NEW c \in CallbackIds
               PROVE  LET mine == {i \in DOMAIN list : list[i].id = c} IN
                      IF table[c] = NULL THEN mine = {}
                      ELSE /\ Cardinality(mine) = table[c].uses
                           /\ \A i \in mine : list[i].field = table[c].field
    BY DEF SubscriptionsKept
  <2>1. Restoring /\ Books BY DEF CInv, Unanswered, Silent, Awaits
  <2>2. Quiet BY DEF Quiet, AboutCallback, Awaits
  <2>3. Held = DOMAIN list /\ ~ NewUse(c) BY <2>2, QuietFacts DEF Current
  <2>4. Mine(c) = {i \in DOMAIN list : list[i].id = c} BY <2>3 DEF Mine
  <2>5. Booked(c) BY <2>1 DEF Books, Counted
  <2>6. Cardinality(Mine(c)) \in Nat BY <2>1, BooksFacts, FS_CardinalityType
  <2>7. IF table[c] = NULL THEN Mine(c) = {}
        ELSE /\ Cardinality(Mine(c)) = table[c].uses
             /\ \A i \in Mine(c) : list[i].field = table[c].field
    <3>1. CASE table[c] = NULL BY <2>5, <3>1 DEF Booked
    <3>2. CASE table[c] # NULL
      <4>1. table[c].uses = Cardinality(Mine(c)) + 0 BY <2>3, <2>5, <3>2 DEF Booked
      <4> QED BY <2>5, <2>6, <3>2, <4>1 DEF Booked
    <3> QED BY <3>1, <3>2
  <2> QED BY <2>4, <2>7
<1> QED BY <1>1, BooksInvariance, PTL
=============================================================================
