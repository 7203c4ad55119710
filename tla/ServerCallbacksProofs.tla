------------------------ MODULE ServerCallbacksProofs ------------------------
(***************************************************************************)
(* Theorems about ServerCallbacks, for any fields, clients, values, size   *)
(* of the handle table and bound on the uses of a callback: the handle     *)
(* table, the lists of the fields and the usage counts agree, no callback  *)
(* has the socket handler of a closed connection, and no subscriber of a   *)
(* polled field has missed a change that was sent.                         *)
(***************************************************************************)
EXTENDS ServerCallbacks, TLAPS, FiniteSetTheorems, WellFoundedInduction

\* A free handle has nothing left over from the callback it had.
FreeHandles == \A h \in Handles : table[h] = NULL => leaked[h] = 0 /\ foreign[h] = 0

UsesFinite == \A h \in Handles : table[h] # NULL => IsFiniteSet(Uses(table[h].sockets))

\* The bound of MayBeUsedMore
UsesBounded ==
    \A h \in Handles :
        table[h] # NULL => Cardinality(Uses(table[h].sockets)) + leaked[h] <= MaxUses

TablesTypeOK ==
    /\ table \in [Handles -> Callback \cup {NULL}]
    /\ fieldList \in [Fields -> Seq(Handles)]
    /\ conn \in [Clients -> {"open", "broken", "closed"}]
    /\ leaked \in [Handles -> 0 .. MaxUses]
    /\ foreign \in [Handles -> 0 .. MaxForeign]

DataTypeOK ==
    /\ hw \in [Fields -> Values] /\ value \in [Fields -> Values] /\ last \in [Fields -> Values]
    /\ poll \in 0 .. NumHandles + 1
    /\ polls \in {0, 1}
    /\ cutShort \in BOOLEAN
    /\ seen \in [Clients -> [Fields -> Values \cup {NULL}]]

\* What subscribing, unsubscribing and disconnecting keep of the callbacks
Tables ==
    /\ TablesTypeOK
    /\ HandlesConsistent
    /\ UsersCounted
    /\ UsesFinite
    /\ UsesBounded
    /\ FreeHandles
    /\ NoFreedSocketHandler

IInv == Tables /\ DataTypeOK /\ PolledFieldsAreTold
-----------------------------------------------------------------------------
(* Numbers *)

(* A set of numbers has a least one: from the library's theorem that the finite *)
(* subsets of a set are well-founded by inclusion.  It stands for induction.    *)
LEMMA Least ==
    ASSUME NEW T \in SUBSET Nat, T # {}
    PROVE  \E n \in T : \A m \in T : n <= m
<1> DEFINE Initial == {0 .. n : n \in T}
<1>1. Initial \subseteq FiniteSubsetsOf(Nat)
  <2> SUFFICES ASSUME NEW n \in T PROVE 0 .. n \in FiniteSubsetsOf(Nat)
    OBVIOUS
  <2>1. IsFiniteSet(0 .. n) BY FS_Interval
  <2>2. 0 .. n \in SUBSET Nat OBVIOUS
  <2> QED BY <2>1, <2>2 DEF FiniteSubsetsOf
<1>2. Initial # {} OBVIOUS
<1>3. PICK I \in Initial : \A J \in Initial : ~ (<<J, I>> \in StrictSubsetOrdering(Nat))
  <2> HIDE DEF Initial
  <2> QED BY <1>1, <1>2, FS_StrictSubsetOrderingWellFounded, WFMin
<1>4. PICK n \in T : I = 0 .. n OBVIOUS
<1>5. ASSUME NEW m \in T, m < n PROVE FALSE
  <2>1. 0 .. m \in Initial OBVIOUS
  <2>2. 0 .. m \subseteq I /\ 0 .. m # I
    <3>1. n \in I /\ n \notin 0 .. m BY <1>4, <1>5
    <3> QED BY <1>4, <1>5, <3>1
  <2>3. 0 .. m \in SUBSET Nat /\ I \in SUBSET Nat BY <1>4
  <2> QED BY <1>3, <2>1, <2>2, <2>3 DEF StrictSubsetOrdering
<1> QED BY <1>5


\* What makes k the function Kept of ListWithout(s, H), on 0 .. n
KeptBody(k, s, H, n) ==
    [i \in 0 .. n |-> IF i = 0 THEN << >>
                      ELSE IF s[i] \in H THEN k[i - 1]
                      ELSE Append(k[i - 1], s[i])]

(* The recursive function of ListWithout exists. *)
LEMMA KeptExists ==
    ASSUME NEW s, NEW H, NEW len \in Nat
    PROVE  \E k : k = KeptBody(k, s, H, len)
<1> DEFINE Bad == {n \in Nat : \A k : k # KeptBody(k, s, H, n)}
<1>1. SUFFICES ASSUME Bad # {} PROVE FALSE
  OBVIOUS
<1>2. PICK n \in Bad : \A m \in Bad : n <= m
  <2> HIDE DEF Bad
  <2>1. Bad \in SUBSET Nat BY DEF Bad
  <2> QED BY <1>1, <2>1, Least
<1>3. n # 0
  <2>1. [i \in 0 .. 0 |-> << >>] = KeptBody([i \in 0 .. 0 |-> << >>], s, H, 0) BY DEF KeptBody
  <2> QED BY <2>1
<1>4. n - 1 \in Nat /\ n - 1 \notin Bad
  <2>1. n \in Nat /\ n - 1 \in Nat BY <1>3
  <2>2. n - 1 \notin Bad
    <3> HIDE DEF Bad
    <3> QED BY <1>2, <2>1
  <2> QED BY <2>1, <2>2
<1>5. PICK k : k = KeptBody(k, s, H, n - 1) BY <1>4
<1> DEFINE g == [i \in 0 .. n |-> IF i < n THEN k[i]
                                 ELSE IF s[i] \in H THEN k[i - 1] ELSE Append(k[i - 1], s[i])]
<1>6. g = KeptBody(g, s, H, n)
  <2>1. ASSUME NEW i \in 0 .. n
        PROVE  g[i] = IF i = 0 THEN << >>
                      ELSE IF s[i] \in H THEN g[i - 1] ELSE Append(g[i - 1], s[i])
    <3>1. CASE i < n
      <4>1. i \in 0 .. n - 1 /\ (i # 0 => i - 1 < n /\ i - 1 \in 0 .. n) BY <3>1, <1>3
      <4>2. g[i] = k[i] /\ (i # 0 => g[i - 1] = k[i - 1]) BY <3>1, <4>1
      <4>3. k[i] = IF i = 0 THEN << >>
                   ELSE IF s[i] \in H THEN k[i - 1] ELSE Append(k[i - 1], s[i])
        BY <1>5, <4>1 DEF KeptBody
      <4> QED BY <4>2, <4>3
    <3>2. CASE i = n
      <4>1. i # 0 /\ i - 1 \in 0 .. n /\ i - 1 < n BY <1>3, <1>4, <3>2
      <4>2. g[i - 1] = k[i - 1] BY <4>1
      <4>3. g[i] = IF s[i] \in H THEN k[i - 1] ELSE Append(k[i - 1], s[i]) BY <3>2
      <4> QED BY <4>1, <4>2, <4>3
    <3> QED BY <3>1, <3>2
  <2> HIDE DEF g
  <2>2. g = [i \in 0 .. n |-> g[i]] BY DEF g
  <2> QED BY <2>1, <2>2 DEF KeptBody
<1> QED BY <1>6

LEMMA AppendFacts ==
    ASSUME NEW S, NEW s \in Seq(S), NEW x \in S
    PROVE  /\ ToSet(Append(s, x)) = ToSet(s) \cup {x}
           /\ IsInjective(s) /\ x \notin ToSet(s) => IsInjective(Append(s, x))
<1>1. /\ DOMAIN Append(s, x) = 1 .. Len(s) + 1
      /\ \A i \in 1 .. Len(s) : Append(s, x)[i] = s[i]
      /\ Append(s, x)[Len(s) + 1] = x
      /\ DOMAIN s = 1 .. Len(s)
  OBVIOUS
<1>2. ToSet(Append(s, x)) = ToSet(s) \cup {x} BY <1>1 DEF ToSet
<1>3. IsInjective(s) /\ x \notin ToSet(s) => IsInjective(Append(s, x))
  <2> SUFFICES ASSUME IsInjective(s), x \notin ToSet(s) PROVE IsInjective(Append(s, x))
    OBVIOUS
  <2>1. \A i \in 1 .. Len(s) : s[i] # x BY <1>1 DEF ToSet
  <2> QED BY <1>1, <2>1 DEF IsInjective
<1> QED BY <1>2, <1>3

(* What ListWithout returns *)
LEMMA ListWithoutFacts ==
    ASSUME NEW S, NEW s \in Seq(S), NEW H
    PROVE  /\ ListWithout(s, H) \in Seq(S)
           /\ ToSet(ListWithout(s, H)) = ToSet(s) \ H
           /\ IsInjective(s) => IsInjective(ListWithout(s, H))
<1> DEFINE K == CHOOSE k : k = KeptBody(k, s, H, Len(s))
<1>1. K = KeptBody(K, s, H, Len(s))
  <2>1. \E k : k = KeptBody(k, s, H, Len(s)) BY KeptExists
  <2> QED BY <2>1
<1>2. ListWithout(s, H) = K[Len(s)] BY DEF ListWithout, KeptBody
<1> HIDE DEF K
<1> DEFINE Good(r, i) == /\ r \in Seq(S)
                         /\ ToSet(r) = {s[j] : j \in 1 .. i} \ H
                         /\ IsInjective(s) => IsInjective(r)
           Bad == {i \in 0 .. Len(s) : ~ Good(K[i], i)}
<1>3. SUFFICES ASSUME Bad # {} PROVE FALSE
  <2>1. Bad = {} BY <1>3
  <2>2. Good(K[Len(s)], Len(s))
    <3>1. Len(s) \in 0 .. Len(s) OBVIOUS
    <3> HIDE DEF Good
    <3> QED BY <2>1, <3>1
  <2>3. ToSet(s) = {s[j] : j \in 1 .. Len(s)} BY DEF ToSet
  <2> QED BY <1>2, <2>2, <2>3
<1>4. PICK n \in Bad : \A m \in Bad : n <= m
  <2> HIDE DEF Bad
  <2>1. Bad \in SUBSET Nat BY DEF Bad
  <2> QED BY <1>3, <2>1, Least
<1>5. n \in 0 .. Len(s) /\ ~ Good(K[n], n) OBVIOUS
<1>6. n # 0
  <2>1. K[0] = << >> BY <1>1 DEF KeptBody
  <2>2. Good(<< >>, 0) BY DEF ToSet, IsInjective
  <2> QED BY <1>5, <2>1, <2>2
<1>7. Good(K[n - 1], n - 1)
  <2>1. n - 1 \in 0 .. Len(s) /\ n - 1 < n BY <1>5, <1>6
  <2>2. n - 1 \notin Bad
    <3> HIDE DEF Bad
    <3> QED BY <1>4, <1>5, <2>1
  <2> QED BY <2>1, <2>2
<1> DEFINE r == K[n - 1]
<1>8. K[n] = IF s[n] \in H THEN r ELSE Append(r, s[n]) BY <1>1, <1>5, <1>6 DEF KeptBody
<1>9. {s[j] : j \in 1 .. n} = {s[j] : j \in 1 .. n - 1} \cup {s[n]}
  <2>1. 1 .. n = (1 .. n - 1) \cup {n} BY <1>5, <1>6
  <2> QED BY <2>1
<1> HIDE DEF r
<1>10. CASE s[n] \in H BY <1>5, <1>7, <1>8, <1>9, <1>10 DEF r
<1>11. CASE s[n] \notin H
  <2>1. r \in Seq(S) /\ s[n] \in S BY <1>5, <1>6, <1>7 DEF r
  <2>2. Append(r, s[n]) \in Seq(S) BY <2>1
  <2>3. ToSet(Append(r, s[n])) = ToSet(r) \cup {s[n]} BY <2>1, AppendFacts
  <2>4. IsInjective(s) => IsInjective(Append(r, s[n]))
    <3> SUFFICES ASSUME IsInjective(s) PROVE IsInjective(Append(r, s[n]))
      OBVIOUS
    <3>1. s[n] \notin ToSet(r) BY <1>5, <1>6, <1>7 DEF IsInjective, r
    <3>2. IsInjective(r) BY <1>7 DEF r
    <3> QED BY <2>1, <3>1, <3>2, AppendFacts
  <2>5. ToSet(r) = {s[j] : j \in 1 .. n - 1} \ H BY <1>7 DEF r
  <2>6. ToSet(Append(r, s[n])) = {s[j] : j \in 1 .. n} \ H BY <2>3, <2>5, <1>9, <1>11
  <2> QED BY <1>5, <1>8, <1>11, <2>2, <2>4, <2>6
<1> QED BY <1>10, <1>11
-----------------------------------------------------------------------------
(* The uses of a callback *)

LEMMA UsesPlus ==
    ASSUME NEW s \in [Clients -> 0 .. MaxUses], NEW c \in Clients, s[c] < MaxUses,
           IsFiniteSet(Uses(s)), MaxUses \in Nat
    PROVE  LET t == [s EXCEPT ![c] = s[c] + 1] IN
           /\ t \in [Clients -> 0 .. MaxUses]
           /\ IsFiniteSet(Uses(t))
           /\ Cardinality(Uses(t)) = Cardinality(Uses(s)) + 1
<1> DEFINE t == [s EXCEPT ![c] = s[c] + 1]
<1>1. t \in [Clients -> 0 .. MaxUses] OBVIOUS
<1>2. Uses(t) = Uses(s) \cup {<<c, s[c] + 1>>}
  <2>1. \A d \in Clients, k \in 1 .. MaxUses :
           k <= t[d] <=> k <= s[d] \/ (d = c /\ k = s[c] + 1)
    OBVIOUS
  <2>2. <<c, s[c] + 1>> \in Clients \X (1 .. MaxUses) OBVIOUS
  <2> HIDE DEF t
  <2>3. \A u \in Clients \X (1 .. MaxUses) :
           u \in Uses(t) <=> u \in Uses(s) \/ u = <<c, s[c] + 1>>
    <3> SUFFICES ASSUME NEW d \in Clients, NEW k \in 1 .. MaxUses
                 PROVE  k <= t[d] <=> k <= s[d] \/ <<d, k>> = <<c, s[c] + 1>>
      BY DEF Uses
    <3> QED BY <2>1
  <2>4. Uses(t) \subseteq Clients \X (1 .. MaxUses) /\ Uses(s) \subseteq Clients \X (1 .. MaxUses)
    BY DEF Uses
  <2> QED BY <2>2, <2>3, <2>4
<1>3. <<c, s[c] + 1>> \notin Uses(s) BY DEF Uses
<1> HIDE DEF t
<1>4. /\ IsFiniteSet(Uses(t))
      /\ Cardinality(Uses(t)) = Cardinality(Uses(s)) + 1
  BY <1>2, <1>3, FS_AddElement
<1> QED BY <1>1, <1>4 DEF t

LEMMA UsesWithout ==
    ASSUME NEW s \in [Clients -> 0 .. MaxUses], NEW c \in Clients,
           IsFiniteSet(Uses(s)), MaxUses \in Nat
    PROVE  LET t == [s EXCEPT ![c] = 0] IN
           /\ t \in [Clients -> 0 .. MaxUses]
           /\ IsFiniteSet(Uses(t))
           /\ Cardinality(Uses(t)) \in Nat
           /\ Cardinality(Uses(s)) = Cardinality(Uses(t)) + s[c]
<1> DEFINE t == [s EXCEPT ![c] = 0]
           P == {c} \X (1 .. s[c])
<1>1. t \in [Clients -> 0 .. MaxUses] OBVIOUS
<1>2. Uses(s) = Uses(t) \cup P /\ Uses(t) \cap P = {}
  <2>1. \A d \in Clients, k \in 1 .. MaxUses :
           /\ k <= s[d] <=> k <= t[d] \/ (d = c /\ k \in 1 .. s[c])
           /\ ~ (k <= t[d] /\ d = c /\ k \in 1 .. s[c])
    OBVIOUS
  <2>2. P \subseteq Clients \X (1 .. MaxUses) OBVIOUS
  <2> HIDE DEF t
  <2>3. \A u \in Clients \X (1 .. MaxUses) :
           /\ u \in Uses(s) <=> u \in Uses(t) \/ u \in P
           /\ ~ (u \in Uses(t) /\ u \in P)
    <3> SUFFICES ASSUME NEW d \in Clients, NEW k \in 1 .. MaxUses
                 PROVE  /\ k <= s[d] <=> k <= t[d] \/ <<d, k>> \in P
                        /\ ~ (k <= t[d] /\ <<d, k>> \in P)
      BY DEF Uses
    <3> QED BY <2>1
  <2>4. Uses(t) \subseteq Clients \X (1 .. MaxUses) /\ Uses(s) \subseteq Clients \X (1 .. MaxUses)
    BY DEF Uses
  <2> HIDE DEF P
  <2> QED BY <2>2, <2>3, <2>4
<1>3. IsFiniteSet(P) /\ Cardinality(P) = s[c]
  <2>1. s[c] \in Nat OBVIOUS
  <2>2. IsFiniteSet({c}) /\ Cardinality({c}) = 1 BY FS_Singleton
  <2>3. IsFiniteSet(1 .. s[c]) /\ Cardinality(1 .. s[c]) = s[c] BY <2>1, FS_Interval
  <2>4. IsFiniteSet(P) /\ Cardinality(P) = 1 * s[c] BY <2>2, <2>3, FS_Product
  <2> QED BY <2>1, <2>4
<1> HIDE DEF P, t
<1>4. IsFiniteSet(Uses(t)) BY <1>2, FS_Subset
<1>5. /\ Cardinality(Uses(t)) \in Nat /\ Cardinality(P) \in Nat
      /\ Cardinality(Uses(t) \cap P) = 0
  BY <1>2, <1>3, <1>4, FS_CardinalityType, FS_EmptySet
<1>6. Cardinality(Uses(s)) = Cardinality(Uses(t)) + s[c]
  <2>1. Cardinality(Uses(t) \cup P)
           = Cardinality(Uses(t)) + Cardinality(P) - Cardinality(Uses(t) \cap P)
    BY <1>3, <1>4, FS_Union
  <2> QED BY <1>2, <1>3, <1>5, <2>1
<1> QED BY <1>1, <1>4, <1>5, <1>6 DEF t

LEMMA UsesMinus ==
    ASSUME NEW s \in [Clients -> 0 .. MaxUses], NEW c \in Clients, s[c] > 0,
           IsFiniteSet(Uses(s)), MaxUses \in Nat
    PROVE  LET t == [s EXCEPT ![c] = s[c] - 1] IN
           /\ t \in [Clients -> 0 .. MaxUses]
           /\ IsFiniteSet(Uses(t))
           /\ Cardinality(Uses(t)) \in Nat
           /\ Cardinality(Uses(s)) = Cardinality(Uses(t)) + 1
<1> DEFINE t == [s EXCEPT ![c] = s[c] - 1]
<1>1. t \in [Clients -> 0 .. MaxUses] OBVIOUS
<1>2. t[c] < MaxUses /\ s = [t EXCEPT ![c] = t[c] + 1]
  <2>1. t[c] = s[c] - 1 /\ s[c] \in 0 .. MaxUses /\ t[c] + 1 = s[c] OBVIOUS
  <2>2. \A d \in Clients : s[d] = [t EXCEPT ![c] = t[c] + 1][d] BY <2>1
  <2>3. [t EXCEPT ![c] = t[c] + 1] = [d \in Clients |-> [t EXCEPT ![c] = t[c] + 1][d]]
    OBVIOUS
  <2>4. s = [d \in Clients |-> s[d]] OBVIOUS
  <2>5. s = [t EXCEPT ![c] = t[c] + 1] BY <2>2, <2>3, <2>4
  <2> QED BY <2>1, <2>5
<1>3. IsFiniteSet(Uses(t))
  <2>1. \A d \in Clients : t[d] \in Int /\ s[d] \in Int /\ t[d] <= s[d] OBVIOUS
  <2> HIDE DEF t
  <2>2. Uses(t) \subseteq Uses(s) BY <2>1 DEF Uses
  <2> QED BY <2>2, FS_Subset
<1> HIDE DEF t
<1>4. Cardinality(Uses(s)) = Cardinality(Uses(t)) + 1
  BY <1>1, <1>2, <1>3, UsesPlus
<1>5. Cardinality(Uses(t)) \in Nat BY <1>3, FS_CardinalityType
<1> QED BY <1>1, <1>3, <1>4, <1>5 DEF t

LEMMA UsesOne ==
    ASSUME NEW c \in Clients, MaxUses \in Nat \ {0}
    PROVE  LET t == [d \in Clients |-> IF d = c THEN 1 ELSE 0] IN
           /\ t \in [Clients -> 0 .. MaxUses]
           /\ IsFiniteSet(Uses(t)) /\ Cardinality(Uses(t)) = 1
<1> DEFINE t == [d \in Clients |-> IF d = c THEN 1 ELSE 0]
<1>1. t \in [Clients -> 0 .. MaxUses] OBVIOUS
<1>2. Uses(t) = {<<c, 1>>}
  <2>1. \A d \in Clients, k \in 1 .. MaxUses : k <= t[d] <=> d = c /\ k = 1 OBVIOUS
  <2>2. <<c, 1>> \in Clients \X (1 .. MaxUses) OBVIOUS
  <2> HIDE DEF t
  <2>3. \A u \in Clients \X (1 .. MaxUses) : u \in Uses(t) <=> u = <<c, 1>>
    <3> SUFFICES ASSUME NEW d \in Clients, NEW k \in 1 .. MaxUses
                 PROVE  k <= t[d] <=> <<d, k>> = <<c, 1>>
      BY DEF Uses
    <3> QED BY <2>1
  <2>4. Uses(t) \subseteq Clients \X (1 .. MaxUses) BY DEF Uses
  <2> QED BY <2>2, <2>3, <2>4
<1>3. IsFiniteSet({<<c, 1>>}) /\ Cardinality({<<c, 1>>}) = 1 BY FS_Singleton
<1> HIDE DEF t
<1>4. IsFiniteSet(Uses(t)) /\ Cardinality(Uses(t)) = 1 BY <1>2, <1>3
<1> QED BY <1>1, <1>4 DEF t
-----------------------------------------------------------------------------
(* Facts about a state *)

LEMMA ConstantFacts ==
    /\ NumHandles \in Nat \ {0} /\ MaxUses \in Nat \ {0}
    /\ MaxForeign \in Nat /\ CountRange \in Nat /\ MaxUses + MaxForeign < CountRange
    /\ Polled \subseteq Fields /\ Handles \subseteq Nat
    /\ NULL \notin Callback
BY ServerAssumption, NullAssumption DEF Handles

\* The entries of the lists are callbacks of the field.
LEMMA ListEntries ==
    ASSUME Tables, NEW f \in Fields, NEW h \in ToSet(fieldList[f])
    PROVE  h \in Handles /\ table[h] \in Callback /\ table[h] # NULL /\ table[h].field = f
BY DEF Tables, TablesTypeOK, HandlesConsistent

\* Counts go up and down like the numbers they stand for.
LEMMA CountSteps ==
    ASSUME NEW n \in Int, - MaxForeign <= n, n <= MaxUses
    PROVE  /\ Unsigned(n) \in 0 .. CountRange - 1
           /\ n < MaxUses => Plus(Unsigned(n)) = Unsigned(n + 1)
           /\ - MaxForeign < n => Minus(Unsigned(n)) = Unsigned(n - 1)
BY ConstantFacts DEF Unsigned, Plus, Minus

\* A callback, its uses and its usage count
LEMMA Counted ==
    ASSUME Tables, NEW h \in Handles, table[h] # NULL
    PROVE  /\ table[h] \in Callback
           /\ table[h].sockets \in [Clients -> 0 .. MaxUses]
           /\ IsFiniteSet(Uses(table[h].sockets))
           /\ Cardinality(Uses(table[h].sockets)) \in Nat
           /\ leaked[h] \in 0 .. MaxUses /\ foreign[h] \in 0 .. MaxForeign
           /\ Cardinality(Uses(table[h].sockets)) + leaked[h] <= MaxUses
           /\ table[h].usage
                 = Unsigned(Cardinality(Uses(table[h].sockets)) + leaked[h] - foreign[h])
<1>1. table[h] \in Callback /\ leaked[h] \in 0 .. MaxUses /\ foreign[h] \in 0 .. MaxForeign
  BY DEF Tables, TablesTypeOK
<1>2. table[h].sockets \in [Clients -> 0 .. MaxUses] BY <1>1 DEF Callback
<1>3. IsFiniteSet(Uses(table[h].sockets)) BY DEF Tables, UsesFinite
<1>4. Cardinality(Uses(table[h].sockets)) \in Nat BY <1>3, FS_CardinalityType
<1>5. /\ Cardinality(Uses(table[h].sockets)) + leaked[h] <= MaxUses
      /\ table[h].usage
            = Unsigned(Cardinality(Uses(table[h].sockets)) + leaked[h] - foreign[h])
  BY DEF Tables, UsersCounted, UsesBounded
<1> QED BY <1>1, <1>2, <1>3, <1>4, <1>5

\* No client has more uses than there are.
LEMMA UsesOfClient ==
    ASSUME Tables, NEW h \in Handles, table[h] # NULL, NEW c \in Clients
    PROVE  table[h].sockets[c] \in Nat
           /\ table[h].sockets[c] <= Cardinality(Uses(table[h].sockets))
<1>1. PICK s : s = table[h].sockets OBVIOUS
<1>2. s \in [Clients -> 0 .. MaxUses] /\ IsFiniteSet(Uses(s)) BY <1>1, Counted
<1>3. PICK w : w = [s EXCEPT ![c] = 0] OBVIOUS
<1>4. Cardinality(Uses(w)) \in Nat /\ Cardinality(Uses(s)) = Cardinality(Uses(w)) + s[c]
  BY <1>2, <1>3, ConstantFacts, UsesWithout
<1>5. s[c] \in Nat BY <1>2, ConstantFacts
<1> QED BY <1>1, <1>4, <1>5
-----------------------------------------------------------------------------
(* Steps that change the tables *)

LEMMA TablesKept ==
    ASSUME Tables, UNCHANGED lists,
           conn' \in [Clients -> {"open", "broken", "closed"}],
           \A c \in Clients : conn'[c] = "closed" => conn[c] = "closed"
    PROVE  Tables'
<1>1. UNCHANGED <<table, fieldList, leaked, foreign>> BY DEF lists
<1>2. TablesTypeOK' BY <1>1 DEF Tables, TablesTypeOK
<1>3. HandlesConsistent' BY <1>1 DEF Tables, HandlesConsistent
<1>4. UsersCounted' /\ UsesFinite' /\ UsesBounded' /\ FreeHandles'
  BY <1>1 DEF Tables, UsersCounted, UsesFinite, UsesBounded, FreeHandles
<1>5. NoFreedSocketHandler' BY <1>1 DEF Tables, NoFreedSocketHandler, Users
<1> QED BY <1>2, <1>3, <1>4, <1>5 DEF Tables

\* A callback changes and stays the callback of its field.
LEMMA CallbackChanged ==
    ASSUME Tables, UNCHANGED <<fieldList, conn>>,
           NEW h \in Handles, table[h] # NULL, NEW cb \in Callback,
           table' = [table EXCEPT ![h] = cb],
           leaked' \in [Handles -> 0 .. MaxUses], foreign' \in [Handles -> 0 .. MaxForeign],
           \A g \in Handles \ {h} : leaked'[g] = leaked[g] /\ foreign'[g] = foreign[g],
           cb.field = table[h].field,
           IsFiniteSet(Uses(cb.sockets)),
           Cardinality(Uses(cb.sockets)) + leaked'[h] <= MaxUses,
           cb.usage = Unsigned(Cardinality(Uses(cb.sockets)) + leaked'[h] - foreign'[h]),
           \A c \in Clients : cb.sockets[c] > 0 => conn[c] # "closed"
    PROVE  Tables'
<1>1. table \in [Handles -> Callback \cup {NULL}] BY DEF Tables, TablesTypeOK
<1>2. table'[h] = cb /\ \A g \in Handles \ {h} : table'[g] = table[g] BY <1>1
<1>3. cb # NULL BY ConstantFacts
<1>4. TablesTypeOK'
  <2>1. table' \in [Handles -> Callback \cup {NULL}] BY <1>1
  <2> QED BY <2>1 DEF Tables, TablesTypeOK
<1>5. HandlesConsistent'
  <2> SUFFICES ASSUME NEW f \in Fields
               PROVE  /\ ToSet(fieldList[f]) = {g \in Handles : table'[g] # NULL /\ table'[g].field = f}
                      /\ IsInjective(fieldList[f])
    BY DEF HandlesConsistent
  <2>1. \A g \in Handles : table'[g] # NULL /\ table'[g].field = f
                              <=> table[g] # NULL /\ table[g].field = f
    BY <1>2, <1>3
  <2> QED BY <2>1 DEF Tables, HandlesConsistent
<1>6. UsersCounted' /\ UsesFinite' /\ UsesBounded'
  <2> SUFFICES ASSUME NEW g \in Handles, table'[g] # NULL
               PROVE  /\ table'[g].usage
                            = Unsigned(Cardinality(Uses(table'[g].sockets)) + leaked'[g] - foreign'[g])
                      /\ IsFiniteSet(Uses(table'[g].sockets))
                      /\ Cardinality(Uses(table'[g].sockets)) + leaked'[g] <= MaxUses
    BY DEF UsersCounted, UsesFinite, UsesBounded
  <2>1. CASE g = h BY <1>2, <2>1
  <2>2. CASE g # h
    <3>1. table'[g] = table[g] /\ leaked'[g] = leaked[g] /\ foreign'[g] = foreign[g]
      BY <1>2, <2>2
    <3> QED BY <3>1, Counted
  <2> QED BY <2>1, <2>2
<1>7. FreeHandles' BY <1>2, <1>3 DEF Tables, FreeHandles
<1>8. NoFreedSocketHandler' BY <1>2 DEF Tables, NoFreedSocketHandler, Users
<1> QED BY <1>4, <1>5, <1>6, <1>7, <1>8 DEF Tables

\* WithUses gives a callback.
LEMMA WithUsesFacts ==
    ASSUME NEW h, table[h] \in Callback, NEW count \in 0 .. CountRange - 1,
           NEW c \in Clients, NEW n \in Int, table[h].sockets[c] + n \in 0 .. MaxUses
    PROVE  /\ WithUses(h, count, c, n) \in Callback
           /\ WithUses(h, count, c, n).field = table[h].field
           /\ WithUses(h, count, c, n).usage = count
           /\ WithUses(h, count, c, n).sockets
                 = [table[h].sockets EXCEPT ![c] = table[h].sockets[c] + n]
<1>1. /\ table[h].sockets \in [Clients -> 0 .. MaxUses]
      /\ table[h].field \in Fields /\ table[h].first \in BOOLEAN
  BY DEF Callback
<1>2. [table[h].sockets EXCEPT ![c] = table[h].sockets[c] + n] \in [Clients -> 0 .. MaxUses]
  BY <1>1
<1> QED BY <1>1, <1>2 DEF WithUses, Callback

\* Only clients that are connected are given uses.
LEMMA UsersConnected ==
    ASSUME Tables, NEW h \in Handles, table[h] # NULL,
           NEW s, NEW c \in Clients, conn[c] # "closed",
           \A d \in Clients \ {c} : s[d] = table[h].sockets[d]
    PROVE  \A d \in Clients : s[d] > 0 => conn[d] # "closed"
<1> SUFFICES ASSUME NEW d \in Clients, s[d] > 0 PROVE conn[d] # "closed"
  OBVIOUS
<1>1. CASE d = c BY <1>1
<1>2. CASE d # c BY <1>2 DEF Tables, NoFreedSocketHandler, Users
<1> QED BY <1>1, <1>2

LEMMA SubscribeAgainTables ==
    ASSUME Tables, NEW c \in Clients, NEW f \in Fields, conn[c] = "open",
           SubscribeAgain(c, f), UNCHANGED conn
    PROVE  Tables'
<1>1. PICK h : h = OldCallback(f) OBVIOUS
<1>2. h \in ToSet(fieldList[f])
  BY <1>1 DEF SubscribeAgain, OldCallback, ToSet, Tables, TablesTypeOK
<1>3. /\ MayBeUsedMore(h)
      /\ table' = [table EXCEPT ![h] = WithUses(h, Plus(table[h].usage), c, 1)]
      /\ UNCHANGED <<fieldList, leaked, foreign>>
  BY <1>1 DEF SubscribeAgain
<1>4. h \in Handles /\ table[h] # NULL BY <1>2, ListEntries
<1>5. PICK s : s = table[h].sockets OBVIOUS
<1>6. PICK u : u = Cardinality(Uses(s)) OBVIOUS
<1>7. /\ table[h] \in Callback
      /\ s \in [Clients -> 0 .. MaxUses] /\ IsFiniteSet(Uses(s)) /\ u \in Nat
      /\ leaked[h] \in 0 .. MaxUses /\ foreign[h] \in 0 .. MaxForeign
      /\ table[h].usage = Unsigned(u + leaked[h] - foreign[h])
  BY <1>4, <1>5, <1>6, Counted
<1>8. u + leaked[h] < MaxUses BY <1>3, <1>5, <1>6 DEF MayBeUsedMore
<1>9. s[c] \in Nat /\ s[c] < MaxUses
  <2>1. s[c] \in Nat /\ s[c] <= u BY <1>4, <1>5, <1>6, UsesOfClient
  <2> QED BY <1>7, <1>8, <2>1, ConstantFacts
<1>10. /\ Plus(table[h].usage) = Unsigned(u + leaked[h] - foreign[h] + 1)
       /\ Plus(table[h].usage) \in 0 .. CountRange - 1
  <2>1. PICK n \in Int : n = u + leaked[h] - foreign[h] BY <1>7, ConstantFacts
  <2>2. - MaxForeign <= n /\ n < MaxUses BY <1>7, <1>8, <2>1, ConstantFacts
  <2>3. /\ Plus(Unsigned(n)) = Unsigned(n + 1)
        /\ Unsigned(n + 1) \in 0 .. CountRange - 1
    <3>1. - MaxForeign <= n + 1 /\ n + 1 <= MaxUses /\ n + 1 \in Int /\ n <= MaxUses
      BY <2>2, ConstantFacts
    <3> QED BY <2>2, <3>1, CountSteps
  <2> QED BY <1>7, <2>1, <2>3
<1>11. PICK cb : cb = WithUses(h, Plus(table[h].usage), c, 1) OBVIOUS
<1>12. /\ cb \in Callback /\ cb.field = table[h].field
       /\ cb.usage = Unsigned(u + leaked[h] - foreign[h] + 1)
       /\ cb.sockets = [s EXCEPT ![c] = s[c] + 1]
  <2>1. table[h].sockets[c] + 1 \in 0 .. MaxUses BY <1>5, <1>9, ConstantFacts
  <2> QED BY <1>5, <1>7, <1>10, <1>11, <2>1, WithUsesFacts
<1>13. /\ IsFiniteSet(Uses(cb.sockets))
       /\ Cardinality(Uses(cb.sockets)) = u + 1
  BY <1>6, <1>7, <1>9, <1>12, ConstantFacts, UsesPlus
<1>14. \A d \in Clients : cb.sockets[d] > 0 => conn[d] # "closed"
  <2>1. \A d \in Clients \ {c} : cb.sockets[d] = table[h].sockets[d] BY <1>5, <1>7, <1>12
  <2>2. conn[c] # "closed" OBVIOUS
  <2> QED BY <1>4, <2>1, <2>2, UsersConnected
<1>15. /\ Cardinality(Uses(cb.sockets)) + leaked'[h] <= MaxUses
       /\ cb.usage = Unsigned(Cardinality(Uses(cb.sockets)) + leaked'[h] - foreign'[h])
  <2>1. leaked'[h] = leaked[h] /\ foreign'[h] = foreign[h] BY <1>3
  <2>2. /\ (u + 1) + leaked[h] <= MaxUses
        /\ (u + 1) + leaked[h] - foreign[h] = u + leaked[h] - foreign[h] + 1
    BY <1>7, <1>8, ConstantFacts
  <2> QED BY <1>12, <1>13, <2>1, <2>2
<1>16. leaked' \in [Handles -> 0 .. MaxUses] /\ foreign' \in [Handles -> 0 .. MaxForeign]
  BY <1>3 DEF Tables, TablesTypeOK
<1> QED BY <1>3, <1>4, <1>11, <1>12, <1>13, <1>14, <1>15, <1>16, CallbackChanged

\* The usage count of a callback changes, and what is known of it.
LEMMA CountChanged ==
    ASSUME Tables, UNCHANGED <<fieldList, conn>>,
           NEW h \in Handles, table[h] # NULL,
           NEW c \in Clients, conn[c] # "closed", NEW count \in 0 .. CountRange - 1,
           table' = [table EXCEPT ![h] = WithUses(h, count, c, 0)],
           leaked' \in [Handles -> 0 .. MaxUses], foreign' \in [Handles -> 0 .. MaxForeign],
           \A g \in Handles \ {h} : leaked'[g] = leaked[g] /\ foreign'[g] = foreign[g],
           Cardinality(Uses(table[h].sockets)) + leaked'[h] <= MaxUses,
           count = Unsigned(Cardinality(Uses(table[h].sockets)) + leaked'[h] - foreign'[h])
    PROVE  Tables'
<1>1. PICK cb : cb = WithUses(h, count, c, 0) OBVIOUS
<1>2. PICK s : s = table[h].sockets OBVIOUS
<1>3. /\ table[h] \in Callback /\ s \in [Clients -> 0 .. MaxUses] /\ IsFiniteSet(Uses(s))
  BY <1>2, Counted
<1>4. s[c] + 0 \in 0 .. MaxUses /\ s[c] + 0 = s[c] BY <1>3, ConstantFacts
<1>5. /\ cb \in Callback /\ cb.field = table[h].field /\ cb.usage = count
      /\ cb.sockets = [s EXCEPT ![c] = s[c] + 0]
  BY <1>1, <1>2, <1>3, <1>4, WithUsesFacts
<1>6. cb.sockets = s BY <1>3, <1>4, <1>5
<1>7. \A d \in Clients : cb.sockets[d] > 0 => conn[d] # "closed"
  BY <1>2, <1>6, UsersConnected
<1>8. /\ IsFiniteSet(Uses(cb.sockets))
      /\ Cardinality(Uses(cb.sockets)) + leaked'[h] <= MaxUses
      /\ cb.usage = Unsigned(Cardinality(Uses(cb.sockets)) + leaked'[h] - foreign'[h])
  BY <1>2, <1>3, <1>5, <1>6
<1> QED BY <1>1, <1>5, <1>7, <1>8, CallbackChanged

LEMMA SubscribeFailsTables ==
    ASSUME Tables, NEW c \in Clients, NEW f \in Fields, SubscribeFails(c, f)
    PROVE  Tables'
<1>1. PICK h : h = OldCallback(f) OBVIOUS
<1>2. h \in ToSet(fieldList[f])
  BY <1>1 DEF SubscribeFails, OldCallback, ToSet, Tables, TablesTypeOK
<1>3. /\ MayBeUsedMore(h)
      /\ table' = [table EXCEPT ![h] = WithUses(h, Plus(table[h].usage), c, 0)]
      /\ leaked' = [leaked EXCEPT ![h] = leaked[h] + 1]
      /\ conn[c] = "open"
      /\ UNCHANGED <<fieldList, foreign, conn>>
  BY <1>1 DEF SubscribeFails, Request
<1>4. h \in Handles /\ table[h] # NULL BY <1>2, ListEntries
<1>5. PICK u : u = Cardinality(Uses(table[h].sockets)) OBVIOUS
<1>6. /\ u \in Nat /\ leaked[h] \in 0 .. MaxUses /\ foreign[h] \in 0 .. MaxForeign
      /\ table[h].usage = Unsigned(u + leaked[h] - foreign[h])
  BY <1>4, <1>5, Counted
<1>7. u + leaked[h] < MaxUses BY <1>3, <1>5 DEF MayBeUsedMore
<1>8. leaked \in [Handles -> 0 .. MaxUses] /\ foreign \in [Handles -> 0 .. MaxForeign]
  BY DEF Tables, TablesTypeOK
<1>9. leaked[h] + 1 \in 0 .. MaxUses BY <1>6, <1>7, ConstantFacts
<1>10. /\ leaked' \in [Handles -> 0 .. MaxUses] /\ leaked'[h] = leaked[h] + 1
       /\ foreign' \in [Handles -> 0 .. MaxForeign]
       /\ \A g \in Handles \ {h} : leaked'[g] = leaked[g] /\ foreign'[g] = foreign[g]
  BY <1>3, <1>4, <1>8, <1>9
<1>11. PICK n \in Int : n = u + leaked[h] - foreign[h] BY <1>6, ConstantFacts
<1>12. - MaxForeign <= n /\ n < MaxUses BY <1>6, <1>7, <1>11, ConstantFacts
<1>13. /\ Plus(table[h].usage) = Unsigned(n + 1)
       /\ Plus(table[h].usage) \in 0 .. CountRange - 1
  <2>1. - MaxForeign <= n + 1 /\ n + 1 <= MaxUses /\ n + 1 \in Int /\ n <= MaxUses
    BY <1>12, ConstantFacts
  <2> QED BY <1>6, <1>11, <1>12, <2>1, CountSteps
<1>14. u + leaked'[h] <= MaxUses /\ u + leaked'[h] - foreign'[h] = n + 1
  BY <1>3, <1>6, <1>7, <1>10, <1>11, ConstantFacts
<1>15. conn[c] # "closed" BY <1>3
<1> QED BY <1>3, <1>4, <1>5, <1>10, <1>13, <1>14, <1>15, CountChanged

LEMMA SubscribeNewTables ==
    ASSUME Tables, NEW c \in Clients, NEW f \in Fields, conn[c] = "open",
           SubscribeNew(c, f), UNCHANGED conn
    PROVE  Tables'
<1> DEFINE s == [d \in Clients |-> IF d = c THEN 1 ELSE 0]
           cb == [field |-> f, usage |-> 1, first |-> TRUE, sockets |-> s]
<1>1. PICK h \in Handles : /\ table[h] = NULL
                           /\ table' = [table EXCEPT ![h] = cb]
                           /\ fieldList' = [fieldList EXCEPT ![f] = Append(@, h)]
  BY DEF SubscribeNew
<1>2. UNCHANGED <<leaked, foreign>> BY DEF SubscribeNew
<1>3. /\ s \in [Clients -> 0 .. MaxUses]
      /\ IsFiniteSet(Uses(s)) /\ Cardinality(Uses(s)) = 1
  BY ConstantFacts, UsesOne
<1>4. cb \in Callback /\ cb # NULL
  <2>1. 1 \in 0 .. CountRange - 1 BY ConstantFacts
  <2> HIDE DEF s
  <2>2. cb \in Callback BY <1>3, <2>1 DEF Callback
  <2> QED BY <2>2, ConstantFacts
<1>5. /\ cb.field = f /\ cb.usage = 1 /\ cb.sockets = s
      /\ \A d \in Clients : s[d] > 0 => d = c
  OBVIOUS
<1> HIDE DEF cb, s
<1>6. /\ table \in [Handles -> Callback \cup {NULL}]
      /\ fieldList \in [Fields -> Seq(Handles)]
  BY DEF Tables, TablesTypeOK
<1>7. table'[h] = cb /\ \A g \in Handles \ {h} : table'[g] = table[g] BY <1>1, <1>6
<1>8. leaked[h] = 0 /\ foreign[h] = 0 BY <1>1 DEF Tables, FreeHandles
<1>9. TablesTypeOK'
  <2>1. table' \in [Handles -> Callback \cup {NULL}] BY <1>1, <1>4, <1>6
  <2>2. fieldList' \in [Fields -> Seq(Handles)] BY <1>1, <1>6
  <2> QED BY <1>2, <2>1, <2>2 DEF Tables, TablesTypeOK
<1>10. HandlesConsistent'
  <2> SUFFICES ASSUME NEW g \in Fields
               PROVE  /\ ToSet(fieldList'[g]) = {i \in Handles : table'[i] # NULL /\ table'[i].field = g}
                      /\ IsInjective(fieldList'[g])
    BY DEF HandlesConsistent
  <2>1. /\ ToSet(fieldList[g]) = {i \in Handles : table[i] # NULL /\ table[i].field = g}
        /\ IsInjective(fieldList[g])
    BY DEF Tables, HandlesConsistent
  <2>2. CASE g = f
    <3>1. fieldList'[g] = Append(fieldList[g], h) BY <1>1, <1>6, <2>2
    <3>2. h \notin ToSet(fieldList[g]) BY <1>1, <2>1
    <3>3. /\ ToSet(fieldList'[g]) = ToSet(fieldList[g]) \cup {h}
          /\ IsInjective(fieldList'[g])
      <4>1. fieldList[g] \in Seq(Handles) BY <1>6
      <4> QED BY <2>1, <3>1, <3>2, <4>1, AppendFacts
    <3>4. \A i \in Handles : table'[i] # NULL /\ table'[i].field = g
                                <=> i = h \/ (table[i] # NULL /\ table[i].field = g)
      BY <1>4, <1>5, <1>7, <2>2
    <3> QED BY <2>1, <3>3, <3>4
  <2>3. CASE g # f
    <3>1. fieldList'[g] = fieldList[g] BY <1>1, <1>6, <2>3
    <3>2. \A i \in Handles : table'[i] # NULL /\ table'[i].field = g
                                <=> table[i] # NULL /\ table[i].field = g
      BY <1>1, <1>5, <1>7, <2>3
    <3> QED BY <2>1, <3>1, <3>2
  <2> QED BY <2>2, <2>3
<1>11. UsersCounted' /\ UsesFinite' /\ UsesBounded'
  <2> SUFFICES ASSUME NEW g \in Handles, table'[g] # NULL
               PROVE  /\ table'[g].usage
                            = Unsigned(Cardinality(Uses(table'[g].sockets)) + leaked'[g] - foreign'[g])
                      /\ IsFiniteSet(Uses(table'[g].sockets))
                      /\ Cardinality(Uses(table'[g].sockets)) + leaked'[g] <= MaxUses
    BY DEF UsersCounted, UsesFinite, UsesBounded
  <2>1. CASE g = h
    <3>1. 1 + 0 <= MaxUses /\ Unsigned(1 + 0 - 0) = 1 BY ConstantFacts DEF Unsigned
    <3> QED BY <1>2, <1>3, <1>5, <1>7, <1>8, <2>1, <3>1
  <2>2. CASE g # h
    <3>1. table'[g] = table[g] /\ leaked'[g] = leaked[g] /\ foreign'[g] = foreign[g]
      BY <1>2, <1>7, <2>2
    <3> QED BY <3>1, Counted
  <2> QED BY <2>1, <2>2
<1>12. FreeHandles' BY <1>2, <1>4, <1>7 DEF Tables, FreeHandles
<1>13. NoFreedSocketHandler'
  BY <1>5, <1>7 DEF Tables, NoFreedSocketHandler, Users
<1> QED BY <1>9, <1>10, <1>11, <1>12, <1>13 DEF Tables

LEMMA FreeCallbackTables ==
    ASSUME Tables, NEW h \in Handles, table[h] # NULL,
           FreeCallback(h), UNCHANGED conn
    PROVE  Tables'
<1> DEFINE f == table[h].field
<1>1. /\ table \in [Handles -> Callback \cup {NULL}]
      /\ fieldList \in [Fields -> Seq(Handles)]
      /\ leaked \in [Handles -> 0 .. MaxUses]
      /\ foreign \in [Handles -> 0 .. MaxForeign]
  BY DEF Tables, TablesTypeOK
<1>2. f \in Fields BY <1>1 DEF Callback
<1>3. /\ table' = [table EXCEPT ![h] = NULL]
      /\ fieldList' = [fieldList EXCEPT ![f] = ListWithout(fieldList[f], {h})]
      /\ leaked' = [leaked EXCEPT ![h] = 0]
      /\ foreign' = [foreign EXCEPT ![h] = 0]
  BY DEF FreeCallback
<1> HIDE DEF f
<1>4. table'[h] = NULL /\ \A g \in Handles \ {h} : table'[g] = table[g] BY <1>1, <1>3
<1>5. /\ leaked'[h] = 0 /\ foreign'[h] = 0
      /\ \A g \in Handles \ {h} : leaked'[g] = leaked[g] /\ foreign'[g] = foreign[g]
  BY <1>1, <1>3
<1>6. /\ ListWithout(fieldList[f], {h}) \in Seq(Handles)
      /\ ToSet(ListWithout(fieldList[f], {h})) = ToSet(fieldList[f]) \ {h}
      /\ IsInjective(ListWithout(fieldList[f], {h}))
  <2>1. fieldList[f] \in Seq(Handles) BY <1>1, <1>2
  <2>2. IsInjective(fieldList[f]) BY <1>2 DEF Tables, HandlesConsistent
  <2> QED BY <2>1, <2>2, ListWithoutFacts
<1>7. TablesTypeOK'
  <2>1. table' \in [Handles -> Callback \cup {NULL}] BY <1>1, <1>3
  <2>2. fieldList' \in [Fields -> Seq(Handles)] BY <1>1, <1>3, <1>6
  <2>3. leaked' \in [Handles -> 0 .. MaxUses] /\ foreign' \in [Handles -> 0 .. MaxForeign]
    BY <1>1, <1>3, ConstantFacts
  <2> QED BY <2>1, <2>2, <2>3 DEF Tables, TablesTypeOK
<1>8. HandlesConsistent'
  <2> SUFFICES ASSUME NEW g \in Fields
               PROVE  /\ ToSet(fieldList'[g]) = {i \in Handles : table'[i] # NULL /\ table'[i].field = g}
                      /\ IsInjective(fieldList'[g])
    BY DEF HandlesConsistent
  <2>1. /\ ToSet(fieldList[g]) = {i \in Handles : table[i] # NULL /\ table[i].field = g}
        /\ IsInjective(fieldList[g])
    BY DEF Tables, HandlesConsistent
  <2>2. CASE g = f
    <3>1. fieldList'[g] = ListWithout(fieldList[f], {h}) BY <1>1, <1>2, <1>3, <2>2
    <3> QED BY <1>4, <1>6, <2>1, <2>2, <3>1
  <2>3. CASE g # f
    <3>1. fieldList'[g] = fieldList[g] BY <1>1, <1>3, <2>3
    <3>2. table[h].field # g BY <2>3 DEF f
    <3> QED BY <1>4, <2>1, <3>1, <3>2
  <2> QED BY <2>2, <2>3
<1>9. UsersCounted' /\ UsesFinite' /\ UsesBounded'
  BY <1>4, <1>5 DEF Tables, UsersCounted, UsesFinite, UsesBounded
<1>10. FreeHandles' BY <1>4, <1>5 DEF Tables, FreeHandles
<1>11. NoFreedSocketHandler' BY <1>4 DEF Tables, NoFreedSocketHandler, Users
<1> QED BY <1>7, <1>8, <1>9, <1>10, <1>11 DEF Tables

\* A use or a count that nobody has is taken from a callback.
LEMMA MinusCount ==
    ASSUME Tables, NEW h \in Handles, table[h] # NULL, NEW u, NEW k,
           u = Cardinality(Uses(table[h].sockets)), k = u + leaked[h] - foreign[h] - 1,
           u > 0 \/ foreign[h] < MaxForeign
    PROVE  /\ Minus(table[h].usage) = Unsigned(k)
           /\ Minus(table[h].usage) \in 0 .. CountRange - 1
<1>1. /\ u \in Nat /\ leaked[h] \in 0 .. MaxUses /\ foreign[h] \in 0 .. MaxForeign
      /\ u + leaked[h] <= MaxUses
      /\ table[h].usage = Unsigned(u + leaked[h] - foreign[h])
  BY Counted
<1>2. PICK n \in Int : n = u + leaked[h] - foreign[h] BY <1>1, ConstantFacts
<1>3. /\ - MaxForeign < n /\ - MaxForeign <= n /\ n <= MaxUses
      /\ k = n - 1 /\ n - 1 \in Int /\ - MaxForeign <= n - 1 /\ n - 1 <= MaxUses
  BY <1>1, <1>2, ConstantFacts
<1> QED BY <1>1, <1>2, <1>3, CountSteps

LEMMA UnsubscribeTables ==
    ASSUME Tables, NEW c \in Clients, NEW h \in Handles, Unsubscribe(c, h)
    PROVE  Tables'
<1>1. /\ table[h] # NULL /\ conn[c] = "open" /\ UNCHANGED conn
      /\ DeleteForeign(c, h) \/ DeleteUse(c, h) \/ FreeCallback(h)
  BY DEF Unsubscribe, Request
<1>2. CASE FreeCallback(h) BY <1>1, <1>2, FreeCallbackTables
<1>3. PICK s : s = table[h].sockets OBVIOUS
<1>4. PICK u : u = Cardinality(Uses(s)) OBVIOUS
<1>5. /\ table[h] \in Callback
      /\ s \in [Clients -> 0 .. MaxUses] /\ IsFiniteSet(Uses(s)) /\ u \in Nat
      /\ leaked[h] \in 0 .. MaxUses /\ foreign[h] \in 0 .. MaxForeign
      /\ u + leaked[h] <= MaxUses
  BY <1>1, <1>3, <1>4, Counted
<1>6. leaked \in [Handles -> 0 .. MaxUses] /\ foreign \in [Handles -> 0 .. MaxForeign]
  BY DEF Tables, TablesTypeOK
<1>7. conn[c] # "closed" BY <1>1
<1>8. PICK count : count = Minus(table[h].usage) OBVIOUS
<1>9. CASE DeleteForeign(c, h)
  <2>1. /\ foreign[h] < MaxForeign
        /\ table' = [table EXCEPT ![h] = WithUses(h, count, c, 0)]
        /\ foreign' = [foreign EXCEPT ![h] = foreign[h] + 1]
        /\ UNCHANGED <<fieldList, leaked>>
    BY <1>8, <1>9 DEF DeleteForeign
  <2>2. foreign[h] + 1 \in 0 .. MaxForeign BY <1>5, <2>1, ConstantFacts
  <2>3. /\ foreign' \in [Handles -> 0 .. MaxForeign] /\ foreign'[h] = foreign[h] + 1
        /\ leaked' \in [Handles -> 0 .. MaxUses] /\ leaked'[h] = leaked[h]
        /\ \A g \in Handles \ {h} : leaked'[g] = leaked[g] /\ foreign'[g] = foreign[g]
    BY <1>6, <2>1, <2>2
  <2>4. PICK k : k = u + leaked[h] - foreign[h] - 1 OBVIOUS
  <2>5. count = Unsigned(k) /\ count \in 0 .. CountRange - 1
    BY <1>1, <1>3, <1>4, <1>8, <2>1, <2>4, MinusCount
  <2>6. u + leaked'[h] - foreign'[h] = k /\ u + leaked'[h] <= MaxUses
    BY <1>5, <2>3, <2>4, ConstantFacts
  <2> QED BY <1>1, <1>3, <1>4, <1>7, <2>1, <2>3, <2>5, <2>6, CountChanged
<1>10. CASE DeleteUse(c, h)
  <2>1. /\ c \in Users(h)
        /\ table' = [table EXCEPT ![h] = WithUses(h, count, c, -1)]
        /\ UNCHANGED <<fieldList, leaked, foreign>>
    BY <1>8, <1>10 DEF DeleteUse
  <2>2. s[c] \in Nat /\ s[c] <= u BY <1>1, <1>3, <1>4, UsesOfClient
  <2>3. s[c] > 0 /\ s[c] + -1 = s[c] - 1 /\ s[c] + -1 \in 0 .. MaxUses /\ -1 \in Int /\ u > 0
    BY <1>3, <1>5, <2>1, <2>2, ConstantFacts DEF Users
  <2>4. PICK k : k = u + leaked[h] - foreign[h] - 1 OBVIOUS
  <2>5. count = Unsigned(k) /\ count \in 0 .. CountRange - 1
    BY <1>1, <1>3, <1>4, <1>8, <2>3, <2>4, MinusCount
  <2>6. PICK cb : cb = WithUses(h, count, c, -1) OBVIOUS
  <2>7. /\ cb \in Callback /\ cb.field = table[h].field /\ cb.usage = count
        /\ cb.sockets = [s EXCEPT ![c] = s[c] - 1]
    <3>1. /\ cb \in Callback /\ cb.field = table[h].field /\ cb.usage = count
          /\ cb.sockets = [s EXCEPT ![c] = s[c] + -1]
      BY <1>3, <1>5, <2>3, <2>5, <2>6, WithUsesFacts
    <3> QED BY <2>3, <3>1
  <2>8. /\ IsFiniteSet(Uses(cb.sockets))
        /\ Cardinality(Uses(cb.sockets)) \in Nat
        /\ u = Cardinality(Uses(cb.sockets)) + 1
    <3>1. PICK t : t = [s EXCEPT ![c] = s[c] - 1] OBVIOUS
    <3>2. MaxUses \in Nat BY ConstantFacts
    <3>3. /\ IsFiniteSet(Uses(t)) /\ Cardinality(Uses(t)) \in Nat
          /\ Cardinality(Uses(s)) = Cardinality(Uses(t)) + 1
      BY <1>5, <2>3, <3>1, <3>2, UsesMinus
    <3>4. cb.sockets = t BY <2>7, <3>1
    <3> QED BY <1>4, <3>3, <3>4
  <2>9. \A d \in Clients : cb.sockets[d] > 0 => conn[d] # "closed"
    <3>1. \A d \in Clients \ {c} : cb.sockets[d] = table[h].sockets[d] BY <1>3, <1>5, <2>7
    <3> QED BY <1>1, <1>7, <3>1, UsersConnected
  <2>10. leaked'[h] = leaked[h] /\ foreign'[h] = foreign[h] BY <2>1
  <2>11. PICK w \in Nat : w = Cardinality(Uses(cb.sockets)) BY <2>8
  <2>12. w + leaked'[h] - foreign'[h] = k /\ w + leaked'[h] <= MaxUses
    BY <1>5, <2>4, <2>8, <2>10, <2>11, ConstantFacts
  <2>13. leaked' \in [Handles -> 0 .. MaxUses] /\ foreign' \in [Handles -> 0 .. MaxForeign]
         /\ \A g \in Handles \ {h} : leaked'[g] = leaked[g] /\ foreign'[g] = foreign[g]
    BY <1>6, <2>1
  <2>14. /\ Cardinality(Uses(cb.sockets)) + leaked'[h] <= MaxUses
         /\ cb.usage = Unsigned(Cardinality(Uses(cb.sockets)) + leaked'[h] - foreign'[h])
    BY <2>5, <2>7, <2>11, <2>12
  <2> QED BY <1>1, <2>1, <2>6, <2>7, <2>8, <2>9, <2>13, <2>14, CallbackChanged
<1> QED BY <1>1, <1>2, <1>9, <1>10

LEMMA CloseTables ==
    ASSUME Tables, NEW c \in Clients, Close(c)
    PROVE  Tables'
<1>1. /\ conn' = [conn EXCEPT ![c] = "closed"]
      /\ table' = [h \in Handles |->
                      IF h \in UsedAlone(c) THEN NULL
                      ELSE IF h \in UsedBy(c) THEN Without(c, h)
                      ELSE table[h]]
      /\ leaked' = [h \in Handles |->
                      IF h \in UsedAlone(c) THEN 0
                      ELSE IF h \in UsedBy(c) THEN leaked[h] + table[h].sockets[c]
                      ELSE leaked[h]]
      /\ foreign' = [h \in Handles |-> IF h \in UsedAlone(c) THEN 0 ELSE foreign[h]]
      /\ fieldList' = [f \in Fields |-> ListWithout(fieldList[f], UsedAlone(c))]
  BY DEF Close
<1>2. /\ table \in [Handles -> Callback \cup {NULL}]
      /\ fieldList \in [Fields -> Seq(Handles)]
      /\ conn \in [Clients -> {"open", "broken", "closed"}]
      /\ leaked \in [Handles -> 0 .. MaxUses]
      /\ foreign \in [Handles -> 0 .. MaxForeign]
  BY DEF Tables, TablesTypeOK
<1>3. /\ conn' \in [Clients -> {"open", "broken", "closed"}]
      /\ \A d \in Clients \ {c} : conn'[d] = conn[d]
  BY <1>1, <1>2
<1>4. \A h \in Handles : h \in UsedBy(c) <=> table[h] # NULL /\ c \in Users(h)
  BY DEF UsedBy
<1>5. UsedAlone(c) \subseteq UsedBy(c) /\ UsedBy(c) \subseteq Handles
  BY DEF UsedAlone, UsedBy
<1>6. ASSUME NEW h \in UsedBy(c)
      PROVE  /\ Without(c, h) \in Callback /\ Without(c, h) # NULL
             /\ Without(c, h).field = table[h].field
             /\ IsFiniteSet(Uses(Without(c, h).sockets))
             /\ leaked[h] + table[h].sockets[c] \in 0 .. MaxUses
             /\ Cardinality(Uses(Without(c, h).sockets))
                   + (leaked[h] + table[h].sockets[c]) <= MaxUses
             /\ Without(c, h).usage
                   = Unsigned(Cardinality(Uses(Without(c, h).sockets))
                                 + (leaked[h] + table[h].sockets[c]) - foreign[h])
             /\ \A d \in Clients : Without(c, h).sockets[d] > 0 => d # c /\ d \in Users(h)
  <2>1. h \in Handles /\ table[h] # NULL BY <1>4, <1>5
  <2>2. PICK s : s = table[h].sockets OBVIOUS
  <2>3. PICK cb : cb = Without(c, h) OBVIOUS
  <2>4. PICK u : u = Cardinality(Uses(s)) OBVIOUS
  <2>5. /\ table[h] \in Callback
        /\ s \in [Clients -> 0 .. MaxUses] /\ IsFiniteSet(Uses(s)) /\ u \in Nat
        /\ leaked[h] \in 0 .. MaxUses /\ foreign[h] \in 0 .. MaxForeign
        /\ u + leaked[h] <= MaxUses
        /\ table[h].usage = Unsigned(u + leaked[h] - foreign[h])
    BY <2>1, <2>2, <2>4, Counted
  <2>6. cb = [table[h] EXCEPT !.sockets = [s EXCEPT ![c] = 0]]
    BY <2>2, <2>3, <2>5 DEF Without, Callback
  <2>7. /\ cb.field = table[h].field /\ cb.first = table[h].first
        /\ cb.usage = table[h].usage
        /\ cb.sockets = [s EXCEPT ![c] = 0]
    BY <2>5, <2>6 DEF Callback
  <2>8. /\ cb.sockets \in [Clients -> 0 .. MaxUses]
        /\ IsFiniteSet(Uses(cb.sockets))
        /\ Cardinality(Uses(cb.sockets)) \in Nat
        /\ u = Cardinality(Uses(cb.sockets)) + s[c]
    <3>1. PICK t : t = [s EXCEPT ![c] = 0] OBVIOUS
    <3>2. MaxUses \in Nat BY ConstantFacts
    <3>3. /\ t \in [Clients -> 0 .. MaxUses] /\ IsFiniteSet(Uses(t))
          /\ Cardinality(Uses(t)) \in Nat
          /\ Cardinality(Uses(s)) = Cardinality(Uses(t)) + s[c]
      BY <2>5, <3>1, <3>2, UsesWithout
    <3>4. cb.sockets = t BY <2>7, <3>1
    <3> QED BY <2>4, <3>3, <3>4
  <2>9. cb \in Callback
    BY <2>5, <2>6, <2>7, <2>8 DEF Callback
  <2>10. \A d \in Clients : cb.sockets[d] > 0 => d # c /\ d \in Users(h)
    <3> SUFFICES ASSUME NEW d \in Clients, cb.sockets[d] > 0 PROVE d # c /\ d \in Users(h)
      OBVIOUS
    <3>1. d # c BY <2>5, <2>7
    <3>2. cb.sockets[d] = s[d] BY <2>5, <2>7, <3>1
    <3> QED BY <2>2, <3>1, <3>2 DEF Users
  <2>11. cb # NULL BY <2>9, ConstantFacts
  <2>12. PICK w \in Nat : w = Cardinality(Uses(cb.sockets)) BY <2>8
  <2>13. s[c] \in Nat BY <2>5, ConstantFacts
  <2>14. /\ leaked[h] + s[c] \in 0 .. MaxUses
         /\ w + (leaked[h] + s[c]) <= MaxUses
         /\ w + (leaked[h] + s[c]) - foreign[h] = u + leaked[h] - foreign[h]
    BY <2>5, <2>8, <2>12, <2>13, ConstantFacts
  <2>15. cb.usage = Unsigned(w + (leaked[h] + s[c]) - foreign[h]) BY <2>5, <2>7, <2>14
  <2> QED BY <2>2, <2>3, <2>7, <2>8, <2>9, <2>10, <2>11, <2>12, <2>14, <2>15
<1>7. \A h \in UsedAlone(c) : table'[h] = NULL /\ leaked'[h] = 0 /\ foreign'[h] = 0
  BY <1>1, <1>5
<1>8. \A h \in UsedBy(c) \ UsedAlone(c) :
         /\ table'[h] = Without(c, h)
         /\ leaked'[h] = leaked[h] + table[h].sockets[c] /\ foreign'[h] = foreign[h]
  BY <1>1, <1>5
<1>9. \A h \in Handles \ UsedBy(c) :
         table'[h] = table[h] /\ leaked'[h] = leaked[h] /\ foreign'[h] = foreign[h]
  BY <1>1, <1>5
<1>10. TablesTypeOK'
  <2>1. table' \in [Handles -> Callback \cup {NULL}]
    <3>1. \A h \in Handles : table'[h] \in Callback \cup {NULL}
      BY <1>2, <1>5, <1>6, <1>7, <1>8, <1>9
    <3> QED BY <1>1, <3>1
  <2>2. leaked' \in [Handles -> 0 .. MaxUses]
    <3>1. \A h \in Handles : leaked'[h] \in 0 .. MaxUses
      <4> SUFFICES ASSUME NEW h \in Handles PROVE leaked'[h] \in 0 .. MaxUses
        OBVIOUS
      <4>1. CASE h \in UsedAlone(c) BY <1>7, <4>1, ConstantFacts
      <4>2. CASE h \in UsedBy(c) \ UsedAlone(c) BY <1>6, <1>8, <4>2
      <4>3. CASE h \notin UsedBy(c) BY <1>2, <1>9, <4>3
      <4> QED BY <4>1, <4>2, <4>3
    <3> QED BY <1>1, <3>1
  <2>3. fieldList' \in [Fields -> Seq(Handles)]
    <3>1. \A f \in Fields : ListWithout(fieldList[f], UsedAlone(c)) \in Seq(Handles)
      BY <1>2, ListWithoutFacts
    <3> QED BY <1>1, <3>1
  <2>4. foreign' \in [Handles -> 0 .. MaxForeign] BY <1>1, <1>2, ConstantFacts
  <2> QED BY <1>3, <2>1, <2>2, <2>3, <2>4 DEF TablesTypeOK
<1>11. HandlesConsistent'
  <2> SUFFICES ASSUME NEW f \in Fields
               PROVE  /\ ToSet(fieldList'[f]) = {h \in Handles : table'[h] # NULL /\ table'[h].field = f}
                      /\ IsInjective(fieldList'[f])
    BY DEF HandlesConsistent
  <2>1. /\ ToSet(fieldList[f]) = {h \in Handles : table[h] # NULL /\ table[h].field = f}
        /\ IsInjective(fieldList[f])
    BY DEF Tables, HandlesConsistent
  <2>2. fieldList[f] \in Seq(Handles) /\ fieldList'[f] = ListWithout(fieldList[f], UsedAlone(c))
    BY <1>1, <1>2
  <2>3. /\ ToSet(fieldList'[f]) = ToSet(fieldList[f]) \ UsedAlone(c)
        /\ IsInjective(fieldList'[f])
    BY <2>1, <2>2, ListWithoutFacts
  <2>4. ASSUME NEW h \in Handles
        PROVE  table'[h] # NULL /\ table'[h].field = f
                  <=> h \notin UsedAlone(c) /\ table[h] # NULL /\ table[h].field = f
    <3>1. CASE h \in UsedAlone(c) BY <1>7, <3>1
    <3>2. CASE h \in UsedBy(c) \ UsedAlone(c) BY <1>4, <1>6, <1>8, <3>2
    <3>3. CASE h \notin UsedBy(c) BY <1>5, <1>9, <3>3
    <3> QED BY <3>1, <3>2, <3>3
  <2> QED BY <2>1, <2>3, <2>4
<1>12. UsersCounted' /\ UsesFinite' /\ UsesBounded'
  <2> SUFFICES ASSUME NEW h \in Handles, table'[h] # NULL
               PROVE  /\ table'[h].usage
                            = Unsigned(Cardinality(Uses(table'[h].sockets)) + leaked'[h] - foreign'[h])
                      /\ IsFiniteSet(Uses(table'[h].sockets))
                      /\ Cardinality(Uses(table'[h].sockets)) + leaked'[h] <= MaxUses
    BY DEF UsersCounted, UsesFinite, UsesBounded
  <2>1. CASE h \in UsedAlone(c) BY <1>7, <2>1
  <2>2. CASE h \in UsedBy(c) \ UsedAlone(c) BY <1>6, <1>8, <2>2
  <2>3. CASE h \notin UsedBy(c) BY <1>9, <2>3, Counted
  <2> QED BY <2>1, <2>2, <2>3
<1>13. FreeHandles'
  <2> SUFFICES ASSUME NEW h \in Handles, table'[h] = NULL PROVE leaked'[h] = 0 /\ foreign'[h] = 0
    BY DEF FreeHandles
  <2>1. CASE h \in UsedAlone(c) BY <1>7, <2>1
  <2>2. CASE h \in UsedBy(c) \ UsedAlone(c) BY <1>6, <1>8, <2>2
  <2>3. CASE h \notin UsedBy(c) BY <1>9, <2>3 DEF Tables, FreeHandles
  <2> QED BY <2>1, <2>2, <2>3
<1>14. NoFreedSocketHandler'
  <2> SUFFICES ASSUME NEW d \in Clients, NEW h \in Handles, table'[h] # NULL,
                      table'[h].sockets[d] > 0
               PROVE  conn'[d] # "closed"
    BY DEF NoFreedSocketHandler, Users
  <2>1. h \notin UsedAlone(c) BY <1>7
  <2>2. table[h] # NULL /\ d \in Users(h) /\ d # c
    <3>1. CASE h \in UsedBy(c) BY <1>4, <1>6, <1>8, <2>1, <3>1
    <3>2. CASE h \notin UsedBy(c) BY <1>4, <1>9, <3>2 DEF Users
    <3> QED BY <3>1, <3>2
  <2> QED BY <1>3, <2>2 DEF Tables, NoFreedSocketHandler
<1> QED BY <1>10, <1>11, <1>12, <1>13, <1>14 DEF Tables

LEMMA PollProcessTables ==
    ASSUME Tables, poll \in Handles, table[poll] # NULL,
           table' = [table EXCEPT ![poll].first = FALSE],
           UNCHANGED <<fieldList, leaked, foreign, conn>>
    PROVE  Tables'
<1>1. PICK h \in Handles : h = poll
  OBVIOUS
<1>2. PICK cb : cb = [table[h] EXCEPT !.first = FALSE] OBVIOUS
<1>3. table \in [Handles -> Callback \cup {NULL}] /\ table[h] # NULL
  BY <1>1 DEF Tables, TablesTypeOK
<1>4. table[h] \in Callback BY <1>3
<1>5. table' = [table EXCEPT ![h] = cb] BY <1>1, <1>2, <1>3
<1>6. /\ cb \in Callback
      /\ cb.field = table[h].field /\ cb.usage = table[h].usage
      /\ cb.sockets = table[h].sockets
  BY <1>2, <1>4 DEF Callback
<1>7. /\ IsFiniteSet(Uses(cb.sockets))
      /\ Cardinality(Uses(cb.sockets)) + leaked'[h] <= MaxUses
      /\ cb.usage = Unsigned(Cardinality(Uses(cb.sockets)) + leaked'[h] - foreign'[h])
  BY <1>3, <1>6, Counted
<1>8. \A c \in Clients : cb.sockets[c] > 0 => conn[c] # "closed"
  BY <1>3, <1>6 DEF Tables, NoFreedSocketHandler, Users
<1>9. /\ leaked' \in [Handles -> 0 .. MaxUses] /\ foreign' \in [Handles -> 0 .. MaxForeign]
      /\ \A g \in Handles \ {h} : leaked'[g] = leaked[g] /\ foreign'[g] = foreign[g]
  BY DEF Tables, TablesTypeOK
<1> QED BY <1>3, <1>5, <1>6, <1>7, <1>8, <1>9, CallbackChanged
-----------------------------------------------------------------------------
(* Steps that change the data *)

\* What a client is told of a field changes with what was sent, or not at all.
LEMMA ToldStep ==
    ASSUME PolledFieldsAreTold,
           \A c \in Clients, f \in Polled :
              Subscribed(c, f)' => \/ seen'[c][f] = last'[f]
                                   \/ /\ Subscribed(c, f)
                                      /\ seen'[c][f] = seen[c][f] /\ last'[f] = last[f]
    PROVE  PolledFieldsAreTold'
BY DEF PolledFieldsAreTold

LEMMA SubscribedKept ==
    ASSUME \A h \in Handles : /\ table'[h] # NULL <=> table[h] # NULL
                              /\ table[h] # NULL => /\ table'[h].field = table[h].field
                                                    /\ table'[h].sockets = table[h].sockets,
           NEW c \in Clients, NEW f \in Fields
    PROVE  Subscribed(c, f)' <=> Subscribed(c, f)
BY DEF Subscribed, Users

LEMMA SendType ==
    ASSUME DataTypeOK, NEW f \in Fields, value' \in [Fields -> Values],
           NEW cs, Send(cs, f)
    PROVE  /\ seen' \in [Clients -> [Fields -> Values \cup {NULL}]]
           /\ \A c \in Clients, g \in Fields :
                 seen'[c][g] = IF c \in cs /\ g = f THEN value'[f] ELSE seen[c][g]
<1>1. seen \in [Clients -> [Fields -> Values \cup {NULL}]] BY DEF DataTypeOK
<1>2. value'[f] \in Values OBVIOUS
<1>3. seen' = [c \in Clients |-> IF c \in cs THEN [seen[c] EXCEPT ![f] = value'[f]] ELSE seen[c]]
  BY DEF Send
<1>4. ASSUME NEW c \in Clients
      PROVE  /\ seen'[c] \in [Fields -> Values \cup {NULL}]
             /\ \A g \in Fields :
                   seen'[c][g] = IF c \in cs /\ g = f THEN value'[f] ELSE seen[c][g]
  <2>1. seen'[c] = IF c \in cs THEN [seen[c] EXCEPT ![f] = value'[f]] ELSE seen[c]
    BY <1>3
  <2>2. seen[c] \in [Fields -> Values \cup {NULL}] BY <1>1
  <2> QED BY <1>2, <2>1, <2>2
<1>5. seen' \in [Clients -> [Fields -> Values \cup {NULL}]] BY <1>3, <1>4
<1> QED BY <1>4, <1>5

\* A field is processed: its subscribers are told of what is recorded as sent.
LEMMA TestAndInvokeListTells ==
    ASSUME Tables, DataTypeOK, PolledFieldsAreTold, NEW f \in Fields,
           value' \in [Fields -> Values], TestAndInvokeList(f),
           \A c \in Clients, g \in Fields : Subscribed(c, g)' => Subscribed(c, g)
    PROVE  /\ last' \in [Fields -> Values]
           /\ seen' \in [Clients -> [Fields -> Values \cup {NULL}]]
           /\ PolledFieldsAreTold'
<1>1. last \in [Fields -> Values] /\ seen \in [Clients -> [Fields -> Values \cup {NULL}]]
  BY DEF DataTypeOK
<1>2. last' = [last EXCEPT ![f] = value'[f]] BY DEF TestAndInvokeList
<1>3. last' \in [Fields -> Values] /\ last'[f] = value'[f]
      /\ \A g \in Fields \ {f} : last'[g] = last[g]
  BY <1>1, <1>2
<1>4. CASE value'[f] = last[f]
  <2>1. UNCHANGED seen BY <1>4 DEF TestAndInvokeList
  <2>2. \A g \in Fields : last'[g] = last[g] BY <1>3, <1>4
  <2>3. PolledFieldsAreTold' BY <2>1, <2>2, ToldStep, ConstantFacts
  <2> QED BY <1>1, <1>3, <2>1, <2>3
<1>5. CASE value'[f] # last[f]
  <2> DEFINE cs == UNION {Users(h) : h \in ToSet(fieldList[f])}
  <2>1. Send(cs, f) BY <1>5 DEF TestAndInvokeList, InvokeCallbackList
  <2>2. ASSUME NEW c \in Clients, Subscribed(c, f) PROVE c \in cs
    <3>1. PICK h \in Handles : table[h] # NULL /\ table[h].field = f /\ c \in Users(h)
      BY <2>2 DEF Subscribed
    <3>2. h \in ToSet(fieldList[f]) BY <3>1 DEF Tables, HandlesConsistent
    <3> QED BY <3>1, <3>2
  <2> HIDE DEF cs
  <2>3. /\ seen' \in [Clients -> [Fields -> Values \cup {NULL}]]
        /\ \A c \in Clients, g \in Fields :
              seen'[c][g] = IF c \in cs /\ g = f THEN value'[f] ELSE seen[c][g]
    BY <2>1, SendType
  <2>4. ASSUME NEW c \in Clients, NEW g \in Polled, Subscribed(c, g)'
        PROVE  \/ seen'[c][g] = last'[g]
               \/ Subscribed(c, g) /\ seen'[c][g] = seen[c][g] /\ last'[g] = last[g]
    <3>1. g \in Fields /\ Subscribed(c, g) BY <2>4, ConstantFacts
    <3>2. CASE g = f BY <1>3, <2>2, <2>3, <3>1, <3>2
    <3>3. CASE g # f BY <1>3, <2>3, <3>1, <3>3
    <3> QED BY <3>2, <3>3
  <2>5. PolledFieldsAreTold' BY <2>4, ToldStep
  <2> QED BY <1>3, <2>3, <2>5
<1> QED BY <1>4, <1>5
-----------------------------------------------------------------------------
(* The invariant *)

LEMMA InitIInv == Init => IInv
<1> SUFFICES ASSUME Init PROVE IInv
  OBVIOUS
<1> USE DEF Init
<1>1. TablesTypeOK
  <2>1. fieldList \in [Fields -> Seq(Handles)] OBVIOUS
  <2>2. 0 \in 0 .. MaxUses /\ 0 \in 0 .. MaxForeign BY ConstantFacts
  <2> QED BY <2>1, <2>2 DEF TablesTypeOK
<1>2. HandlesConsistent BY DEF HandlesConsistent, ToSet, IsInjective
<1>3. UsersCounted /\ UsesFinite /\ UsesBounded /\ FreeHandles /\ NoFreedSocketHandler
  BY DEF UsersCounted, UsesFinite, UsesBounded, FreeHandles, NoFreedSocketHandler
<1>4. DataTypeOK
  <2>1. poll \in 0 .. NumHandles + 1 BY ConstantFacts
  <2> QED BY <2>1 DEF DataTypeOK
<1>5. PolledFieldsAreTold BY DEF PolledFieldsAreTold, Subscribed
<1> QED BY <1>1, <1>2, <1>3, <1>4, <1>5 DEF IInv, Tables

\* Requests and connections
LEMMA SubscribeStep ==
    ASSUME IInv, NEW c \in Clients, NEW f \in Fields, Subscribe(c, f)
    PROVE  IInv'
<1>1. /\ conn[c] = "open"
      /\ SubscribeAgain(c, f) \/ SubscribeNew(c, f)
      /\ seen' = [seen EXCEPT ![c][f] = IF Subscribed(c, f) THEN @ ELSE last[f]]
      /\ UNCHANGED <<hw, value, last, conn, poll, polls, cutShort>>
  BY DEF Subscribe, Request, data, poller
<1>2. Tables'
  <2>1. Tables BY DEF IInv
  <2> QED BY <1>1, <2>1, SubscribeAgainTables, SubscribeNewTables
<1>3. seen \in [Clients -> [Fields -> Values \cup {NULL}]] /\ last \in [Fields -> Values]
  BY DEF IInv, DataTypeOK
<1>4. /\ seen' \in [Clients -> [Fields -> Values \cup {NULL}]]
      /\ seen'[c][f] = IF Subscribed(c, f) THEN seen[c][f] ELSE last[f]
      /\ \A d \in Clients, g \in Fields :
            <<d, g>> # <<c, f>> => seen'[d][g] = seen[d][g]
  BY <1>1, <1>3
<1>5. DataTypeOK' BY <1>1, <1>4 DEF IInv, DataTypeOK
<1>6. ASSUME NEW d \in Clients, NEW g \in Fields, Subscribed(d, g)', <<d, g>> # <<c, f>>
      PROVE  Subscribed(d, g)
  <2>1. PICK h \in Handles : table'[h] # NULL /\ table'[h].field = g /\ table'[h].sockets[d] > 0
    BY <1>6 DEF Subscribed, Users
  <2>2. table \in [Handles -> Callback \cup {NULL}] BY DEF IInv, Tables, TablesTypeOK
  <2>3. CASE SubscribeAgain(c, f)
    <3> DEFINE o == OldCallback(f)
    <3>1. o \in ToSet(fieldList[f])
      BY <2>3 DEF SubscribeAgain, OldCallback, ToSet, IInv, Tables, TablesTypeOK
    <3>2. table' = [table EXCEPT ![o] = WithUses(o, Plus(table[o].usage), c, 1)]
      BY <2>3 DEF SubscribeAgain
    <3> HIDE DEF o
    <3>3. o \in Handles /\ table[o] \in Callback /\ table[o] # NULL /\ table[o].field = f
      BY <3>1, ListEntries DEF IInv
    <3>4. CASE h = o
      <4>1. /\ table'[h].field = f
            /\ table'[h].sockets = [table[o].sockets EXCEPT ![c] = table[o].sockets[c] + 1]
        BY <2>2, <3>2, <3>3, <3>4 DEF WithUses
      <4>2. g = f /\ d # c BY <1>6, <2>1, <4>1
      <4>3. table[o].sockets[d] > 0 BY <2>1, <3>3, <4>1, <4>2 DEF Callback
      <4> QED BY <3>3, <4>2, <4>3 DEF Subscribed, Users
    <3>5. CASE h # o
      <4>1. table'[h] = table[h] BY <2>2, <3>2, <3>5
      <4> QED BY <2>1, <4>1 DEF Subscribed, Users
    <3> QED BY <3>4, <3>5
  <2>4. CASE SubscribeNew(c, f)
    <3>1. PICK o \in Handles :
             table' = [table EXCEPT ![o] =
                         [field |-> f, usage |-> 1, first |-> TRUE,
                          sockets |-> [e \in Clients |-> IF e = c THEN 1 ELSE 0]]]
      BY <2>4 DEF SubscribeNew
    <3>2. h # o BY <1>6, <2>1, <2>2, <3>1
    <3>3. table'[h] = table[h] BY <2>2, <3>1, <3>2
    <3> QED BY <2>1, <3>3 DEF Subscribed, Users
  <2> QED BY <1>1, <2>3, <2>4
<1>7. PolledFieldsAreTold'
  <2> SUFFICES ASSUME NEW d \in Clients, NEW g \in Polled, Subscribed(d, g)'
               PROVE  \/ seen'[d][g] = last'[g]
                      \/ Subscribed(d, g) /\ seen'[d][g] = seen[d][g] /\ last'[g] = last[g]
    BY ToldStep DEF IInv
  <2>1. g \in Fields BY ConstantFacts
  <2>2. CASE <<d, g>> = <<c, f>> BY <1>1, <1>4, <2>2
  <2>3. CASE <<d, g>> # <<c, f>> BY <1>1, <1>4, <1>6, <2>1, <2>3
  <2> QED BY <2>2, <2>3
<1> QED BY <1>2, <1>5, <1>7 DEF IInv

LEMMA SubscribeFailsStep ==
    ASSUME IInv, NEW c \in Clients, NEW f \in Fields, SubscribeFails(c, f)
    PROVE  IInv'
<1>1. Tables' BY SubscribeFailsTables DEF IInv
<1>2. PICK o : /\ o = OldCallback(f) /\ fieldList[f] # << >>
               /\ table' = [table EXCEPT ![o] = WithUses(o, Plus(table[o].usage), c, 0)]
               /\ UNCHANGED <<hw, value, last, conn, poll, polls, cutShort, seen>>
  BY DEF SubscribeFails, data, poller
<1>3. o \in ToSet(fieldList[f]) BY <1>2 DEF OldCallback, ToSet, IInv, Tables, TablesTypeOK
<1>4. o \in Handles /\ table[o] \in Callback /\ table[o] # NULL BY <1>3, ListEntries DEF IInv
<1>5. \A i \in Handles : /\ table'[i] # NULL <=> table[i] # NULL
                         /\ table[i] # NULL => /\ table'[i].field = table[i].field
                                               /\ table'[i].sockets = table[i].sockets
  <2>1. table \in [Handles -> Callback \cup {NULL}] BY DEF IInv, Tables, TablesTypeOK
  <2>2. table[o].sockets \in [Clients -> 0 .. MaxUses] BY <1>4 DEF Callback
  <2>3. [table[o].sockets EXCEPT ![c] = table[o].sockets[c] + 0] = table[o].sockets
    <3>1. table[o].sockets[c] + 0 = table[o].sockets[c] BY <2>2, ConstantFacts
    <3> QED BY <2>2, <3>1
  <2>4. table'[o] = WithUses(o, Plus(table[o].usage), c, 0) BY <1>2, <1>4, <2>1
  <2>5. table'[o].field = table[o].field /\ table'[o].sockets = table[o].sockets
    BY <2>3, <2>4 DEF WithUses
  <2>6. table'[o] # NULL
    <3>1. table' \in [Handles -> Callback \cup {NULL}] BY <1>1 DEF Tables, TablesTypeOK
    <3>2. table[o].field \in Fields /\ table[o].first \in BOOLEAN BY <1>4 DEF Callback
    <3>3. Plus(table[o].usage) \in 0 .. CountRange - 1
      BY <1>4, ConstantFacts DEF Callback, Plus
    <3>4. table'[o] \in Callback BY <2>2, <2>3, <2>4, <3>2, <3>3 DEF WithUses, Callback
    <3> QED BY <3>4, ConstantFacts
  <2>7. \A i \in Handles \ {o} : table'[i] = table[i] BY <1>2, <2>1
  <2> QED BY <1>4, <2>5, <2>6, <2>7
<1>6. \A d \in Clients, g \in Fields : Subscribed(d, g)' <=> Subscribed(d, g)
  BY <1>5, SubscribedKept
<1>7. DataTypeOK' BY <1>2 DEF IInv, DataTypeOK
<1>8. PolledFieldsAreTold' BY <1>2, <1>6, ToldStep, ConstantFacts DEF IInv
<1> QED BY <1>1, <1>7, <1>8 DEF IInv

LEMMA UnsubscribeStep ==
    ASSUME IInv, NEW c \in Clients, NEW h \in Handles, Unsubscribe(c, h)
    PROVE  IInv'
<1>1. /\ table[h] # NULL
      /\ \/ FreeCallback(h)
         \/ /\ c \notin Users(h)
            /\ table' = [table EXCEPT ![h] = WithUses(h, Minus(table[h].usage), c, 0)]
         \/ /\ c \in Users(h)
            /\ table' = [table EXCEPT ![h] = WithUses(h, Minus(table[h].usage), c, -1)]
      /\ seen' = [seen EXCEPT ![c][table[h].field] = IF StaysSubscribed(c, h) THEN @ ELSE NULL]
      /\ UNCHANGED <<hw, value, last, conn, poll, polls, cutShort>>
  BY DEF Unsubscribe, DeleteForeign, DeleteUse, data, poller
<1>2. Tables' BY UnsubscribeTables DEF IInv
<1>3. table \in [Handles -> Callback \cup {NULL}] /\ table[h] \in Callback
  BY <1>1 DEF IInv, Tables, TablesTypeOK
<1> PICK f \in Fields : f = table[h].field BY <1>3 DEF Callback
<1>4. seen \in [Clients -> [Fields -> Values \cup {NULL}]] /\ last \in [Fields -> Values]
  BY DEF IInv, DataTypeOK
<1>5. /\ seen' \in [Clients -> [Fields -> Values \cup {NULL}]]
      /\ seen'[c][f] = IF StaysSubscribed(c, h) THEN seen[c][f] ELSE NULL
      /\ \A d \in Clients, g \in Fields :
            <<d, g>> # <<c, f>> => seen'[d][g] = seen[d][g]
  BY <1>1, <1>4
<1>6. DataTypeOK' BY <1>1, <1>5 DEF IInv, DataTypeOK
<1>7. \A i \in Handles \ {h} : table'[i] = table[i]
  <2>1. CASE FreeCallback(h) BY <1>3, <2>1 DEF FreeCallback
  <2>2. CASE ~ FreeCallback(h) BY <1>1, <1>3, <2>2
  <2> QED BY <2>1, <2>2
<1>8. ASSUME table'[h] # NULL
      PROVE  /\ table'[h].field = f
             /\ \A d \in Clients : table'[h].sockets[d] > 0 =>
                   table[h].sockets[d] > 0 /\ (d = c => table[h].sockets[c] > 1)
  <2>1. ~ FreeCallback(h) BY <1>3, <1>8 DEF FreeCallback
  <2>2. PICK n \in {0, -1} : /\ n = 0 <=> c \notin Users(h)
                             /\ table' = [table EXCEPT ![h] = WithUses(h, Minus(table[h].usage), c, n)]
    BY <1>1, <2>1
  <2>3. /\ table'[h].field = f
        /\ table'[h].sockets = [table[h].sockets EXCEPT ![c] = table[h].sockets[c] + n]
    BY <1>3, <2>2 DEF WithUses
  <2>4. table[h].sockets \in [Clients -> 0 .. MaxUses] BY <1>3 DEF Callback
  <2>5. ASSUME NEW d \in Clients, table'[h].sockets[d] > 0
        PROVE  table[h].sockets[d] > 0 /\ (d = c => table[h].sockets[c] > 1)
    <3>1. table[h].sockets[d] \in Nat /\ table[h].sockets[c] \in Nat BY <2>4, ConstantFacts
    <3>2. CASE d = c
      <4>1. table[h].sockets[c] + n > 0 BY <2>3, <2>4, <2>5, <3>2
      <4>2. n = -1 BY <2>2, <3>1, <4>1 DEF Users
      <4> QED BY <3>1, <3>2, <4>1, <4>2
    <3>3. CASE d # c BY <2>3, <2>4, <2>5, <3>3
    <3> QED BY <3>2, <3>3
  <2> QED BY <2>3, <2>5
<1>9. ASSUME NEW d \in Clients, NEW g \in Fields, Subscribed(d, g)'
      PROVE  Subscribed(d, g) /\ (<<d, g>> = <<c, f>> => StaysSubscribed(c, h))
  <2>1. PICK i \in Handles : table'[i] # NULL /\ table'[i].field = g /\ table'[i].sockets[d] > 0
    BY <1>9 DEF Subscribed, Users
  <2>2. CASE i # h
    <3>1. table[i] # NULL /\ table[i].field = g /\ d \in Users(i)
      BY <1>7, <2>1, <2>2 DEF Users
    <3> QED BY <2>2, <3>1 DEF Subscribed, StaysSubscribed
  <2>3. CASE i = h
    <3>1. g = f /\ table[h].sockets[d] > 0 /\ (d = c => table[h].sockets[c] > 1)
      BY <1>8, <2>1, <2>3
    <3> QED BY <1>1, <3>1 DEF Subscribed, StaysSubscribed, Users
  <2> QED BY <2>2, <2>3
<1>10. PolledFieldsAreTold'
  <2> SUFFICES ASSUME NEW d \in Clients, NEW g \in Polled, Subscribed(d, g)'
               PROVE  \/ seen'[d][g] = last'[g]
                      \/ Subscribed(d, g) /\ seen'[d][g] = seen[d][g] /\ last'[g] = last[g]
    BY ToldStep DEF IInv
  <2>1. g \in Fields BY ConstantFacts
  <2>2. CASE <<d, g>> = <<c, f>> BY <1>1, <1>5, <1>9, <2>1, <2>2
  <2>3. CASE <<d, g>> # <<c, f>> BY <1>1, <1>5, <1>9, <2>1, <2>3
  <2> QED BY <2>2, <2>3
<1> QED BY <1>2, <1>6, <1>10 DEF IInv

LEMMA CloseStep ==
    ASSUME IInv, NEW c \in Clients, Close(c)
    PROVE  IInv'
<1>1. /\ table' = [h \in Handles |->
                      IF h \in UsedAlone(c) THEN NULL
                      ELSE IF h \in UsedBy(c) THEN Without(c, h)
                      ELSE table[h]]
      /\ seen' = [seen EXCEPT ![c] = [f \in Fields |-> NULL]]
      /\ UNCHANGED <<hw, value, last, poll, polls, cutShort>>
  BY DEF Close, data, poller
<1>2. Tables' BY CloseTables DEF IInv
<1>3. seen \in [Clients -> [Fields -> Values \cup {NULL}]] /\ last \in [Fields -> Values]
  BY DEF IInv, DataTypeOK
<1>4. /\ seen' \in [Clients -> [Fields -> Values \cup {NULL}]]
      /\ \A d \in Clients \ {c} : seen'[d] = seen[d]
  BY <1>1, <1>3
<1>5. DataTypeOK' BY <1>1, <1>4 DEF IInv, DataTypeOK
<1>6. ASSUME NEW d \in Clients, NEW g \in Fields, Subscribed(d, g)'
      PROVE  d # c /\ Subscribed(d, g)
  <2>1. PICK h \in Handles : table'[h] # NULL /\ table'[h].field = g /\ table'[h].sockets[d] > 0
    BY <1>6 DEF Subscribed, Users
  <2>2. CASE h \in UsedBy(c)
    <3>1. table[h] \in Callback /\ table[h] # NULL
      BY <2>2 DEF UsedBy, IInv, Tables, TablesTypeOK
    <3>2. table'[h] = Without(c, h) BY <1>1, <2>1, <2>2
    <3>3. /\ Without(c, h).field = table[h].field
          /\ Without(c, h).sockets = [table[h].sockets EXCEPT ![c] = 0]
      BY <3>1 DEF Without, Callback
    <3>4. d # c /\ table[h].field = g /\ table[h].sockets[d] > 0
      BY <2>1, <3>1, <3>2, <3>3 DEF Callback
    <3> QED BY <3>1, <3>4 DEF Subscribed, Users
  <2>3. CASE h \notin UsedBy(c)
    <3>1. table'[h] = table[h] BY <1>1, <2>3 DEF UsedAlone
    <3> QED BY <2>1, <2>3, <3>1 DEF UsedBy, Subscribed, Users
  <2> QED BY <2>2, <2>3
<1>7. PolledFieldsAreTold'
  <2> SUFFICES ASSUME NEW d \in Clients, NEW g \in Polled, Subscribed(d, g)'
               PROVE  \/ seen'[d][g] = last'[g]
                      \/ Subscribed(d, g) /\ seen'[d][g] = seen[d][g] /\ last'[g] = last[g]
    BY ToldStep DEF IInv
  <2>1. g \in Fields BY ConstantFacts
  <2>2. d # c /\ Subscribed(d, g) BY <1>6, <2>1
  <2> QED BY <1>1, <1>4, <2>2
<1> QED BY <1>2, <1>5, <1>7 DEF IInv

\* The lists stay as they are, and what the clients were told.
LEMMA ToldKept ==
    ASSUME IInv, UNCHANGED <<lists, last, seen>>,
           conn' \in [Clients -> {"open", "broken", "closed"}],
           \A c \in Clients : conn'[c] = "closed" => conn[c] = "closed",
           hw' \in [Fields -> Values], value' \in [Fields -> Values],
           poll' \in 0 .. NumHandles + 1, polls' \in {0, 1}, cutShort' \in BOOLEAN
    PROVE  IInv'
<1>1. Tables' BY TablesKept DEF IInv
<1>2. DataTypeOK' BY DEF IInv, DataTypeOK
<1>3. PolledFieldsAreTold' BY DEF IInv, PolledFieldsAreTold, Subscribed, Users, lists
<1> QED BY <1>1, <1>2, <1>3 DEF IInv

\* A field was processed on a request.
LEMMA ProcessStep ==
    ASSUME IInv, NEW f \in Fields, TestAndInvokeList(f),
           UNCHANGED <<lists, conn, poller>>,
           hw' \in [Fields -> Values], value' \in [Fields -> Values]
    PROVE  IInv'
<1>1. Tables' BY TablesKept DEF IInv, Tables, TablesTypeOK
<1>2. \A c \in Clients, g \in Fields : Subscribed(c, g)' => Subscribed(c, g)
  BY DEF Subscribed, Users, lists
<1>3. /\ last' \in [Fields -> Values]
      /\ seen' \in [Clients -> [Fields -> Values \cup {NULL}]]
      /\ PolledFieldsAreTold'
  BY <1>2, TestAndInvokeListTells DEF IInv
<1>4. DataTypeOK' BY <1>3 DEF IInv, DataTypeOK, poller
<1> QED BY <1>1, <1>3, <1>4 DEF IInv

LEMMA GetStep ==
    ASSUME IInv, NEW c \in Clients, NEW f \in Fields, Get(c, f)
    PROVE  IInv'
<1>1. /\ \/ /\ value' = [value EXCEPT ![f] = hw[f]]
            /\ TestAndInvokeList(f)
         \/ UNCHANGED <<value, last, seen>>
      /\ UNCHANGED <<lists, hw, conn, poller>>
  BY DEF Get
<1>2. /\ hw' \in [Fields -> Values] /\ value' \in [Fields -> Values]
      /\ conn' \in [Clients -> {"open", "broken", "closed"}]
      /\ poll' \in 0 .. NumHandles + 1 /\ polls' \in {0, 1} /\ cutShort' \in BOOLEAN
  BY <1>1 DEF IInv, DataTypeOK, Tables, TablesTypeOK, poller
<1>3. CASE TestAndInvokeList(f) BY <1>1, <1>2, <1>3, ProcessStep
<1>4. CASE UNCHANGED <<value, last, seen>> BY <1>1, <1>2, <1>4, ToldKept
<1> QED BY <1>1, <1>3, <1>4

LEMMA PutStep ==
    ASSUME IInv, NEW c \in Clients, NEW f \in Fields, NEW v \in Values, Put(c, f, v)
    PROVE  IInv'
<1>1. /\ conn[c] = "open"
      /\ value' = [value EXCEPT ![f] = v]
      /\ hw' = [hw EXCEPT ![f] = v] \/ hw' = hw
      /\ \/ TestAndInvokeList(f) /\ UNCHANGED conn
         \/ /\ conn' = conn \/ conn' = [conn EXCEPT ![c] = "broken"]
            /\ UNCHANGED <<last, seen>>
      /\ UNCHANGED <<lists, poller>>
  BY DEF Put, Request
<1>2. /\ hw' \in [Fields -> Values] /\ value' \in [Fields -> Values]
      /\ poll' \in 0 .. NumHandles + 1 /\ polls' \in {0, 1} /\ cutShort' \in BOOLEAN
  BY <1>1 DEF IInv, DataTypeOK, poller
<1>3. CASE TestAndInvokeList(f) /\ UNCHANGED conn BY <1>1, <1>2, <1>3, ProcessStep
<1>4. CASE /\ conn' = conn \/ conn' = [conn EXCEPT ![c] = "broken"]
           /\ UNCHANGED <<last, seen>>
  <2>1. /\ conn' \in [Clients -> {"open", "broken", "closed"}]
        /\ \A d \in Clients : conn'[d] = "closed" => conn[d] = "closed"
    BY <1>4 DEF IInv, Tables, TablesTypeOK
  <2> QED BY <1>1, <1>2, <1>4, <2>1, ToldKept
<1> QED BY <1>1, <1>3, <1>4

\* The poll handler
LEMMA PollGoesOn ==
    ASSUME IInv, poll \in Handles, GoOn \/ CutShort
    PROVE  poll' \in 0 .. NumHandles + 1 /\ cutShort' \in BOOLEAN
<1>1. 0 \in 0 .. NumHandles + 1 /\ poll + 1 \in 0 .. NumHandles + 1
  BY ConstantFacts DEF Handles
<1>2. poll' \in 0 .. NumHandles + 1 BY <1>1 DEF GoOn, CutShort
<1>3. cutShort' \in BOOLEAN BY DEF GoOn, CutShort, IInv, DataTypeOK
<1> QED BY <1>2, <1>3

LEMMA PollProcessStep ==
    ASSUME IInv, PollProcess
    PROVE  IInv'
<1>1. PICK h \in Handles : h = poll BY DEF PollProcess
<1>2. /\ table[h] # NULL
      /\ table' = [table EXCEPT ![poll].first = FALSE]
      /\ UNCHANGED <<fieldList, leaked, foreign, conn, hw, polls>>
      /\ \/ /\ value' = [value EXCEPT ![table[h].field] = hw[table[h].field]]
            /\ TestAndInvokeList(table[h].field)
            /\ GoOn
         \/ CutShort /\ UNCHANGED <<value, last, seen>>
  BY <1>1 DEF PollProcess, Due
<1>3. Tables' BY <1>1, <1>2, PollProcessTables DEF IInv
<1>4. table \in [Handles -> Callback \cup {NULL}] /\ table[h] \in Callback
  BY <1>2 DEF IInv, Tables, TablesTypeOK
<1> PICK f \in Fields : f = table[h].field BY <1>4 DEF Callback
<1>5. \A i \in Handles : /\ table'[i] # NULL <=> table[i] # NULL
                         /\ table[i] # NULL => /\ table'[i].field = table[i].field
                                               /\ table'[i].sockets = table[i].sockets
  <2> SUFFICES ASSUME NEW i \in Handles
               PROVE  /\ table'[i] # NULL <=> table[i] # NULL
                      /\ table[i] # NULL => /\ table'[i].field = table[i].field
                                            /\ table'[i].sockets = table[i].sockets
    OBVIOUS
  <2>1. CASE i # h BY <1>1, <1>2, <1>4, <2>1
  <2>2. CASE i = h
    <3>1. table'[h] = [table[h] EXCEPT !.first = FALSE] BY <1>1, <1>2, <1>4
    <3>2. table'[h] \in Callback /\ table'[h].field = table[h].field
          /\ table'[h].sockets = table[h].sockets
      BY <1>4, <3>1 DEF Callback
    <3> QED BY <1>2, <2>2, <3>2, ConstantFacts
  <2> QED BY <2>1, <2>2
<1>6. \A c \in Clients, g \in Fields : Subscribed(c, g)' <=> Subscribed(c, g)
  BY <1>5, SubscribedKept
<1>7. poll' \in 0 .. NumHandles + 1 /\ cutShort' \in BOOLEAN
  BY <1>2, PollGoesOn DEF PollProcess
<1>8. value' \in [Fields -> Values] BY <1>2 DEF IInv, DataTypeOK
<1>9. CASE TestAndInvokeList(f)
  <2>1. /\ last' \in [Fields -> Values]
        /\ seen' \in [Clients -> [Fields -> Values \cup {NULL}]]
        /\ PolledFieldsAreTold'
    BY <1>6, <1>8, <1>9, TestAndInvokeListTells DEF IInv
  <2>2. DataTypeOK' BY <1>2, <1>7, <1>8, <2>1 DEF IInv, DataTypeOK
  <2> QED BY <1>3, <2>1, <2>2 DEF IInv
<1>10. CASE UNCHANGED <<value, last, seen>>
  <2>1. DataTypeOK' BY <1>2, <1>7, <1>10 DEF IInv, DataTypeOK
  <2>2. PolledFieldsAreTold' BY <1>6, <1>10, ToldStep, ConstantFacts DEF IInv
  <2> QED BY <1>3, <2>1, <2>2 DEF IInv
<1> QED BY <1>2, <1>9, <1>10

LEMMA PollTestStep ==
    ASSUME IInv, PollTest
    PROVE  IInv'
<1>1. PICK h \in Handles : h = poll BY DEF PollTest
<1>2. table[h] # NULL /\ table[h].field \notin Polled
  BY <1>1 DEF PollTest, Due, ReadsHardware
<1>3. table[h] \in Callback BY <1>2 DEF IInv, Tables, TablesTypeOK
<1> PICK f \in Fields : f = table[h].field BY <1>3 DEF Callback
<1>4. /\ last' = [last EXCEPT ![f] = value[f]]
      /\ UNCHANGED seen \/ Send(Users(h), f)
      /\ UNCHANGED <<lists, hw, value, conn, polls>>
      /\ GoOn \/ CutShort
  BY <1>1 DEF PollTest
<1>5. Tables' BY <1>4, TablesKept DEF IInv, Tables, TablesTypeOK
<1>6. last' \in [Fields -> Values] /\ \A g \in Polled : last'[g] = last[g]
  BY <1>2, <1>4, ConstantFacts DEF IInv, DataTypeOK
<1>7. /\ seen' \in [Clients -> [Fields -> Values \cup {NULL}]]
      /\ \A c \in Clients, g \in Polled : seen'[c][g] = seen[c][g]
  <2>1. CASE UNCHANGED seen BY <2>1 DEF IInv, DataTypeOK
  <2>2. CASE Send(Users(h), f)
    <3> PICK cs : cs = Users(h) OBVIOUS
    <3>1. value' \in [Fields -> Values] BY <1>4 DEF IInv, DataTypeOK
    <3>2. /\ seen' \in [Clients -> [Fields -> Values \cup {NULL}]]
          /\ \A c \in Clients, g \in Fields :
                seen'[c][g] = IF c \in cs /\ g = f THEN value'[f] ELSE seen[c][g]
      BY <2>2, <3>1, SendType DEF IInv
    <3> QED BY <1>2, <3>2, ConstantFacts
  <2> QED BY <1>4, <2>1, <2>2
<1>8. poll' \in 0 .. NumHandles + 1 /\ cutShort' \in BOOLEAN
  BY <1>4, PollGoesOn DEF PollTest
<1>9. DataTypeOK' BY <1>4, <1>6, <1>7, <1>8 DEF IInv, DataTypeOK
<1>10. PolledFieldsAreTold'
  BY <1>4, <1>6, <1>7 DEF IInv, PolledFieldsAreTold, Subscribed, Users, lists
<1> QED BY <1>5, <1>9, <1>10 DEF IInv

LEMMA NextIInv == IInv /\ [Next]_vars => IInv'
<1> SUFFICES ASSUME IInv, [Next]_vars PROVE IInv'
  OBVIOUS
<1>1. /\ hw \in [Fields -> Values] /\ value \in [Fields -> Values]
      /\ conn \in [Clients -> {"open", "broken", "closed"}]
      /\ poll \in 0 .. NumHandles + 1 /\ polls \in {0, 1} /\ cutShort \in BOOLEAN
  BY DEF IInv, DataTypeOK, Tables, TablesTypeOK
<1>2. CASE StartPoll
  <2>1. 1 \in 0 .. NumHandles + 1 /\ 1 - polls \in {0, 1} BY <1>1, ConstantFacts
  <2> QED BY <1>1, <1>2, <2>1, ToldKept DEF StartPoll, data
<1>3. CASE PollSkip
  <2>1. poll + 1 \in 0 .. NumHandles + 1 BY <1>3, ConstantFacts DEF PollSkip, Handles
  <2> QED BY <1>1, <1>3, <2>1, ToldKept DEF PollSkip, data
<1>4. CASE EndPoll
  <2>1. 0 \in 0 .. NumHandles + 1 BY ConstantFacts
  <2> QED BY <1>1, <1>4, <2>1, ToldKept DEF EndPoll, data
<1>5. ASSUME NEW c \in Clients, Connect(c) \/ Break(c) PROVE IInv'
  <2>1. /\ conn' = [conn EXCEPT ![c] = "open"] \/ conn' = [conn EXCEPT ![c] = "broken"]
        /\ UNCHANGED <<lists, hw, value, last, poll, polls, cutShort, seen>>
    BY <1>5 DEF Connect, Break, data, poller
  <2>2. /\ conn' \in [Clients -> {"open", "broken", "closed"}]
        /\ \A d \in Clients : conn'[d] = "closed" => conn[d] = "closed"
    BY <1>1, <2>1
  <2> QED BY <1>1, <2>1, <2>2, ToldKept
<1>6. ASSUME NEW c \in Clients, NEW f \in Fields, Refresh(c, f) PROVE IInv'
  <2>1. value' \in [Fields -> Values] BY <1>1, <1>6 DEF Refresh
  <2> QED BY <1>1, <1>6, <2>1, ToldKept DEF Refresh, poller
<1>7. ASSUME NEW f \in Fields, NEW v \in Values, HwChange(f, v) PROVE IInv'
  <2>1. hw' \in [Fields -> Values] BY <1>1, <1>7 DEF HwChange
  <2> QED BY <1>1, <1>7, <2>1, ToldKept DEF HwChange, poller
<1>8. CASE UNCHANGED vars BY <1>1, <1>8, ToldKept DEF vars, data, poller
<1> QED BY <1>2, <1>3, <1>4, <1>5, <1>6, <1>7, <1>8, SubscribeStep, SubscribeFailsStep,
           UnsubscribeStep, CloseStep, GetStep, PutStep, PollProcessStep, PollTestStep DEF Next, Poll

LEMMA Invariant == Spec => []IInv
BY InitIInv, NextIInv, PTL DEF Spec
-----------------------------------------------------------------------------
(* The theorems *)

(* Every variable has its type: usage counts, which wrap around, stay within  *)
(* an unsigned long, and a callback has no more than MaxUses of each client.  *)
THEOREM Types == Spec => []TypeOK
<1>1. IInv => TypeOK BY DEF IInv, Tables, TablesTypeOK, DataTypeOK, TypeOK
<1> QED BY <1>1, Invariant, PTL

(* The handle table and the lists of the fields have the same callbacks, each *)
(* once, however clients subscribe, unsubscribe and go away.                  *)
THEOREM ListsAgree == Spec => []HandlesConsistent
<1>1. IInv => HandlesConsistent BY DEF IInv, Tables
<1> QED BY <1>1, Invariant, PTL

(* The usage count of a callback is, as an unsigned long, the number of uses  *)
(* of its socket handlers and of those nobody has any more, less the          *)
(* deletions by clients that did not use it.                                  *)
THEOREM UsesAgree == Spec => []UsersCounted
<1>1. IInv => UsersCounted BY DEF IInv, Tables
<1> QED BY <1>1, Invariant, PTL

(* No callback has the socket handler of a connection that was closed.        *)
THEOREM NoDanglingHandlers == Spec => []NoFreedSocketHandler
<1>1. IInv => NoFreedSocketHandler BY DEF IInv, Tables
<1> QED BY <1>1, Invariant, PTL

(* The subscribers of a polled field have been sent the value that is         *)
(* recorded as sent, in whatever order requests and polls find a change.      *)
THEOREM PolledAreTold == Spec => []PolledFieldsAreTold
<1>1. IInv => PolledFieldsAreTold BY DEF IInv
<1> QED BY <1>1, Invariant, PTL

\* Client c keeps callback h and its uses of it.
Keeps(c, h) == table'[h] # NULL /\ table'[h].sockets[c] >= table[h].sockets[c]

LEMMA KeepsStep ==
    ASSUME IInv, [Next]_vars, NEW c \in Clients, NEW h \in Handles,
           table[h] # NULL, c \in Users(h)
    PROVE  Keeps(c, h) \/ Unsubscribe(c, h) \/ Close(c)
<1>1. /\ table \in [Handles -> Callback \cup {NULL}] /\ table[h] \in Callback
      /\ table[h].sockets \in [Clients -> 0 .. MaxUses]
  BY Counted DEF IInv, Tables, TablesTypeOK
<1>2. table[h].sockets[c] \in Nat BY <1>1, ConstantFacts
<1>3. IInv' BY NextIInv
<1>4. ASSUME table'[h] = table[h] PROVE Keeps(c, h) BY <1>2, <1>4 DEF Keeps
<1>5. UNCHANGED fieldList => table'[h] # NULL
  <2> SUFFICES ASSUME UNCHANGED fieldList PROVE table'[h] # NULL
    OBVIOUS
  <2>1. PICK f \in Fields : f = table[h].field BY <1>1 DEF Callback
  <2>2. h \in ToSet(fieldList[f]) BY <2>1 DEF IInv, Tables, HandlesConsistent
  <2>3. ToSet(fieldList'[f]) = {g \in Handles : table'[g] # NULL /\ table'[g].field = f}
    BY <1>3 DEF IInv, Tables, HandlesConsistent
  <2> QED BY <2>2, <2>3
<1>6. ASSUME NEW g, NEW count, NEW d \in Clients, NEW n \in Int, UNCHANGED fieldList,
             table' = [table EXCEPT ![g] = WithUses(g, count, d, n)],
             n < 0 => <<d, g>> # <<c, h>>
      PROVE  Keeps(c, h)
  <2>1. CASE g = h
    <3>1. table'[h].sockets = [table[h].sockets EXCEPT ![d] = table[h].sockets[d] + n]
      BY <1>1, <1>6, <2>1 DEF WithUses
    <3>2. CASE d = c
      <4>1. table'[h].sockets[c] = table[h].sockets[c] + n BY <1>1, <3>1, <3>2
      <4>2. ~ (n < 0) BY <1>6, <2>1, <3>2
      <4> QED BY <1>2, <1>5, <1>6, <4>1, <4>2 DEF Keeps
    <3>3. CASE d # c
      <4>1. table'[h].sockets[c] = table[h].sockets[c] BY <1>1, <3>1, <3>3
      <4> QED BY <1>2, <1>5, <1>6, <4>1 DEF Keeps
    <3> QED BY <3>2, <3>3
  <2>2. CASE g # h BY <1>1, <1>4, <1>6, <2>2
  <2> QED BY <2>1, <2>2
<1>7. CASE PollProcess
  <2>1. table' = [table EXCEPT ![poll].first = FALSE] /\ UNCHANGED fieldList
    BY <1>7 DEF PollProcess
  <2>2. CASE poll = h
    <3>1. table'[h] = [table[h] EXCEPT !.first = FALSE] BY <1>1, <2>1, <2>2
    <3>2. table'[h].sockets = table[h].sockets BY <1>1, <3>1 DEF Callback
    <3> QED BY <1>2, <1>5, <2>1, <3>2 DEF Keeps
  <2>3. CASE poll # h BY <1>1, <1>4, <2>1, <2>3
  <2> QED BY <2>2, <2>3
<1>8. ASSUME NEW d \in Clients, NEW f \in Fields, Subscribe(d, f) PROVE Keeps(c, h)
  <2>1. CASE SubscribeAgain(d, f)
    <3>1. PICK g : g = OldCallback(f) OBVIOUS
    <3>2. /\ table' = [table EXCEPT ![g] = WithUses(g, Plus(table[g].usage), d, 1)]
          /\ UNCHANGED fieldList
      BY <2>1, <3>1 DEF SubscribeAgain
    <3>3. 1 \in Int /\ ~ (1 < 0) OBVIOUS
    <3> QED BY <1>6, <3>2, <3>3
  <2>2. CASE SubscribeNew(d, f)
    <3>1. PICK g \in Handles : /\ table[g] = NULL
                               /\ \A i \in Handles \ {g} : table'[i] = table[i]
      BY <1>1, <2>2 DEF SubscribeNew
    <3> QED BY <1>4, <3>1
  <2> QED BY <1>8, <2>1, <2>2 DEF Subscribe
<1>9. ASSUME NEW d \in Clients, NEW f \in Fields, SubscribeFails(d, f) PROVE Keeps(c, h)
  <2>1. PICK g : g = OldCallback(f) OBVIOUS
  <2>2. /\ table' = [table EXCEPT ![g] = WithUses(g, Plus(table[g].usage), d, 0)]
        /\ UNCHANGED fieldList
    BY <1>9, <2>1 DEF SubscribeFails
  <2>3. 0 \in Int /\ ~ (0 < 0) OBVIOUS
  <2> QED BY <1>6, <2>2, <2>3
<1>10. ASSUME NEW d \in Clients, NEW g \in Handles, Unsubscribe(d, g), <<d, g>> # <<c, h>>
       PROVE  Keeps(c, h)
  <2>1. CASE DeleteForeign(d, g)
    <3>1. /\ table' = [table EXCEPT ![g] = WithUses(g, Minus(table[g].usage), d, 0)]
          /\ UNCHANGED fieldList
      BY <2>1 DEF DeleteForeign
    <3>2. 0 \in Int /\ ~ (0 < 0) OBVIOUS
    <3> QED BY <1>6, <3>1, <3>2
  <2>2. CASE DeleteUse(d, g)
    <3>1. /\ table' = [table EXCEPT ![g] = WithUses(g, Minus(table[g].usage), d, -1)]
          /\ UNCHANGED fieldList
      BY <2>2 DEF DeleteUse
    <3>2. -1 \in Int OBVIOUS
    <3> QED BY <1>6, <1>10, <3>1, <3>2
  <2>3. CASE LastUse(d, g) /\ FreeCallback(g)
    <3>1. g # h BY <1>10, <2>3 DEF LastUse
    <3> QED BY <1>1, <1>4, <2>3, <3>1 DEF FreeCallback
  <2> QED BY <1>10, <2>1, <2>2, <2>3 DEF Unsubscribe
<1>11. ASSUME NEW d \in Clients, Close(d), d # c PROVE Keeps(c, h)
  <2>1. h \notin UsedAlone(d) BY <1>11 DEF UsedAlone
  <2>2. table'[h] = IF h \in UsedBy(d) THEN Without(d, h) ELSE table[h]
    BY <1>11, <2>1 DEF Close
  <2>3. CASE h \in UsedBy(d)
    <3>1. PICK s : s = table[h].sockets OBVIOUS
    <3>2. PICK w : w = [s EXCEPT ![d] = 0] OBVIOUS
    <3>3. w \in [Clients -> 0 .. MaxUses] /\ w[c] = s[c]
      BY <1>1, <1>11, <3>1, <3>2, ConstantFacts
    <3>4. table'[h] = [table[h] EXCEPT !.sockets = w]
      BY <1>1, <2>2, <2>3, <3>1, <3>2 DEF Without, Callback
    <3>5. table'[h] \in Callback /\ table'[h].sockets = w BY <1>1, <3>3, <3>4 DEF Callback
    <3> QED BY <1>2, <3>1, <3>3, <3>5, ConstantFacts DEF Keeps
  <2>4. CASE h \notin UsedBy(d) BY <1>4, <2>2, <2>4
  <2> QED BY <2>3, <2>4
<1>12. ASSUME NEW d \in Clients, \/ Connect(d) \/ Break(d)
                                 \/ \E f \in Fields : \/ Get(d, f) \/ Refresh(d, f)
                                                      \/ \E v \in Values : Put(d, f, v)
       PROVE  Keeps(c, h)
  <2>1. UNCHANGED table BY <1>12 DEF Connect, Break, Get, Refresh, Put, lists
  <2> QED BY <1>4, <2>1
<1>13. CASE StartPoll \/ PollSkip \/ PollTest \/ EndPoll \/ UNCHANGED vars
  <2>1. UNCHANGED table BY <1>13 DEF StartPoll, PollSkip, PollTest, EndPoll, lists, vars
  <2> QED BY <1>4, <2>1
<1>14. ASSUME NEW f \in Fields, NEW v \in Values, HwChange(f, v) PROVE Keeps(c, h)
  <2>1. UNCHANGED table BY <1>14 DEF HwChange, lists
  <2> QED BY <1>4, <2>1
<1> QED BY <1>7, <1>8, <1>9, <1>10, <1>11, <1>12, <1>13, <1>14 DEF Next, Poll

(* However wrong the usage counts are, a client loses a use of a callback, or *)
(* the callback, only when it deletes it itself or when its connection is     *)
(* closed.                                                                    *)
THEOREM KeptTillDeleted == Spec => SubscriptionsAreKept
<1>1. ASSUME IInv, [Next]_vars
      PROVE  [\A c \in Clients, h \in Handles : table[h] # NULL /\ c \in Users(h) =>
                 \/ table'[h] # NULL /\ table'[h].sockets[c] >= table[h].sockets[c]
                 \/ Unsubscribe(c, h) \/ Close(c)]_vars
  BY <1>1, KeepsStep DEF Keeps
<1> QED BY <1>1, Invariant, PTL DEF Spec, SubscriptionsAreKept
=============================================================================
