----------------------------- MODULE PushProofs -----------------------------
(***************************************************************************)
(* Theorems about Push, for any number of sockets and broadcasts: first    *)
(* the renderer, then the server's list and the broadcasts that walk it.   *)
(***************************************************************************)
EXTENDS Push, FiniteSetTheorems, WellFoundedInduction, TLAPS

-----------------------------------------------------------------------------
(* The renderer *)

Types ==
  /\ used \in 0..MaxSockets
  /\ client \in [Sockets -> {"none", "connecting", "open", "closing", "closed"}]
  /\ \A s \in Sockets : client[s] = "none" <=> s > used
  /\ ws \in 0..used
  /\ connected \in BOOLEAN /\ wanted \in BOOLEAN
  /\ timer \in BOOLEAN /\ overlapped \in BOOLEAN /\ threw \in BOOLEAN

\* What RendererFollows says, and whose socket the one that is not closed is.
Tidy ==
  /\ \A s, t \in Unclosed : s = t
  /\ \A s \in Unclosed : client[s] = "closing" \/ s = ws
  /\ connected <=> ws # 0 /\ client[ws] = "open"
  /\ ~wanted => \A s \in Unclosed : client[s] = "closing"
  /\ timer => Unclosed = {}

IInv == Types /\ (timer => wanted) /\ (~overlapped => Tidy)

LEMMA SocketInHand ==
  ASSUME IInv
  PROVE  used \in Nat /\ ws \in Nat /\ ws <= used /\ (ws = 0 \/ ws \in Sockets)
<1>1. MaxSockets \in Nat /\ used \in 0..MaxSockets /\ ws \in 0..used
  BY PushAssumption DEF IInv, Types
<1> QED
  BY <1>1 DEF Sockets

LEMMA InitInv == Init => IInv
<1> SUFFICES ASSUME Init PROVE IInv
  OBVIOUS
<1>1. Types
  <2>1. MaxSockets \in Nat
    BY PushAssumption
  <2>2. client = [s \in Sockets |-> "none"] /\ used = 0 /\ ws = 0
    BY DEF Init
  <2>3. \A s \in Sockets : client[s] = "none" /\ s > used
    BY <2>1, <2>2 DEF Sockets
  <2>4. client \in [Sockets -> {"none", "connecting", "open", "closing", "closed"}]
    BY <2>2
  <2>5. used \in 0..MaxSockets /\ ws \in 0..used
    BY <2>1, <2>2
  <2>6. /\ connected \in BOOLEAN /\ wanted \in BOOLEAN
        /\ timer \in BOOLEAN /\ overlapped \in BOOLEAN /\ threw \in BOOLEAN
    BY DEF Init
  <2> QED
    BY <2>3, <2>4, <2>5, <2>6 DEF Types
<1>2. Unclosed = {}
  BY DEF Init, Unclosed
<1> QED
  BY <1>1, <1>2 DEF Init, IInv, Tidy

\* connect and reconnect: a new socket when none is left.
LEMMA CreateStep ==
  ASSUME IInv, Create, ws' = used + 1, wanted' = TRUE, timer' \in BOOLEAN, timer' => timer,
         connected' = connected, overlapped' \in BOOLEAN, threw' \in BOOLEAN,
         ~overlapped' => ~overlapped /\ Unclosed = {} /\ ~timer'
  PROVE  IInv'
<1>1. /\ used \in 0..MaxSockets /\ used' = used + 1 /\ used' \in 1..MaxSockets
      /\ ws' = used' /\ used' \in Sockets
  BY PushAssumption DEF IInv, Types, Create, Sockets
<1>2. client' = [client EXCEPT ![used'] = "connecting"]
  BY <1>1 DEF Create
<1>3. \A s \in Sockets : client'[s] = (IF s = used' THEN "connecting" ELSE client[s])
  BY <1>1, <1>2 DEF IInv, Types
<1>4. Types'
  <2>1. client' \in [Sockets -> {"none", "connecting", "open", "closing", "closed"}]
    BY <1>2 DEF IInv, Types
  <2>2. \A s \in Sockets : client'[s] = "none" <=> s > used'
    BY <1>1, <1>3 DEF IInv, Types, Sockets
  <2> QED
    BY <1>1, <2>1, <2>2 DEF IInv, Types
<1>5. ~overlapped' => Tidy'
  <2> SUFFICES ASSUME ~overlapped'
               PROVE  Tidy'
    OBVIOUS
  <2>1. Unclosed' = {used'}
    BY <1>1, <1>3 DEF Unclosed
  <2>2. ~connected
    BY SocketInHand DEF IInv, Tidy, Unclosed
  <2> QED
    BY <1>1, <1>3, <2>1, <2>2 DEF Tidy, IInv, Types
<1> QED
  BY <1>4, <1>5 DEF IInv

LEMMA NextStep == IInv /\ [Next]_vars => IInv'
<1> SUFFICES ASSUME IInv, [Next]_vars
             PROVE  IInv'
  OBVIOUS
<1>0. ASSUME UNCHANGED <<used, client, ws, connected, wanted, timer, overlapped, threw>>
      PROVE  IInv'
  BY <1>0 DEF IInv, Types, Tidy, Unclosed
<1>1. CASE \E s \in Sockets : Accept(s) \/ Register(s) \/ Hangup(s) \/ Break(s)
  BY <1>0, <1>1 DEF Accept, Register, Hangup, Break, renderVars
<1>2. CASE \E c \in Casts : \/ Broadcast(c) \/ SendCancelled(c)
                            \/ \E raises \in BOOLEAN : SendEnds(c, raises)
  BY <1>0, <1>2 DEF Broadcast, SendCancelled, SendEnds, renderVars
<1>3. CASE Connect
  <2>1. /\ overlapped' \in BOOLEAN /\ timer' \in BOOLEAN /\ threw' \in BOOLEAN
        /\ ~overlapped' => ~overlapped /\ Unclosed = {} /\ ~timer'
    BY <1>3 DEF Connect, IInv, Types
  <2> QED
    BY <1>3, <2>1, CreateStep DEF Connect, DoConnect
<1>4. CASE Reconnect
  <2>1. /\ timer /\ wanted /\ wanted' = TRUE /\ timer' = FALSE
        /\ connected' = connected /\ overlapped' = overlapped
        /\ Create /\ ws' = used + 1
    BY <1>4 DEF Reconnect, DoConnect, IInv, Types
  <2>2. overlapped' \in BOOLEAN /\ threw' \in BOOLEAN /\ (~overlapped' => Unclosed = {})
    BY <1>4, <2>1 DEF Reconnect, IInv, Types, Tidy
  <2> QED
    BY <2>1, <2>2, CreateStep
<1>5. CASE Disconnect
  <2>1. ws \in Unclosed => ws \in Sockets
    BY DEF Unclosed
  <2>2. \A s \in Sockets : client'[s] = (IF s = ws /\ ws \in Unclosed THEN "closing" ELSE client[s])
    BY <1>5 DEF Disconnect, IInv, Types
  <2>3. Types'
    <3>1. client' \in [Sockets -> {"none", "connecting", "open", "closing", "closed"}]
      BY <1>5 DEF Disconnect, IInv, Types
    <3>2. \A s \in Sockets : client'[s] = "none" <=> client[s] = "none"
      BY <2>2 DEF Unclosed
    <3>3. ws' \in 0..used'
      BY <1>5, SocketInHand DEF Disconnect
    <3> QED
      BY <1>5, <3>1, <3>2, <3>3 DEF Disconnect, IInv, Types
  <2>4. Unclosed' = Unclosed
    BY <2>2 DEF Unclosed
  <2>5. Tidy => Tidy'
    BY <1>5, <2>2, <2>4 DEF Disconnect, Tidy, Unclosed
  <2> QED
    BY <1>5, <2>3, <2>5 DEF Disconnect, IInv
<1>6. ASSUME NEW s \in Sockets, OnOpen(s)
      PROVE  IInv'
  <2>1. \A t \in Sockets : client'[t] = (IF t = s THEN "open" ELSE client[t])
    BY <1>6 DEF OnOpen, IInv, Types
  <2>2. Types'
    BY <1>6, <2>1 DEF OnOpen, IInv, Types
  <2>3. Unclosed' = Unclosed /\ s \in Unclosed
    BY <1>6, <2>1 DEF OnOpen, Unclosed
  <2>4. Tidy => Tidy'
    BY <1>6, <2>1, <2>3, PushAssumption DEF OnOpen, Tidy, Unclosed, Sockets
  <2> QED
    BY <1>6, <2>2, <2>4 DEF OnOpen, IInv
<1>7. ASSUME NEW s \in Sockets, NEW throws \in BOOLEAN, OnClose(s, throws)
      PROVE  IInv'
  <2>0. timer' \in BOOLEAN /\ threw' \in BOOLEAN /\ (timer' => wanted')
    BY <1>7 DEF OnClose, IInv, Types
  <2>1. \A t \in Sockets : client'[t] = (IF t = s THEN "closed" ELSE client[t])
    BY <1>7 DEF OnClose, IInv, Types
  <2>2. s \in Unclosed /\ Unclosed' = Unclosed \ {s}
    BY <1>7, <2>1 DEF OnClose, Unclosed
  <2>3. Types'
    <3>1. client[s] # "none"
      BY <2>2 DEF Unclosed
    <3> QED
      BY <1>7, <2>0, <2>1, <3>1 DEF OnClose, IInv, Types
  <2>4. ~overlapped' => Tidy'
    <3> SUFFICES ASSUME ~overlapped'
                 PROVE  Tidy'
      OBVIOUS
    <3>1. Unclosed' = {}
      BY <1>7, <2>2 DEF OnClose, IInv, Types, Tidy
    <3>2. ws' = ws /\ (ws # 0 => ws \in Sockets)
      BY <1>7, SocketInHand DEF OnClose
    <3>3. ws # 0 => client'[ws] # "open"
      BY <3>1, <3>2 DEF Unclosed
    <3> QED
      BY <1>7, <3>1, <3>2, <3>3 DEF OnClose, Tidy
  <2> QED
    BY <2>0, <2>3, <2>4 DEF IInv
<1>8. CASE UNCHANGED vars
  BY <1>0, <1>8 DEF vars, renderVars
<1> QED
  BY <1>1, <1>2, <1>3, <1>4, <1>5, <1>6, <1>7, <1>8 DEF Next

\* Whatever the network does and whatever calls are made: no reconnect is due after
\* disconnect, and while no two connects have overlapped the renderer has one socket,
\* and its state says what that socket's is (websocket.ts).
THEOREM OneSocket == Spec => []RendererFollows
<1>1. IInv => RendererFollows
  <2> SUFFICES ASSUME IInv, ~overlapped
               PROVE  Cardinality(Unclosed) <= 1
    BY DEF IInv, Tidy, RendererFollows
  <2>1. CASE Unclosed = {}
    BY <2>1, FS_EmptySet
  <2>2. ASSUME NEW s \in Unclosed
        PROVE  Cardinality(Unclosed) <= 1
    <3>1. Unclosed = {s}
      BY DEF IInv, Tidy
    <3>2. Cardinality({s}) = 1
      BY FS_Singleton
    <3> QED
      BY <3>1, <3>2
  <2> QED
    BY <2>1, <2>2
<1> QED
  BY InitInv, NextStep, <1>1, PTL DEF Spec

-----------------------------------------------------------------------------
(* Removal from the list, which is a recursive function: an induction over it
   is an argument about the least position at which the statement fails. *)

\* A set of natural numbers has a least element.
LEMMA LeastNat ==
  ASSUME NEW T \in SUBSET Nat, T # {}
  PROVE  \E m \in T : \A n \in T : m <= n
<1>1. IsWellFoundedOn(OpToRel(<, Nat), Nat)
  BY NatLessThanWellFounded
<1>2. PICK m \in T : \A n \in T : <<n, m>> \notin OpToRel(<, Nat)
  BY <1>1, WFMin
<1>3. \A n \in T : ~(n < m)
  BY <1>2 DEF OpToRel
<1> QED
  BY <1>3

\* What is kept of the first n positions of a list.
KeptUpTo(list, out, n, kept) ==
  kept = [i \in 0..n |->
            IF i = 0 THEN <<>>
            ELSE IF list[i] \in out THEN kept[i - 1] ELSE Append(kept[i - 1], list[i])]

\* One step of it.
LEMMA KeptAt ==
  ASSUME NEW list, NEW out, NEW n, NEW kept, KeptUpTo(list, out, n, kept), NEW i \in 0..n
  PROVE  kept[i] = IF i = 0 THEN <<>>
                   ELSE IF list[i] \in out THEN kept[i - 1] ELSE Append(kept[i - 1], list[i])
BY Zenon DEF KeptUpTo

\* The recursion has a solution.
LEMMA KeptExists ==
  ASSUME NEW list, NEW out, NEW n \in Nat
  PROVE  \E kept : KeptUpTo(list, out, n, kept)
<1> DEFINE Bad == {k \in Nat : ~\E kept : KeptUpTo(list, out, k, kept)}
<1>1. Bad = {}
  <2> SUFFICES ASSUME Bad # {} PROVE FALSE
    OBVIOUS
  <2>1. PICK k \in Bad : \A m \in Bad : k <= m
    BY LeastNat
  <2>2. CASE k = 0
    <3> DEFINE none == [i \in 0..0 |-> <<>>]
    <3>1. KeptUpTo(list, out, 0, none)
      BY DEF KeptUpTo
    <3> QED
      BY <2>2, <3>1
  <2>3. CASE k # 0
    <3>1. k - 1 \in Nat /\ k - 1 \notin Bad
      BY <2>1, <2>3
    <3>2. PICK f : KeptUpTo(list, out, k - 1, f)
      BY <3>1
    <3> DEFINE g == [i \in 0..k |->
                       IF i = 0 THEN <<>>
                       ELSE IF list[i] \in out THEN f[i - 1] ELSE Append(f[i - 1], list[i])]
    <3>3. ASSUME NEW i \in 0..(k - 1) PROVE g[i] = f[i]
      <4>1. i \in 0..k
        BY <3>1
      <4>2. g[i] = IF i = 0 THEN <<>>
                   ELSE IF list[i] \in out THEN f[i - 1] ELSE Append(f[i - 1], list[i])
        BY <4>1, Zenon
      <4> HIDE DEF g
      <4> QED
        BY <3>2, <4>2, KeptAt
    <3> HIDE DEF g
    <3>4. \A i \in 0..k : i # 0 => g[i - 1] = f[i - 1]
      <4>1. \A i \in 0..k : i # 0 => i - 1 \in 0..(k - 1)
        BY <3>1
      <4> QED
        BY <3>3, <4>1
    <3> USE DEF g
    <3>5. KeptUpTo(list, out, k, g)
      BY <3>4 DEF KeptUpTo
    <3> QED
      BY <2>1, <3>5
  <2> QED
    BY <2>2, <2>3
<1> QED
  BY <1>1

\* What is kept, position by position: what survives keeps its order, so that it
\* comes no later in what is kept than in the list.
KeptRight(list, out, i, t) ==
  /\ t \in Seq(Sockets)
  /\ Len(t) <= i
  /\ \A j \in 1..Len(t) : \E k \in j..i : t[j] = list[k] /\ list[k] \notin out
  /\ \A k \in 1..i : list[k] \notin out => \E j \in 1..k : j <= Len(t) /\ t[j] = list[k]
  /\ \A j, k \in 1..Len(t) : t[j] = t[k] => j = k

\* The next position.
LEMMA KeptStep ==
  ASSUME NEW list \in Seq(Sockets), IsInjective(list), NEW out, NEW i \in 1..Len(list), NEW t,
         KeptRight(list, out, i - 1, t)
  PROVE  KeptRight(list, out, i, IF list[i] \in out THEN t ELSE Append(t, list[i]))
<1> USE DEF KeptRight
<1>0. i \in Nat \ {0} /\ list[i] \in Sockets /\ Len(t) \in Nat /\ t \in Seq(Sockets)
  OBVIOUS
<1>1. CASE list[i] \in out
  BY <1>0, <1>1
<1>2. CASE list[i] \notin out
  <2> DEFINE u == Append(t, list[i])
  <2>1. u \in Seq(Sockets) /\ Len(u) = Len(t) + 1 /\ u[Len(u)] = list[i]
        /\ \A j \in 1..Len(t) : u[j] = t[j]
    BY <1>0
  <2>2. \A j \in 1..Len(t) : t[j] # list[i]
    <3> SUFFICES ASSUME NEW j \in 1..Len(t) PROVE t[j] # list[i]
      OBVIOUS
    <3>1. PICK k \in j..(i - 1) : t[j] = list[k]
      OBVIOUS
    <3>2. k \in DOMAIN list /\ i \in DOMAIN list /\ k # i
      BY <1>0, <3>1
    <3> QED
      BY <3>1, <3>2 DEF IsInjective
  <2> HIDE DEF u
  <2>3. \A j \in 1..Len(u) : \E k \in j..i : u[j] = list[k] /\ list[k] \notin out
    <3> SUFFICES ASSUME NEW j \in 1..Len(u)
                 PROVE  \E k \in j..i : u[j] = list[k] /\ list[k] \notin out
      OBVIOUS
    <3>1. CASE j = Len(u)
      BY <1>0, <1>2, <2>1, <3>1
    <3>2. CASE j # Len(u)
      <4>1. j \in 1..Len(t)
        BY <1>0, <2>1, <3>2
      <4>2. PICK k \in j..(i - 1) : t[j] = list[k] /\ list[k] \notin out
        BY <4>1
      <4> QED
        BY <1>0, <2>1, <4>1, <4>2
    <3> QED
      BY <3>1, <3>2
  <2>4. \A k \in 1..i : list[k] \notin out => \E j \in 1..k : j <= Len(u) /\ u[j] = list[k]
    <3> SUFFICES ASSUME NEW k \in 1..i, list[k] \notin out
                 PROVE  \E j \in 1..k : j <= Len(u) /\ u[j] = list[k]
      OBVIOUS
    <3>1. CASE k = i
      BY <1>0, <2>1, <3>1
    <3>2. CASE k # i
      <4>1. PICK j \in 1..k : j <= Len(t) /\ t[j] = list[k]
        BY <1>0, <3>2
      <4> QED
        BY <1>0, <2>1, <4>1
    <3> QED
      BY <3>1, <3>2
  <2>5. \A j, k \in 1..Len(u) : u[j] = u[k] => j = k
    BY <1>0, <2>1, <2>2
  <2>6. KeptRight(list, out, i, u)
    BY <1>0, <2>1, <2>3, <2>4, <2>5
  <2> QED
    BY <1>2, <2>6 DEF u
<1> QED
  BY <1>1, <1>2

\* Removal from a list without duplicates.
LEMMA WithoutRight ==
  ASSUME NEW list \in Seq(Sockets), IsInjective(list), NEW out
  PROVE  KeptRight(list, out, Len(list), Without(list, out))
<1> DEFINE n == Len(list)
           kept == CHOOSE f : KeptUpTo(list, out, n, f)
           Bad == {i \in Nat : i <= n /\ ~KeptRight(list, out, i, kept[i])}
<1>0. n \in Nat
  OBVIOUS
<1>1. Without(list, out) = kept[n]
  BY DEF Without, KeptUpTo
<1>2. KeptUpTo(list, out, n, kept)
  BY <1>0, KeptExists
<1> HIDE DEF kept
<1>3. kept[0] = <<>> /\ \A i \in 1..n : kept[i] = IF list[i] \in out THEN kept[i - 1]
                                                  ELSE Append(kept[i - 1], list[i])
  <2>1. \A i \in 1..n : i \in 0..n /\ i # 0
    BY <1>0
  <2>2. 0 \in 0..n
    BY <1>0
  <2> HIDE DEF n
  <2> QED
    BY <1>2, <2>1, <2>2, KeptAt
<1>4. Bad = {}
  <2> SUFFICES ASSUME Bad # {} PROVE FALSE
    OBVIOUS
  <2>1. PICK i \in Bad : \A m \in Bad : i <= m
    BY LeastNat
  <2>2. CASE i = 0
    <3>1. KeptRight(list, out, 0, <<>>)
      BY DEF KeptRight
    <3> QED
      BY <1>3, <2>2, <3>1
  <2>3. CASE i # 0
    <3>1. i - 1 \in Nat /\ i - 1 <= n /\ i - 1 \notin Bad /\ i \in 1..n
      BY <1>0, <2>1, <2>3
    <3>2. KeptRight(list, out, i - 1, kept[i - 1])
      BY <3>1
    <3> QED
      BY <1>3, <2>1, <3>1, <3>2, KeptStep
  <2> QED
    BY <2>2, <2>3
<1> QED
  BY <1>0, <1>1, <1>4

-----------------------------------------------------------------------------
(* The server *)

\* The record of a broadcast.
Walk == [to : Nat, index : Nat, dead : SUBSET Sockets, tried : SUBSET Sockets, gone : Nat,
         cut : BOOLEAN]

\* The sockets at the first n positions of a list.
FirstOf(list, n) == {list[j] : j \in {k \in 1..Len(list) : k <= n}}

\* The list and the endpoints.
Lists ==
  /\ link \in [Sockets -> {"none", "up", "down"}]
  /\ \A s \in Sockets : link[s] = "none" <=> s > used
  /\ endpoint \in [Sockets -> {"none", "accepting", "serving", "done"}]
  /\ \A s \in Sockets : endpoint[s] # "none" => link[s] # "none"
  /\ connections \in Seq(Sockets) /\ IsInjective(connections)
  /\ \A s \in ToSet(connections) : endpoint[s] = "serving"
  /\ casts \in [Casts -> Walk]

\* How far a broadcast has come: beyond its index it has sent to nobody, and of
\* the positions up to its index all but as many as were taken out hold sockets
\* it has sent to.
Walked(b, list) ==
  b.to # 0 =>
    /\ b.to \in b.tried
    /\ \A j \in 1..Len(list) : j > b.index => list[j] \notin b.tried
    /\ b.index <= b.gone + Cardinality(FirstOf(list, b.index) \cap b.tried)

Sent(b) == b.dead \subseteq b.tried /\ \A s \in b.tried : endpoint[s] \in {"serving", "done"}

Walks == \A c \in Casts : Sent(casts[c]) /\ Walked(casts[c], connections)

SInv == Lists /\ Walks

\* There are finitely many sockets.
LEMMA SocketsFinite ==
  ASSUME NEW S \in SUBSET Sockets
  PROVE  IsFiniteSet(S) /\ Cardinality(S) \in Nat
<1>1. IsFiniteSet(Sockets)
  BY FS_Interval, PushAssumption DEF Sockets
<1> QED
  BY <1>1, FS_Subset, FS_CardinalityType

LEMMA FrontType ==
  ASSUME NEW list \in Seq(Sockets), NEW n, NEW T
  PROVE  /\ FirstOf(list, n) \cap T \in SUBSET Sockets
         /\ Cardinality(FirstOf(list, n) \cap T) \in Nat
<1>1. FirstOf(list, n) \cap T \in SUBSET Sockets
  BY DEF FirstOf
<1> QED
  BY <1>1, SocketsFinite

\* A set of sockets from which at most those of out are missing.
LEMMA Missing ==
  ASSUME NEW S \in SUBSET Sockets, NEW T \in SUBSET Sockets, NEW R \in SUBSET Sockets,
         S \subseteq T \cup R
  PROVE  Cardinality(S) <= Cardinality(T) + Cardinality(R)
<1>1. IsFiniteSet(T) /\ IsFiniteSet(R) /\ IsFiniteSet(T \cap R) /\ IsFiniteSet(T \cup R)
  BY SocketsFinite
<1>2. Cardinality(T \cup R) = Cardinality(T) + Cardinality(R) - Cardinality(T \cap R)
  BY <1>1, FS_Union
<1>3. Cardinality(S) <= Cardinality(T \cup R)
  BY <1>1, FS_Subset
<1> QED
  BY <1>2, <1>3, SocketsFinite

\* A broadcast that counts the removals keeps its account.
LEMMA WalkedRemoval ==
  ASSUME NEW list \in Seq(Sockets), IsInjective(list), NEW out \in SUBSET Sockets,
         NEW b \in Walk, Walked(b, list), b.to # 0,
         NEW d \in Walk, d = [b EXCEPT !.gone = @ + Cardinality(out \cap ToSet(list))]
  PROVE  Walked(d, Without(list, out))
<1> DEFINE t == Without(list, out)
<1>1. KeptRight(list, out, Len(list), t)
  BY WithoutRight
<1> HIDE DEF t
<1>2. t \in Seq(Sockets) /\ Len(t) \in Nat /\ Len(list) \in Nat
  BY <1>1 DEF KeptRight
<1>3. /\ d.to = b.to /\ d.index = b.index /\ d.tried = b.tried
      /\ d.gone = b.gone + Cardinality(out \cap ToSet(list))
      /\ b.index \in Nat /\ b.gone \in Nat
  BY DEF Walk
<1>4. b.to \in b.tried
  BY DEF Walked
<1>5. ASSUME NEW j \in 1..Len(t), j > b.index PROVE t[j] \notin b.tried
  <2>1. PICK k \in j..Len(list) : t[j] = list[k]
    BY <1>1 DEF KeptRight
  <2>2. k \in 1..Len(list) /\ k > b.index
    BY <1>2, <1>3, <1>5
  <2> QED
    BY <2>1, <2>2 DEF Walked
<1> DEFINE S == FirstOf(list, b.index) \cap b.tried
           T == FirstOf(t, b.index) \cap b.tried
           R == out \cap ToSet(list)
<1>6. S \subseteq T \cup R
  <2> SUFFICES ASSUME NEW x \in S, x \notin out PROVE x \in FirstOf(t, b.index)
    BY DEF FirstOf, ToSet
  <2>1. PICK k \in 1..Len(list) : k <= b.index /\ x = list[k]
    BY DEF FirstOf
  <2>2. PICK j \in 1..k : j <= Len(t) /\ t[j] = x
    BY <1>1, <2>1 DEF KeptRight
  <2>3. j \in 1..Len(t) /\ j <= b.index
    BY <1>2, <1>3, <2>1, <2>2
  <2> QED
    BY <2>2, <2>3 DEF FirstOf
<1>7. S \in SUBSET Sockets /\ T \in SUBSET Sockets /\ R \in SUBSET Sockets
  BY <1>2, FrontType
<1>8. Cardinality(S) <= Cardinality(T) + Cardinality(R)
  BY <1>6, <1>7, Missing
<1>9. b.index <= b.gone + Cardinality(S)
  BY DEF Walked
<1>10. b.index <= (b.gone + Cardinality(R)) + Cardinality(T)
  <2>1. Cardinality(S) \in Nat /\ Cardinality(T) \in Nat /\ Cardinality(R) \in Nat
    BY <1>7, SocketsFinite
  <2> HIDE DEF S, T, R
  <2> QED
    BY <1>3, <1>8, <1>9, <2>1
<1> QED
  BY <1>3, <1>4, <1>5, <1>10 DEF Walked, t

\* What a removal leaves is a list as before, of those not taken out.
LEMMA ListRemoval ==
  ASSUME NEW list \in Seq(Sockets), IsInjective(list), NEW out
  PROVE  /\ Without(list, out) \in Seq(Sockets)
         /\ IsInjective(Without(list, out))
         /\ ToSet(Without(list, out)) \subseteq ToSet(list) \ out
<1> DEFINE t == Without(list, out)
<1>1. KeptRight(list, out, Len(list), t)
  BY WithoutRight
<1> HIDE DEF t
<1>2. t \in Seq(Sockets) /\ Len(t) \in Nat /\ Len(list) \in Nat /\ DOMAIN t = 1..Len(t)
      /\ DOMAIN list = 1..Len(list)
  BY <1>1 DEF KeptRight
<1>3. IsInjective(t)
  BY <1>1, <1>2 DEF KeptRight, IsInjective
<1>4. ASSUME NEW j \in 1..Len(t) PROVE t[j] \in ToSet(list) \ out
  <2>1. PICK k \in j..Len(list) : t[j] = list[k] /\ list[k] \notin out
    BY <1>1 DEF KeptRight
  <2>2. k \in 1..Len(list)
    BY <1>2
  <2> QED
    BY <1>2, <2>1, <2>2 DEF ToSet
<1> QED
  BY <1>2, <1>3, <1>4 DEF ToSet, t

LEMMA InitSInv == Init => SInv
<1> SUFFICES ASSUME Init PROVE SInv
  OBVIOUS
<1> USE DEF Init
<1>1. used = 0 /\ \A s \in Sockets : s > used
  BY PushAssumption DEF Sockets
<1>2. Idle \in Walk
  BY DEF Idle, Walk
<1>3. connections \in Seq(Sockets) /\ IsInjective(connections) /\ ToSet(connections) = {}
  BY DEF IsInjective, ToSet
<1>4. Lists
  BY <1>1, <1>2, <1>3 DEF Lists
<1>5. Walks
  BY DEF Walks, Sent, Walked, Idle
<1> QED
  BY <1>4, <1>5 DEF SInv

\* What is listed is served.
LEMMA IndexFacts ==
  ASSUME Lists
  PROVE  /\ Len(connections) \in Nat /\ DOMAIN connections = 1..Len(connections)
         /\ \A j \in 1..Len(connections) : connections[j] \in Sockets /\ endpoint[connections[j]] = "serving"
BY DEF Lists, ToSet

\* hangup and the end of a broadcast: sockets are taken out while others walk.
LEMMA KeepStep ==
  ASSUME SInv, NEW out \in SUBSET Sockets, Keep(out), NEW running \in [Casts -> Walk],
         casts' = Count(running, out),
         \A c \in Casts : running[c].to # 0 => running[c] = casts[c],
         \A c \in Casts : Sent(running[c]),
         \A s \in Sockets : endpoint'[s] = endpoint[s] \/ (s \in out /\ endpoint'[s] = "done"),
         endpoint' \in [Sockets -> {"none", "accepting", "serving", "done"}],
         \A s \in out : endpoint[s] # "none",
         link' \in [Sockets -> {"none", "up", "down"}],
         \A s \in Sockets : link'[s] = "none" <=> link[s] = "none",
         UNCHANGED used
  PROVE  SInv'
<1> DEFINE r == Cardinality(out \cap ToSet(connections))
<1>L. Lists
  BY DEF SInv
<1>0. r \in Nat
  BY SocketsFinite
<1> HIDE DEF r
<1>1. /\ connections' \in Seq(Sockets) /\ IsInjective(connections')
      /\ ToSet(connections') \subseteq ToSet(connections) \ out
  BY <1>L, ListRemoval DEF Lists, Keep
<1>2. \A c \in Casts : casts'[c] = IF running[c].to = 0 THEN running[c]
                                   ELSE [running[c] EXCEPT !.gone = @ + r]
  BY DEF Count, r
<1>3. \A c \in Casts : casts'[c] \in Walk
  <2> SUFFICES ASSUME NEW c \in Casts PROVE casts'[c] \in Walk
    OBVIOUS
  <2> DEFINE b == running[c]
  <2>1. b \in Walk
    OBVIOUS
  <2>2. casts'[c] = IF b.to = 0 THEN b ELSE [b EXCEPT !.gone = @ + r]
    BY <1>2
  <2> HIDE DEF b
  <2>3. b.gone + r \in Nat
    BY <1>0, <2>1 DEF Walk
  <2> QED
    BY <2>1, <2>2, <2>3 DEF Walk
<1>4. casts' \in [Casts -> Walk]
  BY <1>3 DEF Count
<1>5. Lists'
  <2>1. \A s \in ToSet(connections') : endpoint'[s] = "serving"
    <3>1. \A s \in ToSet(connections) : s \in Sockets /\ endpoint[s] = "serving"
      BY <1>L, IndexFacts DEF ToSet
    <3> QED
      BY <1>1, <3>1
  <2> QED
    BY <1>L, <1>1, <1>4, <2>1 DEF Lists
<1>6. ASSUME NEW c \in Casts PROVE Sent(casts[c])' /\ Walked(casts[c], connections)'
  <2>1. CASE running[c].to = 0
    <3>1. casts'[c] = running[c] /\ Sent(running[c]) /\ running[c] \in Walk
      BY <1>2, <2>1
    <3>2. running[c].tried \subseteq Sockets
      BY <3>1 DEF Walk
    <3> QED
      BY <2>1, <3>1, <3>2 DEF Sent, Walked
  <2>2. CASE running[c].to # 0
    <3>1. /\ running[c] = casts[c] /\ casts[c] \in Walk /\ casts'[c] \in Walk
          /\ casts'[c] = [casts[c] EXCEPT !.gone = @ + r]
      BY <1>2, <1>3, <2>2
    <3>2. casts'[c].dead = casts[c].dead /\ casts'[c].tried = casts[c].tried
      BY <3>1 DEF Walk
    <3>3. Sent(casts[c])'
      <4>1. Sent(casts[c]) /\ casts[c].tried \subseteq Sockets
        BY <3>1 DEF SInv, Walks, Walk
      <4> QED
        BY <3>2, <4>1 DEF Sent
    <3>4. Walked(casts[c], connections) /\ casts[c].to # 0
      BY <2>2, <3>1 DEF SInv, Walks
    <3>5. Walked(casts'[c], Without(connections, out))
      BY <1>L, <3>1, <3>4, WalkedRemoval DEF Lists, r
    <3> QED
      BY <3>3, <3>5 DEF Keep
  <2> QED
    BY <2>1, <2>2
<1> QED
  BY <1>5, <1>6 DEF SInv, Walks

\* A step of the renderer or of the network: the server does not move.
LEMMA ServerKept ==
  ASSUME SInv, UNCHANGED serverVars,
         link' \in [Sockets -> {"none", "up", "down"}],
         \A s \in Sockets : link'[s] = "none" <=> s > used',
         \A s \in Sockets : link[s] # "none" => link'[s] # "none"
  PROVE  SInv'
<1>1. Lists'
  BY DEF SInv, Lists, serverVars, ToSet
<1>2. Walks'
  BY DEF SInv, Walks, Sent, serverVars
<1> QED
  BY <1>1, <1>2 DEF SInv

LEMMA CreateServer ==
  ASSUME IInv, SInv, UNCHANGED serverVars, Create
  PROVE  SInv'
<1>1. /\ used \in Nat /\ used' = used + 1 /\ used' \in Sockets
      /\ link' = [link EXCEPT ![used'] = "up"]
  BY PushAssumption DEF IInv, Types, Create, Sockets
<1>2. \A s \in Sockets : s \in Nat
  BY DEF Sockets
<1> QED
  BY <1>1, <1>2, ServerKept DEF SInv, Lists

LEMMA NextSInv == IInv /\ SInv /\ [Next]_vars => SInv'
<1> SUFFICES ASSUME IInv, SInv, [Next]_vars
             PROVE  SInv'
  OBVIOUS
<1>L. Lists /\ Walks /\ \A c \in Casts : casts[c] \in Walk
  BY DEF SInv, Lists
<1>0. ASSUME UNCHANGED <<used, link, serverVars>>
      PROVE  SInv'
  BY <1>0, <1>L, ServerKept DEF Lists
<1>1. ASSUME NEW s \in Sockets, Accept(s)
      PROVE  SInv'
  <2>1. Lists'
    BY <1>1, <1>L, IndexFacts DEF Accept, Lists, ToSet
  <2>2. Walks'
    BY <1>1, <1>L DEF Accept, Walks, Sent, Lists, Walk
  <2> QED
    BY <2>1, <2>2 DEF SInv
<1>2. ASSUME NEW s \in Sockets, Register(s), connections' = Append(connections, s),
             endpoint' = [endpoint EXCEPT ![s] = "serving"]
      PROVE  SInv'
  <2>1. UNCHANGED <<used, link, casts>> /\ endpoint[s] = "accepting"
    BY <1>2 DEF Register
  <2>2. /\ connections' \in Seq(Sockets) /\ Len(connections') = Len(connections) + 1
        /\ connections'[Len(connections) + 1] = s
        /\ \A j \in 1..Len(connections) : connections'[j] = connections[j]
        /\ Len(connections) \in Nat /\ DOMAIN connections' = 1..(Len(connections) + 1)
    BY <1>2, <1>L DEF Lists
  <2>3. \A j \in 1..Len(connections) : connections[j] # s
    BY <1>L, <2>1, IndexFacts
  <2>4. IsInjective(connections')
    BY <1>L, <2>2, <2>3, IndexFacts DEF IsInjective, Lists
  <2>5. \A t \in ToSet(connections') : endpoint'[t] = "serving"
    BY <1>L, <1>2, <2>2, IndexFacts DEF ToSet, Lists
  <2>6. Lists'
    BY <1>L, <1>2, <2>1, <2>2, <2>4, <2>5 DEF Lists
  <2>7. ASSUME NEW c \in Casts PROVE Sent(casts[c])' /\ Walked(casts[c], connections)'
    <3> DEFINE b == casts[c]
    <3>1. b \in Walk /\ Sent(b) /\ Walked(b, connections) /\ casts'[c] = b
      BY <1>L, <2>1 DEF Walks
    <3>2. \A t \in b.tried : t \in Sockets /\ t # s
      BY <2>1, <3>1 DEF Sent, Walk
    <3>3. Sent(b)'
      BY <1>2, <1>L, <2>1, <3>1, <3>2 DEF Sent, Lists
    <3> HIDE DEF b
    <3>4. ASSUME b.to # 0 PROVE Walked(b, connections')
      <4>1. \A j \in 1..Len(connections') : j > b.index => connections'[j] \notin b.tried
        BY <2>2, <3>1, <3>2, <3>4 DEF Walked
      <4>2. FirstOf(connections, b.index) \cap b.tried \subseteq FirstOf(connections', b.index) \cap b.tried
        BY <2>2 DEF FirstOf
      <4>3. /\ IsFiniteSet(FirstOf(connections', b.index) \cap b.tried)
            /\ Cardinality(FirstOf(connections', b.index) \cap b.tried) \in Nat
            /\ Cardinality(FirstOf(connections, b.index) \cap b.tried) \in Nat
        BY <1>L, <2>2, FrontType, SocketsFinite DEF Lists
      <4>4. Cardinality(FirstOf(connections, b.index) \cap b.tried)
              <= Cardinality(FirstOf(connections', b.index) \cap b.tried)
        BY <4>2, <4>3, FS_Subset
      <4>5. b.index \in Nat /\ b.gone \in Nat
        BY <3>1 DEF Walk
      <4>6. b.to \in b.tried /\ b.index <= b.gone + Cardinality(FirstOf(connections, b.index) \cap b.tried)
        BY <3>1, <3>4 DEF Walked
      <4>7. b.index <= b.gone + Cardinality(FirstOf(connections', b.index) \cap b.tried)
        BY <4>3, <4>4, <4>5, <4>6
      <4> QED
        BY <4>1, <4>6, <4>7 DEF Walked
    <3>5. Walked(b, connections')
      BY <3>4 DEF Walked
    <3> QED
      BY <3>1, <3>3, <3>5 DEF b
  <2> QED
    BY <2>6, <2>7 DEF SInv, Walks
<1>3. ASSUME NEW s \in Sockets, Register(s), endpoint' = [endpoint EXCEPT ![s] = "done"],
             UNCHANGED connections
      PROVE  SInv'
  <2>1. Lists'
    BY <1>3, <1>L, IndexFacts DEF Register, Lists, ToSet
  <2>2. Walks'
    BY <1>3, <1>L DEF Register, Walks, Sent, Lists, Walk
  <2> QED
    BY <2>1, <2>2 DEF SInv
<1>4. ASSUME NEW s \in Sockets, Hangup(s)
      PROVE  SInv'
  <2>1. /\ casts \in [Casts -> Walk] /\ \A c \in Casts : Sent(casts[c])
        /\ endpoint \in [Sockets -> {"none", "accepting", "serving", "done"}]
    BY <1>L DEF Lists, Walks
  <2>2. /\ Keep({s}) /\ casts' = Count(casts, {s}) /\ endpoint[s] = "serving"
        /\ endpoint' = [endpoint EXCEPT ![s] = "done"] /\ UNCHANGED used
    BY <1>4 DEF Hangup
  <2>3. /\ link' \in [Sockets -> {"none", "up", "down"}]
        /\ \A t \in Sockets : link'[t] = "none" <=> link[t] = "none"
    <3>1. link[s] # "none" /\ link' = [link EXCEPT ![s] = "down"]
      BY <1>4, <1>L DEF Hangup, Lists
    <3> QED
      BY <1>L, <3>1 DEF Lists
  <2>4. /\ \A t \in Sockets : \/ endpoint'[t] = endpoint[t]
                              \/ t \in {s} /\ endpoint'[t] = "done"
        /\ endpoint' \in [Sockets -> {"none", "accepting", "serving", "done"}]
        /\ \A t \in {s} : endpoint[t] # "none"
        /\ {s} \in SUBSET Sockets
    BY <2>1, <2>2
  <2>5. /\ casts' = Count(casts, {s}) /\ Keep({s}) /\ UNCHANGED used
        /\ \A c \in Casts : casts[c].to # 0 => casts[c] = casts[c]
    BY <2>2
  <2> HIDE <2>2
  <2> QED
    BY <2>1, <2>3, <2>4, <2>5, KeepStep
<1>5. ASSUME NEW s \in Sockets, Break(s)
      PROVE  SInv'
  BY <1>5, <1>L, ServerKept DEF Break, Lists
<1>6. ASSUME NEW c \in Casts, Broadcast(c)
      PROVE  SInv'
  <2> DEFINE h == Head(connections)
             d == [Idle EXCEPT !.to = h, !.index = 1, !.tried = {h}]
  <2>1. /\ h \in Sockets /\ endpoint[h] = "serving" /\ h = connections[1]
        /\ 1 \in 1..Len(connections)
    BY <1>6, <1>L, IndexFacts DEF Broadcast, Lists
  <2>2. d \in Walk /\ Sent(d) /\ d.to = h /\ d.index = 1 /\ d.tried = {h} /\ d.gone = 0
    <3>1. h \in Nat
      BY <2>1 DEF Sockets
    <3>2. Idle \in Walk /\ Idle.dead = {} /\ Idle.gone = 0
      BY DEF Idle, Walk
    <3>3. {h} \in SUBSET Sockets /\ 1 \in Nat
      BY <2>1
    <3> HIDE DEF h
    <3>4. /\ d \in Walk /\ d.to = h /\ d.index = 1 /\ d.tried = {h}
          /\ d.dead = Idle.dead /\ d.gone = Idle.gone
      BY <3>1, <3>2, <3>3 DEF Walk
    <3> QED
      BY <2>1, <3>2, <3>4 DEF Sent
  <2>3. casts' = [casts EXCEPT ![c] = d] /\ UNCHANGED <<used, link, endpoint, connections>>
    BY <1>6 DEF Broadcast
  <2> HIDE DEF d
  <2>4. Walked(d, connections)
    <3>1. \A j \in 1..Len(connections) : j > 1 => connections[j] # h
      BY <1>L, <2>1, IndexFacts DEF Lists, IsInjective
    <3>2. FirstOf(connections, 1) \cap {h} = {h}
      BY <2>1 DEF FirstOf
    <3>3. Cardinality(FirstOf(connections, d.index) \cap d.tried) = 1
      BY <2>2, <3>2, FS_Singleton
    <3>4. d.index <= d.gone + Cardinality(FirstOf(connections, d.index) \cap d.tried)
      BY <2>2, <3>3
    <3> QED
      BY <2>2, <3>1, <3>4 DEF Walked
  <2>5. Lists'
    BY <1>L, <2>2, <2>3 DEF Lists
  <2>6. Walks'
    BY <1>L, <2>2, <2>3, <2>4 DEF Walks, Lists, Sent
  <2> QED
    BY <2>5, <2>6 DEF SInv
<1>7. ASSUME NEW c \in Casts, NEW raises \in BOOLEAN, SendEnds(c, raises)
      PROVE  SInv'
  <2> DEFINE b == casts[c]
             i == NextIndex(c)
             dead == IF raises THEN b.dead \cup {b.to} ELSE b.dead
  <2>1. b \in Walk /\ Sent(b) /\ Walked(b, connections) /\ b.to # 0
    BY <1>7, <1>L DEF Walks, SendEnds
  <2>2. /\ i = b.index + 1 /\ i \in Nat /\ b.index \in Nat /\ b.gone \in Nat
        /\ b.tried \in SUBSET Sockets /\ dead \subseteq b.tried
    BY <2>1 DEF NextIndex, Walk, Sent, Walked
  <2>3. \A t \in dead : t \in Sockets /\ endpoint[t] # "none"
    BY <2>1, <2>2 DEF Sent
  <2>4. CASE i <= Len(connections)
    <3> DEFINE x == connections[i]
               d == [b EXCEPT !.to = x, !.index = i, !.dead = dead, !.tried = @ \cup {x}]
    <3>1. i \in 1..Len(connections) /\ x \in Sockets /\ endpoint[x] = "serving"
      BY <1>L, <2>2, <2>4, IndexFacts
    <3>2. x \notin b.tried
      BY <2>1, <2>2, <3>1 DEF Walked
    <3>3. casts' = [casts EXCEPT ![c] = d] /\ UNCHANGED <<used, link, endpoint, connections>>
      BY <1>7, <2>4 DEF SendEnds
    <3>4. /\ d \in Walk /\ d.to = x /\ d.index = i /\ d.tried = b.tried \cup {x}
          /\ d.dead = dead /\ d.gone = b.gone
      <4>1. x \in Nat
        BY <3>1 DEF Sockets
      <4>2. dead \in SUBSET Sockets /\ b.tried \cup {x} \in SUBSET Sockets
        BY <2>2, <3>1
      <4> HIDE DEF x, i, dead, b
      <4> QED
        BY <2>1, <2>2, <4>1, <4>2 DEF Walk
    <3> HIDE DEF d
    <3>5. Sent(d)
      BY <2>1, <2>2, <3>1, <3>4 DEF Sent
    <3>6. Walked(d, connections)
      <4> DEFINE S == FirstOf(connections, b.index) \cap b.tried
                 T == FirstOf(connections, i) \cap d.tried
      <4>1. \A j \in 1..Len(connections) : j > i => connections[j] \notin d.tried
        <5>1. \A j \in 1..Len(connections) : j > i => connections[j] \notin b.tried
          BY <1>L, <2>1, <2>2, IndexFacts DEF Walked
        <5>2. \A j \in 1..Len(connections) : j > i => connections[j] # x
          BY <1>L, <3>1, IndexFacts DEF Lists, IsInjective
        <5> QED
          BY <3>4, <5>1, <5>2
      <4>2. S \cup {x} \subseteq T
        BY <1>L, <2>2, <3>1, <3>4, IndexFacts DEF FirstOf
      <4>3. x \notin S
        BY <3>2
      <4>4. S \in SUBSET Sockets /\ T \in SUBSET Sockets
        BY <1>L, FrontType DEF Lists
      <4>5. IsFiniteSet(S) /\ IsFiniteSet(T) /\ Cardinality(S) \in Nat /\ Cardinality(T) \in Nat
        BY <4>4, SocketsFinite
      <4>6. Cardinality(S \cup {x}) = Cardinality(S) + 1 /\ Cardinality(S \cup {x}) <= Cardinality(T)
        BY <4>2, <4>3, <4>5, FS_AddElement, FS_Subset
      <4>7. b.index <= b.gone + Cardinality(S)
        BY <2>1 DEF Walked
      <4>8. i <= b.gone + Cardinality(T)
        <5> HIDE DEF S, T, i, b
        <5> QED
          BY <2>2, <4>5, <4>6, <4>7
      <4> QED
        BY <3>4, <4>1, <4>8 DEF Walked
    <3>7. Lists'
      BY <1>L, <3>3, <3>4 DEF Lists
    <3>8. Walks'
      BY <1>L, <3>3, <3>5, <3>6 DEF Walks, Lists, Sent
    <3> QED
      BY <3>7, <3>8 DEF SInv
  <2>5. CASE ~(i <= Len(connections))
    <3> DEFINE running == [casts EXCEPT ![c] = Idle]
    <3>1. casts' = Count(running, dead) /\ Keep(dead) /\ UNCHANGED <<used, link, endpoint>>
      BY <1>7, <2>5 DEF SendEnds
    <3>2. Idle \in Walk /\ Sent(Idle) /\ Idle.to = 0
      BY DEF Idle, Walk, Sent
    <3>3. running \in [Casts -> Walk]
      BY <1>L, <3>2 DEF Lists
    <3>4. \A e \in Casts : /\ running[e].to # 0 => running[e] = casts[e]
                           /\ Sent(running[e])
      BY <1>L, <3>2 DEF Lists, Walks
    <3>5. endpoint' \in [Sockets -> {"none", "accepting", "serving", "done"}]
      BY <1>L, <3>1 DEF Lists
    <3>6. dead \in SUBSET Sockets
      BY <2>2
    <3>7. /\ link' \in [Sockets -> {"none", "up", "down"}]
          /\ \A t \in Sockets : link'[t] = "none" <=> link[t] = "none"
      BY <1>L, <3>1 DEF Lists
    <3> HIDE DEF running, dead
    <3> QED
      BY <2>3, <3>1, <3>3, <3>4, <3>5, <3>6, <3>7, KeepStep
  <2> QED
    BY <2>4, <2>5
<1>13. ASSUME NEW c \in Casts, SendCancelled(c)
       PROVE  SInv'
  <2> DEFINE d == [Idle EXCEPT !.cut = TRUE]
  <2>1. d \in Walk /\ Sent(d) /\ Walked(d, connections)
    BY DEF Idle, Walk, Sent, Walked
  <2>2. casts' = [casts EXCEPT ![c] = d] /\ UNCHANGED <<used, link, endpoint, connections>>
    BY <1>13 DEF SendCancelled
  <2> HIDE DEF d
  <2>3. Lists'
    BY <1>L, <2>1, <2>2 DEF Lists
  <2>4. Walks'
    BY <1>L, <2>1, <2>2 DEF Walks, Lists, Sent
  <2> QED
    BY <2>3, <2>4 DEF SInv
<1>8. CASE Connect \/ Reconnect
  BY <1>8, CreateServer DEF Connect, Reconnect, DoConnect
<1>9. CASE Disconnect
  <2>1. UNCHANGED <<used, serverVars>>
    BY <1>9 DEF Disconnect
  <2>2. ws \in Unclosed => ws \in Sockets /\ ws <= used
    BY SocketInHand DEF Unclosed
  <2>3. /\ link' \in [Sockets -> {"none", "up", "down"}]
        /\ \A s \in Sockets : link'[s] = "none" <=> link[s] = "none"
    <3>1. CASE ws \in Unclosed
      <4>1. link' = [link EXCEPT ![ws] = "down"]
        BY <1>9, <3>1 DEF Disconnect
      <4>2. link[ws] # "none"
        BY <1>L, <2>2, <3>1, SocketInHand DEF Lists
      <4> QED
        BY <1>L, <4>1, <4>2 DEF Lists
    <3>2. CASE ws \notin Unclosed
      BY <1>9, <1>L, <3>2 DEF Disconnect, Lists
    <3> QED
      BY <3>1, <3>2
  <2> QED
    BY <1>L, <2>1, <2>3, ServerKept DEF Lists
<1>10. ASSUME NEW s \in Sockets, OnOpen(s) \/ \E throws \in BOOLEAN : OnClose(s, throws)
       PROVE  SInv'
  BY <1>0, <1>10 DEF OnOpen, OnClose
<1>11. CASE UNCHANGED vars
  BY <1>0, <1>11 DEF vars
<1>12. ASSUME NEW s \in Sockets, Register(s)
       PROVE  SInv'
  BY <1>2, <1>3, <1>12 DEF Register
<1> QED
  BY <1>1, <1>4, <1>5, <1>6, <1>7, <1>8, <1>9, <1>10, <1>11, <1>12, <1>13 DEF Next

\* Type correctness: a listed socket is served, and listed once.
THEOREM TypeCorrect == Spec => []TypeOK
<1>1. IInv /\ SInv => TypeOK
  <2> SUFFICES ASSUME IInv, SInv PROVE TypeOK
    OBVIOUS
  <2>1. ASSUME NEW c \in Casts PROVE casts[c].to \in 0..used /\ casts[c].dead \subseteq casts[c].tried
    <3>1. casts[c] \in Walk /\ Sent(casts[c]) /\ Walked(casts[c], connections)
      BY DEF SInv, Lists, Walks
    <3>2. used \in Nat
      BY SocketInHand
    <3>3. CASE casts[c].to # 0
      <4>1. casts[c].to \in Sockets /\ endpoint[casts[c].to] # "none"
        BY <3>1, <3>3 DEF Walked, Sent, Walk
      <4>2. casts[c].to <= used
        BY <3>2, <4>1 DEF SInv, Lists, Sockets
      <4> QED
        BY <3>1, <3>2, <4>2 DEF Sent, Walk
    <3> QED
      BY <3>1, <3>2, <3>3 DEF Sent
  <2> QED
    BY <2>1 DEF IInv, Types, SInv, Lists, TypeOK
<1> QED
  BY InitInv, NextStep, InitSInv, NextSInv, <1>1, PTL DEF Spec

\* At the end of the walk.
LEMMA WalkEnds ==
  ASSUME SInv, NEW c \in Casts, casts[c].to # 0, NextIndex(c) > Len(connections)
  PROVE  Cardinality(ToSet(connections) \ casts[c].tried) <= casts[c].gone
<1> DEFINE b == casts[c]
           S == ToSet(connections)
           T == S \cap b.tried
<1>1. b \in Walk /\ Walked(b, connections) /\ Len(connections) \in Nat /\ b.to # 0
      /\ DOMAIN connections = 1..Len(connections)
  BY IndexFacts DEF SInv, Lists, Walks
<1>2. b.index \in Nat /\ b.gone \in Nat /\ Len(connections) <= b.index
  BY <1>1 DEF Walk, NextIndex
<1>3. FirstOf(connections, b.index) = S
  BY <1>1, <1>2 DEF FirstOf, ToSet
<1>4. S \in SUBSET Sockets /\ T \in SUBSET Sockets /\ S \ b.tried \in SUBSET Sockets
  BY <1>1, IndexFacts DEF ToSet, SInv
<1>5. b.index <= b.gone + Cardinality(T)
  BY <1>1, <1>3 DEF Walked
<1>6. Cardinality(S) <= Len(connections)
  <2>1. IsFiniteSet(1..Len(connections)) /\ Cardinality(1..Len(connections)) = Len(connections)
    <3> DEFINE n == Len(connections)
    <3>1. n \in Nat
      BY <1>1
    <3> HIDE DEF n
    <3>2. IsFiniteSet(1..n) /\ Cardinality(1..n) = n
      BY <3>1, FS_Interval
    <3> QED
      BY <3>2 DEF n
  <2>2. connections \in Surjection(1..Len(connections), S)
    BY <1>1 DEF SInv, Lists, Surjection, ToSet
  <2> QED
    BY <2>1, <2>2, FS_Surjection
<1>7. Cardinality(S) = Cardinality(T) + Cardinality(S \ b.tried)
  <2> DEFINE U == S \ b.tried
  <2>1. IsFiniteSet(T) /\ IsFiniteSet(U) /\ Cardinality(T) \in Nat /\ Cardinality(U) \in Nat
    BY <1>4, SocketsFinite
  <2>2. T \cap U = {} /\ S = T \cup U
    OBVIOUS
  <2> HIDE DEF S, T, U
  <2>3. Cardinality(T \cup U) = Cardinality(T) + Cardinality(U) - 0
    BY <2>1, <2>2, FS_Union, FS_EmptySet
  <2>4. Cardinality(S) = Cardinality(T) + Cardinality(U)
    BY <2>1, <2>2, <2>3
  <2> QED
    BY <2>4 DEF U
<1>8. Cardinality(S) \in Nat /\ Cardinality(T) \in Nat /\ Cardinality(S \ b.tried) \in Nat
  BY <1>4, SocketsFinite
<1> HIDE DEF b, S, T
<1>9. Cardinality(S \ b.tried) <= b.gone
  BY <1>1, <1>2, <1>5, <1>6, <1>7, <1>8
<1> QED
  BY <1>9 DEF S, b

\* Whoever comes and goes during a broadcast, it sends to nobody twice, and unless it
\* is cancelled misses at most one listed client for each one taken out, and takes out
\* the dead.
THEOREM BroadcastReaches == Spec => CastReachesAll
<1> DEFINE Reaches(c) ==
      LET b == casts[c] IN
        /\ b.to # 0 /\ casts'[c].index > b.index => casts'[c].to \notin b.tried
        /\ b.to # 0 /\ casts'[c].to = 0 /\ ~casts'[c].cut =>
             /\ Cardinality(ToSet(connections) \ b.tried) <= b.gone
             /\ b.dead \cap ToSet(connections') = {}
<1>1. ASSUME SInv, [Next]_vars, NEW c \in Casts PROVE Reaches(c)
  <2>L. Lists /\ casts[c] \in Walk /\ Walked(casts[c], connections) /\ Sent(casts[c])
    BY <1>1 DEF SInv, Walks, Lists
  <2>0. casts[c].index \in Nat
    BY <2>L DEF Walk
  <2>1. ASSUME casts'[c].to = casts[c].to, casts'[c].index = casts[c].index
        PROVE  Reaches(c)
    BY <2>0, <2>1
  <2>2. ASSUME NEW running, running[c] = casts[c], NEW out, casts' = Count(running, out)
        PROVE  Reaches(c)
    <3>1. casts'[c] = IF casts[c].to = 0 THEN casts[c]
                      ELSE [casts[c] EXCEPT !.gone = @ + Cardinality(out \cap ToSet(connections))]
      BY <2>2 DEF Count
    <3>2. casts'[c].to = casts[c].to /\ casts'[c].index = casts[c].index
      BY <2>L, <3>1 DEF Walk
    <3> QED
      BY <2>1, <3>2
  <2>3. ASSUME NEW s \in Sockets,
               \/ Accept(s) \/ Register(s) \/ Break(s) \/ OnOpen(s)
               \/ \E throws \in BOOLEAN : OnClose(s, throws)
        PROVE  Reaches(c)
    BY <2>1, <2>3 DEF Accept, Register, Break, OnOpen, OnClose, serverVars
  <2>4. ASSUME NEW s \in Sockets, Hangup(s) PROVE Reaches(c)
    BY <2>2, <2>4 DEF Hangup
  <2>5. ASSUME NEW d \in Casts, Broadcast(d) PROVE Reaches(c)
    <3>1. CASE d = c
      BY <2>5, <3>1 DEF Broadcast
    <3>2. CASE d # c
      BY <2>1, <2>5, <2>L, <3>2 DEF Broadcast, Lists
    <3> QED
      BY <3>1, <3>2
  <2>6. ASSUME NEW d \in Casts, NEW raises \in BOOLEAN, SendEnds(d, raises) PROVE Reaches(c)
    <3> DEFINE b == casts[d]
               i == NextIndex(d)
               dead == IF raises THEN b.dead \cup {b.to} ELSE b.dead
    <3>1. CASE i <= Len(connections)
      <4> DEFINE e == [b EXCEPT !.to = connections[i], !.index = i, !.dead = dead,
                                !.tried = @ \cup {connections[i]}]
      <4>1. casts' = [casts EXCEPT ![d] = e]
        BY <2>6, <3>1 DEF SendEnds
      <4>2. CASE d # c
        BY <2>1, <2>L, <4>1, <4>2 DEF Lists
      <4>3. CASE d = c
        <5>1. i \in 1..Len(connections) /\ i > casts[c].index
          BY <2>0, <2>L, <3>1, <4>3, IndexFacts DEF NextIndex
        <5>2. casts[c].to # 0 => connections[i] \notin casts[c].tried
          BY <2>L, <5>1 DEF Walked
        <5>3. connections[i] \in Sockets /\ connections[i] # 0
          BY <2>L, <5>1, IndexFacts DEF Sockets
        <5>4. casts'[c].to = connections[i]
          BY <2>L, <4>1, <4>3 DEF Lists, Walk
        <5> QED
          BY <5>2, <5>3, <5>4
      <4> QED
        BY <4>2, <4>3
    <3>2. CASE ~(i <= Len(connections))
      <4> DEFINE running == [casts EXCEPT ![d] = Idle]
      <4>1. casts' = Count(running, dead) /\ connections' = Without(connections, dead)
        BY <2>6, <3>2 DEF SendEnds, Keep
      <4>2. CASE d # c
        <5>1. running[c] = casts[c]
          BY <2>L, <4>2 DEF Lists
        <5> HIDE DEF running, dead
        <5> QED
          BY <2>2, <4>1, <5>1
      <4>3. CASE d = c
        <5>1. casts'[c].index = 0
          <6>1. running[c] = Idle
            BY <2>L, <4>3 DEF Lists
          <6> HIDE DEF running, dead
          <6> QED
            BY <4>1, <6>1 DEF Count, Idle
        <5>2. b.dead \subseteq dead
          OBVIOUS
        <5>3. b.dead \cap ToSet(connections') = {}
          <6> HIDE DEF dead
          <6>1. ToSet(connections') \subseteq ToSet(connections) \ dead
            BY <2>L, <4>1, ListRemoval DEF Lists
          <6> QED
            BY <5>2, <6>1
        <5>4. casts[c].to # 0 => Cardinality(ToSet(connections) \ casts[c].tried) <= casts[c].gone
          <6>1. i > Len(connections)
            BY <2>0, <2>L, <3>2, <4>3, IndexFacts DEF NextIndex
          <6> QED
            BY <1>1, <4>3, <6>1, WalkEnds
        <5> QED
          BY <2>0, <4>3, <5>1, <5>3, <5>4
      <4> QED
        BY <4>2, <4>3
    <3> QED
      BY <3>1, <3>2
  <2>8. ASSUME NEW d \in Casts, SendCancelled(d) PROVE Reaches(c)
    <3>1. casts' = [casts EXCEPT ![d] = [Idle EXCEPT !.cut = TRUE]]
      BY <2>8 DEF SendCancelled
    <3>2. CASE d = c
      <4>1. casts'[c] = [Idle EXCEPT !.cut = TRUE]
        BY <2>L, <3>1, <3>2 DEF Lists
      <4>2. casts'[c].cut /\ casts'[c].index = 0
        BY <4>1 DEF Idle
      <4> QED
        BY <2>0, <4>2
    <3>3. CASE d # c
      BY <2>1, <2>L, <3>1, <3>3 DEF Lists
    <3> QED
      BY <3>2, <3>3
  <2>7. CASE Connect \/ Reconnect \/ Disconnect \/ UNCHANGED vars
    BY <2>1, <2>7 DEF Connect, Reconnect, Disconnect, vars, serverVars
  <2> QED
    BY <1>1, <2>3, <2>4, <2>5, <2>6, <2>7, <2>8 DEF Next
<1>2. SInv /\ [Next]_vars => \A c \in Casts : Reaches(c)
  BY <1>1
<1>3. SInv /\ [Next]_vars => [\A c \in Casts : Reaches(c)]_vars
  BY <1>2
<1> QED
  BY InitInv, NextStep, InitSInv, NextSInv, <1>3, PTL DEF Spec, CastReachesAll
=============================================================================
