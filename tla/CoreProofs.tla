----------------------------- MODULE CoreProofs ------------------------------
(***************************************************************************)
(* Theorems about the two components of backend/core, EventBus and         *)
(* Scheduler, which share nothing: for any handlers, types and messages,   *)
(* and for any tasks, loops and calls.                                     *)
(***************************************************************************)
EXTENDS EventBus, Scheduler, FiniteSetTheorems, SequenceTheorems, TLAPS

Outcomes == {"running", "ok", "failed"}

ListInv ==
  /\ epoch \in 0..MaxEpoch
  /\ handlers \in [0..MaxEpoch -> [Types -> Seq(Handlers)]]
  /\ \A e \in 0..MaxEpoch, t \in Types : IsInjective(handlers[e][t])

CallTypes ==
  /\ status \in [Messages -> {"unpublished", "running", "returned", "raised"}]
  /\ readFrom \in [Messages -> 0..MaxEpoch]
  /\ targets \in [Messages -> Seq(Handlers)]
  /\ outcome \in [Messages -> Seq(Outcomes)]
  /\ \A m \in Messages : Len(outcome[m]) = Len(targets[m])

\* The list a publish holds still begins with the handlers it started.
StillListed(m) ==
  /\ Len(targets[m]) <= Len(LiveList(m))
  /\ \A i \in 1..Len(targets[m]) : LiveList(m)[i] = targets[m][i]

IInv ==
  /\ ListInv /\ CallTypes
  /\ OncePerMessage
  /\ \A m \in Messages : status[m] = "running" /\ m \notin shrunk => StillListed(m)

-----------------------------------------------------------------------------
(* Lists *)

LEMMA AppendKeepsDistinct ==
  ASSUME NEW s \in Seq(Handlers), NEW h \in Handlers, IsInjective(s), ~Contains(s, h)
  PROVE  Append(s, h) \in Seq(Handlers) /\ IsInjective(Append(s, h))
<1>1. /\ Append(s, h) \in Seq(Handlers) /\ Len(Append(s, h)) = Len(s) + 1
      /\ Append(s, h)[Len(s) + 1] = h
      /\ \A i \in 1..Len(s) : Append(s, h)[i] = s[i]
  OBVIOUS
<1>2. \A i \in 1..Len(s) : s[i] # h
  BY DEF Contains
<1>3. DOMAIN s = 1..Len(s) /\ DOMAIN Append(s, h) = 1..Len(s) + 1
  BY <1>1
<1> QED
  BY <1>1, <1>2, <1>3 DEF IsInjective

\* In a list without repetition remove takes out the one element there is.
LEMMA RemoveKeepsDistinct ==
  ASSUME NEW s \in Seq(Handlers), NEW h \in Handlers, IsInjective(s), Contains(s, h)
  PROVE  RemoveFirst(s, h) \in Seq(Handlers) /\ IsInjective(RemoveFirst(s, h))
<1>1. PICK k \in 1..Len(s) : s[k] = h
  BY DEF Contains
<1>2. {i \in 1..Len(s) : s[i] = h} = {k}
  BY <1>1 DEF IsInjective
<1>3. SelectInSeq(s, LAMBDA v : v = h) = k
  <2>1. Min({k}) = k
    BY DEF Min
  <2> QED
    BY <1>2, <2>1 DEF SelectInSeq
<1>4. RemoveFirst(s, h) = SubSeq(s, 1, k - 1) \o SubSeq(s, k + 1, Len(s))
  BY <1>1, <1>3 DEF RemoveFirst, RemoveAt
<1> DEFINE r == SubSeq(s, 1, k - 1) \o SubSeq(s, k + 1, Len(s))
<1>5. /\ r \in Seq(Handlers) /\ Len(r) = Len(s) - 1
      /\ \A i \in 1..Len(r) : r[i] = s[IF i < k THEN i ELSE i + 1]
  <2> DEFINE a == SubSeq(s, 1, k - 1)
             b == SubSeq(s, k + 1, Len(s))
  <2>1. Len(s) \in Nat /\ k \in 1..Len(s) /\ \A i \in 1..Len(s) : s[i] \in Handlers
    OBVIOUS
  <2>2. /\ a \in Seq(Handlers) /\ Len(a) = k - 1
        /\ \A i \in 1..k - 1 : a[i] = s[i]
    BY <2>1, SubSeqProperties
  <2>3. /\ b \in Seq(Handlers) /\ Len(b) = Len(s) - k
        /\ \A i \in 1..Len(s) - k : b[i] = s[k + i]
    <3>1. /\ b \in Seq(Handlers)
          /\ Len(b) = (IF k + 1 <= Len(s) THEN Len(s) - (k + 1) + 1 ELSE 0)
          /\ \A i \in 1..Len(s) - (k + 1) + 1 : b[i] = s[(k + 1) + i - 1]
      BY <2>1, SubSeqProperties
    <3> HIDE DEF b
    <3> QED
      BY <2>1, <3>1
  <2> HIDE DEF a, b
  <2>4. /\ a \o b \in Seq(Handlers) /\ Len(a \o b) = Len(a) + Len(b)
        /\ \A i \in 1..Len(a) + Len(b) : (a \o b)[i] = IF i <= Len(a) THEN a[i] ELSE b[i - Len(a)]
    BY <2>2, <2>3, ConcatProperties
  <2>5. r = a \o b
    BY DEF a, b
  <2> HIDE DEF r
  <2>6. Len(r) = Len(s) - 1 /\ Len(a) = k - 1 /\ Len(b) = Len(s) - k
    BY <2>1, <2>2, <2>3, <2>4, <2>5
  <2>7. ASSUME NEW i \in 1..Len(r)
        PROVE  r[i] = s[IF i < k THEN i ELSE i + 1]
    <3>1. i \in 1..Len(a) + Len(b) /\ k \in Nat /\ i \in Nat
      BY <2>1, <2>6
    <3>2. CASE i < k
      <4>1. i <= Len(a) /\ i \in 1..k - 1
        BY <2>6, <3>1, <3>2
      <4> QED
        BY <2>2, <2>4, <2>5, <3>1, <3>2, <4>1
    <3>3. CASE ~(i < k)
      <4>1. ~(i <= Len(a)) /\ i - Len(a) \in 1..Len(s) - k /\ k + (i - Len(a)) = i + 1
        BY <2>1, <2>6, <3>1, <3>3
      <4>2. r[i] = b[i - Len(a)]
        BY <2>4, <2>5, <3>1, <4>1
      <4>3. b[i - Len(a)] = s[k + (i - Len(a))]
        BY <2>3, <4>1
      <4> QED
        BY <3>3, <4>1, <4>2, <4>3
    <3> QED
      BY <3>2, <3>3
  <2> QED
    BY <2>4, <2>5, <2>6, <2>7
<1> HIDE DEF r
<1>6. IsInjective(r)
  <2>1. DOMAIN r = 1..Len(r) /\ Len(r) \in Nat /\ DOMAIN s = 1..Len(s) /\ Len(s) \in Nat
    BY <1>5
  <2>2. ASSUME NEW i \in 1..Len(r), NEW j \in 1..Len(r), r[i] = r[j]
        PROVE  i = j
    <3> DEFINE f(x) == IF x < k THEN x ELSE x + 1
    <3>1. s[f(i)] = s[f(j)] /\ f(i) \in DOMAIN s /\ f(j) \in DOMAIN s
      BY <1>1, <1>5, <2>1, <2>2
    <3>2. f(i) = f(j)
      BY <3>1 DEF IsInjective
    <3> QED
      BY <2>1, <3>2
  <2> QED
    BY <2>1, <2>2 DEF IsInjective
<1> QED
  BY <1>4, <1>5, <1>6 DEF r

-----------------------------------------------------------------------------
(* Calls *)

LEMMA InitInv == Init => IInv
<1> SUFFICES ASSUME Init
             PROVE  IInv
  OBVIOUS
<1>1. ListInv
  <2>1. \A e \in 0..MaxEpoch, t \in Types : handlers[e][t] = <<>>
    BY DEF Init
  <2>2. IsInjective(<<>>)
    BY DEF IsInjective
  <2> QED
    BY <2>1, <2>2, BusAssumption DEF Init, ListInv
<1>2. CallTypes
  BY BusAssumption DEF Init, CallTypes
<1>3. OncePerMessage
  BY DEF Init, OncePerMessage, IsInjective
<1> QED
  BY <1>1, <1>2, <1>3 DEF Init, IInv

\* Subscribe and unsubscribe: the calls under way whose list loses nothing keep its head.
LEMMA ListStep ==
  ASSUME IInv, NEW t \in Types, NEW h \in Handlers, Subscribe(t, h) \/ Unsubscribe(t, h)
  PROVE  IInv'
<1> DEFINE old == HandlersOf(t)
<1>1. old \in Seq(Handlers) /\ IsInjective(old) /\ epoch \in 0..MaxEpoch
  BY DEF IInv, ListInv, HandlersOf
<1>2. UNCHANGED <<epoch, publishVars>>
  BY DEF Subscribe, Unsubscribe
<1>3. CallTypes' /\ OncePerMessage'
  BY <1>2 DEF IInv, CallTypes, OncePerMessage, publishVars
<1>4. PICK new \in Seq(Handlers) :
        /\ IsInjective(new)
        /\ handlers' = [handlers EXCEPT ![epoch][t] = new]
        /\ Subscribe(t, h) => new = Append(old, h)
  <2>1. CASE Subscribe(t, h)
    BY <1>1, <2>1, AppendKeepsDistinct DEF Subscribe, HandlersOf
  <2>2. CASE ~Subscribe(t, h)
    BY <1>1, <2>2, RemoveKeepsDistinct DEF Unsubscribe, HandlersOf
  <2> QED
    BY <2>1, <2>2
<1>5. \A e \in 0..MaxEpoch, u \in Types :
        handlers'[e][u] = IF e = epoch /\ u = t THEN new ELSE handlers[e][u]
  BY <1>1, <1>4 DEF IInv, ListInv
<1>6. ListInv'
  <2>1. handlers' \in [0..MaxEpoch -> [Types -> Seq(Handlers)]]
    BY <1>4 DEF IInv, ListInv
  <2> QED
    BY <1>2, <1>4, <1>5, <2>1 DEF IInv, ListInv
<1>7. ASSUME NEW m \in Messages, status'[m] = "running", m \notin shrunk'
      PROVE  StillListed(m)'
  <2>1. /\ readFrom[m] \in 0..MaxEpoch /\ TypeOf[m] \in Types
        /\ readFrom'[m] = readFrom[m] /\ targets'[m] = targets[m] /\ status[m] = "running"
    BY <1>2, <1>7, BusAssumption DEF publishVars, IInv, CallTypes
  <2>2. StillListed(m)
    BY <1>7, <2>1 DEF Subscribe, Unsubscribe, IInv
  <2>3. CASE readFrom[m] = epoch /\ TypeOf[m] = t
    <3>1. Subscribe(t, h)
      BY <1>7, <2>1, <2>3 DEF Unsubscribe
    <3>2. LiveList(m) = old /\ LiveList(m)' = Append(old, h)
      BY <1>4, <1>5, <2>1, <2>3, <3>1 DEF LiveList, HandlersOf
    <3>3. /\ Len(Append(old, h)) = Len(old) + 1 /\ Len(old) \in Nat
          /\ \A i \in 1..Len(old) : Append(old, h)[i] = old[i]
      BY <1>1
    <3>4. Len(targets[m]) \in Nat /\ Len(targets[m]) <= Len(old)
      BY <2>2, <3>2 DEF StillListed, IInv, CallTypes
    <3> HIDE DEF old
    <3>5. \A i \in 1..Len(targets[m]) : Append(old, h)[i] = targets[m][i]
      BY <2>2, <3>2, <3>3, <3>4 DEF StillListed
    <3> QED
      BY <2>1, <3>2, <3>3, <3>4, <3>5 DEF StillListed
  <2>4. CASE ~(readFrom[m] = epoch /\ TypeOf[m] = t)
    BY <1>5, <2>1, <2>2, <2>4 DEF StillListed, LiveList
  <2> QED
    BY <2>3, <2>4
<1> QED
  BY <1>3, <1>6, <1>7 DEF IInv

LEMMA PublishStepInv ==
  ASSUME IInv, NEW m \in Messages, Publish(m)
  PROVE  IInv'
<1> DEFINE found == HandlersOf(TypeOf[m])
<1>1. found \in Seq(Handlers) /\ IsInjective(found) /\ epoch \in 0..MaxEpoch
  BY BusAssumption DEF IInv, ListInv, HandlersOf
<1>2. /\ UNCHANGED <<epoch, handlers, shrunk>>
      /\ status' = [status EXCEPT ![m] = IF found = <<>> THEN "returned" ELSE "running"]
      /\ readFrom' = [readFrom EXCEPT ![m] = IF found = <<>> THEN 0 ELSE epoch]
      /\ targets' = [targets EXCEPT ![m] = found]
      /\ outcome' = [outcome EXCEPT ![m] = [i \in 1..Len(found) |-> "running"]]
  BY DEF Publish, listVars
<1> HIDE DEF found
<1>3. ListInv'
  BY <1>2 DEF IInv, ListInv
<1>4. CallTypes'
  <2>1. /\ [i \in 1..Len(found) |-> "running"] \in Seq(Outcomes)
        /\ Len([i \in 1..Len(found) |-> "running"]) = Len(found)
    BY <1>1 DEF Outcomes
  <2>2. 0 \in 0..MaxEpoch
    BY BusAssumption
  <2> QED
    BY <1>1, <1>2, <2>1, <2>2 DEF IInv, CallTypes
<1>5. OncePerMessage'
  BY <1>1, <1>2 DEF IInv, CallTypes, OncePerMessage
<1>6. ASSUME NEW k \in Messages, status'[k] = "running", k \notin shrunk'
      PROVE  StillListed(k)'
  <2>1. CASE k = m
    <3>1. readFrom'[m] = epoch /\ targets'[m] = found
      BY <1>2, <1>6, <2>1 DEF IInv, CallTypes
    <3>2. LiveList(m)' = found
      BY <1>2, <3>1 DEF LiveList, found, HandlersOf
    <3> QED
      BY <1>1, <2>1, <3>1, <3>2 DEF StillListed
  <2>2. CASE k # m
    BY <1>2, <1>6, <2>2 DEF IInv, CallTypes, StillListed, LiveList
  <2> QED
    BY <2>1, <2>2
<1> QED
  BY <1>3, <1>4, <1>5, <1>6 DEF IInv

LEMMA NextStep == IInv /\ [Next]_vars => IInv'
<1> SUFFICES ASSUME IInv, [Next]_vars
             PROVE  IInv'
  OBVIOUS
<1>1. ASSUME UNCHANGED <<handlers, publishVars, shrunk>>, epoch' \in 0..MaxEpoch
      PROVE  IInv'
  BY <1>1 DEF IInv, ListInv, CallTypes, OncePerMessage, StillListed, LiveList, publishVars
<1>2. CASE ClearHistory \/ ClearAll
  <2>1. epoch' \in 0..MaxEpoch
    BY <1>2, BusAssumption DEF ClearHistory, ClearAll, listVars, IInv, ListInv
  <2> QED
    BY <1>1, <1>2, <2>1 DEF ClearHistory, ClearAll, listVars
<1>3. ASSUME NEW m \in Messages, NEW i \in DOMAIN targets[m], NEW how \in {"ok", "failed"},
             HandlerEnds(m, i, how)
      PROVE  IInv'
  <2>1. outcome' \in [Messages -> Seq(Outcomes)] /\ \A k \in Messages : Len(outcome'[k]) = Len(outcome[k])
    <3>1. /\ outcome[m] \in Seq(Outcomes) /\ Len(outcome[m]) = Len(targets[m])
          /\ DOMAIN targets[m] = 1..Len(targets[m])
      BY DEF IInv, CallTypes
    <3>2. how \in Outcomes /\ i \in 1..Len(outcome[m])
      BY <3>1 DEF Outcomes
    <3>3. /\ [outcome[m] EXCEPT ![i] = how] \in Seq(Outcomes)
          /\ Len([outcome[m] EXCEPT ![i] = how]) = Len(outcome[m])
      BY <3>1, <3>2, ExceptSeq
    <3>4. outcome' = [outcome EXCEPT ![m] = [outcome[m] EXCEPT ![i] = how]]
      BY <1>3 DEF HandlerEnds
    <3> QED
      BY <3>3, <3>4 DEF IInv, CallTypes
  <2>2. UNCHANGED <<epoch, handlers, status, readFrom, targets, shrunk>>
    BY <1>3 DEF HandlerEnds, listVars
  <2>3. CallTypes'
    BY <2>1, <2>2 DEF IInv, CallTypes
  <2> QED
    BY <2>2, <2>3 DEF IInv, ListInv, OncePerMessage, StillListed, LiveList
<1>4. ASSUME NEW m \in Messages, Resume(m)
      PROVE  IInv'
  <2>1. /\ UNCHANGED <<epoch, handlers>> /\ shrunk' = shrunk \ {m}
        /\ status' \in {[status EXCEPT ![m] = "returned"], [status EXCEPT ![m] = "raised"]}
        /\ readFrom' = [readFrom EXCEPT ![m] = 0]
        /\ targets' = [targets EXCEPT ![m] = <<>>]
        /\ outcome' = [outcome EXCEPT ![m] = <<>>]
    BY <1>4 DEF Resume, listVars
  <2>2. CallTypes'
    <3>1. 0 \in 0..MaxEpoch /\ <<>> \in Seq(Handlers) /\ <<>> \in Seq(Outcomes)
      BY BusAssumption
    <3> QED
      BY <2>1, <3>1 DEF IInv, CallTypes
  <2>3. OncePerMessage'
    <3>1. IsInjective(<<>>)
      BY DEF IsInjective
    <3> QED
      BY <2>1, <3>1 DEF IInv, CallTypes, OncePerMessage
  <2>4. ASSUME NEW k \in Messages, status'[k] = "running", k \notin shrunk'
        PROVE  StillListed(k)'
    <3>1. k # m /\ status[k] = "running" /\ k \notin shrunk
      BY <2>1, <2>4 DEF IInv, CallTypes
    <3> QED
      BY <2>1, <3>1 DEF IInv, CallTypes, StillListed, LiveList
  <2> QED
    BY <2>1, <2>2, <2>3, <2>4 DEF IInv, ListInv
<1>5. CASE UNCHANGED vars
  BY <1>1, <1>5 DEF vars, listVars, IInv, ListInv
<1> QED
  BY <1>2, <1>3, <1>4, <1>5, ListStep, PublishStepInv DEF Next, PublishStep

LEMMA Inductive == Spec => []IInv
BY InitInv, NextStep, PTL DEF Spec

-----------------------------------------------------------------------------
(* The end of a publish *)

\* With no handler twice in the list, tasks that succeeded count the handlers that
\* did not fail.
LEMMA CountIsOfHandlers ==
  ASSUME IInv, NEW m \in Messages, AllDone(m)
  PROVE  Notified(m) = Cardinality(ToSet(targets[m]) \ Failed(m))
<1> DEFINE ok == TasksWith(m, "ok")
           rest == ToSet(targets[m]) \ Failed(m)
           f == [i \in ok |-> targets[m][i]]
<1>1. /\ DOMAIN targets[m] = 1..Len(targets[m]) /\ Len(targets[m]) \in Nat
      /\ \A i \in DOMAIN targets[m] : outcome[m][i] \in Outcomes
      /\ IsInjective(targets[m])
  BY DEF IInv, CallTypes, OncePerMessage
<1>2. \A i \in DOMAIN targets[m] : i \in ok \/ i \in TasksWith(m, "failed")
  BY <1>1 DEF AllDone, TasksWith, Outcomes
<1>3. \A i \in DOMAIN targets[m] : ~(i \in ok /\ i \in TasksWith(m, "failed"))
  BY DEF TasksWith
<1>4. \A i \in DOMAIN targets[m] : targets[m][i] \in rest <=> i \in ok
  BY <1>1, <1>2, <1>3 DEF ToSet, Failed, TasksWith, IsInjective
<1>5. ok \subseteq DOMAIN targets[m]
  BY DEF TasksWith
<1>6. f \in Bijection(ok, rest)
  <2>1. f \in [ok -> rest]
    BY <1>4, <1>5
  <2>2. IsInjective(f)
    BY <1>1, <1>5 DEF IsInjective
  <2>3. \A h \in rest : \E i \in ok : f[i] = h
    BY <1>4 DEF ToSet
  <2> QED
    BY <2>1, <2>2, <2>3 DEF Bijection, Injection, Surjection
<1>7. IsFiniteSet(ok)
  <2>1. IsFiniteSet(1..Len(targets[m]))
    BY <1>1, FS_Interval
  <2> QED
    BY <1>1, <1>5, <2>1, FS_Subset
<1>8. ExistsBijection(ok, rest)
  BY <1>6 DEF ExistsBijection
<1> QED
  BY <1>7, <1>8, FS_Bijection DEF Notified

\* While its list lost no handler, the handlers a publish names are those that failed.
LEMMA NamesAreRight ==
  ASSUME IInv, NEW m \in Messages, StillListed(m)
  PROVE  PastTheEnd(m) = {} /\ Named(m) = Failed(m)
<1>1. /\ DOMAIN targets[m] = 1..Len(targets[m]) /\ Len(targets[m]) \in Nat
      /\ Len(LiveList(m)) \in Nat
  BY BusAssumption DEF IInv, CallTypes, ListInv, LiveList
<1>2. \A i \in TasksWith(m, "failed") : i \in 1..Len(targets[m])
  BY <1>1 DEF TasksWith
<1>3. PastTheEnd(m) = {}
  BY <1>1, <1>2 DEF PastTheEnd, StillListed
<1> QED
  BY <1>2, <1>3 DEF Named, Failed, StillListed

-----------------------------------------------------------------------------
(* The history *)

Kept(p) == IF Len(p) > MaxHistory THEN MaxHistory ELSE Len(p)
Newest(p) == SubSeq(p, Len(p) - Kept(p) + 1, Len(p))

RestInv ==
  /\ published \in Seq(Messages) /\ history = Newest(published)
  /\ result \in Int /\ logged \subseteq Handlers
  /\ shrunk \subseteq {m \in Messages : status[m] = "running"}

LEMMA NewestIs ==
  ASSUME NEW p \in Seq(Messages)
  PROVE  /\ Newest(p) \in Seq(Messages) /\ Len(Newest(p)) = Kept(p)
         /\ \A i \in 1..Kept(p) : Newest(p)[i] = p[Len(p) - Kept(p) + i]
<1>1. /\ Len(p) \in Nat /\ MaxHistory \in Nat \ {0} /\ \A i \in 1..Len(p) : p[i] \in Messages
  BY BusAssumption
<1>2. Kept(p) \in Nat /\ Kept(p) <= Len(p)
  BY <1>1 DEF Kept
<1> DEFINE from == Len(p) - Kept(p) + 1
<1>3. from \in Int /\ \A i \in from..Len(p) : p[i] \in Messages
  BY <1>1, <1>2
<1>4. /\ SubSeq(p, from, Len(p)) \in Seq(Messages)
      /\ Len(SubSeq(p, from, Len(p))) = (IF from <= Len(p) THEN Len(p) - from + 1 ELSE 0)
      /\ \A i \in 1..Len(p) - from + 1 : SubSeq(p, from, Len(p))[i] = p[from + i - 1]
  BY <1>1, <1>3, SubSeqProperties
<1>5. Newest(p) = SubSeq(p, from, Len(p))
  BY DEF Newest
<1> QED
  BY <1>1, <1>2, <1>4, <1>5

\* Appending to the history and trimming it appends to what was published.
LEMMA TrimKeepsNewest ==
  ASSUME NEW p \in Seq(Messages), NEW m \in Messages
  PROVE  Trim(Append(Newest(p), m)) = Newest(Append(p, m))
<1> DEFINE h == Newest(p)
           q == Append(p, m)
           g == Append(h, m)
<1>0. Kept(p) \in Nat /\ Len(p) \in Nat /\ MaxHistory \in Nat \ {0}
  BY BusAssumption DEF Kept
<1>k. PICK k \in Nat : k = Kept(p)
  BY <1>0
<1>n. PICK n \in Nat : n = Len(p)
  BY <1>0
<1>1. k <= n /\ k <= MaxHistory /\ (k < MaxHistory => k = n)
  BY <1>0, <1>k, <1>n DEF Kept
<1>2. /\ h \in Seq(Messages) /\ Len(h) = k
      /\ \A i \in 1..k : h[i] = p[n - k + i]
  BY <1>k, <1>n, NewestIs
<1>3. /\ q \in Seq(Messages) /\ Len(q) = n + 1 /\ q[n + 1] = m
      /\ \A i \in 1..n : q[i] = p[i]
  BY <1>n, AppendProperties
<1> HIDE DEF h
<1>4. /\ g \in Seq(Messages) /\ Len(g) = k + 1 /\ g[k + 1] = m
      /\ \A i \in 1..k : g[i] = h[i]
  BY <1>2, AppendProperties
<1>5. /\ Newest(q) \in Seq(Messages) /\ Len(Newest(q)) = Kept(q)
      /\ \A i \in 1..Kept(q) : Newest(q)[i] = q[Len(q) - Kept(q) + i]
  BY <1>3, NewestIs
<1>6. Kept(q) = (IF n + 1 > MaxHistory THEN MaxHistory ELSE n + 1)
  BY <1>3 DEF Kept
<1> HIDE DEF q, g
<1>7. \A i \in 1..k + 1 : g[i] = q[n - k + i]
  <2> SUFFICES ASSUME NEW i \in 1..k + 1
               PROVE  g[i] = q[n - k + i]
    OBVIOUS
  <2>1. CASE i = k + 1
    <3>1. n - k + i = n + 1
      BY <1>1, <2>1
    <3> QED
      BY <1>3, <1>4, <2>1, <3>1
  <2>2. CASE i \in 1..k
    <3>1. n - k + i \in 1..n
      BY <1>1, <2>2
    <3> QED
      BY <1>2, <1>3, <1>4, <2>2, <3>1
  <2> QED
    BY <1>1, <2>1, <2>2
<1>8. CASE k + 1 <= MaxHistory
  <2>1. Trim(g) = g /\ Kept(q) = k + 1 /\ Len(q) - Kept(q) = n - k
    BY <1>0, <1>1, <1>3, <1>4, <1>6, <1>8 DEF Trim
  <2>2. \A i \in 1..Len(g) : g[i] = Newest(q)[i]
    BY <1>4, <1>5, <1>7, <2>1
  <2> QED
    BY <1>4, <1>5, <2>1, <2>2, SeqEqual DEF g, q, h
<1>9. CASE k = MaxHistory
  <2>1. Trim(g) = SubSeq(g, 2, k + 1)
    BY <1>0, <1>1, <1>4, <1>9 DEF Trim
  <2>2. Kept(q) = k /\ Len(q) - Kept(q) = n - k + 1
    BY <1>0, <1>1, <1>3, <1>6, <1>9
  <2>3. \A i \in 2..k + 1 : g[i] \in Messages
    BY <1>1, <1>4
  <2>4. /\ SubSeq(g, 2, k + 1) \in Seq(Messages)
        /\ Len(SubSeq(g, 2, k + 1)) = (IF 2 <= k + 1 THEN (k + 1) - 2 + 1 ELSE 0)
        /\ \A i \in 1..(k + 1) - 2 + 1 : SubSeq(g, 2, k + 1)[i] = g[2 + i - 1]
    BY <1>1, <2>3, SubSeqProperties
  <2>5. ASSUME NEW i \in 1..k
        PROVE  SubSeq(g, 2, k + 1)[i] = Newest(q)[i]
    <3>1. /\ i \in 1..(k + 1) - 2 + 1 /\ 2 + i - 1 \in 1..k + 1
          /\ n - k + (2 + i - 1) = Len(q) - Kept(q) + i
      BY <1>1, <2>2
    <3>2. SubSeq(g, 2, k + 1)[i] = q[n - k + (2 + i - 1)]
      BY <1>7, <2>4, <3>1
    <3> QED
      BY <1>5, <2>2, <3>1, <3>2
  <2>6. Len(SubSeq(g, 2, k + 1)) = k
    BY <1>1, <1>9, <2>4
  <2>7. SubSeq(g, 2, k + 1) = Newest(q)
    BY <1>5, <2>2, <2>4, <2>5, <2>6, SeqEqual
  <2> QED
    BY <2>1, <2>7 DEF g, q, h
<1> QED
  BY <1>0, <1>1, <1>8, <1>9

LEMMA RestStep == IInv /\ RestInv /\ [Next]_vars => RestInv'
<1> SUFFICES ASSUME IInv, RestInv, [Next]_vars
             PROVE  RestInv'
  OBVIOUS
<1>1. Newest(<<>>) = <<>>
  BY BusAssumption DEF Newest, Kept
<1>2. ASSUME NEW t \in Types, NEW h \in Handlers, Subscribe(t, h) \/ Unsubscribe(t, h)
      PROVE  RestInv'
  BY <1>2 DEF Subscribe, Unsubscribe, publishVars, RestInv
<1>3. ASSUME NEW m \in Messages, Publish(m)
      PROVE  RestInv'
  <2>1. history' = Newest(published') /\ published' \in Seq(Messages)
    BY <1>3, TrimKeepsNewest DEF Publish, Record, RestInv
  <2>2. \A k \in Messages : status[k] = "running" => status'[k] = "running"
    BY <1>3 DEF Publish, IInv, CallTypes
  <2>3. result' \in Int /\ logged' \subseteq Handlers
    BY <1>3 DEF Publish, RestInv
  <2> QED
    BY <1>3, <2>1, <2>2, <2>3 DEF Publish, RestInv
<1>4. ASSUME NEW m \in Messages, NEW i, NEW how, HandlerEnds(m, i, how)
      PROVE  RestInv'
  BY <1>4 DEF HandlerEnds, RestInv
<1>5. ASSUME NEW m \in Messages, Resume(m)
      PROVE  RestInv'
  <2>1. /\ DOMAIN targets[m] = 1..Len(targets[m]) /\ Len(targets[m]) \in Nat
        /\ LiveList(m) \in Seq(Handlers)
    BY BusAssumption DEF IInv, CallTypes, ListInv, LiveList
  <2>2. logged' \subseteq Handlers
    <3>1. \A i \in TasksWith(m, "failed") \ PastTheEnd(m) : i \in 1..Len(LiveList(m))
      BY <2>1 DEF TasksWith, PastTheEnd
    <3> QED
      BY <1>5, <2>1, <3>1 DEF Resume, Named
  <2>3. Notified(m) \in Nat
    <3>1. IsFiniteSet(1..Len(targets[m]))
      BY <2>1, FS_Interval
    <3>2. IsFiniteSet(TasksWith(m, "ok"))
      BY <2>1, <3>1, FS_Subset DEF TasksWith
    <3> QED
      BY <3>2, FS_CardinalityType DEF Notified
  <2>4. shrunk' \subseteq {k \in Messages : status'[k] = "running"}
    BY <1>5 DEF Resume, RestInv, IInv, CallTypes
  <2> QED
    BY <1>5, <2>2, <2>3, <2>4 DEF Resume, RestInv
<1>6. CASE ClearHistory \/ ClearAll
  <2>1. history' = <<>> /\ published' = <<>> /\ UNCHANGED <<publishVars, shrunk>>
    BY <1>6 DEF ClearHistory, ClearAll
  <2>2. published' \in Seq(Messages) /\ history' = Newest(published')
    BY <1>1, <2>1
  <2> QED
    BY <2>1, <2>2 DEF publishVars, RestInv
<1>7. CASE UNCHANGED vars
  BY <1>7 DEF vars, publishVars, RestInv
<1> QED
  BY <1>2, <1>3, <1>4, <1>5, <1>6, <1>7 DEF Next, PublishStep

-----------------------------------------------------------------------------
(* Theorems *)

\* Types of every variable; and the history is the newest messages, in order, as many
\* as it may hold (event_bus.py:79-84).
THEOREM TypeCorrect == Spec => []TypeOK
<1>1. Init => RestInv
  BY BusAssumption DEF Init, RestInv, Newest, Kept
<1>2. IInv /\ RestInv => TypeOK
  BY DEF IInv, ListInv, CallTypes, RestInv, TypeOK, Outcomes, Newest, Kept
<1> QED
  BY Inductive, RestStep, <1>1, <1>2, PTL DEF Spec

\* No handler is called twice for a message, whatever order calls of subscribe,
\* unsubscribe and publish come in (event_bus.py:44-100).
THEOREM OneCallPerHandler == Spec => []OncePerMessage
BY Inductive, PTL DEF IInv

\* A publish whose list lost no handler meanwhile returns and names the handlers that
\* failed; every count is of the handlers that did not (event_bus.py:86-115).
THEOREM HonestReport == Spec => OnlyRemovalsMislead
<1> DEFINE Report == \A m \in Messages : status[m] = "running" =>
         /\ Ended(m)' /\ m \notin shrunk => status'[m] = "returned" /\ logged' = Failed(m)
         /\ status'[m] = "returned" => result' = Cardinality(ToSet(targets[m]) \ Failed(m))
<1>1. IInv /\ [Next]_vars => [Report]_vars
  <2> SUFFICES ASSUME IInv, Next, NEW m \in Messages, status[m] = "running", status'[m] # "running"
               PROVE  /\ m \notin shrunk => status'[m] = "returned" /\ logged' = Failed(m)
                      /\ status'[m] = "returned" => result' = Cardinality(ToSet(targets[m]) \ Failed(m))
    BY DEF Ended
  <2>1. Resume(m)
    <3>1. ASSUME NEW k \in Messages, Publish(k)
          PROVE  status'[m] = status[m]
      BY <3>1 DEF Publish, IInv, CallTypes
    <3>2. ASSUME NEW k \in Messages, Resume(k), k # m
          PROVE  status'[m] = status[m]
      BY <3>2 DEF Resume, IInv, CallTypes
    <3>3. ASSUME NEW k \in Messages, NEW i, NEW how, HandlerEnds(k, i, how)
          PROVE  status'[m] = status[m]
      BY <3>3 DEF HandlerEnds
    <3>4. CASE \E t \in Types, h \in Handlers : Subscribe(t, h) \/ Unsubscribe(t, h)
      BY <3>4 DEF Subscribe, Unsubscribe, publishVars
    <3>5. CASE ClearHistory \/ ClearAll
      BY <3>5 DEF ClearHistory, ClearAll, publishVars
    <3> QED
      BY <3>1, <3>2, <3>3, <3>4, <3>5 DEF Next, PublishStep
  <2>2. m \notin shrunk => PastTheEnd(m) = {} /\ Named(m) = Failed(m)
    BY NamesAreRight DEF IInv
  <2>3. Notified(m) = Cardinality(ToSet(targets[m]) \ Failed(m))
    BY <2>1, CountIsOfHandlers DEF Resume
  <2>4. /\ logged' = Named(m)
        /\ PastTheEnd(m) = {} => status'[m] = "returned" /\ result' = Notified(m)
        /\ PastTheEnd(m) # {} => status'[m] = "raised"
    BY <2>1 DEF Resume, IInv, CallTypes
  <2> QED
    BY <2>2, <2>3, <2>4
<1> QED
  BY Inductive, <1>1, PTL DEF Spec, OnlyRemovalsMislead

-----------------------------------------------------------------------------
(* The scheduler.  A dict holds a name once; a record has no loop before it is
   created. *)

CursorType == cursor = [s \in Stops |-> cursor[s]]
Unstarted  == \A r \in Records : r > records => task[r] = 0
KeysDiffer == \A i, j \in Used : nameOf[entries[i]] = nameOf[entries[j]] => i = j
SlotsMade  == Len(entries) <= records

SchedulerTypes == SchedulerTypeOK /\ CursorType /\ Unstarted /\ KeysDiffer /\ SlotsMade

\* A loop that goes on is the one its record in the dict knows.
Handled(l) == /\ owner[l] \in {entries[i] : i \in Used}
              /\ task[owner[l]] = l

\* None goes on once a stop has returned, until the next start.
Stopped == ~running /\ \A s \in Stops : stopping[s] \notin {"waiting", "raised"}

\* What stop has walked past is not alive; the loop it waits for is the one of
\* the record it stands at, unless that has gone or has been replaced.
Behind(i)  == \A j \in Used : j <= i => ~Alive(task[entries[j]])
Awaited(s) == \A j \in Used :
  /\ j < cursor[s].slot => ~Alive(task[entries[j]])
  /\ j = cursor[s].slot => task[entries[j]] = cursor[s].loop \/ ~Alive(task[entries[j]])

LoopInv == ~misused =>
  /\ \A l \in Loops : Running(l) => Handled(l)
  /\ Stopped => \A l \in Loops : ~Running(l)
  /\ \A s \in Stops : stopping[s] = "waiting" => Awaited(s)

SchedulerInv == SchedulerTypes /\ LoopInv

LEMMA SchedulerStarts == SchedulerInit => SchedulerInv
<1> SUFFICES ASSUME SchedulerInit PROVE SchedulerInv
  OBVIOUS
<1>1. Used = {}
  BY DEF SchedulerInit, Used
<1>2. SchedulerTypes
  <2>1. 1 \in Names
    BY SchedulerAssumption DEF Names
  <2>2. entries \in Seq(0..records) /\ Len(entries) = 0
    BY DEF SchedulerInit
  <2>3. 0 \in 0..MaxRecords /\ 0 \in 0..MaxLoops /\ \A r \in Records : ~(r <= 0)
    BY SchedulerAssumption DEF Records
  <2>4. SchedulerTypeOK
    <3>1. {running, misused} \subseteq BOOLEAN
      BY DEF SchedulerInit
    <3>2. /\ entries \in Seq(0..records) /\ Len(entries) <= MaxRecords
          /\ records \in 0..MaxRecords /\ loops \in 0..MaxLoops
      BY <2>2, <2>3, SchedulerAssumption DEF SchedulerInit
    <3>3. /\ nameOf \in [Records -> Names] /\ enabled \in [Records -> BOOLEAN]
          /\ task \in [Records -> 0..loops]
      BY <2>1 DEF SchedulerInit
    <3>4. /\ owner \in [Loops -> 0..records] /\ cancelled \in [Loops -> BOOLEAN]
          /\ at \in [Loops -> {"none", "new", "sleep", "callback", "done", "quit"}]
          /\ \A l \in Loops : (at[l] # "none" <=> l <= loops) /\ (owner[l] # 0 <=> l <= loops)
      BY DEF SchedulerInit, Loops
    <3>5. stopping \in [Stops -> {"none", "waiting", "returned", "raised"}]
      BY DEF SchedulerInit
    <3>6. \A s \in Stops : /\ cursor[s].slot \in Nat
                           /\ stopping[s] = "waiting" => cursor[s].loop \in 1..loops
      BY <2>2 DEF SchedulerInit, Idle
    <3> QED
      BY <3>1, <3>2, <3>3, <3>4, <3>5, <3>6 DEF SchedulerTypeOK
  <2>5. CursorType
    BY DEF SchedulerInit, CursorType
  <2>6. Unstarted /\ KeysDiffer /\ SlotsMade
    BY <1>1, <2>2 DEF SchedulerInit, Unstarted, KeysDiffer, SlotsMade
  <2> QED
    BY <2>4, <2>5, <2>6 DEF SchedulerTypes
<1>3. LoopInv
  BY DEF SchedulerInit, LoopInv, Running, Alive
<1> QED
  BY <1>2, <1>3 DEF SchedulerInv

LEMMA UsedEntries ==
  ASSUME SchedulerTypes
  PROVE  \A i \in Used : /\ i \in 1..Len(entries) /\ Len(entries) \in Nat
                         /\ entries[i] \in 1..records /\ entries[i] \in Records
<1>1. entries \in Seq(0..records) /\ records \in 0..MaxRecords /\ MaxRecords \in Nat
  BY SchedulerAssumption DEF SchedulerTypes, SchedulerTypeOK
<1>2. DOMAIN entries = 1..Len(entries) /\ Len(entries) \in Nat
  BY <1>1
<1>3. \A i \in 1..Len(entries) : entries[i] \in 0..records
  BY <1>1
<1> QED
  BY <1>1, <1>2, <1>3 DEF Used, Records

LEMMA KnownSlot ==
  ASSUME SchedulerTypes, NEW n, Known(n)
  PROVE  /\ SlotOf(n) \in Used /\ nameOf[RecordOf(n)] = n
         /\ RecordOf(n) = entries[SlotOf(n)] /\ RecordOf(n) \in Records
<1>1. SlotOf(n) \in SlotsOf(n)
  BY DEF Known, SlotOf
<1>2. SlotOf(n) \in Used /\ nameOf[entries[SlotOf(n)]] = n
  BY <1>1 DEF SlotsOf, Used
<1> QED
  BY <1>2, UsedEntries DEF RecordOf

\* Numbered in their order, the members of a finite set of numbers take up all
\* the numbers from 1 to how many they are.
LEMMA Ranks ==
  ASSUME NEW S \in SUBSET Nat, IsFiniteSet(S)
  PROVE  LET rank(i) == Cardinality({j \in S : j <= i})
         IN  /\ Cardinality(S) \in Nat
             /\ \A i \in S : rank(i) \in 1..Cardinality(S)
             /\ \A i, j \in S : rank(i) = rank(j) => i = j
             /\ \A k \in 1..Cardinality(S) : \E i \in S : rank(i) = k
<1> DEFINE upto(i) == {j \in S : j <= i}
           rank(i) == Cardinality(upto(i))
           n == Cardinality(S)
<1>1. \A i \in S : IsFiniteSet(upto(i)) /\ rank(i) \in Nat /\ rank(i) <= n /\ i \in upto(i)
  <2> TAKE i \in S
  <2>1. upto(i) \in SUBSET S /\ i \in upto(i)
    OBVIOUS
  <2>2. IsFiniteSet(upto(i)) /\ rank(i) <= n
    BY <2>1, FS_Subset
  <2> QED
    BY <2>1, <2>2, FS_CardinalityType
<1>2. n \in Nat
  BY FS_CardinalityType
<1>3. \A i, j \in S : i < j => rank(i) < rank(j)
  <2> TAKE i, j \in S
  <2> HAVE i < j
  <2>1. upto(i) \in SUBSET upto(j) /\ j \in upto(j) /\ j \notin upto(i)
    <3>1. i \in Nat /\ j \in Nat /\ \A x \in S : x \in Nat
      OBVIOUS
    <3>2. \A x \in S : x <= i => x <= j
      BY <3>1
    <3>3. ~(j <= i) /\ j <= j
      BY <3>1
    <3> QED
      BY <3>2, <3>3
  <2>2. IsFiniteSet(upto(j)) /\ rank(i) \in Nat /\ rank(j) \in Nat
    BY <1>1
  <2>3. rank(i) <= rank(j) /\ (rank(i) = rank(j) => upto(i) = upto(j))
    BY <2>1, <2>2, FS_Subset
  <2> HIDE DEF rank, upto
  <2>4. rank(i) # rank(j)
    BY <2>1, <2>3
  <2> QED
    BY <2>2, <2>3, <2>4
<1>4. \A i \in S : rank(i) \in 1..n
  <2> TAKE i \in S
  <2>1. rank(i) # 0
    BY <1>1, FS_EmptySet
  <2>2. rank(i) \in Nat /\ rank(i) <= n
    BY <1>1
  <2> HIDE DEF rank, n
  <2> QED
    BY <1>2, <2>1, <2>2
<1> HIDE DEF rank, upto, n
<1>5. \A i, j \in S : rank(i) = rank(j) => i = j
  <2>1. \A i, j \in S : i < j \/ j < i \/ i = j
    OBVIOUS
  <2> QED
    BY <1>1, <1>3, <2>1
<1>6. ASSUME NEW k \in 1..n PROVE \E i \in S : rank(i) = k
  <2> DEFINE f == [i \in S |-> rank(i)]
  <2>1. f \in Injection(S, 1..n)
    <3>1. f \in [S -> 1..n]
      BY <1>4
    <3>2. IsInjective(f)
      BY <1>5 DEF IsInjective
    <3> QED
      BY <3>1, <3>2 DEF Injection
  <2>2. IsFiniteSet(1..n) /\ Cardinality(1..n) = n
    BY <1>2, FS_Interval
  <2>3. f \in Surjection(S, 1..n)
    BY <2>1, <2>2, FS_Injection DEF n
  <2> QED
    BY <2>3 DEF Surjection
<1> QED
  BY <1>2, <1>4, <1>5, <1>6 DEF rank, upto, n

\* A function on 1..n is a sequence of length n, and a sequence is such a function.
LEMMA FunctionIsSeq ==
  ASSUME NEW S, NEW n \in Nat, NEW f \in [1..n -> S]
  PROVE  f \in Seq(S) /\ Len(f) = n
OBVIOUS

LEMMA SeqIsFunction ==
  ASSUME NEW S, NEW f \in Seq(S)
  PROVE  Len(f) \in Nat /\ \A p \in 1..Len(f) : f[p] \in S
OBVIOUS

\* A compacted dict has the same records, and no deleted slot.
CompactedRight ==
  /\ Compacted \in Seq(0..records) /\ Len(Compacted) <= Len(entries)
  /\ \A p \in 1..Len(Compacted) : \E i \in Used : Place(i) = p /\ Compacted[p] = entries[i]
  /\ \A i \in Used : Place(i) \in 1..Len(Compacted) /\ Compacted[Place(i)] = entries[i]

LEMMA CompactedIsRight ==
  ASSUME SchedulerTypes
  PROVE  CompactedRight
<1> DEFINE n == Cardinality(Used)
           slot(p) == CHOOSE i \in Used : Place(i) = p
<1>1. /\ Used \in SUBSET Nat /\ Used \subseteq 1..Len(entries) /\ Len(entries) \in Nat
      /\ \A i \in Used : entries[i] \in 1..records
      /\ records \in Nat
  BY UsedEntries DEF SchedulerTypes, SchedulerTypeOK, Used
<1>2. IsFiniteSet(Used) /\ n <= Len(entries)
  <2>1. IsFiniteSet(1..Len(entries)) /\ Cardinality(1..Len(entries)) = Len(entries)
    BY <1>1, FS_Interval
  <2>2. IsFiniteSet(Used) /\ n <= Cardinality(1..Len(entries))
    BY <1>1, <2>1, FS_Subset
  <2> QED
    BY <2>1, <2>2
<1>3. /\ n \in Nat
      /\ \A i \in Used : Place(i) \in 1..n
      /\ \A i, j \in Used : Place(i) = Place(j) => i = j
      /\ \A p \in 1..n : \E i \in Used : Place(i) = p
  BY <1>1, <1>2, Ranks DEF Place
<1>4. Compacted = [p \in 1..n |-> entries[slot(p)]]
  BY DEF Compacted
<1>5. \A p \in 1..n : slot(p) \in Used /\ Place(slot(p)) = p
  BY <1>3
<1> HIDE DEF slot, n
<1>6. ASSUME NEW p \in 1..n
      PROVE  Compacted[p] = entries[slot(p)] /\ Compacted[p] \in 0..records
  <2>1. Compacted[p] = entries[slot(p)]
    BY <1>4
  <2>2. entries[slot(p)] \in 1..records
    BY <1>1, <1>5
  <2>3. 1..records \subseteq 0..records
    BY <1>1
  <2> QED
    BY <2>1, <2>2, <2>3, Zenon
<1>7. Compacted \in Seq(0..records) /\ Len(Compacted) = n
  <2>1. Compacted \in [1..n -> 0..records]
    BY <1>4, <1>6, Zenon
  <2> DEFINE C == Compacted
  <2>2. C \in [1..n -> 0..records]
    BY <2>1
  <2> HIDE DEF C
  <2>3. C \in Seq(0..records) /\ Len(C) = n
    BY <1>3, <2>2, FunctionIsSeq, Zenon
  <2> QED
    BY <2>3 DEF C
<1>8. \A i \in Used : slot(Place(i)) = i
  BY <1>3, <1>5
<1> QED
  BY <1>2, <1>3, <1>5, <1>6, <1>7, <1>8 DEF CompactedRight

\* What add does to the dict: one slot, the one of its name if that is known,
\* holds the new record.
Placed(n, k) ==
  /\ entries' \in Seq(0..records') /\ SlotsMade'
  /\ Used' = Used \cup {k} /\ entries'[k] = records'
  /\ \A i \in Used \ {k} : entries'[i] = entries[i]
  /\ k \in Used => Known(n) /\ entries[k] = RecordOf(n) /\ nameOf[RecordOf(n)] = n
  /\ k \notin Used => ~Known(n)
  /\ Len(entries) <= Len(entries')

LEMMA AddPlaces ==
  ASSUME SchedulerTypes, NEW n \in Names, NEW on \in BOOLEAN, Add(n, on, FALSE)
  PROVE  \E k : Placed(n, k)
<1>T. entries \in Seq(0..records) /\ records \in Nat /\ Len(entries) \in Nat /\ Len(entries) <= records
  BY DEF SchedulerTypes, SchedulerTypeOK, SlotsMade
<1>1. records' = records + 1 /\ records < MaxRecords /\ records' \in Records
  BY <1>T, SchedulerAssumption DEF Add, Records
<1>2. CASE Known(n)
  <2> DEFINE k == SlotOf(n)
  <2>1. k \in Used /\ k \in 1..Len(entries) /\ nameOf[RecordOf(n)] = n /\ RecordOf(n) = entries[k]
    BY <1>2, KnownSlot, UsedEntries
  <2>2. entries' = [entries EXCEPT ![k] = records']
    BY <1>1, <1>2 DEF Add
  <2> HIDE DEF k
  <2>3. /\ entries' \in Seq(0..records') /\ Len(entries') = Len(entries)
        /\ entries'[k] = records' /\ \A i \in 1..Len(entries) \ {k} : entries'[i] = entries[i]
    BY <1>T, <1>1, <2>1, <2>2
  <2>4. records' # 0
    BY <1>T, <1>1
  <2>5. DOMAIN entries = 1..Len(entries) /\ DOMAIN entries' = 1..Len(entries)
    BY <1>T, <2>2
  <2>6. Used' = Used \cup {k} /\ \A i \in Used \ {k} : entries'[i] = entries[i]
    BY <2>1, <2>3, <2>4, <2>5 DEF Used
  <2>7. SlotsMade' /\ Len(entries) <= Len(entries')
    BY <1>T, <1>1, <2>3 DEF SlotsMade
  <2>8. Placed(n, k)
    BY <1>2, <2>1, <2>3, <2>6, <2>7 DEF Placed
  <2> QED
    BY <2>8
<1>3. CASE ~Known(n)
  <2> DEFINE k == Len(entries) + 1
  <2>2. entries' = Append(entries, records')
    BY <1>1, <1>3 DEF Add
  <2>3. /\ entries' \in Seq(0..records') /\ Len(entries') = k
        /\ entries'[k] = records' /\ \A i \in 1..Len(entries) : entries'[i] = entries[i]
    BY <1>T, <1>1, <2>2
  <2>4. records' # 0
    BY <1>T, <1>1
  <2>5. DOMAIN entries = 1..Len(entries) /\ DOMAIN entries' = 1..k
    BY <1>T, <2>3
  <2>6. Used' = Used \cup {k} /\ k \notin Used /\ \A i \in Used \ {k} : entries'[i] = entries[i]
    BY <1>T, <2>3, <2>4, <2>5 DEF Used
  <2>7. SlotsMade' /\ Len(entries) <= Len(entries')
    BY <1>T, <1>1, <2>3 DEF SlotsMade
  <2>8. Placed(n, k)
    BY <1>3, <2>3, <2>6, <2>7 DEF Placed
  <2> QED
    BY <2>8
<1> QED
  BY <1>2, <1>3

\* Compacted or not, the dict holds the new record under its name and nothing else,
\* and the records of the other names as before.
NowHolds(n) ==
  /\ entries' \in Seq(0..records') /\ SlotsMade'
  /\ \A i \in Used' : \/ entries'[i] = records'
                      \/ \E j \in Used : entries'[i] = entries[j] /\ nameOf[entries[j]] # n
  /\ \A i, j \in Used' : entries'[i] = entries'[j] => i = j
  /\ \A j \in Used : nameOf[entries[j]] # n => \E i \in Used' : entries'[i] = entries[j]

LEMMA AddHolds ==
  ASSUME SchedulerTypes, NEW n \in Names, NEW on \in BOOLEAN, NEW compact \in BOOLEAN,
         Add(n, on, compact)
  PROVE  records' = records + 1 /\ records' \in Records /\ NowHolds(n)
<1>T. /\ entries \in Seq(0..records) /\ records \in Nat /\ Len(entries) \in Nat
      /\ Len(entries) <= records
      /\ \A i \in Used : entries[i] # records + 1
      /\ \A i, j \in Used : nameOf[entries[i]] = nameOf[entries[j]] => i = j
  <2>1. \A i \in Used : entries[i] \in 1..records
    BY UsedEntries
  <2> QED
    BY <2>1 DEF SchedulerTypes, SchedulerTypeOK, SlotsMade, KeysDiffer
<1>1. records' = records + 1 /\ records < MaxRecords /\ records' \in Records
  BY <1>T, SchedulerAssumption DEF Add, Records
<1>2. CASE ~compact
  <2>1. Add(n, on, FALSE)
    BY <1>2
  <2>2. PICK k : Placed(n, k)
    BY <2>1, AddPlaces
  <2>3. \A i \in Used \ {k} : nameOf[entries[i]] # n
    <3>1. CASE k \in Used
      BY <1>T, <2>2, <3>1 DEF Placed
    <3>2. CASE k \notin Used
      <4>1. SlotsOf(n) = {}
        BY <2>2, <3>2 DEF Placed, Known
      <4> QED
        BY <4>1 DEF SlotsOf, Used
    <3> QED
      BY <3>1, <3>2
  <2>4. \A i \in Used' : i = k \/ (i \in Used \ {k} /\ entries'[i] = entries[i])
    BY <2>2 DEF Placed
  <2>5. k \in Used' /\ entries'[k] = records' /\ Used \subseteq Used'
    BY <2>2 DEF Placed
  <2>6. \A i, j \in Used' : entries'[i] = entries'[j] => i = j
    BY <1>1, <1>T, <2>4, <2>5
  <2>7. \A j \in Used : nameOf[entries[j]] # n => j # k
    BY <2>2 DEF Placed
  <2>8. entries' \in Seq(0..records') /\ SlotsMade'
    BY <2>2 DEF Placed
  <2>9. \A i \in Used' : \/ entries'[i] = records'
                         \/ \E j \in Used : entries'[i] = entries[j] /\ nameOf[entries[j]] # n
    BY <2>3, <2>4, <2>5
  <2>10. \A j \in Used : nameOf[entries[j]] # n => \E i \in Used' : entries'[i] = entries[j]
    BY <2>4, <2>5, <2>7
  <2> QED
    BY <1>1, <2>6, <2>8, <2>9, <2>10 DEF NowHolds
<1>3. CASE compact
  <2> DEFINE C == Compacted
             k == Len(C) + 1
  <2>1. ~Known(n) /\ entries' = Append(C, records')
    BY <1>1, <1>3 DEF Add, Compacts
  <2>2. CompactedRight
    BY CompactedIsRight
  <2>3. /\ C \in Seq(0..records) /\ Len(C) <= Len(entries) /\ Len(C) \in Nat
        /\ \A p \in 1..Len(C) : C[p] \in 0..records /\ C[p] # 0
    <3>1. \A i \in Used : entries[i] # 0
      BY DEF Used
    <3>2. /\ C \in Seq(0..records) /\ Len(C) <= Len(entries)
          /\ \A p \in 1..Len(C) : \E i \in Used : C[p] = entries[i]
      BY <2>2 DEF CompactedRight
    <3> HIDE DEF C, k
    <3>3. ASSUME NEW p \in 1..Len(C) PROVE C[p] # 0
      <4>1. PICK i \in Used : C[p] = entries[i]
        BY <3>2
      <4>2. entries[i] # 0
        BY <3>1
      <4> QED
        BY <4>1, <4>2, Zenon
    <3>4. Len(C) \in Nat /\ \A p \in 1..Len(C) : C[p] \in 0..records
      BY <3>2, SeqIsFunction, Zenon
    <3> QED
      BY <3>2, <3>3, <3>4
  <2> HIDE DEF C
  <2>4. /\ entries' \in Seq(0..records') /\ Len(entries') = k
        /\ entries'[k] = records' /\ \A p \in 1..Len(C) : entries'[p] = C[p]
    BY <1>1, <1>T, <2>1, <2>3
  <2>5. Used' = 1..k
    <3>1. DOMAIN entries' = 1..k /\ \A p \in 1..k : p = k \/ p \in 1..Len(C)
      BY <2>3, <2>4
    <3>2. \A p \in 1..k : entries'[p] # 0
      BY <1>1, <1>T, <2>3, <2>4, <3>1
    <3> QED
      BY <3>1, <3>2 DEF Used
  <2>6. \A p \in Used' : p = k \/ (p \in 1..Len(C) /\ entries'[p] = C[p])
    BY <2>3, <2>4, <2>5
  <2>7. \A j \in Used : nameOf[entries[j]] # n
    <3>1. SlotsOf(n) = {}
      BY <2>1 DEF Known
    <3> QED
      BY <3>1 DEF SlotsOf, Used
  <2>8. \A p \in 1..Len(C) : \E i \in Used : Place(i) = p /\ C[p] = entries[i]
    BY <2>2 DEF CompactedRight, C
  <2>9. \A i \in Used : Place(i) \in 1..Len(C) /\ C[Place(i)] = entries[i]
    BY <2>2 DEF CompactedRight, C
  <2>10. \A i \in Used' : \/ entries'[i] = records'
                          \/ \E j \in Used : entries'[i] = entries[j] /\ nameOf[entries[j]] # n
    BY <2>4, <2>6, <2>7, <2>8
  <2>11. ASSUME NEW i \in Used', NEW j \in Used', entries'[i] = entries'[j]
         PROVE  i = j
    <3>1. CASE i = k \/ j = k
      BY <1>1, <1>T, <2>4, <2>6, <2>8, <2>11, <3>1
    <3>2. CASE i # k /\ j # k
      <4>1. PICK x \in Used, y \in Used : /\ Place(x) = i /\ C[i] = entries[x]
                                          /\ Place(y) = j /\ C[j] = entries[y]
        BY <2>6, <2>8, <3>2
      <4>2. x = y
        BY <1>T, <2>6, <2>11, <3>2, <4>1
      <4> QED
        BY <4>1, <4>2
    <3> QED
      BY <3>1, <3>2
  <2>12. \A j \in Used : \E i \in Used' : entries'[i] = entries[j]
    <3> TAKE j \in Used
    <3>1. Place(j) \in 1..Len(C) /\ C[Place(j)] = entries[j]
      BY <2>9
    <3>2. Place(j) \in Used' /\ entries'[Place(j)] = entries[j]
      BY <2>3, <2>4, <2>5, <3>1
    <3> QED
      BY <3>2
  <2>13. SlotsMade'
    BY <1>1, <1>T, <2>3, <2>4 DEF SlotsMade
  <2> QED
    BY <1>1, <2>4, <2>10, <2>11, <2>12, <2>13 DEF NowHolds
<1> QED
  BY <1>2, <1>3

\* Running depends on the loops only.
LEMMA SameLoops ==
  ASSUME UNCHANGED <<at, cancelled>>
  PROVE  \A l : Alive(l)' = Alive(l) /\ Running(l)' = Running(l)
BY DEF Alive, Running

LEMMA AddTypes ==
  ASSUME SchedulerTypes, NEW n \in Names, NEW on \in BOOLEAN, NEW compact \in BOOLEAN,
         Add(n, on, compact)
  PROVE  SchedulerTypes'
<1>1. records' = records + 1 /\ records' \in Records /\ NowHolds(n)
  BY AddHolds
<1>3. /\ nameOf' = [nameOf EXCEPT ![records'] = n]
      /\ enabled' = [enabled EXCEPT ![records'] = on]
      /\ misused' = (misused \/ ReplacesLive(n) \/ (compact /\ Waiting))
      /\ UNCHANGED <<running, task, loops, owner, at, cancelled, stopping, cursor>>
  BY <1>1 DEF Add, loopVars, stopVars
<1>T. /\ SchedulerTypeOK /\ records \in Nat /\ records' \in 0..MaxRecords
      /\ entries \in Seq(0..records) /\ Len(entries) \in Nat
  BY <1>1 DEF SchedulerTypes, SchedulerTypeOK, Records
<1>4. SchedulerTypeOK'
  <2>1. {running, misused}' \subseteq BOOLEAN
    BY <1>3, <1>T DEF SchedulerTypeOK, ReplacesLive, Running, Waiting
  <2>2. entries' \in Seq(0..records') /\ Len(entries') <= MaxRecords /\ Len(entries') \in Nat
    BY <1>1, <1>T, SchedulerAssumption DEF NowHolds, SlotsMade
  <2>3. /\ nameOf' \in [Records -> Names] /\ enabled' \in [Records -> BOOLEAN]
        /\ task' \in [Records -> 0..loops']
    BY <1>3, <1>T DEF SchedulerTypeOK
  <2>4. /\ owner' \in [Loops -> 0..records'] /\ cancelled' \in [Loops -> BOOLEAN]
        /\ at' \in [Loops -> {"none", "new", "sleep", "callback", "done", "quit"}]
        /\ (\A l \in Loops : (at[l] # "none" <=> l <= loops) /\ (owner[l] # 0 <=> l <= loops))'
    BY <1>1, <1>3, <1>T DEF SchedulerTypeOK
  <2>5. /\ stopping' \in [Stops -> {"none", "waiting", "returned", "raised"}]
        /\ (\A s \in Stops : /\ cursor[s].slot \in Nat
                             /\ stopping[s] = "waiting" => cursor[s].loop \in 1..loops)'
    BY <1>3, <1>T DEF SchedulerTypeOK
  <2>6. loops' \in 0..MaxLoops
    BY <1>3, <1>T DEF SchedulerTypeOK
  <2> QED
    BY <1>T, <2>1, <2>2, <2>3, <2>4, <2>5, <2>6 DEF SchedulerTypeOK
<1>5. CursorType'
  BY <1>3 DEF SchedulerTypes, CursorType
<1>6. Unstarted'
  BY <1>1, <1>3, <1>T DEF SchedulerTypes, Unstarted, Records
<1>7. KeysDiffer'
  <2>1. \A j \in Used : nameOf'[entries[j]] = nameOf[entries[j]]
    <3> TAKE j \in Used
    <3>1. entries[j] \in Records /\ entries[j] \in 1..records
      BY UsedEntries
    <3> QED
      BY <1>1, <1>3, <1>T, <3>1 DEF SchedulerTypeOK
  <2>2. nameOf'[records'] = n
    BY <1>1, <1>3, <1>T DEF SchedulerTypeOK
  <2>3. \A i, j \in Used : nameOf[entries[i]] = nameOf[entries[j]] => i = j
    BY DEF SchedulerTypes, KeysDiffer
  <2>4. ASSUME NEW i \in Used', NEW j \in Used', nameOf'[entries'[i]] = nameOf'[entries'[j]]
        PROVE  i = j
    <3>1. entries'[i] = entries'[j]
      BY <1>1, <2>1, <2>2, <2>3, <2>4 DEF NowHolds
    <3> QED
      BY <1>1, <3>1 DEF NowHolds
  <2> QED
    BY <2>4 DEF KeysDiffer
<1>8. SlotsMade'
  BY <1>1 DEF NowHolds
<1> QED
  BY <1>4, <1>5, <1>6, <1>7, <1>8 DEF SchedulerTypes

LEMMA AddLoops ==
  ASSUME SchedulerInv, NEW n \in Names, NEW on \in BOOLEAN, NEW compact \in BOOLEAN,
         Add(n, on, compact)
  PROVE  LoopInv'
<1>1. records' = records + 1 /\ records' \in Records /\ NowHolds(n)
  BY AddHolds DEF SchedulerInv
<1>3. /\ misused' = (misused \/ ReplacesLive(n) \/ (compact /\ Waiting))
      /\ UNCHANGED <<running, task, loops, owner, at, cancelled, stopping, cursor>>
  BY DEF Add, loopVars, stopVars
<1>4. SUFFICES ASSUME ~misused, ~ReplacesLive(n), ~(compact /\ Waiting) PROVE LoopInv'
  BY <1>3 DEF LoopInv
<1>5. \A l : Alive(l)' = Alive(l) /\ Running(l)' = Running(l)
  BY <1>3, SameLoops
<1>6. ASSUME NEW l \in Loops, Running(l) PROVE Handled(l)'
  <2>1. PICK i \in Used : owner[l] = entries[i] /\ task[owner[l]] = l
    BY <1>4, <1>6 DEF SchedulerInv, LoopInv, Handled
  <2>2. nameOf[entries[i]] # n
    <3>1. SUFFICES ASSUME nameOf[entries[i]] = n PROVE FALSE
      OBVIOUS
    <3>2. Known(n)
      BY <3>1 DEF Known, SlotsOf, Used
    <3>3. RecordOf(n) = entries[i]
      BY <3>1, <3>2, KnownSlot DEF SchedulerInv, SchedulerTypes, KeysDiffer
    <3> QED
      BY <1>4, <1>6, <2>1, <3>2, <3>3 DEF ReplacesLive
  <2>3. PICK k \in Used' : entries'[k] = entries[i]
    BY <1>1, <2>2 DEF NowHolds
  <2> QED
    BY <1>3, <2>1, <2>3 DEF Handled
<1>7. ASSUME NEW s \in Stops, stopping[s] = "waiting" PROVE Awaited(s)'
  <2>0. PICK k : Placed(n, k)
    <3>1. ~compact
      BY <1>4, <1>7 DEF Waiting
    <3>2. Add(n, on, FALSE)
      BY <3>1
    <3> QED
      BY <3>2, AddPlaces DEF SchedulerInv
  <2>1. Awaited(s)
    BY <1>4, <1>7 DEF SchedulerInv, LoopInv
  <2>2. ~Alive(task[records'])
    <3>1. task[records'] = 0
      BY <1>1 DEF SchedulerInv, SchedulerTypes, SchedulerTypeOK, Unstarted
    <3> QED
      BY <3>1 DEF Alive
  <2>3. ASSUME NEW j \in Used'
        PROVE  (j \in Used /\ entries'[j] = entries[j]) \/ entries'[j] = records'
    BY <2>0 DEF Placed
  <2> QED
    BY <1>3, <1>5, <2>1, <2>2, <2>3 DEF Awaited
<1> QED
  BY <1>3, <1>5, <1>6, <1>7 DEF SchedulerInv, LoopInv, Stopped

LEMMA RemoveKeeps ==
  ASSUME SchedulerInv, NEW n \in Names, RemoveTask(n)
  PROVE  SchedulerInv'
<1> DEFINE k == SlotOf(n)
<1>1. /\ k \in Used /\ RecordOf(n) = entries[k] /\ RecordOf(n) \in Records
      /\ k \in 1..Len(entries)
  BY KnownSlot, UsedEntries DEF RemoveTask, SchedulerInv
<1>2. /\ entries' = [entries EXCEPT ![k] = 0]
      /\ cancelled' = [l \in Loops |-> cancelled[l] \/ (l = task[RecordOf(n)] /\ Alive(l))]
      /\ UNCHANGED <<running, records, nameOf, enabled, task, loops, owner, at, stopping, cursor, misused>>
  BY DEF RemoveTask, stopVars
<1>T. /\ SchedulerTypeOK /\ entries \in Seq(0..records) /\ records \in Nat
      /\ cancelled \in [Loops -> BOOLEAN]
  BY DEF SchedulerInv, SchedulerTypes, SchedulerTypeOK
<1> HIDE DEF k
<1>3. /\ entries' \in Seq(0..records) /\ Len(entries') = Len(entries)
      /\ DOMAIN entries' = DOMAIN entries
      /\ entries'[k] = 0 /\ \A i \in DOMAIN entries \ {k} : entries'[i] = entries[i]
  <2>1. 0 \in 0..records
    BY <1>T
  <2> QED
    BY <1>1, <1>2, <1>T, <2>1
<1>4. Used' = Used \ {k} /\ \A i \in Used' : entries'[i] = entries[i]
  BY <1>3 DEF Used
<1>5. cancelled' \in [Loops -> BOOLEAN]
  BY <1>2, <1>T DEF Alive
<1>6. SchedulerTypeOK'
  BY <1>2, <1>3, <1>5, <1>T DEF SchedulerTypeOK
<1>7. SchedulerTypes'
  BY <1>2, <1>3, <1>4, <1>6
  DEF SchedulerInv, SchedulerTypes, CursorType, Unstarted, KeysDiffer, SlotsMade
<1>8. \A l : Alive(l)' = Alive(l)
  BY <1>2 DEF Alive
<1>9. \A l \in Loops : Running(l)' => Running(l) /\ l # task[RecordOf(n)]
  BY <1>2, <1>8 DEF Running
<1>10. LoopInv'
  <2>1. ASSUME ~misused, NEW l \in Loops, Running(l)' PROVE Handled(l)'
    <3>1. Running(l) /\ l # task[RecordOf(n)]
      BY <1>9, <2>1
    <3>2. PICK i \in Used : owner[l] = entries[i] /\ task[owner[l]] = l
      BY <2>1, <3>1 DEF SchedulerInv, LoopInv, Handled
    <3>3. i # k
      BY <1>1, <3>1, <3>2
    <3> QED
      BY <1>2, <1>4, <3>2, <3>3 DEF Handled
  <2>2. \A s \in Stops : Awaited(s) => Awaited(s)'
    BY <1>2, <1>4, <1>8 DEF Awaited
  <2> QED
    BY <1>2, <1>9, <2>1, <2>2 DEF SchedulerInv, LoopInv, Stopped
<1> QED
  BY <1>7, <1>10 DEF SchedulerInv

\* A step that leaves the dict and the handles alone, and after which no loop
\* goes on or is alive that did not before.
Fades ==
  /\ UNCHANGED <<entries, nameOf, task, owner>>
  /\ \A l : Alive(l)' => Alive(l)
  /\ \A l \in Loops : Running(l)' => Running(l)

LEMMA FadesKeeps ==
  ASSUME Fades
  PROVE  /\ \A l : Handled(l) => Handled(l)'
         /\ \A s \in Stops : Awaited(s) /\ UNCHANGED cursor => Awaited(s)'
         /\ Used' = Used
<1>1. Used' = Used
  BY DEF Fades, Used
<1> QED
  BY <1>1 DEF Fades, Handled, Awaited

LEMMA SetEnabledKeeps ==
  ASSUME SchedulerInv, NEW n \in Names, NEW on \in BOOLEAN, SetEnabled(n, on)
  PROVE  SchedulerInv'
<1>1. /\ enabled' = [enabled EXCEPT ![RecordOf(n)] = on]
      /\ UNCHANGED <<running, entries, records, nameOf, task, loops, owner, at, cancelled,
                     stopping, cursor, misused>>
  BY DEF SetEnabled, loopVars, stopVars
<1>2. Fades
  BY <1>1, SameLoops DEF Fades
<1>3. enabled' \in [Records -> BOOLEAN]
  BY <1>1 DEF SchedulerInv, SchedulerTypes, SchedulerTypeOK
<1>4. SchedulerTypes'
  BY <1>1, <1>2, <1>3, FadesKeeps
  DEF SchedulerInv, SchedulerTypes, SchedulerTypeOK, CursorType, Unstarted, KeysDiffer, SlotsMade
<1>5. LoopInv'
  BY <1>1, <1>2, FadesKeeps DEF SchedulerInv, LoopInv, Stopped, Fades
<1> QED
  BY <1>4, <1>5 DEF SchedulerInv

LEMMA LoopStepKeeps ==
  ASSUME SchedulerInv, NEW l \in Loops, LoopStep(l)
  PROVE  SchedulerInv'
<1>T. /\ SchedulerTypeOK
      /\ at \in [Loops -> {"none", "new", "sleep", "callback", "done", "quit"}]
  BY DEF SchedulerInv, SchedulerTypes, SchedulerTypeOK
<1>1. PICK state \in {"sleep", "callback", "done", "quit"} : Become(l, state) /\ Alive(l)
  <2>1. l # 0
    BY DEF Loops
  <2> QED
    BY <2>1 DEF LoopStep, Begin, Wake, CallbackEnds, Alive
<1>2. /\ at' = [at EXCEPT ![l] = state]
      /\ UNCHANGED <<running, entries, records, nameOf, enabled, task, loops, owner, cancelled,
                     stopping, cursor, misused>>
  BY <1>1 DEF Become, recordVars, stopVars
<1>3. at[l] # "none" /\ at'[l] # "none" /\ \A k \in Loops \ {l} : at'[k] = at[k]
  BY <1>1, <1>2, <1>T DEF Alive
<1>4. \A k : Alive(k)' => Alive(k)
  <2>1. ASSUME NEW k, k # l PROVE at'[k] = at[k]
    BY <1>2, <1>T, <2>1
  <2> QED
    BY <1>1, <2>1 DEF Alive
<1>5. Fades
  BY <1>2, <1>4 DEF Fades, Running
<1>6. SchedulerTypeOK'
  <2>1. at' \in [Loops -> {"none", "new", "sleep", "callback", "done", "quit"}]
    BY <1>1, <1>2, <1>T
  <2>2. \A k \in Loops : at'[k] # "none" <=> at[k] # "none"
    BY <1>3
  <2> QED
    BY <1>2, <1>T, <2>1, <2>2 DEF SchedulerTypeOK
<1>7. SchedulerTypes'
  BY <1>2, <1>5, <1>6, FadesKeeps
  DEF SchedulerInv, SchedulerTypes, CursorType, Unstarted, KeysDiffer, SlotsMade
<1>8. LoopInv'
  BY <1>2, <1>5, FadesKeeps DEF SchedulerInv, LoopInv, Stopped, Fades
<1> QED
  BY <1>7, <1>8 DEF SchedulerInv

LEMMA LeastSlot ==
  ASSUME NEW S \in SUBSET Nat, S # {}
  PROVE  Min(S) \in S /\ \A x \in S : Min(S) <= x
<1>1. IsWellFoundedOn(OpToRel(<, Nat), Nat)
  BY NatLessThanWellFounded
<1>2. PICK m \in S : \A x \in S : <<x, m>> \notin OpToRel(<, Nat)
  BY <1>1, WFMin
<1>3. \A x \in S : ~(x < m)
  BY <1>2 DEF OpToRel
<1>4. \A x \in S : m <= x
  BY <1>3
<1> QED
  BY <1>4, Zenon DEF Min

\* What StopJoins says of the moment a stop returns.
Joined ==
  /\ \A i \in Used : ~Alive(task[entries[i]])
  /\ \A l \in Loops : ~Running(l)

\* From slot c.slot on, stop comes to the end, or to the next live loop.
LEMMA GoOnKeeps ==
  ASSUME SchedulerInv, NEW s \in Stops, NEW c, c.slot \in Nat,
         ~misused => Behind(c.slot), GoOn(s, c),
         UNCHANGED <<recordVars, loops, owner, at, misused>>, running' \in BOOLEAN
  PROVE  SchedulerInv' /\ (stopping'[s] = "returned" /\ ~misused => Joined)
<1> DEFINE live == LiveAfter(c.slot)
           next == IF live = {} THEN Len(entries) ELSE Min(live)
           keys == c.yielded + Passed(c.slot, next)
           loop == task[entries[next]]
           here == [slot |-> next, yielded |-> keys, size |-> c.size, loop |-> loop]
<1>T. /\ SchedulerTypeOK /\ entries \in Seq(0..records) /\ Len(entries) \in Nat
      /\ loops \in 0..MaxLoops /\ MaxLoops \in Nat /\ misused \in BOOLEAN
      /\ task \in [Records -> 0..loops] /\ cancelled \in [Loops -> BOOLEAN]
      /\ stopping \in [Stops -> {"none", "waiting", "returned", "raised"}]
      /\ CursorType
  BY SchedulerAssumption DEF SchedulerInv, SchedulerTypes, SchedulerTypeOK
<1>U. /\ UNCHANGED <<entries, records, nameOf, enabled, task, loops, owner, at, misused>>
      /\ Used' = Used
  BY DEF recordVars, Used
<1>1. ASSUME live # {}
      PROVE  /\ next \in Used /\ c.slot < next /\ next \in 1..Len(entries)
             /\ Alive(loop) /\ loop \in 1..loops /\ loop \in Loops
             /\ \A j \in Used : c.slot < j /\ j < next => ~Alive(task[entries[j]])
  <2>1. \A j \in live : j \in Used /\ c.slot < j /\ Alive(task[entries[j]])
    BY DEF LiveAfter
  <2>2. live \in SUBSET Nat
    BY <2>1, UsedEntries DEF SchedulerInv
  <2>3. next \in live /\ \A j \in live : next <= j
    BY <1>1, <2>2, LeastSlot
  <2> HIDE DEF next
  <2>4. \A j \in Used : c.slot < j /\ j < next => j \notin live
    BY <2>2, <2>3
  <2>5. \A j \in Used : c.slot < j /\ j < next => ~Alive(task[entries[j]])
    BY <2>4 DEF LiveAfter
  <2>6. next \in 1..Len(entries) /\ entries[next] \in Records
    BY <2>1, <2>3, UsedEntries DEF SchedulerInv
  <2>7. Alive(loop) /\ loop \in 0..loops
    BY <1>T, <2>1, <2>3, <2>6
  <2>8. loop # 0
    BY <2>7 DEF Alive
  <2> QED
    BY <1>T, <2>1, <2>3, <2>5, <2>6, <2>7, <2>8 DEF Loops
<1>2. ASSUME live = {}, ~misused PROVE Joined
  <2>1. \A j \in Used : ~Alive(task[entries[j]])
    <3>1. \A j \in Used : j \in Nat
      BY UsedEntries DEF SchedulerInv
    <3>2. \A j \in Used : c.slot < j => ~Alive(task[entries[j]])
      BY <1>2 DEF LiveAfter
    <3> QED
      BY <1>2, <3>1, <3>2 DEF Behind
  <2>2. ASSUME NEW l \in Loops, Running(l) PROVE FALSE
    <3>1. PICK i \in Used : owner[l] = entries[i] /\ task[owner[l]] = l
      BY <1>2, <2>2 DEF SchedulerInv, LoopInv, Handled
    <3> QED
      BY <2>1, <2>2, <3>1 DEF Running
  <2> QED
    BY <2>1, <2>2 DEF Joined
<1>3. \/ /\ UNCHANGED cancelled /\ cursor' = [cursor EXCEPT ![s] = Idle]
         /\ \/ stopping' = [stopping EXCEPT ![s] = "raised"]
            \/ stopping' = [stopping EXCEPT ![s] = "returned"] /\ live = {}
      \/ /\ live # {} /\ cancelled' = [cancelled EXCEPT ![loop] = TRUE]
         /\ cursor' = [cursor EXCEPT ![s] = here]
         /\ stopping' = [stopping EXCEPT ![s] = "waiting"]
  BY DEF GoOn, End
<1> HIDE DEF live, next, keys, loop, here
<1>4. /\ \E how \in {"raised", "returned", "waiting"} : stopping' = [stopping EXCEPT ![s] = how]
      /\ \E d : cursor' = [cursor EXCEPT ![s] = d]
      /\ cancelled' \in [Loops -> BOOLEAN] /\ \A l \in Loops : cancelled[l] => cancelled'[l]
  <2>1. cancelled' \in [Loops -> BOOLEAN] /\ \A l \in Loops : cancelled[l] => cancelled'[l]
    BY <1>1, <1>3, <1>T
  <2> QED
    BY <1>3, <2>1
<1>5. /\ stopping' \in [Stops -> {"none", "waiting", "returned", "raised"}]
      /\ \A t \in Stops \ {s} : stopping'[t] = stopping[t] /\ cursor'[t] = cursor[t]
      /\ CursorType'
  BY <1>4, <1>T DEF CursorType
<1>6. \/ UNCHANGED cancelled /\ cursor'[s] = Idle /\ stopping'[s] = "raised"
      \/ UNCHANGED cancelled /\ cursor'[s] = Idle /\ stopping'[s] = "returned" /\ live = {}
      \/ /\ live # {} /\ cancelled' = [cancelled EXCEPT ![loop] = TRUE]
         /\ cursor'[s] = here /\ stopping'[s] = "waiting"
  BY <1>3, <1>T DEF CursorType
<1>7. Fades
  <2>1. \A l : Alive(l)' = Alive(l)
    BY <1>U DEF Alive
  <2>2. \A l \in Loops : cancelled[l] => cancelled'[l]
    BY <1>4
  <2> QED
    BY <1>U, <2>1, <2>2 DEF Fades, Running
<1>8. SchedulerTypeOK'
  <2>1. \A t \in Stops : /\ cursor'[t].slot \in Nat
                         /\ stopping'[t] = "waiting" => cursor'[t].loop \in 1..loops
    <3>1. ASSUME NEW t \in Stops \ {s}
          PROVE  /\ cursor'[t].slot \in Nat
                 /\ stopping'[t] = "waiting" => cursor'[t].loop \in 1..loops
      BY <1>5, <1>T DEF SchedulerTypeOK
    <3>2. Idle.slot \in Nat
      BY <1>T DEF Idle
    <3>3. here.slot = next /\ here.loop = loop
      BY DEF here
    <3>4. /\ cursor'[s].slot \in Nat
          /\ stopping'[s] = "waiting" => cursor'[s].loop \in 1..loops
      BY <1>1, <1>6, <1>T, <3>2, <3>3
    <3> QED
      BY <3>1, <3>4
  <2> QED
    BY <1>4, <1>5, <1>U, <1>T, <2>1 DEF SchedulerTypeOK
<1>9. SchedulerTypes'
  BY <1>5, <1>8, <1>U DEF SchedulerInv, SchedulerTypes, Unstarted, KeysDiffer, SlotsMade
<1>10. ASSUME ~misused PROVE LoopInv'
  <2>1. \A l \in Loops : Running(l)' => Handled(l)'
    BY <1>7, <1>10, FadesKeeps DEF SchedulerInv, LoopInv, Fades
  <2>2. ASSUME Stopped' PROVE \A l \in Loops : ~Running(l)'
    <3>1. live = {}
      BY <1>6, <2>2 DEF Stopped
    <3> QED
      BY <1>2, <1>7, <1>10, <3>1 DEF Fades, Joined
  <2>3. ASSUME NEW t \in Stops \ {s}, stopping'[t] = "waiting" PROVE Awaited(t)'
    <3>1. Awaited(t) /\ cursor'[t] = cursor[t]
      BY <1>5, <1>10, <2>3 DEF SchedulerInv, LoopInv
    <3> QED
      BY <1>7, <3>1, FadesKeeps DEF Awaited, Fades
  <2>4. ASSUME stopping'[s] = "waiting" PROVE Awaited(s)'
    <3>1. live # {} /\ cursor'[s].slot = next /\ cursor'[s].loop = loop
      BY <1>6, <2>4 DEF here
    <3>2. /\ \A j \in Used : j < next => ~Alive(task[entries[j]])
          /\ \A j \in Used : j = next => task[entries[j]] = loop
      <4>1. \A j \in Used : j \in Nat
        BY UsedEntries DEF SchedulerInv
      <4> QED
        BY <1>1, <1>10, <3>1, <4>1 DEF Behind, loop
    <3> QED
      BY <1>U, <1>7, <3>1, <3>2 DEF Awaited, Fades
  <2> QED
    BY <2>1, <2>2, <2>3, <2>4 DEF LoopInv
<1>11. LoopInv'
  BY <1>10, <1>U DEF LoopInv
<1>12. stopping'[s] = "returned" /\ ~misused => Joined
  BY <1>2, <1>6
<1> QED
  BY <1>9, <1>11, <1>12 DEF SchedulerInv

\* The loops start creates are the next ones, one for each enabled record.
LEMMA NewLoops ==
  ASSUME SchedulerTypes
  PROVE  LET n == Cardinality(Started)
         IN  /\ n \in Nat
             /\ \A i \in Started : LoopFor(i) \in loops + 1 .. loops + n
             /\ \A i, j \in Started : LoopFor(i) = LoopFor(j) => i = j
             /\ \A l \in loops + 1 .. loops + n : \E i \in Started : LoopFor(i) = l
<1> DEFINE rank(i) == Cardinality({j \in Started : j <= i})
           n == Cardinality(Started)
<1>1. Started \in SUBSET Nat /\ Started \subseteq 1..Len(entries) /\ Len(entries) \in Nat
  BY UsedEntries DEF Started, SchedulerTypes, SchedulerTypeOK
<1>2. IsFiniteSet(Started)
  <2>1. IsFiniteSet(1..Len(entries))
    BY <1>1, FS_Interval
  <2> QED
    BY <1>1, <2>1, FS_Subset
<1>3. /\ n \in Nat
      /\ \A i \in Started : rank(i) \in 1..n
      /\ \A i, j \in Started : rank(i) = rank(j) => i = j
      /\ \A k \in 1..n : \E i \in Started : rank(i) = k
  BY <1>1, <1>2, Ranks
<1>4. \A i : LoopFor(i) = loops + rank(i)
  BY DEF LoopFor
<1>5. loops \in Nat
  BY DEF SchedulerTypes, SchedulerTypeOK
<1> HIDE DEF rank, n
<1>6. \A i \in Started : LoopFor(i) \in loops + 1 .. loops + n
  BY <1>3, <1>4, <1>5
<1>7. \A i, j \in Started : LoopFor(i) = LoopFor(j) => i = j
  BY <1>3, <1>4, <1>5
<1>8. ASSUME NEW l \in loops + 1 .. loops + n PROVE \E i \in Started : LoopFor(i) = l
  <2>1. l - loops \in 1..n
    BY <1>3, <1>5
  <2>2. PICK i \in Started : rank(i) = l - loops
    BY <1>3, <2>1
  <2> QED
    BY <1>4, <1>5, <2>2
<1> QED
  BY <1>3, <1>6, <1>7, <1>8 DEF n

LEMMA StartKeeps ==
  ASSUME SchedulerInv, Start
  PROVE  SchedulerInv'
<1> DEFINE n == Cardinality(Started)
           New == loops + 1 .. loops + n
           SlotFor(l) == CHOOSE i \in Started : LoopFor(i) = l
           SlotHolding(r) == CHOOSE i \in Started : entries[i] = r
<1>1. /\ running' = TRUE /\ loops' = loops + n /\ loops + n <= MaxLoops
      /\ misused' = (misused \/ StartsTwice)
      /\ UNCHANGED <<entries, records, nameOf, enabled, cancelled, stopping, cursor>>
  BY DEF Start, stopVars
<1>T. /\ SchedulerTypes /\ SchedulerTypeOK /\ loops \in Nat /\ records \in Nat
      /\ task \in [Records -> 0..loops] /\ owner \in [Loops -> 0..records]
      /\ at \in [Loops -> {"none", "new", "sleep", "callback", "done", "quit"}]
      /\ \A l \in Loops : (at[l] # "none" <=> l <= loops) /\ (owner[l] # 0 <=> l <= loops)
      /\ MaxLoops \in Nat
  BY SchedulerAssumption DEF SchedulerInv, SchedulerTypes, SchedulerTypeOK
<1>2. /\ n \in Nat
      /\ \A i \in Started : LoopFor(i) \in New
      /\ \A i, j \in Started : LoopFor(i) = LoopFor(j) => i = j
      /\ \A l \in New : \E i \in Started : LoopFor(i) = l
  BY <1>T, NewLoops
<1>3. \A i \in Started : i \in Used /\ entries[i] \in 1..records /\ entries[i] \in Records
  BY <1>T, UsedEntries DEF Started
<1>4. \A l : (\E i \in Started : LoopFor(i) = l) <=> l \in New
  BY <1>2
<1>5. /\ owner' = [l \in Loops |-> IF l \in New THEN entries[SlotFor(l)] ELSE owner[l]]
      /\ at' = [l \in Loops |-> IF l \in New THEN "new" ELSE at[l]]
  BY <1>4 DEF Start
<1>6. task' = [r \in Records |-> IF \E i \in Started : entries[i] = r
                                 THEN LoopFor(SlotHolding(r)) ELSE task[r]]
  BY DEF Start
<1>7. \A l \in New : SlotFor(l) \in Started /\ LoopFor(SlotFor(l)) = l
  BY <1>2
<1>8. ASSUME NEW i \in Started
      PROVE  SlotHolding(entries[i]) = i
  <2>1. SlotHolding(entries[i]) \in Started /\ entries[SlotHolding(entries[i])] = entries[i]
    OBVIOUS
  <2> QED
    BY <1>3, <1>T, <2>1 DEF SchedulerTypes, KeysDiffer
<1> HIDE DEF SlotFor, SlotHolding, n
<1>9. /\ owner' \in [Loops -> 0..records]
      /\ at' \in [Loops -> {"none", "new", "sleep", "callback", "done", "quit"}]
      /\ \A l \in Loops : (at'[l] # "none" <=> l <= loops') /\ (owner'[l] # 0 <=> l <= loops')
  <2>1. ASSUME NEW l \in Loops
        PROVE  /\ owner'[l] \in 0..records
               /\ at'[l] \in {"none", "new", "sleep", "callback", "done", "quit"}
               /\ at'[l] # "none" <=> l <= loops'
               /\ owner'[l] # 0 <=> l <= loops'
    <3>0. l \in Nat
      BY DEF Loops
    <3>1. CASE l \in New
      <4>1. entries[SlotFor(l)] \in 1..records
        BY <1>3, <1>7, <3>1
      <4> HIDE DEF New
      <4>2. owner'[l] = entries[SlotFor(l)] /\ at'[l] = "new"
        BY <1>5, <3>1
      <4>3. l <= loops'
        BY <1>1, <1>2, <1>T, <3>0, <3>1 DEF New
      <4> QED
        BY <1>T, <4>1, <4>2, <4>3
    <3>2. CASE l \notin New
      <4>1. owner'[l] = owner[l] /\ at'[l] = at[l]
        BY <1>5, <3>2
      <4>2. l <= loops' <=> l <= loops
        BY <1>1, <1>2, <1>T, <3>0, <3>2
      <4> QED
        BY <1>T, <4>1, <4>2
    <3> QED
      BY <3>1, <3>2
  <2> QED
    BY <1>5, <2>1
<1>10. task' \in [Records -> 0..loops']
  <2>1. ASSUME NEW r \in Records
        PROVE  task'[r] \in 0..loops'
    <3>1. CASE \E i \in Started : entries[i] = r
      <4>1. PICK i \in Started : entries[i] = r
        BY <3>1
      <4>2. task'[r] = LoopFor(i)
        BY <1>6, <1>8, <3>1, <4>1
      <4>3. LoopFor(i) \in New
        BY <1>2
      <4> QED
        BY <1>1, <1>2, <1>T, <4>2, <4>3
    <3>2. CASE ~\E i \in Started : entries[i] = r
      <4>1. task'[r] = task[r] /\ task[r] \in 0..loops
        BY <1>6, <1>T, <3>2
      <4> QED
        BY <1>1, <1>2, <1>T, <4>1
    <3> QED
      BY <3>1, <3>2
  <2> QED
    BY <1>6, <2>1
<1>11. SchedulerTypeOK'
  <2>1. loops' \in 0..MaxLoops
    BY <1>1, <1>2, <1>T
  <2>2. {running, misused}' \subseteq BOOLEAN
    BY <1>1, <1>T DEF SchedulerTypeOK, StartsTwice, Waiting
  <2>3. \A s \in Stops : /\ cursor'[s].slot \in Nat
                         /\ stopping'[s] = "waiting" => cursor'[s].loop \in 1..loops'
    <3> TAKE s \in Stops
    <3>1. /\ cursor[s].slot \in Nat
          /\ stopping[s] = "waiting" => cursor[s].loop \in 1..loops
      BY <1>T DEF SchedulerTypeOK
    <3> QED
      BY <1>1, <1>2, <1>T, <3>1
  <2>4. /\ entries' \in Seq(0..records') /\ Len(entries') <= MaxRecords /\ records' \in 0..MaxRecords
        /\ nameOf' \in [Records -> Names] /\ enabled' \in [Records -> BOOLEAN]
        /\ cancelled' \in [Loops -> BOOLEAN]
        /\ stopping' \in [Stops -> {"none", "waiting", "returned", "raised"}]
    BY <1>1, <1>T DEF SchedulerTypeOK
  <2>5. owner' \in [Loops -> 0..records']
    BY <1>1, <1>9
  <2> QED
    BY <1>9, <1>10, <2>1, <2>2, <2>3, <2>4, <2>5 DEF SchedulerTypeOK
<1>12. Unstarted'
  <2> SUFFICES ASSUME NEW r \in Records, r > records PROVE task'[r] = 0
    BY <1>1 DEF Unstarted
  <2>1. ~\E i \in Started : entries[i] = r
    BY <1>3, <1>T
  <2>2. task[r] = 0
    BY <1>T DEF SchedulerTypes, Unstarted
  <2> QED
    BY <1>6, <2>1, <2>2
<1>13. Used' = Used
  BY <1>1 DEF Used
<1>14. SchedulerTypes'
  BY <1>1, <1>11, <1>12, <1>13, <1>T DEF SchedulerTypes, CursorType, KeysDiffer, SlotsMade
<1>15. ASSUME ~misused, ~StartsTwice PROVE LoopInv'
  <2>1. Stopped
    BY <1>15, <1>T DEF StartsTwice, Stopped, Waiting, SchedulerTypeOK
  <2>2. \A l \in Loops : ~Running(l)
    BY <1>15, <2>1 DEF SchedulerInv, LoopInv
  <2>3. ASSUME NEW l \in Loops, Running(l)' PROVE Handled(l)'
    <3>1. l \in New
      <4>1. SUFFICES ASSUME l \notin New PROVE FALSE
        OBVIOUS
      <4>2. at'[l] = at[l]
        BY <1>5, <4>1
      <4>3. Running(l)
        BY <1>1, <2>3, <4>2 DEF Running, Alive
      <4> QED
        BY <2>2, <4>3
    <3> DEFINE i == SlotFor(l)
    <3>2. i \in Started /\ LoopFor(i) = l
      BY <1>7, <3>1
    <3>3. owner'[l] = entries[i]
      BY <1>5, <3>1
    <3>4. task'[entries[i]] = LoopFor(i)
      <4>1. SlotHolding(entries[i]) = i /\ entries[i] \in Records
        BY <1>3, <1>8, <3>2
      <4> QED
        BY <1>6, <3>2, <4>1
    <3>5. i \in Used
      BY <1>3, <3>2
    <3> QED
      BY <1>1, <1>13, <3>2, <3>3, <3>4, <3>5 DEF Handled
  <2>4. ~Stopped'
    BY <1>1 DEF Stopped
  <2>5. \A s \in Stops : stopping'[s] # "waiting"
    BY <1>1, <2>1 DEF Stopped
  <2> QED
    BY <2>3, <2>4, <2>5 DEF LoopInv
<1>16. LoopInv'
  BY <1>1, <1>15 DEF LoopInv
<1> QED
  BY <1>14, <1>16 DEF SchedulerInv

\* Stop starts before the first slot; when it goes on, the loop it waited for
\* is done.
LEMMA StopKeeps ==
  ASSUME SchedulerInv, NEW s \in Stops, Stop(s) \/ StopGoesOn(s)
  PROVE  SchedulerInv' /\ (stopping'[s] = "returned" /\ ~misused => Joined)
<1>T. SchedulerTypeOK /\ entries \in Seq(0..records) /\ Len(entries) \in Nat
  BY DEF SchedulerInv, SchedulerTypes, SchedulerTypeOK
<1>1. CASE Stop(s)
  <2> DEFINE c == [Idle EXCEPT !.size = Cardinality(Used)]
  <2>1. c.slot = 0
    BY DEF Idle
  <2>2. GoOn(s, c) /\ running' = FALSE /\ UNCHANGED <<recordVars, loops, owner, at, misused>>
    BY <1>1 DEF Stop
  <2> HIDE DEF c
  <2>3. Behind(c.slot)
    BY <2>1, UsedEntries DEF Behind, SchedulerInv
  <2>4. running' \in BOOLEAN
    BY <2>2
  <2>5. c.slot \in Nat
    BY <1>T, <2>1
  <2> QED
    BY <2>2, <2>3, <2>4, <2>5, GoOnKeeps
<1>2. CASE StopGoesOn(s)
  <2> DEFINE c == cursor[s]
  <2>1. /\ GoOn(s, c) /\ UNCHANGED <<running, recordVars, loops, owner, at, misused>>
        /\ stopping[s] = "waiting" /\ Over(c.loop)
    BY <1>2 DEF StopGoesOn
  <2>2. c.slot \in Nat
    BY <1>T DEF SchedulerTypeOK
  <2>3. ASSUME ~misused PROVE Behind(c.slot)
    <3>1. Awaited(s) /\ ~Alive(c.loop)
      BY <2>1, <2>3 DEF SchedulerInv, LoopInv, Alive, Over
    <3>2. \A j \in Used : j \in Nat
      BY UsedEntries DEF SchedulerInv
    <3> QED
      BY <2>2, <3>1, <3>2 DEF Behind, Awaited
  <2>4. running' \in BOOLEAN
    BY <1>T, <2>1 DEF SchedulerTypeOK
  <2> HIDE DEF c
  <2> QED
    BY <2>1, <2>2, <2>3, <2>4, GoOnKeeps
<1> QED
  BY <1>1, <1>2

LEMMA SchedulerSteps == SchedulerInv /\ [SchedulerNext]_schedulerVars => SchedulerInv'
<1> SUFFICES ASSUME SchedulerInv, [SchedulerNext]_schedulerVars PROVE SchedulerInv'
  OBVIOUS
<1>1. ASSUME NEW n \in Names, NEW on \in BOOLEAN, NEW compact \in BOOLEAN, Add(n, on, compact)
      PROVE  SchedulerInv'
  BY <1>1, AddTypes, AddLoops DEF SchedulerInv
<1>2. ASSUME NEW n \in Names, RemoveTask(n) PROVE SchedulerInv'
  BY <1>2, RemoveKeeps
<1>3. ASSUME NEW n \in Names, Enable(n) \/ Disable(n) PROVE SchedulerInv'
  BY <1>3, SetEnabledKeeps DEF Enable, Disable
<1>4. ASSUME Start PROVE SchedulerInv'
  BY <1>4, StartKeeps
<1>5. ASSUME NEW s \in Stops, Stop(s) \/ StopGoesOn(s) PROVE SchedulerInv'
  BY <1>5, StopKeeps
<1>6. ASSUME NEW l \in Loops, LoopStep(l) PROVE SchedulerInv'
  BY <1>6, LoopStepKeeps
<1>7. CASE UNCHANGED schedulerVars
  <2>1. /\ UNCHANGED <<running, entries, records, nameOf, enabled, task, loops, owner, at,
                       cancelled, stopping, cursor, misused>>
    BY <1>7 DEF schedulerVars, recordVars, loopVars, stopVars
  <2>2. Fades
    BY <2>1, SameLoops DEF Fades
  <2>3. SchedulerTypes'
    BY <2>1, <2>2, FadesKeeps
    DEF SchedulerInv, SchedulerTypes, SchedulerTypeOK, CursorType, Unstarted, KeysDiffer, SlotsMade
  <2>4. LoopInv'
    BY <2>1, <2>2, FadesKeeps DEF SchedulerInv, LoopInv, Stopped, Fades
  <2> QED
    BY <2>3, <2>4 DEF SchedulerInv
<1> QED
  BY <1>1, <1>2, <1>3, <1>4, <1>5, <1>6, <1>7 DEF SchedulerNext

LEMMA SchedulerAlways == SchedulerSpec => []SchedulerInv
BY SchedulerStarts, SchedulerSteps, PTL DEF SchedulerSpec

\* Whatever is added, removed, enabled, started and stopped, and while stops
\* wait: loops and records are numbered as they are created, start numbers its
\* loops without gap or clash, and a waiting stop waits for a loop there is.
THEOREM SchedulerTypeCorrect == SchedulerSpec => []SchedulerTypeOK
<1>1. SchedulerInv => SchedulerTypeOK
  BY DEF SchedulerInv, SchedulerTypes
<1> QED
  BY SchedulerAlways, <1>1, PTL

\* However many names, records and loops there are and however often the dict was
\* compacted: unless one of the five misuses was made, every loop that goes on is
\* known to its record, its record is in the dict, and no name has two.
THEOREM NoLoopLeftBehind == SchedulerSpec => []OnlyMisuseDuplicates
<1>1. ASSUME SchedulerInv PROVE OnlyMisuseDuplicates
  <2> SUFFICES ASSUME ~misused, NEW l \in Loops, Running(l)
               PROVE  /\ Handled(l)
                      /\ \A k \in Loops :
                           Running(k) /\ nameOf[owner[k]] = nameOf[owner[l]] => k = l
    BY DEF OnlyMisuseDuplicates, Handled
  <2>1. \A k \in Loops : Running(k) => Handled(k)
    BY <1>1 DEF SchedulerInv, LoopInv
  <2>2. ASSUME NEW k \in Loops, Running(k), nameOf[owner[k]] = nameOf[owner[l]] PROVE k = l
    <3>1. PICK i \in Used, j \in Used : /\ owner[l] = entries[i] /\ task[entries[i]] = l
                                        /\ owner[k] = entries[j] /\ task[entries[j]] = k
      BY <2>1, <2>2 DEF Handled
    <3>2. i = j
      BY <1>1, <2>2, <3>1 DEF SchedulerInv, SchedulerTypes, KeysDiffer
    <3> QED
      BY <3>1, <3>2
  <2> QED
    BY <2>1, <2>2
<1> QED
  BY SchedulerAlways, <1>1, PTL

\* When stop returns, however many stop calls overlap and whatever was called while
\* it waited, but for the five misuses (one is an add that compacts the dict while
\* it waits), every loop its dict knows has ended and no other goes on.
THEOREM StopJoinsLoops == SchedulerSpec => StopJoins
<1>1. ASSUME SchedulerInv, [SchedulerNext]_schedulerVars, NEW s \in Stops,
             stopping'[s] = "returned", stopping[s] # "returned", ~misused
      PROVE  Joined
  <2>1. CASE Stop(s) \/ StopGoesOn(s)
    BY <1>1, <2>1, StopKeeps
  <2>2. ASSUME NEW t \in Stops, t # s, Stop(t) \/ StopGoesOn(t) PROVE FALSE
    <3>1. PICK c : GoOn(t, c)
      BY <2>2 DEF Stop, StopGoesOn
    <3>2. \E how : stopping' = [stopping EXCEPT ![t] = how]
      BY <3>1 DEF GoOn, End
    <3>3. stopping'[s] = stopping[s]
      BY <1>1, <2>2, <3>2 DEF SchedulerInv, SchedulerTypes, SchedulerTypeOK
    <3> QED
      BY <1>1, <3>3
  <2>3. CASE UNCHANGED stopping
    BY <1>1, <2>3
  <2>4. \/ UNCHANGED stopping
        \/ \E t \in Stops : Stop(t) \/ StopGoesOn(t)
    BY <1>1 DEF SchedulerNext, Add, RemoveTask, Enable, Disable, SetEnabled, Start, LoopStep,
      Begin, Wake, CallbackEnds, Become, stopVars, schedulerVars
  <2> QED
    BY <2>1, <2>2, <2>3, <2>4
<1>2. SchedulerInv /\ [SchedulerNext]_schedulerVars =>
        \A s \in Stops : stopping'[s] = "returned" /\ stopping[s] # "returned" /\ ~misused =>
          /\ \A i \in Used : ~Alive(task[entries[i]])
          /\ \A l \in Loops : ~Running(l)
  BY <1>1 DEF Joined
<1> QED
  BY SchedulerAlways, <1>2, PTL DEF SchedulerSpec, StopJoins
=============================================================================
