---------------------------- MODULE JournalProofs ----------------------------
(***************************************************************************)
(* Theorems about Journal, for any tables, ids, tags, profits and clock.   *)
(***************************************************************************)
EXTENDS Journal, FiniteSetTheorems, TLAPS

-----------------------------------------------------------------------------
(* The inductive invariant *)

Rows == [id : Trades \cup Nat, tag : Tags \cup {None}, created : 0..MaxClock,
         pnl : Profits \cup {None}]

\* Which rows a table may hold, with the ids made so far, and that its ids tell them apart.
RowsFit(tables, made) ==
  \A t \in Tables : \A i \in 1..Len(tables[t]) :
    LET r == tables[t][i]
    IN  /\ r.id \in (IF t = "trades" THEN made ELSE {i})
        /\ r.tag \in (IF t = "risk_events" THEN {None} ELSE Tags)
        /\ t # "trades" => r.pnl = None
IdsDiffer(tables) ==
  \A t \in Tables : \A i, j \in 1..Len(tables[t]) : tables[t][i].id = tables[t][j].id => i = j

\* A row of a table later on: the same, unless it was an open trade.
Kept(old, new) ==
  /\ old.id = new.id /\ old.tag = new.tag /\ old.created = new.created
  /\ old.pnl # None => old.pnl = new.pnl
\* Tables later on: no row is gone.
Grown(old, new) ==
  \A t \in Tables : /\ Len(old[t]) <= Len(new[t])
                    /\ \A i \in 1..Len(old[t]) : Kept(old[t][i], new[t][i])

Contents == [Tables -> Seq(Rows)]
VarTypes ==
  /\ {file, view} \subseteq Contents
  /\ connected \in BOOLEAN
  /\ clock \in 0..MaxClock
  /\ minted \subseteq Trades
  /\ returned \in [Tables -> SUBSET Rows]

\* What a log call returned is among the committed rows.
Durable == \A t \in Tables : \A r \in returned[t] :
             \E i \in 1..Len(file[t]) : Kept(r, file[t][i])

IInv ==
  /\ VarTypes
  /\ RowsFit(view, minted) /\ RowsFit(file, minted) /\ IdsDiffer(view)
  /\ Grown(file, view)
  /\ Durable

-----------------------------------------------------------------------------
(* Tables that grow *)

LEMMA KeptIsSame ==
  ASSUME NEW old \in Rows, NEW new \in Rows, Kept(old, new)
  PROVE  Same(new, old)
BY DEF Kept, Same, Rows

\* The rows of the file are rows of the view.
LEMMA FileIdsDiffer ==
  ASSUME IInv
  PROVE  IdsDiffer(file)
<1> SUFFICES ASSUME NEW t \in Tables, NEW i \in 1..Len(file[t]), NEW j \in 1..Len(file[t]),
                    file[t][i].id = file[t][j].id
             PROVE  i = j
  BY DEF IdsDiffer
<1>1. Len(file[t]) \in Nat /\ Len(view[t]) \in Nat /\ Len(file[t]) <= Len(view[t])
  BY DEF IInv, VarTypes, Contents, Grown
<1>2. i \in 1..Len(view[t]) /\ j \in 1..Len(view[t])
  BY <1>1
<1>3. view[t][i].id = view[t][j].id
  BY DEF IInv, Grown, Kept
<1> QED
  BY <1>2, <1>3 DEF IInv, IdsDiffer

LEMMA GrownIsReflexive ==
  ASSUME NEW a \in Contents
  PROVE  Grown(a, a)
BY DEF Grown, Kept, Contents

LEMMA GrownIsTransitive ==
  ASSUME NEW a \in Contents, NEW b \in Contents, NEW c \in Contents, Grown(a, b), Grown(b, c)
  PROVE  Grown(a, c)
<1> SUFFICES ASSUME NEW t \in Tables
             PROVE  /\ Len(a[t]) <= Len(c[t])
                    /\ \A i \in 1..Len(a[t]) : Kept(a[t][i], c[t][i])
  BY DEF Grown
<1>1. Len(a[t]) \in Nat /\ Len(b[t]) \in Nat /\ Len(c[t]) \in Nat
  BY DEF Contents
<1>2. Len(a[t]) <= Len(b[t]) /\ Len(b[t]) <= Len(c[t])
  BY DEF Grown
<1>3. ASSUME NEW i \in 1..Len(a[t])
      PROVE  Kept(a[t][i], c[t][i])
  <2>1. i \in 1..Len(b[t])
    BY <1>1, <1>2
  <2>2. Kept(a[t][i], b[t][i]) /\ Kept(b[t][i], c[t][i])
    BY <2>1 DEF Grown
  <2> QED
    BY <2>2 DEF Kept
<1> QED
  BY <1>1, <1>2, <1>3

\* Inserting a row.
LEMMA InsertGrows ==
  ASSUME IInv, NEW t \in Tables, NEW row \in Rows
  PROVE  /\ Inserted(t, row) \in Contents
         /\ Grown(view, Inserted(t, row))
         /\ Len(Inserted(t, row)[t]) = Len(view[t]) + 1
         /\ Inserted(t, row)[t][Len(view[t]) + 1] = row
         /\ \A u \in Tables : \A i \in 1..Len(view[u]) : Inserted(t, row)[u][i] = view[u][i]
         /\ \A u \in Tables \ {t} : Inserted(t, row)[u] = view[u]
<1>1. view \in Contents
  BY DEF IInv, VarTypes
<1>2. Inserted(t, row) = [view EXCEPT ![t] = Append(view[t], row)]
  BY DEF Inserted
<1>3. Append(view[t], row) \in Seq(Rows) /\ Len(Append(view[t], row)) = Len(view[t]) + 1
  BY <1>1 DEF Contents
<1>4. \A i \in 1..Len(view[t]) : Append(view[t], row)[i] = view[t][i]
  BY <1>1 DEF Contents
<1>5. Append(view[t], row)[Len(view[t]) + 1] = row
  BY <1>1 DEF Contents
<1>6. Inserted(t, row) \in Contents
  BY <1>1, <1>2, <1>3 DEF Contents
<1>7. Inserted(t, row)[t] = Append(view[t], row) /\ \A u \in Tables \ {t} : Inserted(t, row)[u] = view[u]
  BY <1>1, <1>2 DEF Contents
<1>8. \A u \in Tables : \A i \in 1..Len(view[u]) : Inserted(t, row)[u][i] = view[u][i]
  BY <1>4, <1>7
<1>9. Grown(view, Inserted(t, row))
  <2> SUFFICES ASSUME NEW u \in Tables
               PROVE  Len(view[u]) <= Len(Inserted(t, row)[u])
    BY <1>8 DEF Grown, Kept
  <2>1. Len(view[u]) \in Nat
    BY <1>1 DEF Contents
  <2> QED
    BY <2>1, <1>3, <1>7
<1> QED
  BY <1>3, <1>5, <1>6, <1>7, <1>8, <1>9

LEMMA InsertFits ==
  ASSUME IInv, NEW t \in Tables, NEW row \in Rows, NEW made, minted \subseteq made,
         row.id \in (IF t = "trades" THEN made \ minted ELSE {Len(view[t]) + 1}),
         row.tag \in (IF t = "risk_events" THEN {None} ELSE Tags),
         row.pnl = None
  PROVE  RowsFit(Inserted(t, row), made) /\ IdsDiffer(Inserted(t, row))
<1> DEFINE new == Inserted(t, row)
           n   == Len(view[t])
<1> HIDE DEF new
<1>1. /\ Len(new[t]) = n + 1 /\ new[t][n + 1] = row
      /\ \A u \in Tables : \A i \in 1..Len(view[u]) : new[u][i] = view[u][i]
      /\ \A u \in Tables \ {t} : new[u] = view[u]
  BY InsertGrows DEF new
<1>2. \A u \in Tables : Len(view[u]) \in Nat
  BY DEF IInv, VarTypes, Contents
<1>3. RowsFit(view, minted) /\ IdsDiffer(view)
  BY DEF IInv
<1>4. \A i \in 1..(n + 1) : i = n + 1 \/ i \in 1..n
  BY <1>2
<1>5. RowsFit(new, made)
  <2> SUFFICES ASSUME NEW u \in Tables, NEW i \in 1..Len(new[u])
               PROVE  /\ new[u][i].id \in (IF u = "trades" THEN made ELSE {i})
                      /\ new[u][i].tag \in (IF u = "risk_events" THEN {None} ELSE Tags)
                      /\ u # "trades" => new[u][i].pnl = None
    BY DEF RowsFit
  <2>1. CASE i \in 1..Len(view[u])
    <3>1. new[u][i] = view[u][i]
      BY <2>1, <1>1
    <3>2. /\ view[u][i].id \in (IF u = "trades" THEN minted ELSE {i})
          /\ view[u][i].tag \in (IF u = "risk_events" THEN {None} ELSE Tags)
          /\ u # "trades" => view[u][i].pnl = None
      BY <2>1, <1>3 DEF RowsFit
    <3> QED
      BY <3>1, <3>2
  <2>2. CASE i \notin 1..Len(view[u])
    <3>1. u = t /\ i = n + 1
      BY <2>2, <1>1, <1>4
    <3> QED
      BY <3>1, <1>1
  <2> QED
    BY <2>1, <2>2
<1>6. IdsDiffer(new)
  <2> SUFFICES ASSUME NEW u \in Tables, NEW i \in 1..Len(new[u]), NEW j \in 1..Len(new[u]),
                      new[u][i].id = new[u][j].id
               PROVE  i = j
    BY DEF IdsDiffer
  <2>1. CASE u # t
    BY <2>1, <1>1, <1>3 DEF IdsDiffer
  <2>2. CASE u = t /\ t = "trades"
    <3>1. \A k \in 1..n : new[t][k].id \in minted
      BY <2>2, <1>1, <1>3 DEF RowsFit
    <3>2. new[t][n + 1].id \notin minted
      BY <2>2, <1>1
    <3>3. CASE i \in 1..n /\ j \in 1..n
      BY <3>3, <2>2, <1>1, <1>3 DEF IdsDiffer
    <3> QED
      BY <3>1, <3>2, <3>3, <2>2, <1>1, <1>4
  <2>3. CASE u = t /\ t # "trades"
    BY <2>3, <1>5 DEF RowsFit
  <2> QED
    BY <2>1, <2>2, <2>3
<1> QED
  BY <1>5, <1>6 DEF new

\* Closing a trade.
Updated(id, pnl) ==
  [view EXCEPT !["trades"] =
     [i \in DOMAIN @ |-> IF i \in Closable(id) THEN [@[i] EXCEPT !.pnl = pnl] ELSE @[i]]]

LEMMA CloseGrows ==
  ASSUME IInv, NEW id \in Trades, NEW pnl \in Profits
  PROVE  /\ Updated(id, pnl) \in Contents
         /\ Grown(view, Updated(id, pnl))
         /\ RowsFit(Updated(id, pnl), minted) /\ IdsDiffer(Updated(id, pnl))
<1> DEFINE new == Updated(id, pnl)
           q   == view["trades"]
           row(i) == IF i \in Closable(id) THEN [q[i] EXCEPT !.pnl = pnl] ELSE q[i]
<1>1. view \in Contents /\ "trades" \in Tables
  BY DEF IInv, VarTypes, Tables
<1>2. q \in Seq(Rows) /\ Len(q) \in Nat /\ DOMAIN q = 1..Len(q)
  BY <1>1 DEF Contents
<1>3. new = [view EXCEPT !["trades"] = [i \in 1..Len(q) |-> row(i)]]
  BY <1>2 DEF Updated
<1>4. \A i \in 1..Len(q) : row(i) \in Rows /\ Kept(q[i], row(i))
  <2> SUFFICES ASSUME NEW i \in 1..Len(q)
               PROVE  row(i) \in Rows /\ Kept(q[i], row(i))
    OBVIOUS
  <2>1. q[i] \in Rows
    BY <1>2
  <2>2. CASE i \in Closable(id)
    <3>1. q[i].pnl = None
      BY <2>2 DEF Closable
    <3>2. row(i) = [q[i] EXCEPT !.pnl = pnl]
      BY <2>2
    <3> QED
      BY <2>1, <3>1, <3>2 DEF Rows, Kept
  <2>3. CASE i \notin Closable(id)
    <3>1. row(i) = q[i]
      BY <2>3
    <3> QED
      BY <2>1, <3>1 DEF Kept
  <2> QED
    BY <2>2, <2>3
<1> HIDE DEF row, new
<1>5. [i \in 1..Len(q) |-> row(i)] \in Seq(Rows) /\ Len([i \in 1..Len(q) |-> row(i)]) = Len(q)
  BY <1>2, <1>4
<1>6. new["trades"] = [i \in 1..Len(q) |-> row(i)] /\ \A u \in Tables \ {"trades"} : new[u] = view[u]
  BY <1>1, <1>3 DEF Contents
<1>7. new \in Contents
  BY <1>1, <1>3, <1>5 DEF Contents
<1>8. \A u \in Tables : Len(new[u]) = Len(view[u]) /\ Len(view[u]) \in Nat
  BY <1>1, <1>5, <1>6 DEF Contents
<1>9. \A u \in Tables : \A i \in 1..Len(view[u]) : Kept(view[u][i], new[u][i])
  BY <1>4, <1>6 DEF Kept
<1>10. Grown(view, new)
  BY <1>8, <1>9 DEF Grown
<1>11. RowsFit(new, minted)
  <2> SUFFICES ASSUME NEW u \in Tables, NEW i \in 1..Len(new[u])
               PROVE  /\ new[u][i].id \in (IF u = "trades" THEN minted ELSE {i})
                      /\ new[u][i].tag \in (IF u = "risk_events" THEN {None} ELSE Tags)
                      /\ u # "trades" => new[u][i].pnl = None
    BY DEF RowsFit
  <2>1. i \in 1..Len(view[u])
    BY <1>8
  <2>2. Kept(view[u][i], new[u][i]) /\ RowsFit(view, minted)
    BY <2>1, <1>9 DEF IInv
  <2> QED
    BY <2>1, <2>2, <1>6 DEF Kept, RowsFit
<1>12. IdsDiffer(new)
  <2> SUFFICES ASSUME NEW u \in Tables, NEW i \in 1..Len(new[u]), NEW j \in 1..Len(new[u]),
                      new[u][i].id = new[u][j].id
               PROVE  i = j
    BY DEF IdsDiffer
  <2>1. view[u][i].id = new[u][i].id /\ view[u][j].id = new[u][j].id
    BY <1>8, <1>9 DEF Kept
  <2> QED
    BY <2>1, <1>8 DEF IInv, IdsDiffer
<1> QED
  BY <1>7, <1>10, <1>11, <1>12 DEF new

-----------------------------------------------------------------------------
(* Writes: what both outcomes of a statement and its commit leave *)

LEMMA MoreMade ==
  ASSUME NEW tables, NEW some, NEW made, some \subseteq made, RowsFit(tables, some)
  PROVE  RowsFit(tables, made)
<1> SUFFICES ASSUME NEW t \in Tables, NEW i \in 1..Len(tables[t])
             PROVE  /\ tables[t][i].id \in (IF t = "trades" THEN made ELSE {i})
                    /\ tables[t][i].tag \in (IF t = "risk_events" THEN {None} ELSE Tags)
                    /\ t # "trades" => tables[t][i].pnl = None
  BY DEF RowsFit
<1>1. /\ tables[t][i].id \in (IF t = "trades" THEN some ELSE {i})
      /\ tables[t][i].tag \in (IF t = "risk_events" THEN {None} ELSE Tags)
      /\ t # "trades" => tables[t][i].pnl = None
  BY DEF RowsFit
<1> QED
  BY <1>1

LEMMA WriteGrows ==
  ASSUME IInv, NEW made, minted \subseteq made,
         NEW new \in Contents, Grown(view, new), RowsFit(new, made), IdsDiffer(new),
         Execute(new) \/ ExecuteFails(new)
  PROVE  /\ {file', view'} \subseteq Contents /\ connected' \in BOOLEAN
         /\ Grown(file, file') /\ Grown(file', view')
         /\ RowsFit(file', made) /\ RowsFit(view', made) /\ IdsDiffer(view')
<1>1. /\ file \in Contents /\ view \in Contents /\ connected \in BOOLEAN
      /\ Grown(file, view) /\ IdsDiffer(view)
  BY DEF IInv, VarTypes
<1>2. RowsFit(file, made) /\ RowsFit(view, made)
  BY MoreMade DEF IInv
<1>3. Grown(file, new) /\ Grown(file, file) /\ Grown(new, new)
  BY <1>1, GrownIsReflexive, GrownIsTransitive
<1>4. IdsDiffer(file)
  BY FileIdsDiffer
<1>5. /\ connected' \in {connected, FALSE}
      /\ \/ file' = file /\ view' \in {file, view, new}
         \/ file' = new /\ view' = new
  BY DEF Execute, ExecuteFails
<1> QED
  BY <1>1, <1>2, <1>3, <1>4, <1>5

-----------------------------------------------------------------------------
(* The steps *)

\* What is durable stays so while the file grows.
LEMMA GrownKeeps ==
  ASSUME IInv, file' \in Contents, Grown(file, file')
  PROVE  \A t \in Tables : \A r \in returned[t] : \E i \in 1..Len(file'[t]) : Kept(r, file'[t][i])
<1> SUFFICES ASSUME NEW t \in Tables, NEW r \in returned[t]
             PROVE  \E i \in 1..Len(file'[t]) : Kept(r, file'[t][i])
  OBVIOUS
<1>1. PICK i \in 1..Len(file[t]) : Kept(r, file[t][i])
  BY DEF IInv, Durable
<1>2. Kept(file[t][i], file'[t][i]) /\ Len(file[t]) <= Len(file'[t])
  BY DEF Grown
<1>3. Len(file[t]) \in Nat /\ Len(file'[t]) \in Nat
  BY DEF IInv, VarTypes, Contents
<1>4. i \in 1..Len(file'[t]) /\ Kept(r, file'[t][i])
  BY <1>1, <1>2, <1>3 DEF Kept
<1> QED
  BY <1>4

LEMMA StaysDurable ==
  ASSUME IInv, file' \in Contents, Grown(file, file'), UNCHANGED returned
  PROVE  Durable'
<1>1. \A t \in Tables : \A r \in returned[t] : \E i \in 1..Len(file'[t]) : Kept(r, file'[t][i])
  BY GrownKeeps
<1> QED
  BY <1>1 DEF Durable

\* A log call: the write, and what it returns.
LEMMA LogStep ==
  ASSUME IInv, NEW t \in Tables, NEW row \in Rows, NEW made, minted \subseteq made,
         made \subseteq Trades, minted' = made,
         row.id \in (IF t = "trades" THEN made \ minted ELSE {Len(view[t]) + 1}),
         row.tag \in (IF t = "risk_events" THEN {None} ELSE Tags),
         row.pnl = None,
         Log(t, row)
  PROVE  IInv' /\ Grown(file, file')
<1> DEFINE new == Inserted(t, row)
<1>1. new \in Contents /\ Grown(view, new)
  BY InsertGrows
<1>2. RowsFit(new, made) /\ IdsDiffer(new)
  BY InsertFits
<1>3. new[t][Len(view[t]) + 1] = row /\ Len(view[t]) + 1 \in 1..Len(new[t])
  BY InsertGrows DEF IInv, VarTypes, Contents
<1>4. /\ Execute(new) \/ ExecuteFails(new)
      /\ clock' = clock
  BY DEF Log
<1> HIDE DEF new
<1>5. /\ {file', view'} \subseteq Contents /\ connected' \in BOOLEAN
      /\ Grown(file, file') /\ Grown(file', view')
      /\ RowsFit(file', made) /\ RowsFit(view', made) /\ IdsDiffer(view')
  BY <1>1, <1>2, <1>4, WriteGrows
<1>6. returned' \in [Tables -> SUBSET Rows] /\ Durable'
  <2>1. CASE UNCHANGED returned
    BY <2>1, <1>5, StaysDurable DEF IInv, VarTypes
  <2>2. CASE Execute(new) /\ returned' = [returned EXCEPT ![t] = @ \cup {row}]
    <3>1. \A u \in Tables : \A r \in returned[u] : \E i \in 1..Len(file'[u]) : Kept(r, file'[u][i])
      BY <1>5, GrownKeeps DEF IInv
    <3>2. file' = new
      BY <2>2 DEF Execute
    <3>3. Kept(row, file'[t][Len(view[t]) + 1])
      BY <3>2, <1>3 DEF Kept
    <3>4. returned' \in [Tables -> SUBSET Rows]
      BY <2>2 DEF IInv, VarTypes
    <3>5. \A u \in Tables : \A r \in returned'[u] : r \in returned[u] \/ (u = t /\ r = row)
      BY <2>2 DEF IInv, VarTypes
    <3> QED
      BY <3>1, <3>2, <3>3, <3>4, <3>5, <1>3 DEF Durable
  <2> QED
    BY <2>1, <2>2, <1>4 DEF Log, new
<1> QED
  BY <1>4, <1>5, <1>6 DEF IInv, VarTypes

\* The rows that calls insert.
LEMMA RowFacts ==
  ASSUME IInv, NEW id \in Trades \cup Nat, NEW tag \in Tags \cup {None}
  PROVE  /\ Row(id, tag) \in Rows
         /\ Row(id, tag).id = id /\ Row(id, tag).tag = tag /\ Row(id, tag).pnl = None
BY DEF Row, Rows, IInv, VarTypes

LEMMA NextStep ==
  ASSUME IInv, [Next]_vars
  PROVE  IInv' /\ Grown(file, file')
<1>1. /\ file \in Contents /\ view \in Contents /\ Grown(file, file)
      /\ RowsFit(file, minted)
  BY GrownIsReflexive DEF IInv, VarTypes
<1>2. IdsDiffer(file)
  BY FileIdsDiffer
<1>3. ASSUME NEW id \in Trades, NEW tag \in Tags, LogTrade(id, tag)
      PROVE  IInv' /\ Grown(file, file')
  <2>1. /\ minted \subseteq minted \cup {id} /\ minted \cup {id} \subseteq Trades
        /\ minted' = minted \cup {id}
        /\ id \in (minted \cup {id}) \ minted
        /\ Log("trades", Row(id, tag))
    BY <1>3 DEF LogTrade, IInv, VarTypes
  <2> QED
    BY <2>1, RowFacts, LogStep DEF Tables
<1>4. ASSUME NEW t \in Tables \ {"trades"}, NEW tag, Log(t, Row(NextId(t), tag)), UNCHANGED minted,
             tag \in (IF t = "risk_events" THEN {None} ELSE Tags)
      PROVE  IInv' /\ Grown(file, file')
  <2>1. NextId(t) \in Nat /\ NextId(t) = Len(view[t]) + 1 /\ tag \in Tags \cup {None}
    BY <1>1, <1>4 DEF NextId, Contents
  <2>2. minted \subseteq Trades
    BY DEF IInv, VarTypes
  <2>3. /\ Row(NextId(t), tag) \in Rows
        /\ Row(NextId(t), tag).id \in {Len(view[t]) + 1}
        /\ Row(NextId(t), tag).tag \in (IF t = "risk_events" THEN {None} ELSE Tags)
        /\ Row(NextId(t), tag).pnl = None
    BY <1>4, <2>1, RowFacts
  <2>4. t \in Tables /\ t # "trades" /\ minted' = minted /\ Log(t, Row(NextId(t), tag))
    BY <1>4
  <2> HIDE <1>4
  <2> QED
    BY <2>2, <2>3, <2>4, LogStep
<1>5. ASSUME NEW id \in Trades, NEW pnl \in Profits, CloseTrade(id, pnl)
      PROVE  IInv' /\ Grown(file, file')
  <2> DEFINE new == Updated(id, pnl)
  <2>1. /\ new \in Contents /\ Grown(view, new)
        /\ RowsFit(new, minted) /\ IdsDiffer(new)
    BY CloseGrows
  <2>2. /\ Execute(new) \/ ExecuteFails(new)
        /\ UNCHANGED <<clock, minted, returned>>
    BY <1>5 DEF CloseTrade, Updated
  <2> HIDE DEF new
  <2>3. /\ {file', view'} \subseteq Contents /\ connected' \in BOOLEAN
        /\ Grown(file, file') /\ Grown(file', view')
        /\ RowsFit(file', minted) /\ RowsFit(view', minted) /\ IdsDiffer(view')
    BY <2>1, <2>2, WriteGrows
  <2>4. Durable'
    BY <2>2, <2>3, StaysDurable
  <2> QED
    BY <2>2, <2>3, <2>4 DEF IInv, VarTypes
<1>6. ASSUME UNCHANGED file, view' \in {file, view}, connected' \in BOOLEAN, clock' \in 0..MaxClock,
             UNCHANGED <<minted, returned>>
      PROVE  IInv' /\ Grown(file, file')
  <2>1. /\ IdsDiffer(file) /\ IdsDiffer(view) /\ view' \in Contents
        /\ Grown(file, view') /\ RowsFit(view', minted) /\ IdsDiffer(view')
        /\ minted \subseteq Trades
    BY <1>1, <1>2, <1>6 DEF IInv, VarTypes
  <2>2. VarTypes'
    BY <1>1, <1>6, <2>1 DEF IInv, VarTypes
  <2>3. Durable'
    BY <1>6 DEF IInv, Durable
  <2> QED
    BY <1>1, <1>6, <2>1, <2>2, <2>3 DEF IInv
<1>7. CASE Connect \/ CloseOrCrash
  BY <1>6, <1>7 DEF Connect, CloseOrCrash, IInv, VarTypes
<1>8. ASSUME NEW t \in 0..MaxClock, SetClock(t)
      PROVE  IInv' /\ Grown(file, file')
  BY <1>6, <1>8 DEF SetClock, IInv, VarTypes
<1>9. ASSUME NEW tag \in Tags, LogDecision(tag) \/ LogEvent(tag)
      PROVE  IInv' /\ Grown(file, file')
  <2>1. "decisions" \in Tables \ {"trades"} /\ "events" \in Tables \ {"trades"}
    BY DEF Tables
  <2> QED
    BY <1>4, <1>9, <2>1 DEF LogDecision, LogEvent
<1>10. CASE LogRisk
  <2>1. "risk_events" \in Tables \ {"trades"}
    BY DEF Tables
  <2> QED
    BY <1>4, <1>10, <2>1 DEF LogRisk
<1>11. CASE UNCHANGED vars
  BY <1>6, <1>11 DEF vars, IInv, VarTypes
<1> QED
  BY <1>3, <1>5, <1>7, <1>8, <1>9, <1>10, <1>11 DEF Next

LEMMA InitInv ==
  ASSUME Init
  PROVE  IInv
<1>1. 0 \in 0..MaxClock
  BY JournalAssumption
<1>2. file \in Contents /\ \A t \in Tables : Len(file[t]) = 0
  BY DEF Init, Contents
<1>3. view = file /\ connected = FALSE /\ clock = 0 /\ minted = {}
      /\ \A t \in Tables : returned[t] = {}
  BY DEF Init
<1>4. VarTypes
  BY <1>1, <1>2 DEF Init, VarTypes
<1>5. \A t \in Tables : DOMAIN file[t] = {} /\ 1..Len(file[t]) = {}
  BY <1>2 DEF Contents
<1>6. RowsFit(file, minted) /\ RowsFit(view, minted)
  BY <1>3, <1>5 DEF RowsFit
<1>7. IdsDiffer(view)
  BY <1>3, <1>5 DEF IdsDiffer
<1>8. Grown(file, view)
  BY <1>2, <1>3, GrownIsReflexive
<1>9. Durable
  BY <1>3 DEF Durable
<1> QED
  BY <1>4, <1>6, <1>7, <1>8, <1>9 DEF IInv

LEMMA Inductive == Spec => []IInv
<1>1. IInv /\ [Next]_vars => IInv'
  BY NextStep
<1> QED
  BY InitInv, <1>1, PTL DEF Spec

-----------------------------------------------------------------------------
(* Theorems *)

\* Types of every variable; and ids: those of trades have been made, the other
\* tables number their rows, in the file and in an open transaction alike.
THEOREM TypeCorrect == Spec => []TypeOK
<1>1. IInv => TypeOK
  <2> SUFFICES ASSUME IInv
               PROVE  TypeOK
    OBVIOUS
  <2>1. \A t \in Tables : /\ Len(file[t]) \in Nat /\ DOMAIN file[t] = 1..Len(file[t])
                          /\ Len(view[t]) \in Nat /\ DOMAIN view[t] = 1..Len(view[t])
    BY DEF IInv, VarTypes, Contents
  <2>2. ASSUME NEW tables \in {file, view}, NEW t \in Tables, NEW i \in DOMAIN tables[t]
        PROVE  LET r == tables[t][i]
               IN  /\ IF t = "trades" THEN r.id \in minted ELSE r.id = i
                   /\ r.tag \in (IF t = "risk_events" THEN {None} ELSE Tags)
                   /\ r.created \in 0..MaxClock
                   /\ r.pnl \in {None} \cup (IF t = "trades" THEN Profits ELSE {})
    <3>1. i \in 1..Len(tables[t]) /\ tables[t][i] \in Rows
      BY <2>1, <2>2 DEF IInv, VarTypes, Contents
    <3>2. RowsFit(tables, minted)
      BY DEF IInv
    <3> QED
      BY <3>1, <3>2 DEF RowsFit, Rows
  <2> QED
    BY <2>1, <2>2 DEF TypeOK, IInv, VarTypes, Grown
<1> QED
  BY Inductive, <1>1, PTL

\* A row that log_trade, log_decision, log_risk or log_event returned is in the
\* file from then on, once, whatever raises and however often the process dies.
THEOREM Durability == Spec => []ReturnedIsDurable
<1>1. IInv => ReturnedIsDurable
  <2> SUFFICES ASSUME IInv, NEW t \in Tables, NEW r \in returned[t]
               PROVE  /\ \E i \in DOMAIN file[t] : Same(file[t][i], r)
                      /\ \A i, j \in DOMAIN view[t] :
                           view[t][i].id = r.id /\ view[t][j].id = r.id => i = j
    BY DEF ReturnedIsDurable
  <2>1. /\ file[t] \in Seq(Rows) /\ view[t] \in Seq(Rows) /\ r \in Rows
    BY DEF IInv, VarTypes, Contents
  <2>2. PICK i \in 1..Len(file[t]) : Kept(r, file[t][i])
    BY DEF IInv, Durable
  <2>3. Same(file[t][i], r)
    BY <2>1, <2>2, KeptIsSame
  <2> QED
    BY <2>1, <2>2, <2>3 DEF IInv, IdsDiffer
<1> QED
  BY Inductive, <1>1, PTL

\* No step takes a row out of the file or changes one, but for the close of an open
\* trade, by whatever calls, failures, crashes and restarts.
THEOREM Immutability == Spec => LoggedImmutably
<1>1. IInv /\ [Next]_vars => [\A t \in Tables : \A i \in DOMAIN file[t] :
                                /\ i \in DOMAIN file'[t]
                                /\ file[t][i].pnl # None => file'[t][i] = file[t][i]
                                /\ Same(file'[t][i], file[t][i])]_vars
  <2> SUFFICES ASSUME IInv, [Next]_vars, NEW t \in Tables, NEW i \in DOMAIN file[t]
               PROVE  /\ i \in DOMAIN file'[t]
                      /\ file[t][i].pnl # None => file'[t][i] = file[t][i]
                      /\ Same(file'[t][i], file[t][i])
    OBVIOUS
  <2>1. IInv' /\ Grown(file, file')
    BY NextStep
  <2>2. file[t] \in Seq(Rows) /\ file'[t] \in Seq(Rows)
    BY <2>1 DEF IInv, VarTypes, Contents
  <2>3. i \in 1..Len(file[t]) /\ i \in 1..Len(file'[t]) /\ i \in DOMAIN file'[t]
    BY <2>1, <2>2 DEF Grown
  <2>4. file[t][i] \in Rows /\ file'[t][i] \in Rows /\ Kept(file[t][i], file'[t][i])
    BY <2>1, <2>2, <2>3 DEF Grown
  <2> QED
    BY <2>3, <2>4, KeptIsSame DEF Kept, Rows
<1> QED
  BY Inductive, <1>1, PTL DEF Spec, LoggedImmutably

-----------------------------------------------------------------------------
(* Queries *)

StrictOrder(S, R) ==
  /\ \A x, y \in S : <<x, y>> \in R \/ <<y, x>> \in R \/ x = y
  /\ \A x, y \in S : <<x, y>> \in R => <<y, x>> \notin R
  /\ \A x, y, z \in S : <<x, y>> \in R /\ <<y, z>> \in R => <<x, z>> \in R

Lesser(n, m) == IF n < m THEN n ELSE m

\* Whoever comes before x in a strict order comes to fewer than S, and to fewer
\* than those before a later one.
LEMMA Places ==
  ASSUME NEW S, IsFiniteSet(S), NEW R, StrictOrder(S, R)
  PROVE  LET place(x) == Cardinality({y \in S : <<y, x>> \in R}) + 1
         IN  /\ Cardinality(S) \in Nat
             /\ \A x \in S : place(x) \in 1..Cardinality(S)
             /\ \A x, y \in S : <<x, y>> \in R => place(x) < place(y)
             /\ \A x, y \in S : place(x) = place(y) => x = y
             /\ \A k \in 1..Cardinality(S) : \E x \in S : place(x) = k
<1> DEFINE before(x) == {y \in S : <<y, x>> \in R}
           place(x) == Cardinality(before(x)) + 1
           n == Cardinality(S)
<1>1. n \in Nat
  BY FS_CardinalityType
<1>2. ASSUME NEW x \in S
      PROVE  IsFiniteSet(before(x)) /\ Cardinality(before(x)) \in Nat /\ Cardinality(before(x)) < n
  <2>1. before(x) \in SUBSET S /\ x \notin before(x)
    BY DEF StrictOrder
  <2> HIDE DEF before
  <2>2. IsFiniteSet(before(x)) /\ Cardinality(before(x)) <= n /\ Cardinality(before(x)) # n
    BY <2>1, FS_Subset
  <2>3. Cardinality(before(x)) \in Nat
    BY <2>2, FS_CardinalityType
  <2> QED
    BY <1>1, <2>2, <2>3
<1>3. ASSUME NEW x \in S, NEW y \in S, <<x, y>> \in R
      PROVE  Cardinality(before(x)) < Cardinality(before(y))
  <2>1. before(x) \in SUBSET before(y) /\ x \in before(y) /\ x \notin before(x)
    BY <1>3 DEF StrictOrder
  <2> HIDE DEF before
  <2>2. /\ Cardinality(before(x)) <= Cardinality(before(y))
        /\ Cardinality(before(x)) # Cardinality(before(y))
    BY <1>2, <2>1, FS_Subset
  <2> QED
    BY <1>2, <2>2
<1> HIDE DEF before, n
<1>4. \A x \in S : place(x) \in 1..n
  BY <1>1, <1>2
<1>5. \A x, y \in S : <<x, y>> \in R => place(x) < place(y)
  BY <1>2, <1>3
<1> HIDE DEF place
<1>6. \A x, y \in S : place(x) = place(y) => x = y
  <2> SUFFICES ASSUME NEW x \in S, NEW y \in S, place(x) = place(y) PROVE x = y
    OBVIOUS
  <2>1. ~(place(x) < place(y)) /\ ~(place(y) < place(x))
    BY <1>1, <1>4
  <2>2. <<x, y>> \notin R /\ <<y, x>> \notin R
    BY <1>5, <2>1
  <2> QED
    BY <2>2 DEF StrictOrder
<1>7. ASSUME NEW k \in 1..n PROVE \E x \in S : place(x) = k
  <2> DEFINE f == [x \in S |-> place(x)]
  <2>1. f \in Injection(S, 1..n)
    BY <1>4, <1>6 DEF Injection, IsInjective
  <2>2. IsFiniteSet(1..n) /\ Cardinality(1..n) = n
    BY <1>1, FS_Interval
  <2>3. f \in Surjection(S, 1..n)
    BY <2>1, <2>2, FS_Injection DEF n
  <2> QED
    BY <2>3 DEF Surjection
<1> QED
  BY <1>1, <1>4, <1>5, <1>6, <1>7 DEF place, before, n

LEMMA OrderedRight ==
  ASSUME NEW S, IsFiniteSet(S), NEW R, StrictOrder(S, R), NEW n \in Nat
  PROVE  LET s == Ordered(S, R, n)
         IN  /\ s \in [1..Lesser(n, Cardinality(S)) -> S] /\ s \in Seq(S)
             /\ Len(s) = Lesser(n, Cardinality(S)) /\ Cardinality(S) \in Nat
             /\ \A i, j \in 1..Len(s) : i < j => <<s[i], s[j]>> \in R
             /\ \A x \in S : \/ \E i \in 1..Len(s) : s[i] = x
                             \/ \A i \in 1..Len(s) : <<s[i], x>> \in R
<1> DEFINE place(x) == Cardinality({y \in S : <<y, x>> \in R}) + 1
           c == Cardinality(S)
           m == Lesser(n, c)
           s == Ordered(S, R, n)
<1>1. /\ c \in Nat
      /\ \A x \in S : place(x) \in 1..c
      /\ \A x, y \in S : <<x, y>> \in R => place(x) < place(y)
      /\ \A x, y \in S : place(x) = place(y) => x = y
      /\ \A k \in 1..c : \E x \in S : place(x) = k
  BY Places
<1>2. s = [k \in 1..m |-> CHOOSE x \in S : place(x) = k]
  BY DEF Ordered, Lesser
<1> HIDE DEF place, c, s
<1>3. m \in Nat /\ m <= c
  BY <1>1 DEF Lesser
<1> HIDE DEF m
<1>4. \A k \in 1..m : s[k] \in S /\ place(s[k]) = k
  <2> TAKE k \in 1..m
  <2>1. k \in 1..c
    BY <1>1, <1>3
  <2>2. \E x \in S : place(x) = k
    BY <1>1, <2>1
  <2>3. s[k] = CHOOSE x \in S : place(x) = k
    BY <1>2
  <2> QED
    BY <2>2, <2>3
<1>5. s \in [1..m -> S] /\ s \in Seq(S) /\ Len(s) = m
  <2>1. s \in [1..m -> S]
    BY <1>2, <1>4
  <2> QED
    BY <1>3, <2>1
<1>6. ASSUME NEW i \in 1..m, NEW j \in 1..m, i < j PROVE <<s[i], s[j]>> \in R
  <2>1. s[i] # s[j] /\ ~(place(s[j]) < place(s[i]))
    BY <1>3, <1>4, <1>6
  <2> QED
    BY <1>1, <1>4, <2>1 DEF StrictOrder
<1>7. ASSUME NEW x \in S, \A i \in 1..m : s[i] # x, NEW i \in 1..m
      PROVE  <<s[i], x>> \in R
  <2>1. place(x) \notin 1..m
    <3>1. ASSUME place(x) \in 1..m PROVE FALSE
      <4>1. place(s[place(x)]) = place(x) /\ s[place(x)] \in S
        BY <1>4, <3>1
      <4>2. s[place(x)] = x
        BY <1>1, <4>1
      <4> QED
        BY <1>7, <3>1, <4>2
    <3> QED
      BY <3>1
  <2>2. ~(place(x) < place(s[i]))
    BY <1>1, <1>3, <1>4, <2>1
  <2> QED
    BY <1>1, <1>4, <1>7, <2>2 DEF StrictOrder
<1> QED
  BY <1>1, <1>5, <1>6, <1>7 DEF s, m, c

\* The rows of a table, the later ones first, in a strict order.
LEMMA NewestRight ==
  ASSUME IInv, NEW t \in Tables, NEW S \in SUBSET (DOMAIN view[t]), NEW n \in Nat
  PROVE  /\ NewestFirst(t, S, n) \in Seq(Rows)
         /\ Newest(NewestFirst(t, S, n), {view[t][i] : i \in S}, n)
<1> DEFINE rows == view[t]
           newer == {p \in S \X S :
                       \/ rows[p[1]].created > rows[p[2]].created
                       \/ rows[p[1]].created = rows[p[2]].created /\ p[1] > p[2]}
           order == Ordered(S, newer, n)
           found == NewestFirst(t, S, n)
           chosen == {rows[i] : i \in S}
           m == Lesser(n, Cardinality(S))
<1>1. /\ rows \in Seq(Rows) /\ DOMAIN rows = 1..Len(rows) /\ Len(rows) \in Nat
      /\ \A i \in S : i \in Nat /\ i \in 1..Len(rows) /\ rows[i] \in Rows /\ rows[i].created \in Nat
  <2>1. rows \in Seq(Rows)
    BY DEF IInv, VarTypes, Contents
  <2>2. DOMAIN rows = 1..Len(rows) /\ Len(rows) \in Nat
    BY <2>1
  <2>3. \A r \in Rows : r.created \in Nat
    BY JournalAssumption DEF Rows
  <2>4. \A i \in 1..Len(rows) : rows[i] \in Rows
    BY <2>1
  <2> HIDE DEF rows
  <2>5. \A i \in S : i \in 1..Len(rows)
    BY <2>2 DEF rows
  <2> QED
    BY <2>1, <2>2, <2>3, <2>4, <2>5
<1>2. IsFiniteSet(S)
  <2>1. IsFiniteSet(1..Len(rows)) /\ S \in SUBSET (1..Len(rows))
    BY <1>1, FS_Interval
  <2> QED
    BY <2>1, FS_Subset
<1>3. \A i, j \in S : rows[i] = rows[j] => i = j
  BY <1>1 DEF IInv, IdsDiffer
<1>4. \A i, j \in S :
        <<i, j>> \in newer <=> \/ rows[i].created > rows[j].created
                               \/ rows[i].created = rows[j].created /\ i > j
  <2> TAKE i, j \in S
  <2>1. <<i, j>> \in S \X S /\ <<i, j>>[1] = i /\ <<i, j>>[2] = j
    OBVIOUS
  <2> HIDE DEF rows
  <2> QED
    BY <2>1, Zenon DEF newer
<1> HIDE DEF rows, newer
<1>5. StrictOrder(S, newer)
  <2>1. \A x, y \in S : <<x, y>> \in newer \/ <<y, x>> \in newer \/ x = y
    <3> SUFFICES ASSUME NEW x \in S, NEW y \in S PROVE <<x, y>> \in newer \/ <<y, x>> \in newer \/ x = y
      OBVIOUS
    <3>1. x \in Nat /\ y \in Nat /\ rows[x].created \in Nat /\ rows[y].created \in Nat
      BY <1>1
    <3>2. \/ rows[x].created > rows[y].created \/ (rows[x].created = rows[y].created /\ x > y)
          \/ rows[y].created > rows[x].created \/ (rows[y].created = rows[x].created /\ y > x)
          \/ x = y
      BY <3>1
    <3> QED
      BY <1>4, <3>2
  <2>2. \A x, y \in S : <<x, y>> \in newer => <<y, x>> \notin newer
    <3> SUFFICES ASSUME NEW x \in S, NEW y \in S, <<x, y>> \in newer, <<y, x>> \in newer PROVE FALSE
      OBVIOUS
    <3>1. x \in Nat /\ y \in Nat /\ rows[x].created \in Nat /\ rows[y].created \in Nat
      BY <1>1
    <3>2. /\ rows[x].created > rows[y].created \/ (rows[x].created = rows[y].created /\ x > y)
          /\ rows[y].created > rows[x].created \/ (rows[y].created = rows[x].created /\ y > x)
      BY <1>4
    <3> QED
      BY <3>1, <3>2
  <2>3. \A x, y, z \in S : <<x, y>> \in newer /\ <<y, z>> \in newer => <<x, z>> \in newer
    <3> SUFFICES ASSUME NEW x \in S, NEW y \in S, NEW z \in S, <<x, y>> \in newer, <<y, z>> \in newer
                 PROVE  <<x, z>> \in newer
      OBVIOUS
    <3>1. /\ x \in Nat /\ y \in Nat /\ rows[x].created \in Nat /\ rows[y].created \in Nat
          /\ z \in Nat /\ rows[z].created \in Nat
      BY <1>1
    <3>2. /\ rows[x].created > rows[y].created \/ (rows[x].created = rows[y].created /\ x > y)
          /\ rows[y].created > rows[z].created \/ (rows[y].created = rows[z].created /\ y > z)
      BY <1>4
    <3>3. rows[x].created > rows[z].created \/ (rows[x].created = rows[z].created /\ x > z)
      BY <3>1, <3>2
    <3> QED
      BY <1>4, <3>3
  <2> QED
    BY <2>1, <2>2, <2>3 DEF StrictOrder
<1>6. /\ order \in [1..m -> S] /\ order \in Seq(S) /\ Len(order) = m /\ Cardinality(S) \in Nat
      /\ \A i, j \in 1..m : i < j => <<order[i], order[j]>> \in newer
      /\ \A x \in S : \/ \E i \in 1..m : order[i] = x
                      \/ \A i \in 1..m : <<order[i], x>> \in newer
  BY <1>2, <1>5, OrderedRight
<1>7. found = [k \in DOMAIN order |-> rows[order[k]]]
  BY DEF NewestFirst, rows, newer
<1>8. IsFiniteSet(chosen) /\ Cardinality(chosen) = Cardinality(S)
  <2> DEFINE f == [i \in S |-> rows[i]]
  <2>1. f \in Bijection(S, chosen)
    <3>1. f \in [S -> chosen] /\ \A x \in chosen : \E i \in S : f[i] = x
      OBVIOUS
    <3> QED
      BY <1>3, <3>1 DEF Bijection, Injection, Surjection, IsInjective
  <2> HIDE DEF f
  <2> QED
    BY <1>2, <2>1, FS_Bijection DEF ExistsBijection
<1>9. m \in Nat
  BY <1>6 DEF Lesser
<1> HIDE DEF order, found
<1>10. /\ found \in Seq(Rows) /\ Len(found) = m /\ DOMAIN found = 1..m
       /\ \A k \in 1..m : found[k] = rows[order[k]] /\ order[k] \in S
  <2>1. DOMAIN order = 1..m /\ \A k \in 1..m : order[k] \in S
    BY <1>6
  <2> HIDE DEF m
  <2>2. found = [k \in 1..m |-> rows[order[k]]]
    BY <1>7, <2>1
  <2>3. \A k \in 1..m : rows[order[k]] \in Rows
    BY <1>1, <2>1
  <2>4. found \in [1..m -> Rows]
    BY <2>2, <2>3
  <2> QED
    BY <1>9, <2>1, <2>2, <2>4
<1> HIDE DEF m
<1>11. \A i, j \in 1..m : i < j => found[i].created >= found[j].created
  <2> SUFFICES ASSUME NEW i \in 1..m, NEW j \in 1..m, i < j PROVE found[i].created >= found[j].created
    OBVIOUS
  <2> DEFINE x == order[i]
             y == order[j]
  <2>1. <<x, y>> \in newer /\ x \in S /\ y \in S /\ found[i] = rows[x] /\ found[j] = rows[y]
    BY <1>6, <1>10
  <2> HIDE DEF x, y
  <2>2. /\ rows[x].created \in Nat /\ rows[y].created \in Nat
        /\ rows[x].created > rows[y].created \/ rows[x].created = rows[y].created
    BY <1>1, <1>4, <2>1
  <2> QED
    BY <2>1, <2>2
<1>12. IsInjective(found)
  <2> SUFFICES ASSUME NEW i \in 1..m, NEW j \in 1..m, found[i] = found[j] PROVE i = j
    BY <1>10 DEF IsInjective
  <2>1. order[i] = order[j] /\ order[i] \in S
    BY <1>3, <1>10
  <2>2. ~(i < j) /\ ~(j < i)
    BY <1>5, <1>6, <2>1 DEF StrictOrder
  <2> QED
    BY <1>9, <2>2
<1>13. ToSet(found) \subseteq chosen
  BY <1>10 DEF ToSet
<1>14. ASSUME NEW r \in chosen \ ToSet(found), NEW i \in 1..m PROVE found[i].created >= r.created
  <2>1. PICK x \in S : r = rows[x]
    BY <1>14
  <2>2. \A k \in 1..m : order[k] # x
    BY <1>10, <1>14, <2>1 DEF ToSet
  <2> DEFINE y == order[i]
  <2>3. <<y, x>> \in newer /\ y \in S /\ found[i] = rows[y]
    BY <1>6, <1>10, <2>2
  <2> HIDE DEF y
  <2>4. /\ rows[x].created \in Nat /\ rows[y].created \in Nat
        /\ rows[y].created > rows[x].created \/ rows[y].created = rows[x].created
    BY <1>1, <1>4, <2>3
  <2> QED
    BY <2>1, <2>3, <2>4
<1>15. Newest(found, chosen, n)
  <2>1. Len(found) = IF n < Cardinality(chosen) THEN n ELSE Cardinality(chosen)
    BY <1>8, <1>10 DEF m, Lesser
  <2> HIDE DEF chosen
  <2> QED
    BY <1>10, <1>11, <1>12, <1>13, <1>14, <2>1 DEF Newest
<1> QED
  BY <1>10, <1>15 DEF found, rows, chosen

\* A list without repetition has as many members as it is long.
LEMMA ListMembers ==
  ASSUME NEW S, NEW s \in Seq(S), IsInjective(s)
  PROVE  IsFiniteSet(ToSet(s)) /\ Cardinality(ToSet(s)) = Len(s)
<1>1. DOMAIN s = 1..Len(s) /\ Len(s) \in Nat
  OBVIOUS
<1>2. s \in Bijection(1..Len(s), ToSet(s))
  <2>1. s \in [1..Len(s) -> ToSet(s)]
    BY <1>1 DEF ToSet
  <2> QED
    BY <1>1, <2>1 DEF Bijection, Injection, Surjection, IsInjective, ToSet
<1>3. IsFiniteSet(1..Len(s)) /\ Cardinality(1..Len(s)) = Len(s)
  BY <1>1, FS_Interval
<1> QED
  BY <1>2, <1>3, FS_Bijection DEF ExistsBijection

\* The newest rows of a table, when they are fewer than asked for, are all.
LEMMA FewAreAll ==
  ASSUME IInv, NEW t \in Tables, NEW n \in Nat, NEW s \in Seq(Rows),
         Newest(s, ToSet(view[t]), n)
  PROVE  /\ Len(s) \in Nat /\ Len(s) <= n
         /\ Len(s) < n => ToSet(s) = ToSet(view[t])
<1>1. view[t] \in Seq(Rows) /\ IsInjective(view[t])
  <2>1. view[t] \in Seq(Rows)
    BY DEF IInv, VarTypes, Contents
  <2>2. DOMAIN view[t] = 1..Len(view[t])
    BY <2>1
  <2>3. ASSUME NEW i \in DOMAIN view[t], NEW j \in DOMAIN view[t], view[t][i] = view[t][j] PROVE i = j
    BY <2>3 DEF IInv, IdsDiffer
  <2> QED
    BY <2>1, <2>3 DEF IsInjective
<1>2. /\ IsFiniteSet(ToSet(view[t])) /\ Cardinality(ToSet(view[t])) \in Nat
  BY <1>1, ListMembers, FS_CardinalityType
<1>3. IsFiniteSet(ToSet(s)) /\ Cardinality(ToSet(s)) = Len(s) /\ ToSet(s) \subseteq ToSet(view[t])
  BY ListMembers DEF Newest
<1>4. Len(s) = IF n < Cardinality(ToSet(view[t])) THEN n ELSE Cardinality(ToSet(view[t]))
  BY DEF Newest
<1>5. Len(s) \in Nat /\ Len(s) <= n
  BY <1>2, <1>4
<1>6. ASSUME Len(s) < n PROVE ToSet(s) = ToSet(view[t])
  <2>1. Cardinality(ToSet(s)) = Cardinality(ToSet(view[t]))
    BY <1>2, <1>3, <1>4, <1>6
  <2> QED
    BY <1>2, <1>3, <2>1, FS_Subset
<1> QED
  BY <1>5, <1>6

\* The positions in four lists, and what is at them.
Positions(lists) == UNION {{t} \X DOMAIN lists[t] : t \in Tables}
At(lists, x) == Entry(x[1], lists[x[1]][x[2]])
Listed(lists) == lists \in [Tables -> Seq(Rows)] /\ \A t \in Tables : IsInjective(lists[t])

LEMMA PositionFacts ==
  ASSUME NEW lists, Listed(lists)
  PROVE  /\ \A t \in Tables : /\ Len(lists[t]) \in Nat /\ DOMAIN lists[t] = 1..Len(lists[t])
                              /\ \A k \in 1..Len(lists[t]) : <<t, k>> \in Positions(lists)
         /\ \A x \in Positions(lists) :
              /\ x = <<x[1], x[2]>> /\ x[1] \in Tables /\ x[2] \in 1..Len(lists[x[1]])
              /\ x[2] \in Nat /\ lists[x[1]][x[2]] \in Rows /\ lists[x[1]][x[2]].created \in Nat
         /\ \A x, y \in Positions(lists) : At(lists, x) = At(lists, y) => x = y
         /\ IsFiniteSet(Positions(lists))
<1>1. \A t \in Tables : /\ Len(lists[t]) \in Nat /\ DOMAIN lists[t] = 1..Len(lists[t])
                        /\ \A k \in 1..Len(lists[t]) : lists[t][k] \in Rows
  BY DEF Listed
<1>2. \A t \in Tables : \A k \in 1..Len(lists[t]) : <<t, k>> \in Positions(lists)
  BY <1>1 DEF Positions
<1>3. ASSUME NEW x \in Positions(lists)
      PROVE  /\ x = <<x[1], x[2]>> /\ x[1] \in Tables /\ x[2] \in 1..Len(lists[x[1]])
             /\ x[2] \in Nat /\ lists[x[1]][x[2]] \in Rows /\ lists[x[1]][x[2]].created \in Nat
  <2>1. PICK t \in Tables : x \in {t} \X DOMAIN lists[t]
    BY DEF Positions
  <2>2. x = <<x[1], x[2]>> /\ x[1] = t /\ x[2] \in 1..Len(lists[t])
    BY <1>1, <2>1
  <2>3. x[1] \in Tables /\ x[2] \in 1..Len(lists[x[1]]) /\ Len(lists[x[1]]) \in Nat
        /\ lists[x[1]][x[2]] \in Rows
    BY <1>1, <2>2
  <2>4. \A r \in Rows : r.created \in Nat
    BY JournalAssumption DEF Rows
  <2> QED
    BY <2>2, <2>3, <2>4
<1>4. ASSUME NEW x \in Positions(lists), NEW y \in Positions(lists), At(lists, x) = At(lists, y)
      PROVE  x = y
  <2>1. x[1] = y[1] /\ lists[x[1]][x[2]] = lists[y[1]][y[2]]
    BY <1>4 DEF At, Entry
  <2>2. x[1] \in Tables /\ x[2] \in DOMAIN lists[x[1]] /\ y[2] \in DOMAIN lists[x[1]]
        /\ IsInjective(lists[x[1]])
    BY <1>1, <1>3, <2>1 DEF Listed
  <2>3. x[2] = y[2]
    BY <2>1, <2>2 DEF IsInjective
  <2> QED
    BY <1>3, <2>1, <2>3
<1>5. IsFiniteSet(Positions(lists))
  <2> DEFINE of(t) == {t} \X DOMAIN lists[t]
  <2>1. \A t \in Tables : IsFiniteSet(of(t))
    <3> TAKE t \in Tables
    <3> DEFINE size == Len(lists[t])
    <3>1. size \in Nat
      BY <1>1
    <3> HIDE DEF size
    <3>2. IsFiniteSet(1..size)
      BY <3>1, FS_Interval
    <3>3. IsFiniteSet({t})
      BY FS_Singleton
    <3>4. IsFiniteSet({t} \X (1..Len(lists[t])))
      BY <3>2, <3>3, FS_Product DEF size
    <3> QED
      BY <1>1, <3>4
  <2>2. Positions(lists) = ((of("trades") \cup of("decisions")) \cup of("risk_events")) \cup of("events")
    BY DEF Positions, Tables
  <2> HIDE DEF of
  <2>3. IsFiniteSet(of("trades") \cup of("decisions"))
    BY <2>1, FS_Union DEF Tables
  <2>4. IsFiniteSet((of("trades") \cup of("decisions")) \cup of("risk_events"))
    BY <2>1, <2>3, FS_Union DEF Tables
  <2> QED
    BY <2>1, <2>2, <2>4, FS_Union DEF Tables
<1> QED
  BY <1>1, <1>2, <1>3, <1>4, <1>5

\* One list takes as many positions as it is long.
LEMMA BlockOfList ==
  ASSUME NEW lists, Listed(lists), NEW t \in Tables
  PROVE  LET block == {<<t, k>> : k \in DOMAIN lists[t]}
         IN  /\ IsFiniteSet(block) /\ Cardinality(block) = Len(lists[t])
             /\ block \subseteq Positions(lists)
<1> DEFINE size == Len(lists[t])
           f == [k \in 1..size |-> <<t, k>>]
<1>1. size \in Nat /\ DOMAIN lists[t] = 1..size /\ \A k \in 1..size : <<t, k>> \in Positions(lists)
  BY PositionFacts
<1> HIDE DEF size
<1>2. f \in Seq(Positions(lists)) /\ Len(f) = size
  BY <1>1
<1>3. IsInjective(f) /\ ToSet(f) = {<<t, k>> : k \in 1..size}
  BY DEF IsInjective, ToSet
<1> HIDE DEF f
<1>4. IsFiniteSet(ToSet(f)) /\ Cardinality(ToSet(f)) = size
  BY <1>2, <1>3, ListMembers
<1> QED
  BY <1>1, <1>3, <1>4 DEF size

\* Which of two positions get_recent puts first.
Time(lists, x) == lists[x[1]][x[2]].created
Earlier(x, y) == Nth[x[1]] < Nth[y[1]] \/ (x[1] = y[1] /\ x[2] < y[2])
Later(lists, x, y) == \/ Time(lists, x) > Time(lists, y)
                      \/ Time(lists, x) = Time(lists, y) /\ Earlier(x, y)
Newer(lists) == {p \in Positions(lists) \X Positions(lists) : Later(lists, p[1], p[2])}

LEMMA EarlierOrders ==
  ASSUME NEW lists, Listed(lists), NEW x \in Positions(lists), NEW y \in Positions(lists)
  PROVE  /\ Earlier(x, y) \/ Earlier(y, x) \/ x = y
         /\ Earlier(x, y) => ~Earlier(y, x)
         /\ \A z \in Positions(lists) : Earlier(x, y) /\ Earlier(y, z) => Earlier(x, z)
<1>1. \A t \in Tables : Nth[t] \in Nat
  BY DEF Nth, Tables
<1>2. \A t, u \in Tables : Nth[t] = Nth[u] => t = u
  BY DEF Nth, Tables
<1>3. \A u \in Positions(lists) : u[1] \in Tables /\ u[2] \in Nat /\ u = <<u[1], u[2]>>
  BY PositionFacts
<1> DEFINE a(u) == Nth[u[1]]
           b(u) == u[2]
<1>4. \A u, v \in Positions(lists) : Earlier(u, v) <=> a(u) < a(v) \/ (a(u) = a(v) /\ b(u) < b(v))
  BY <1>2, <1>3 DEF Earlier
<1>5. \A u \in Positions(lists) : a(u) \in Nat /\ b(u) \in Nat
  BY <1>1, <1>3
<1>6. a(x) = a(y) /\ b(x) = b(y) => x = y
  BY <1>2, <1>3
<1> HIDE DEF a, b
<1>7. Earlier(x, y) \/ Earlier(y, x) \/ x = y
  BY <1>4, <1>5, <1>6
<1>8. Earlier(x, y) => ~Earlier(y, x)
  BY <1>4, <1>5
<1>9. ASSUME NEW z \in Positions(lists), Earlier(x, y), Earlier(y, z) PROVE Earlier(x, z)
  BY <1>4, <1>5, <1>9
<1> QED
  BY <1>7, <1>8, <1>9

LEMMA NewerOrders ==
  ASSUME NEW lists, Listed(lists)
  PROVE  /\ StrictOrder(Positions(lists), Newer(lists))
         /\ \A x, y \in Positions(lists) :
              <<x, y>> \in Newer(lists) => Time(lists, x) >= Time(lists, y)
<1> DEFINE P == Positions(lists)
           R == Newer(lists)
           time(x) == Time(lists, x)
<1>1. ASSUME NEW x \in P, NEW y \in P
      PROVE  <<x, y>> \in R <=> time(x) > time(y) \/ (time(x) = time(y) /\ Earlier(x, y))
  <2>1. <<x, y>> \in P \X P /\ <<x, y>>[1] = x /\ <<x, y>>[2] = y
    OBVIOUS
  <2>2. <<x, y>> \in R <=> Later(lists, x, y)
    BY <2>1, Zenon DEF Newer
  <2> QED
    BY <2>2 DEF Later
<1>2. \A x \in P : time(x) \in Nat
  BY PositionFacts DEF Time
<1> HIDE DEF P, R, time
<1>3. ASSUME NEW x \in P, NEW y \in P
      PROVE  /\ <<x, y>> \in R \/ <<y, x>> \in R \/ x = y
             /\ <<x, y>> \in R => <<y, x>> \notin R
             /\ <<x, y>> \in R => time(x) >= time(y)
  <2>1. Earlier(x, y) \/ Earlier(y, x) \/ x = y
    BY EarlierOrders DEF P
  <2>2. Earlier(x, y) => ~Earlier(y, x)
    BY EarlierOrders DEF P
  <2>3. time(x) \in Nat /\ time(y) \in Nat
    BY <1>2
  <2> QED
    BY <1>1, <2>1, <2>2, <2>3
<1>4. ASSUME NEW x \in P, NEW y \in P, NEW z \in P, <<x, y>> \in R, <<y, z>> \in R
      PROVE  <<x, z>> \in R
  <2>1. Earlier(x, y) /\ Earlier(y, z) => Earlier(x, z)
    BY EarlierOrders DEF P
  <2>2. time(x) \in Nat /\ time(y) \in Nat /\ time(z) \in Nat
    BY <1>2
  <2>3. time(x) > time(y) \/ (time(x) = time(y) /\ Earlier(x, y))
    BY <1>1, <1>4
  <2>4. time(y) > time(z) \/ (time(y) = time(z) /\ Earlier(y, z))
    BY <1>1, <1>4
  <2>5. time(x) > time(z) \/ (time(x) = time(z) /\ Earlier(x, z))
    BY <2>1, <2>2, <2>3, <2>4
  <2> QED
    BY <1>1, <2>5
<1>5. StrictOrder(P, R)
  BY <1>3, <1>4 DEF StrictOrder
<1>6. \A x, y \in P : <<x, y>> \in R => time(x) >= time(y)
  BY <1>3
<1> QED
  BY <1>5, <1>6 DEF P, R, time

\* Which positions the merged list shows, and in what order.
MergedBy(lists, n, order, m) ==
  LET s == Merge(lists, n)
  IN  /\ m = Lesser(n, Cardinality(Positions(lists))) /\ m \in Nat /\ m <= n
      /\ Cardinality(Positions(lists)) \in Nat
      /\ order \in Seq(Positions(lists)) /\ Len(order) = m /\ DOMAIN order = 1..m
      /\ IsInjective(order)
      /\ \A i, j \in 1..m : i < j => Time(lists, order[i]) >= Time(lists, order[j])
      /\ \A x \in Positions(lists) : \/ \E i \in 1..m : order[i] = x
                                     \/ \A i \in 1..m : Time(lists, order[i]) >= Time(lists, x)
      /\ DOMAIN s = 1..m /\ Len(s) = m
      /\ \A k \in 1..m : order[k] \in Positions(lists) /\ s[k] = At(lists, order[k])

LEMMA MergeFacts ==
  ASSUME NEW lists, Listed(lists), NEW n \in Nat
  PROVE  \E order, m : MergedBy(lists, n, order, m)
<1> DEFINE P == Positions(lists)
           R == Newer(lists)
           c == Cardinality(P)
           m == Lesser(n, c)
           order == Ordered(P, R, n)
           s == Merge(lists, n)
           time(x) == Time(lists, x)
<1>1. s = [k \in DOMAIN order |-> At(lists, order[k])]
  BY DEF Merge, Positions, Newer, Later, Earlier, Time, At
<1>2. StrictOrder(P, R) /\ (\A x, y \in P : <<x, y>> \in R => time(x) >= time(y))
  BY NewerOrders
<1>3. IsFiniteSet(P)
  BY PositionFacts
<1> HIDE DEF P, R, s, time
<1>4. /\ order \in [1..m -> P] /\ order \in Seq(P) /\ Len(order) = m /\ c \in Nat
      /\ \A i, j \in 1..m : i < j => <<order[i], order[j]>> \in R
      /\ \A x \in P : \/ \E i \in 1..m : order[i] = x
                      \/ \A i \in 1..m : <<order[i], x>> \in R
  BY <1>2, <1>3, OrderedRight
<1> HIDE DEF order, c
<1>5. m \in Nat /\ m <= n
  BY <1>4 DEF Lesser
<1>6. m = Lesser(n, c)
  OBVIOUS
<1> HIDE DEF m
<1>7. DOMAIN order = 1..m /\ \A k \in 1..m : order[k] \in P
  BY <1>4
<1>8. IsInjective(order)
  <2> SUFFICES ASSUME NEW i \in 1..m, NEW j \in 1..m, order[i] = order[j] PROVE i = j
    BY <1>7 DEF IsInjective
  <2>1. ~(i < j) /\ ~(j < i)
    BY <1>2, <1>4, <1>7 DEF StrictOrder
  <2> QED
    BY <1>5, <2>1
<1>9. /\ \A i, j \in 1..m : i < j => time(order[i]) >= time(order[j])
      /\ \A x \in P : \/ \E i \in 1..m : order[i] = x
                      \/ \A i \in 1..m : time(order[i]) >= time(x)
  BY <1>2, <1>4, <1>7
<1>10. /\ s = [k \in 1..m |-> At(lists, order[k])] /\ DOMAIN s = 1..m
       /\ \A k \in 1..m : s[k] = At(lists, order[k])
  BY <1>1, <1>7
<1>11. Len(s) = m
  BY <1>5, <1>10
<1>12. MergedBy(lists, n, order, m)
  BY <1>4, <1>5, <1>6, <1>7, <1>8, <1>9, <1>10, <1>11 DEF MergedBy, P, s, time, c
<1> QED
  BY <1>12

\* What the tables hold, as lists of rows.
LEMMA ViewListed ==
  ASSUME IInv
  PROVE  Listed(view)
<1> SUFFICES ASSUME NEW t \in Tables PROVE IsInjective(view[t])
  BY DEF IInv, VarTypes, Contents, Listed
<1>1. view[t] \in Seq(Rows)
  BY DEF IInv, VarTypes, Contents
<1>2. DOMAIN view[t] = 1..Len(view[t])
  BY <1>1
<1> QED
  BY <1>2 DEF IInv, IdsDiffer, IsInjective

\* The entries of four lists are as many as their positions.
LEMMA EntryFacts ==
  ASSUME NEW lists, Listed(lists)
  PROVE  LET entries == UNION {{Entry(t, r) : r \in ToSet(lists[t])} : t \in Tables}
         IN  /\ entries = {At(lists, x) : x \in Positions(lists)}
             /\ IsFiniteSet(entries)
             /\ Cardinality(entries) = Cardinality(Positions(lists))
<1> DEFINE P == Positions(lists)
           entries == UNION {{Entry(t, r) : r \in ToSet(lists[t])} : t \in Tables}
           at == {At(lists, x) : x \in P}
           f == [x \in P |-> At(lists, x)]
<1>1. entries \subseteq at
  <2> SUFFICES ASSUME NEW t \in Tables, NEW r \in ToSet(lists[t]) PROVE Entry(t, r) \in at
    OBVIOUS
  <2>1. PICK k \in DOMAIN lists[t] : r = lists[t][k]
    BY DEF ToSet
  <2>2. <<t, k>> \in P
    BY PositionFacts
  <2>3. At(lists, <<t, k>>) = Entry(t, r)
    BY <2>1 DEF At
  <2> QED
    BY <2>2, <2>3
<1>2. at \subseteq entries
  <2> SUFFICES ASSUME NEW x \in P PROVE At(lists, x) \in entries
    OBVIOUS
  <2>1. x[1] \in Tables /\ x[2] \in DOMAIN lists[x[1]]
    BY PositionFacts
  <2>2. lists[x[1]][x[2]] \in ToSet(lists[x[1]])
    BY <2>1 DEF ToSet
  <2> QED
    BY <2>1, <2>2 DEF At
<1>3. f \in Bijection(P, at)
  <2>1. \A x, y \in P : At(lists, x) = At(lists, y) => x = y
    BY PositionFacts
  <2>2. f \in [P -> at] /\ \A e \in at : \E x \in P : f[x] = e
    OBVIOUS
  <2>3. IsInjective(f)
    BY <2>1 DEF IsInjective
  <2> QED
    BY <2>2, <2>3 DEF Bijection, Injection, Surjection
<1>4. IsFiniteSet(P)
  BY PositionFacts
<1> HIDE DEF P, at, entries, f
<1>5. IsFiniteSet(at) /\ Cardinality(at) = Cardinality(P)
  BY <1>3, <1>4, FS_Bijection DEF ExistsBijection
<1>6. entries = at
  BY <1>1, <1>2
<1> QED
  BY <1>5, <1>6 DEF P, at, entries

\* What the lists have is what the tables have, or as much as is asked for.
LEMMA NothingMissed ==
  ASSUME IInv, NEW n \in Nat, NEW lists, Listed(lists),
         \A t \in Tables : Newest(lists[t], ToSet(view[t]), n)
  PROVE  /\ {At(lists, x) : x \in Positions(lists)} \subseteq All
         /\ IsFiniteSet(All)
         /\ Lesser(n, Cardinality(Positions(lists))) = Lesser(n, Cardinality(All))
<1> DEFINE P == Positions(lists)
           entries == UNION {{Entry(t, r) : r \in ToSet(lists[t])} : t \in Tables}
           p == Cardinality(P)
           all == Cardinality(All)
<1>1. /\ entries = {At(lists, x) : x \in P} /\ IsFiniteSet(entries) /\ Cardinality(entries) = p
  BY EntryFacts
<1>2. IsFiniteSet(All)
  BY ViewListed, EntryFacts DEF All
<1>3. \A t \in Tables : ToSet(lists[t]) \subseteq ToSet(view[t])
  BY DEF Newest
<1>4. entries \subseteq All
  BY <1>3 DEF All
<1>5. p \in Nat /\ all \in Nat /\ p <= all
  <2> HIDE DEF entries, P
  <2>1. p \in Nat
    BY <1>1, FS_CardinalityType
  <2>2. all \in Nat /\ Cardinality(entries) <= all
    BY <1>2, <1>4, FS_CardinalityType, FS_Subset
  <2> QED
    BY <1>1, <2>1, <2>2
<1>6. ASSUME p < n PROVE entries = All
  <2>1. ASSUME NEW t \in Tables PROVE ToSet(lists[t]) = ToSet(view[t])
    <3> DEFINE block == {<<t, k>> : k \in DOMAIN lists[t]}
               size == Len(lists[t])
    <3>1. IsFiniteSet(block) /\ Cardinality(block) = size /\ block \subseteq P
      BY BlockOfList
    <3>2. IsFiniteSet(P)
      BY PositionFacts
    <3>3. lists[t] \in Seq(Rows) /\ Newest(lists[t], ToSet(view[t]), n)
      BY DEF Listed
    <3>4. size \in Nat /\ (size < n => ToSet(lists[t]) = ToSet(view[t]))
      BY <3>3, FewAreAll
    <3> HIDE DEF block, size, P
    <3>5. Cardinality(block) <= Cardinality(P)
      BY <3>1, <3>2, FS_Subset
    <3>6. size <= p
      BY <3>1, <3>5
    <3> QED
      BY <1>5, <1>6, <3>4, <3>6
  <2> QED
    BY <2>1 DEF All
<1> HIDE DEF P, entries
<1>7. p < n => p = all
  BY <1>1, <1>6
<1> HIDE DEF p, all
<1>8. Lesser(n, p) = Lesser(n, all)
  <2>1. CASE p < n
    BY <1>7, <2>1
  <2>2. CASE ~(p < n)
    BY <1>5, <2>2 DEF Lesser
  <2> QED
    BY <2>1, <2>2
<1> QED
  BY <1>1, <1>2, <1>4, <1>8 DEF P, p, all

\* A list that reached the limit fills the merged list, if its last row is newer than one there.
LEMMA NothingNewerLeft ==
  ASSUME NEW n \in Nat, NEW lists, Listed(lists), NEW order, NEW m, MergedBy(lists, n, order, m),
         NEW t \in Tables, Len(lists[t]) = n, NEW time \in Nat, NEW i \in 1..m,
         \A k \in DOMAIN lists[t] : lists[t][k].created >= time
  PROVE  Time(lists, order[i]) >= time
<1> DEFINE P == Positions(lists)
           block == {<<t, k>> : k \in DOMAIN lists[t]}
           shown == ToSet(order)
           x == order[i]
           at(y) == Time(lists, y)
<1>1. IsFiniteSet(block) /\ Cardinality(block) = n /\ block \subseteq P
  BY BlockOfList
<1>2. \A y \in P : at(y) \in Nat
  BY PositionFacts DEF Time
<1>3. \A y \in block : at(y) >= time
  BY DEF Time
<1>4. /\ order \in Seq(P) /\ IsInjective(order) /\ Len(order) = m /\ m \in Nat /\ m <= n
      /\ DOMAIN order = 1..m
      /\ \A y \in P : \/ \E j \in 1..m : order[j] = y
                      \/ \A j \in 1..m : at(order[j]) >= at(y)
  BY DEF MergedBy
<1>5. IsFiniteSet(shown) /\ Cardinality(shown) = m
  <2> HIDE DEF P
  <2> QED
    BY <1>4, ListMembers
<1>6. x \in P /\ x \in shown
  BY <1>4 DEF ToSet
<1> HIDE DEF P, block, at
<1>7. ASSUME at(x) < time PROVE FALSE
  <2>1. ASSUME NEW y \in block PROVE y \in shown
    <3>1. y \in P /\ at(y) \in Nat /\ at(x) \in Nat /\ at(y) >= time
      BY <1>1, <1>2, <1>3, <1>6
    <3>2. ~(at(x) >= at(y))
      BY <1>7, <3>1
    <3>3. PICK j \in 1..m : order[j] = y
      BY <1>4, <3>1, <3>2
    <3> QED
      BY <1>4, <3>3 DEF ToSet
  <2>2. x \notin block
    <3>1. at(x) \in Nat
      BY <1>2, <1>6
    <3>2. ~(at(x) >= time)
      BY <1>7, <3>1
    <3> QED
      BY <1>3, <3>2
  <2> HIDE DEF x, shown
  <2>3. IsFiniteSet(block \cup {x}) /\ Cardinality(block \cup {x}) = n + 1
    BY <1>1, <2>2, FS_AddElement
  <2>4. block \cup {x} \subseteq shown
    BY <1>6, <2>1
  <2>5. Cardinality(block \cup {x}) <= Cardinality(shown)
    BY <1>5, <2>4, FS_Subset
  <2> QED
    BY <1>4, <1>5, <2>3, <2>5
<1>8. at(x) \in Nat
  BY <1>2, <1>6
<1> HIDE DEF x
<1>9. at(x) >= time
  BY <1>7, <1>8
<1> QED
  BY <1>9 DEF at, x

LEMMA MergeRight ==
  ASSUME IInv, NEW n \in Nat, NEW lists, Listed(lists),
         \A t \in Tables : Newest(lists[t], ToSet(view[t]), n)
  PROVE  Newest(Merge(lists, n), All, n)
<1> DEFINE s == Merge(lists, n)
           P == Positions(lists)
<1>1. PICK order, m : MergedBy(lists, n, order, m)
  BY MergeFacts
<1>2. /\ m = Lesser(n, Cardinality(P)) /\ m \in Nat
      /\ DOMAIN s = 1..m /\ Len(s) = m /\ DOMAIN order = 1..m /\ IsInjective(order)
      /\ \A k \in 1..m : order[k] \in P /\ s[k] = At(lists, order[k])
  BY <1>1 DEF MergedBy
<1>3. \A x \in P : /\ At(lists, x) \in All /\ At(lists, x).created = Time(lists, x)
                   /\ Time(lists, x) \in Nat
  BY NothingMissed, PositionFacts DEF At, Entry, Time
<1>4. m = Lesser(n, Cardinality(All))
  BY <1>2, NothingMissed
<1>5. IsInjective(s)
  <2> SUFFICES ASSUME NEW i \in 1..m, NEW j \in 1..m, s[i] = s[j] PROVE i = j
    BY <1>2 DEF IsInjective
  <2>1. order[i] = order[j]
    BY <1>2, PositionFacts
  <2> QED
    BY <1>2, <2>1 DEF IsInjective
<1>6. ToSet(s) \subseteq All
  BY <1>2, <1>3 DEF ToSet
<1>7. \A i, j \in 1..m : i < j => s[i].created >= s[j].created
  BY <1>1, <1>2, <1>3 DEF MergedBy
<1>8. ASSUME NEW e \in All \ ToSet(s), NEW i \in 1..m PROVE s[i].created >= e.created
  <2>1. PICK t \in Tables : \E r \in ToSet(view[t]) : e = Entry(t, r)
    BY DEF All
  <2>2. PICK r \in ToSet(view[t]) : e = Entry(t, r)
    BY <2>1
  <2>3. e.created = r.created /\ s[i].created = Time(lists, order[i])
    BY <1>2, <1>3, <2>2 DEF Entry
  <2>4. CASE r \in ToSet(lists[t])
    <3>1. PICK k \in DOMAIN lists[t] : r = lists[t][k]
      BY <2>4 DEF ToSet
    <3> DEFINE x == <<t, k>>
    <3>2. x \in P /\ x[1] = t /\ x[2] = k
      BY <3>1, PositionFacts
    <3>3. At(lists, x) = e /\ Time(lists, x) = r.created
      BY <2>2, <3>1, <3>2 DEF At, Time
    <3> HIDE DEF x
    <3>4. \A j \in 1..m : order[j] # x
      BY <1>2, <1>8, <3>3 DEF ToSet
    <3>5. Time(lists, order[i]) >= Time(lists, x)
      BY <1>1, <3>2, <3>4 DEF MergedBy
    <3> QED
      BY <2>3, <3>3, <3>5
  <2>5. CASE r \notin ToSet(lists[t])
    <3>1. lists[t] \in Seq(Rows) /\ Newest(lists[t], ToSet(view[t]), n)
      BY DEF Listed
    <3>2. Len(lists[t]) = n
      <4>1. Len(lists[t]) \in Nat /\ Len(lists[t]) <= n /\ ~(Len(lists[t]) < n)
        BY <2>5, <3>1, FewAreAll
      <4> QED
        BY <4>1
    <3>3. \A k \in DOMAIN lists[t] : lists[t][k].created >= r.created
      BY <2>5, <3>1 DEF Newest
    <3>4. r.created \in Nat
      <4>1. view[t] \in Seq(Rows)
        BY ViewListed DEF Listed
      <4>2. r \in Rows
        BY <4>1 DEF ToSet
      <4> QED
        BY <4>2, JournalAssumption DEF Rows
    <3>5. Time(lists, order[i]) >= r.created
      BY <1>1, <3>2, <3>3, <3>4, NothingNewerLeft
    <3> QED
      BY <2>3, <3>5
  <2> QED
    BY <2>4, <2>5
<1> HIDE DEF s
<1>9. Len(s) = (IF n < Cardinality(All) THEN n ELSE Cardinality(All))
  BY <1>2, <1>4 DEF Lesser
<1>10. Newest(s, All, n)
  BY <1>2, <1>5, <1>6, <1>7, <1>8, <1>9 DEF Newest
<1> QED
  BY <1>10 DEF s

\* Choosing positions by tag, and open trades by status, is choosing rows.
LEMMA HavingRows ==
  ASSUME NEW t \in Tables, NEW tags
  PROVE  {view[t][i] : i \in Having(t, tags)} = {r \in ToSet(view[t]) : r.tag \in tags}
  BY DEF Having, ToSet

LEMMA OpenRows ==
  ASSUME NEW tags
  PROVE  {view["trades"][i] : i \in {j \in Having("trades", tags) :
                                       Status(view["trades"][j]) \in {"open"}}}
         = {r \in {s \in ToSet(view["trades"]) : s.tag \in tags} : r.pnl = None}
<1>1. \A r : Status(r) \in {"open"} <=> r.pnl = None
  BY DEF Status
<1> HIDE DEF Status
<1> QED
  BY <1>1 DEF Having, ToSet

\* The four lists get_recent asks for hold the newest rows of their tables.
LEMMA RecentRight ==
  ASSUME IInv, NEW n \in Nat
  PROVE  Newest(GetRecent(n), All, n)
<1> DEFINE lists == [trades      |-> GetTrades(Tags, {"open", "closed"}, n),
                     decisions   |-> GetDecisions(Tags, n),
                     risk_events |-> GetRiskEvents(n),
                     events      |-> GetEvents(Tags, n)]
           chosen(t) == IF t = "trades"
                        THEN {i \in Having(t, Tags) : Status(view[t][i]) \in {"open", "closed"}}
                        ELSE IF t = "risk_events" THEN DOMAIN view[t] ELSE Having(t, Tags)
<1>1. \A t \in Tables : lists[t] = NewestFirst(t, chosen(t), n)
  BY DEF Tables, GetTrades, GetDecisions, GetRiskEvents, GetEvents
<1>2. DOMAIN lists = Tables /\ lists = [t \in Tables |-> lists[t]]
  BY DEF Tables
<1>3. ASSUME NEW t \in Tables PROVE chosen(t) = DOMAIN view[t]
  <2>1. view[t] \in Seq(Rows)
    BY ViewListed DEF Listed
  <2>2. DOMAIN view[t] = 1..Len(view[t])
    BY <2>1
  <2>3. t # "risk_events" => \A i \in DOMAIN view[t] : view[t][i].tag \in Tags
    BY <2>2 DEF IInv, RowsFit
  <2>4. \A r : Status(r) \in {"open", "closed"}
    BY DEF Status
  <2> QED
    BY <2>3, <2>4 DEF Having
<1>4. \A t \in Tables : {view[t][i] : i \in DOMAIN view[t]} = ToSet(view[t])
  BY DEF ToSet
<1> HIDE DEF lists, chosen
<1>5. ASSUME NEW t \in Tables
      PROVE  lists[t] \in Seq(Rows) /\ Newest(lists[t], ToSet(view[t]), n)
  <2>1. lists[t] = NewestFirst(t, DOMAIN view[t], n)
    BY <1>1, <1>3
  <2>2. /\ NewestFirst(t, DOMAIN view[t], n) \in Seq(Rows)
        /\ Newest(NewestFirst(t, DOMAIN view[t], n), {view[t][i] : i \in DOMAIN view[t]}, n)
    BY NewestRight
  <2> QED
    BY <1>4, <2>1, <2>2
<1>6. Listed(lists)
  <2>1. lists \in [Tables -> Seq(Rows)]
    BY <1>2, <1>5
  <2>2. \A t \in Tables : IsInjective(lists[t])
    BY <1>5 DEF Newest
  <2> QED
    BY <2>1, <2>2 DEF Listed
<1>7. Newest(Merge(lists, n), All, n)
  BY <1>5, <1>6, MergeRight
<1> QED
  BY <1>7 DEF GetRecent, lists

\* Whatever was written, failed, rolled back or closed, and wherever the clock stands,
\* every query the journal answers gives the newest of the rows asked for, up to its
\* limit; so does get_recent, though it cuts each table before it merges the four.
THEOREM QueriesRight == Spec => []QueriesAreRight
<1>1. IInv => QueriesAreRight
  <2> SUFFICES ASSUME IInv, NEW n \in Limits PROVE
        /\ Newest(GetRecent(n), All, n)
        /\ \A tags \in SUBSET Tags :
             LET of(t) == {r \in ToSet(view[t]) : r.tag \in tags}
             IN  /\ Newest(GetDecisions(tags, n), of("decisions"), n)
                 /\ Newest(GetEvents(tags, n), of("events"), n)
                 /\ Newest(Search(tags, n), of("trades"), n)
                 /\ Newest(GetTrades(tags, {"open"}, n), {r \in of("trades") : r.pnl = None}, n)
    BY DEF QueriesAreRight
  <2>1. n \in Nat /\ {"trades", "decisions", "events"} \subseteq Tables
    BY JournalAssumption DEF Tables
  <2>2. Newest(GetRecent(n), All, n)
    BY <2>1, RecentRight
  <2> SUFFICES ASSUME NEW tags \in SUBSET Tags PROVE
        LET of(t) == {r \in ToSet(view[t]) : r.tag \in tags}
        IN  /\ Newest(GetDecisions(tags, n), of("decisions"), n)
            /\ Newest(GetEvents(tags, n), of("events"), n)
            /\ Newest(Search(tags, n), of("trades"), n)
            /\ Newest(GetTrades(tags, {"open"}, n), {r \in of("trades") : r.pnl = None}, n)
    BY <2>2
  <2> DEFINE of(t) == {r \in ToSet(view[t]) : r.tag \in tags}
             open == {i \in Having("trades", tags) : Status(view["trades"][i]) \in {"open"}}
  <2>3. ASSUME NEW t \in Tables PROVE Newest(NewestFirst(t, Having(t, tags), n), of(t), n)
    <3>1. Having(t, tags) \in SUBSET (DOMAIN view[t])
      BY DEF Having
    <3>2. Newest(NewestFirst(t, Having(t, tags), n), {view[t][i] : i \in Having(t, tags)}, n)
      BY <2>1, <3>1, NewestRight
    <3> QED
      BY <3>2, HavingRows
  <2>4. Newest(NewestFirst("trades", open, n), {r \in of("trades") : r.pnl = None}, n)
    <3>1. open \in SUBSET (DOMAIN view["trades"])
      BY DEF Having
    <3>2. {view["trades"][i] : i \in open} = {r \in of("trades") : r.pnl = None}
      BY OpenRows
    <3> HIDE DEF open
    <3>3. Newest(NewestFirst("trades", open, n), {view["trades"][i] : i \in open}, n)
      BY <2>1, <3>1, NewestRight
    <3> QED
      BY <3>2, <3>3
  <2> HIDE DEF of
  <2>5. /\ Newest(GetDecisions(tags, n), of("decisions"), n)
        /\ Newest(GetEvents(tags, n), of("events"), n)
        /\ Newest(Search(tags, n), of("trades"), n)
    BY <2>1, <2>3 DEF GetDecisions, GetEvents, Search
  <2>6. Newest(GetTrades(tags, {"open"}, n), {r \in of("trades") : r.pnl = None}, n)
    BY <2>4 DEF GetTrades
  <2> QED
    BY <2>5, <2>6 DEF of
<1> QED
  BY <1>1, Inductive, PTL
=============================================================================
