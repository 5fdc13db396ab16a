------------------------------- MODULE Journal ------------------------------
(***************************************************************************)
(* memory/journal.py over memory/storage.py and the SQLite file below it.  *)
(* Every call is synchronous.  A write is a statement and a commit: either *)
(* may raise, and the process may die between them.  What a connection     *)
(* sees (view) is the file plus the rows of its open transaction; they     *)
(* reach the file with the next commit, whichever call makes it.           *)
(*                                                                         *)
(* A row keeps its id, its time and what a query filters by (tag: symbol   *)
(* or event type); a trade also its profit once it is closed.  Side and    *)
(* severity, which are filtered by in the same way, and the other columns  *)
(* are left out.  The wall clock may stand still or go back.               *)
(***************************************************************************)
EXTENDS Integers, Sequences, FiniteSets, SequencesExt

CONSTANTS
  Trades,   \* ids _uuid makes, assumed to be different
  Tags,     \* symbols and event types
  Profits,  \* pnl of a close
  MaxRows,  \* bound: rows in all
  MaxClock, \* bound: the wall clock
  Limits    \* limits asked for by queries

ASSUME JournalAssumption ==
  /\ MaxRows \in Nat /\ MaxClock \in Nat
  /\ Limits \subseteq Nat

VARIABLES
  file,       \* per table, the committed rows in order of rowid
  view,       \* per table, the rows the connection sees
  connected,  \* _conn is set
  clock,      \* _now
  minted,     \* trade ids made so far
  returned    \* history variable: per table, the rows log calls have returned

vars == <<file, view, connected, clock, minted, returned>>

Tables == {"trades", "decisions", "risk_events", "events"}
None == "none"

Init ==
  /\ file = [t \in Tables |-> <<>>]
  /\ view = file
  /\ connected = FALSE
  /\ clock = 0
  /\ minted = {}
  /\ returned = [t \in Tables |-> {}]

-----------------------------------------------------------------------------
(* Storage *)

Size(tables) == Len(tables["trades"]) + Len(tables["decisions"])
                + Len(tables["risk_events"]) + Len(tables["events"])

Connect ==
  /\ connected' = TRUE
  /\ view' = file
  /\ UNCHANGED <<file, clock, minted, returned>>

\* close, and the end of the process: an open transaction is rolled back.
CloseOrCrash ==
  /\ connected' = FALSE
  /\ view' = file
  /\ UNCHANGED <<file, clock, minted, returned>>

\* Seeded fault: execute without commit.
ExecuteOnly(new) == view' = new /\ UNCHANGED <<file, connected>>

\* execute: the statement makes new of the view, and the commit writes it.
Execute(new) == view' = new /\ file' = new /\ UNCHANGED connected

\* execute raises: in the statement; in the commit, which leaves the transaction
\* open or rolls it back; or the process dies before or after the commit.
ExecuteFails(new) ==
  \/ UNCHANGED <<view, file, connected>>
  \/ view' \in {new, file} /\ UNCHANGED <<file, connected>>
  \/ file' \in {file, new} /\ view' = file' /\ connected' = FALSE

-----------------------------------------------------------------------------
(* Journal *)

Row(id, tag) == [id |-> id, tag |-> tag, created |-> clock, pnl |-> None]
Inserted(t, row) == [view EXCEPT ![t] = Append(@, row)]

Log(t, row) ==
  /\ connected
  /\ Size(view) < MaxRows
  /\ \/ /\ Execute(Inserted(t, row))
        /\ returned' = [returned EXCEPT ![t] = @ \cup {row}]
     \/ /\ ExecuteFails(Inserted(t, row))
        /\ UNCHANGED returned
  /\ UNCHANGED clock

LogTrade(id, tag) ==
  /\ id \notin minted
  /\ minted' = minted \cup {id}
  /\ Log("trades", Row(id, tag))

\* The other tables number their rows; a risk event is not filtered by symbol.
NextIdOfFile(t) == Len(file[t]) + 1   \* seeded fault: an open transaction is not counted
NextId(t) == Len(view[t]) + 1
LogDecision(tag) ==
  Log("decisions", Row(NextId("decisions"), tag)) /\ UNCHANGED minted
LogRisk ==
  Log("risk_events", Row(NextId("risk_events"), None)) /\ UNCHANGED minted
LogEvent(tag) ==
  Log("events", Row(NextId("events"), tag)) /\ UNCHANGED minted

ClosableAny(id) ==   \* seeded fault: AND status='open' is missing
  {i \in DOMAIN view["trades"] : view["trades"][i].id = id}
Closable(id) ==
  {i \in DOMAIN view["trades"] : view["trades"][i].id = id /\ view["trades"][i].pnl = None}

\* An update that finds no row is committed all the same; then the row is read.
CloseTrade(id, pnl) ==
  LET new == [view EXCEPT !["trades"] =
                [i \in DOMAIN @ |-> IF i \in Closable(id) THEN [@[i] EXCEPT !.pnl = pnl] ELSE @[i]]]
  IN  /\ connected
      /\ Execute(new) \/ ExecuteFails(new)
      /\ UNCHANGED <<clock, minted, returned>>

SetClock(t) ==
  /\ clock' = t
  /\ UNCHANGED <<file, view, connected, minted, returned>>

Next ==
  \/ Connect \/ CloseOrCrash
  \/ \E id \in Trades, tag \in Tags : LogTrade(id, tag)
  \/ \E tag \in Tags : LogDecision(tag) \/ LogEvent(tag)
  \/ LogRisk
  \/ \E id \in Trades, pnl \in Profits : CloseTrade(id, pnl)
  \/ \E t \in 0..MaxClock : SetClock(t)

Spec == Init /\ [][Next]_vars

-----------------------------------------------------------------------------
(* Queries *)

\* The first n members of S in the order R, a set of pairs.
Ordered(S, R, n) ==
  LET place(x) == Cardinality({y \in S : <<y, x>> \in R}) + 1
  IN  [k \in 1..(IF n < Cardinality(S) THEN n ELSE Cardinality(S)) |->
         CHOOSE x \in S : place(x) = k]

\* ORDER BY created_at DESC LIMIT n, of the rows with the positions S; of equal
\* times the index yields the later row.
OldestFirst(t, S, n) ==   \* seeded fault: ASC
  LET rows  == view[t]
      older == {p \in S \X S :
                  \/ rows[p[1]].created < rows[p[2]].created
                  \/ rows[p[1]].created = rows[p[2]].created /\ p[1] < p[2]}
      order == Ordered(S, older, n)
  IN  [k \in DOMAIN order |-> rows[order[k]]]

NewestFirst(t, S, n) ==
  LET rows  == view[t]
      newer == {p \in S \X S :
                  \/ rows[p[1]].created > rows[p[2]].created
                  \/ rows[p[1]].created = rows[p[2]].created /\ p[1] > p[2]}
      order == Ordered(S, newer, n)
  IN  [k \in DOMAIN order |-> rows[order[k]]]

Having(t, tags) == {i \in DOMAIN view[t] : view[t][i].tag \in tags}
Status(r) == IF r.pnl = None THEN "open" ELSE "closed"

\* A filter that is not given lets every tag or status pass; search passes the
\* symbols that contain its text.
GetTrades(tags, statuses, n) ==
  NewestFirst("trades", {i \in Having("trades", tags) : Status(view["trades"][i]) \in statuses}, n)
Search(tags, n)       == NewestFirst("trades", Having("trades", tags), n)
GetDecisions(tags, n) == NewestFirst("decisions", Having("decisions", tags), n)
GetEvents(tags, n)    == NewestFirst("events", Having("events", tags), n)
GetRiskEvents(n)      == NewestFirst("risk_events", DOMAIN view["risk_events"], n)

\* Four lists of at most n rows, one after the other, sorted by time, which
\* keeps the order of what is equal, and cut to n.
Entry(t, r) == [type |-> t, created |-> r.created, data |-> r]
Nth == [trades |-> 1, decisions |-> 2, risk_events |-> 3, events |-> 4]
Merge(lists, n) ==
  LET all == UNION {{t} \X DOMAIN lists[t] : t \in Tables}
      time(x) == lists[x[1]][x[2]].created
      later(x, y) == \/ time(x) > time(y)
                     \/ /\ time(x) = time(y)
                        /\ Nth[x[1]] < Nth[y[1]] \/ (x[1] = y[1] /\ x[2] < y[2])
      newer == {p \in all \X all : later(p[1], p[2])}
      order == Ordered(all, newer, n)
  IN  [k \in DOMAIN order |-> Entry(order[k][1], lists[order[k][1]][order[k][2]])]

GetRecent(n) ==
  Merge([trades      |-> GetTrades(Tags, {"open", "closed"}, n),
         decisions   |-> GetDecisions(Tags, n),
         risk_events |-> GetRiskEvents(n),
         events      |-> GetEvents(Tags, n)], n)

-----------------------------------------------------------------------------
(* Properties *)

\* The type invariant; the connection sees at least what is committed.
TypeOK ==
  /\ \A t \in Tables, tables \in {file, view} :
       \A i \in DOMAIN tables[t] :
         LET r == tables[t][i]
         IN  /\ IF t = "trades" THEN r.id \in minted ELSE r.id = i
             /\ r.tag \in (IF t = "risk_events" THEN {None} ELSE Tags)
             /\ r.created \in 0..MaxClock
             /\ r.pnl \in {None} \cup (IF t = "trades" THEN Profits ELSE {})
  /\ \A t \in Tables : Len(file[t]) <= Len(view[t])
  /\ {connected} \subseteq BOOLEAN
  /\ minted \subseteq Trades

\* Whatever fails or dies later, a row a log call returned stays in the file under
\* its id, once and as it was but for the close of a trade.
Same(r, s) == [r EXCEPT !.pnl = None] = [s EXCEPT !.pnl = None]
ReturnedIsDurable ==
  \A t \in Tables : \A r \in returned[t] :
    /\ \E i \in DOMAIN file[t] : Same(file[t][i], r)
    /\ \A i, j \in DOMAIN view[t] : view[t][i].id = r.id /\ view[t][j].id = r.id => i = j

\* The file is only added to: no row goes or changes, except that an open trade is
\* closed, and a second close_trade leaves exit and profit as they are.
LoggedImmutably ==
  [][\A t \in Tables : \A i \in DOMAIN file[t] :
       /\ i \in DOMAIN file'[t]
       /\ file[t][i].pnl # None => file'[t][i] = file[t][i]
       /\ Same(file'[t][i], file[t][i])]_vars

\* Every query returns as many of the visible rows it asks for as there are, up to
\* the limit, none twice, newest first, and leaves out none newer than one it
\* returns; get_recent, which cuts each table before it merges, does so of all tables.
Newest(result, rows, n) ==
  /\ Len(result) = (IF n < Cardinality(rows) THEN n ELSE Cardinality(rows))
  /\ IsInjective(result) /\ ToSet(result) \subseteq rows
  /\ \A i, j \in DOMAIN result : i < j => result[i].created >= result[j].created
  /\ \A r \in rows \ ToSet(result), i \in DOMAIN result : result[i].created >= r.created

All == UNION {{Entry(t, r) : r \in ToSet(view[t])} : t \in Tables}

QueriesAreRight ==
  \A n \in Limits :
    /\ Newest(GetRecent(n), All, n)
    /\ \A tags \in SUBSET Tags :
         LET of(t) == {r \in ToSet(view[t]) : r.tag \in tags}
         IN  /\ Newest(GetDecisions(tags, n), of("decisions"), n)
             /\ Newest(GetEvents(tags, n), of("events"), n)
             /\ Newest(Search(tags, n), of("trades"), n)
             /\ Newest(GetTrades(tags, {"open"}, n), {r \in of("trades") : r.pnl = None}, n)
=============================================================================
