------------------------------ MODULE EventBus ------------------------------
(***************************************************************************)
(* core/event_bus.py.  publish reads the handler list of the message's     *)
(* type, starts one task per handler found in it, waits for all of them    *)
(* and then reads the list again to name the handlers that failed.  It     *)
(* keeps no copy: the list is the live one, and subscribe and unsubscribe  *)
(* change it in place while the tasks run.  clear_all drops the lists, so  *)
(* a publish that was under way keeps one nobody can change any more: an   *)
(* epoch numbers the lists of a type.                                      *)
(*                                                                         *)
(* A handler is any coroutine: it ends, or raises, when it likes, and may  *)
(* call the bus meanwhile, which is a step of its own here.                *)
(***************************************************************************)
EXTENDS Integers, Sequences, FiniteSets, SequencesExt

CONSTANTS
  Handlers,     \* handlers callers subscribe
  Types,        \* message types
  Messages,     \* the messages published; each is published at most once
  TypeOf,       \* the type of a message
  MaxHistory,   \* _max_history
  MaxEpoch      \* bound: how often clear_all is called

ASSUME BusAssumption ==
  /\ TypeOf \in [Messages -> Types]
  /\ MaxHistory \in Nat \ {0}
  /\ MaxEpoch \in Nat

VARIABLES
  epoch,       \* how often clear_all was called
  handlers,    \* _handlers: per epoch and type the list of handlers
  history,     \* _history
  status,      \* per message: unpublished, running, returned, raised
  readFrom,    \* per message: the epoch of the list its publish call holds
  targets,     \* while running: the handlers its tasks were started for
  outcome,     \* while running: per task running, ok or failed
  result,      \* what the publish call that ended last returned
  logged,      \* the handlers it logged as failed
  published,   \* history variable: the messages since the history was cleared
  shrunk       \* history variable: running messages whose list lost a handler

listVars    == <<epoch, handlers>>
publishVars == <<status, readFrom, targets, outcome, result, logged>>
vars == <<listVars, history, publishVars, published, shrunk>>

Init ==
  /\ epoch = 0
  /\ handlers = [e \in 0..MaxEpoch |-> [t \in Types |-> <<>>]]
  /\ history = <<>>
  /\ status = [m \in Messages |-> "unpublished"]
  /\ readFrom = [m \in Messages |-> 0]
  /\ targets = [m \in Messages |-> <<>>]
  /\ outcome = [m \in Messages |-> <<>>]
  /\ result = 0
  /\ logged = {}
  /\ published = <<>>
  /\ shrunk = {}

-----------------------------------------------------------------------------
HandlersOf(t) == handlers[epoch][t]

SubscribeAgain(t, h) ==   \* seeded fault: no check for a handler already there
  /\ handlers' = [handlers EXCEPT ![epoch][t] = Append(@, h)]
  /\ Len(HandlersOf(t)) < Cardinality(Handlers)
  /\ UNCHANGED <<epoch, history, publishVars, published, shrunk>>

SubscribeInFront(t, h) ==   \* seeded fault: a new handler goes first
  /\ ~Contains(HandlersOf(t), h)
  /\ handlers' = [handlers EXCEPT ![epoch][t] = <<h>> \o @]
  /\ UNCHANGED <<epoch, history, publishVars, published, shrunk>>

Subscribe(t, h) ==
  /\ ~Contains(HandlersOf(t), h)
  /\ handlers' = [handlers EXCEPT ![epoch][t] = Append(@, h)]
  /\ UNCHANGED <<epoch, history, publishVars, published, shrunk>>

Unsubscribe(t, h) ==
  /\ Contains(HandlersOf(t), h)
  /\ handlers' = [handlers EXCEPT ![epoch][t] = RemoveFirst(@, h)]
  /\ shrunk' = shrunk \cup {m \in Messages : /\ status[m] = "running"
                                          /\ readFrom[m] = epoch /\ TypeOf[m] = t}
  /\ UNCHANGED <<epoch, history, publishVars, published>>

\* The history keeps the newest _max_history messages.
TrimNever(h) == h   \* seeded fault
Trim(h) ==
  IF Len(h) > MaxHistory THEN SubSeq(h, Len(h) - MaxHistory + 1, Len(h)) ELSE h

Record(m) ==
  /\ history' = Trim(Append(history, m))
  /\ published' = Append(published, m)

Publish(m) ==              \* up to the gather
  LET found == HandlersOf(TypeOf[m])
  IN  /\ status[m] = "unpublished"
      /\ Record(m)
      /\ status' = [status EXCEPT ![m] = IF found = <<>> THEN "returned" ELSE "running"]
      /\ readFrom' = [readFrom EXCEPT ![m] = IF found = <<>> THEN 0 ELSE epoch]
      /\ targets' = [targets EXCEPT ![m] = found]
      /\ outcome' = [outcome EXCEPT ![m] = [i \in 1..Len(found) |-> "running"]]
      /\ IF found = <<>> THEN result' = 0 /\ logged' = {} ELSE UNCHANGED <<result, logged>>
      /\ UNCHANGED <<listVars, shrunk>>

HandlerEnds(m, i, how) ==
  /\ status[m] = "running"
  /\ i \in DOMAIN targets[m]
  /\ outcome[m][i] = "running"
  /\ outcome' = [outcome EXCEPT ![m][i] = how]
  /\ UNCHANGED <<listVars, history, status, readFrom, targets, result, logged,
                 published, shrunk>>

TasksWith(m, how) == {i \in DOMAIN targets[m] : outcome[m][i] = how}
AllDone(m) == TasksWith(m, "running") = {}

\* The loop over the results: handlers[i] is read from the list as it is now,
\* and an index past its end raises an IndexError out of publish.
LiveList(m)   == handlers[readFrom[m]][TypeOf[m]]
PastTheEnd(m) == {i \in TasksWith(m, "failed") : i > Len(LiveList(m))}
Named(m)      == {LiveList(m)[i] : i \in TasksWith(m, "failed") \ PastTheEnd(m)}

Notified(m) == Cardinality(TasksWith(m, "ok"))

Resume(m) ==
  /\ status[m] = "running"
  /\ AllDone(m)
  /\ logged' = Named(m)
  /\ IF PastTheEnd(m) = {}
     THEN /\ status' = [status EXCEPT ![m] = "returned"]
          /\ result' = Notified(m)
     ELSE /\ status' = [status EXCEPT ![m] = "raised"]
          /\ UNCHANGED result
  /\ targets' = [targets EXCEPT ![m] = <<>>]
  /\ outcome' = [outcome EXCEPT ![m] = <<>>]
  /\ readFrom' = [readFrom EXCEPT ![m] = 0]
  /\ shrunk' = shrunk \ {m}
  /\ UNCHANGED <<listVars, history, published>>

ClearHistory ==
  /\ history' = <<>>
  /\ published' = <<>>
  /\ UNCHANGED <<listVars, publishVars, shrunk>>

ClearAll ==
  /\ epoch < MaxEpoch
  /\ epoch' = epoch + 1
  /\ history' = <<>>
  /\ published' = <<>>
  /\ UNCHANGED <<handlers, publishVars, shrunk>>

PublishStep(m) ==
  \/ \E i \in DOMAIN targets[m], how \in {"ok", "failed"} : HandlerEnds(m, i, how)
  \/ Resume(m)

Next ==
  \/ \E t \in Types, h \in Handlers : Subscribe(t, h) \/ Unsubscribe(t, h)
  \/ \E m \in Messages : Publish(m) \/ PublishStep(m)
  \/ ClearHistory
  \/ ClearAll

Spec == Init /\ [][Next]_vars

-----------------------------------------------------------------------------
Ended(m)  == status[m] \in {"returned", "raised"}
Failed(m) == {targets[m][i] : i \in TasksWith(m, "failed")}

\* Types of every variable; the history is what was published last, in order, and
\* as long as it may be.
TypeOK ==
  /\ epoch \in 0..MaxEpoch
  /\ handlers \in [0..MaxEpoch -> [Types -> Seq(Handlers)]]
  /\ LET kept == IF Len(published) > MaxHistory THEN MaxHistory ELSE Len(published)
     IN  history = SubSeq(published, Len(published) - kept + 1, Len(published))
  /\ status \in [Messages -> {"unpublished", "running", "returned", "raised"}]
  /\ readFrom \in [Messages -> 0..MaxEpoch]
  /\ targets \in [Messages -> Seq(Handlers)]
  /\ outcome \in [Messages -> Seq({"running", "ok", "failed"})]
  /\ \A m \in Messages : Len(outcome[m]) = Len(targets[m])
  /\ result \in Int
  /\ logged \subseteq Handlers
  /\ published \in Seq(Messages)
  /\ shrunk \subseteq {m \in Messages : status[m] = "running"}

\* A handler is called at most once per message, however often and in whatever
\* order it was subscribed and unsubscribed, before and during the publish.
OncePerMessage == \A m \in Messages : IsInjective(targets[m])

\* Subscribing while handlers run is harmless: a publish whose list lost no
\* handler ends without an error, and the failures it logs are those of its
\* handlers, whatever was subscribed and cleared meanwhile; and the count any
\* publish returns is of the handlers that got the message and did not raise.
OnlyRemovalsMislead ==
  [][\A m \in Messages : status[m] = "running" =>
       /\ Ended(m)' /\ m \notin shrunk => status'[m] = "returned" /\ logged' = Failed(m)
       /\ status'[m] = "returned" => result' = Cardinality(ToSet(targets[m]) \ Failed(m))]_vars

\* event_bus.py:77, of a handler that raises: "it's logged but doesn't affect
\* other handlers".  When a publish ends, the handlers that raised are logged,
\* and no other.
FailuresLogged ==
  [][\A m \in Messages : (status[m] = "running" /\ Ended(m)') => logged' = Failed(m)]_vars
=============================================================================
