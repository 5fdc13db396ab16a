---------------------------- MODULE AgentManager ----------------------------
(***************************************************************************)
(* agents/manager.py over agents/base.py, agents/lifecycle.py and          *)
(* agents/registry.py: the calls on the manager, each a coroutine that     *)
(* suspends in setup(), in cleanup() and in every publish.  An action is   *)
(* the code of one call between two suspensions.                           *)
(*                                                                         *)
(* setup() belongs to the subclass: it subscribes the agent to one message *)
(* type at some time before it ends, and may raise.  An exception          *)
(* in cleanup() or in the publish after it is swallowed, so neither is     *)
(* told from success.                                                      *)
(***************************************************************************)
EXTENDS Integers, FiniteSets

CONSTANTS
  Agents,    \* agent objects
  Ids,       \* agent ids
  IdOf,      \* the id of an agent object
  MaxCalls,  \* bound: calls of the manager, numbered in the order they are made
  NoAgent

ASSUME AgentAssumption ==
  /\ IdOf \in [Agents -> Ids]
  /\ MaxCalls \in Nat
  /\ NoAgent \notin Agents

VARIABLES
  life,      \* Lifecycle._state
  registry,  \* AgentRegistry._agents: per id an agent or NoAgent
  wrappers,  \* per agent: the length of _subscriptions, all of them on the bus
  failures,  \* history variable: how often the agent became failed
  pc,        \* per call: what it waits for
  subject,   \* per start or stop call: its agent
  toStop,    \* per stop_all call: agents whose stop task has not begun
  stopping   \* per stop_all call: agents whose stop task is suspended

agentVars == <<life, wrappers, failures>>
taskVars  == <<toStop, stopping>>
Calls == 1..MaxCalls

vars == <<agentVars, registry, pc, subject, taskVars>>

AgentState == {"created", "initialized", "running", "paused", "stopped", "failed"}
CallState  == {"idle", "setup", "subscribed", "announcing", "failing", "cleanup",
               "stopping all", "all stopped", "returned", "raised"}

Init ==
  /\ life = [a \in Agents |-> "created"]
  /\ registry = [i \in Ids |-> NoAgent]
  /\ wrappers = [a \in Agents |-> 0]
  /\ failures = [a \in Agents |-> 0]
  /\ pc = [c \in Calls |-> "idle"]
  /\ subject = [c \in Calls |-> NoAgent]
  /\ toStop = [c \in Calls |-> {}]
  /\ stopping = [c \in Calls |-> {}]

-----------------------------------------------------------------------------
\* seeded fault: a running agent may be initialized again
TransitionsRestart ==
  [s \in AgentState |->
    CASE s = "created"     -> {"initialized", "failed"}
      [] s = "initialized" -> {"running", "failed"}
      [] s = "running"     -> {"paused", "stopped", "failed", "initialized"}
      [] s = "paused"      -> {"running", "stopped"}
      [] s = "failed"      -> {"initialized"}
      [] s = "stopped"     -> {}]

TRANSITIONS ==
  [s \in AgentState |->
    CASE s = "created"     -> {"initialized", "failed"}
      [] s = "initialized" -> {"running", "failed"}
      [] s = "running"     -> {"paused", "stopped", "failed"}
      [] s = "paused"      -> {"running", "stopped"}
      [] s = "failed"      -> {"initialized"}
      [] s = "stopped"     -> {}]

CanMove(a, s) == s \in TRANSITIONS[life[a]]
Move(a, s)    == life' = [life EXCEPT ![a] = s]
IsActive(a)   == life[a] \in {"running", "paused"}

Begins(c) == pc[c] = "idle" /\ \A d \in Calls : d < c => pc[d] # "idle"
GoTo(c, label) == pc' = [pc EXCEPT ![c] = label]
End(c, how) ==
  /\ GoTo(c, how)
  /\ subject' = [subject EXCEPT ![c] = NoAgent]
Registered(a) == registry[IdOf[a]] = a
RemoveId(a)   == registry' = [registry EXCEPT ![IdOf[a]] = NoAgent]

-----------------------------------------------------------------------------
\* register_and_start

StartFailsQuietly(c, a) ==   \* seeded fault: the agent is not moved to failed
  /\ RemoveId(a)
  /\ End(c, "raised")
  /\ UNCHANGED <<life, failures>>

\* The except clause of start and then of register_and_start.  Where the agent
\* cannot become failed the clause itself raises; either way the id leaves the
\* registry, at once or after AgentFailed has been published.
StartFails(c, a) ==
  IF CanMove(a, "failed")
  THEN /\ Move(a, "failed")
       /\ failures' = [failures EXCEPT ![a] = @ + 1]
       /\ GoTo(c, "failing")
       /\ UNCHANGED <<registry, subject>>
  ELSE /\ RemoveId(a)
       /\ End(c, "raised")
       /\ UNCHANGED <<life, failures>>

RegisterAndStart(c, a) ==
  /\ Begins(c)
  /\ registry[IdOf[a]] = NoAgent
  /\ CanMove(a, "initialized")
  /\ Move(a, "initialized")
  /\ registry' = [registry EXCEPT ![IdOf[a]] = a]
  /\ GoTo(c, "setup")
  /\ subject' = [subject EXCEPT ![c] = a]
  /\ UNCHANGED <<wrappers, failures, taskVars>>

\* The agent was started before: running (or being set up) it becomes failed,
\* paused or stopped it stays so and the call leaves no trace.
RegisterAndFail(c, a) ==
  /\ Begins(c)
  /\ registry[IdOf[a]] = NoAgent
  /\ ~CanMove(a, "initialized")
  /\ CanMove(a, "failed")
  /\ Move(a, "failed")
  /\ failures' = [failures EXCEPT ![a] = @ + 1]
  /\ registry' = [registry EXCEPT ![IdOf[a]] = a]
  /\ GoTo(c, "failing")
  /\ subject' = [subject EXCEPT ![c] = a]
  /\ UNCHANGED <<wrappers, taskVars>>

Subscribe(c) ==                          \* in setup: subscribe_to
  /\ pc[c] = "setup"
  /\ wrappers' = [wrappers EXCEPT ![subject[c]] = @ + 1]
  /\ GoTo(c, "subscribed")
  /\ UNCHANGED <<life, failures, registry, subject, taskVars>>

SetupRaises(c) ==
  /\ pc[c] \in {"setup", "subscribed"}
  /\ StartFails(c, subject[c])
  /\ UNCHANGED <<wrappers, taskVars>>

SetupEnds(c) ==                          \* and publish AgentStarted
  /\ pc[c] = "subscribed"
  /\ LET a == subject[c] IN
       IF CanMove(a, "running")
       THEN /\ Move(a, "running")
            /\ GoTo(c, "announcing")
            /\ UNCHANGED <<failures, registry, subject>>
       ELSE StartFails(c, a)
  /\ UNCHANGED <<wrappers, taskVars>>

AnnounceRaises(c) ==                     \* the publish itself raised
  /\ pc[c] = "announcing"
  /\ StartFails(c, subject[c])
  /\ UNCHANGED <<wrappers, taskVars>>

ReturnStarted(c) ==
  /\ pc[c] = "announcing"
  /\ End(c, "returned")
  /\ UNCHANGED <<agentVars, registry, taskVars>>

ReraiseRegistered(c) ==   \* seeded fault: a failed agent stays registered
  /\ pc[c] = "failing"
  /\ End(c, "raised")
  /\ UNCHANGED <<agentVars, registry, taskVars>>

ReraiseFailure(c) ==                     \* AgentFailed has been published
  /\ pc[c] = "failing"
  /\ RemoveId(subject[c])
  /\ End(c, "raised")
  /\ UNCHANGED <<agentVars, taskVars>>

-----------------------------------------------------------------------------
\* stop_agent and stop_all

StopNow(a) ==                            \* BaseAgent.stop up to cleanup()
  /\ Move(a, "stopped")
  /\ wrappers' = [wrappers EXCEPT ![a] = 0]
  /\ UNCHANGED failures

StopAgent(c, a) ==
  /\ Begins(c)
  /\ Registered(a)
  /\ IF IsActive(a)
     THEN /\ StopNow(a)
          /\ GoTo(c, "cleanup")
          /\ subject' = [subject EXCEPT ![c] = a]
          /\ UNCHANGED registry
     ELSE /\ RemoveId(a)
          /\ End(c, "returned")
          /\ UNCHANGED agentVars
  /\ UNCHANGED taskVars

ReturnStopped(c) ==
  /\ pc[c] = "cleanup"
  /\ RemoveId(subject[c])
  /\ End(c, "returned")
  /\ UNCHANGED <<agentVars, taskVars>>

StopAll(c) ==                            \* the snapshot, and one task for each agent
  /\ Begins(c)
  /\ \E a \in Agents : Registered(a)
  /\ toStop' = [toStop EXCEPT ![c] = {a \in Agents : Registered(a)}]
  /\ GoTo(c, "stopping all")
  /\ UNCHANGED <<agentVars, registry, subject, stopping>>

StopTask(c, a) ==
  /\ a \in toStop[c]
  /\ toStop' = [toStop EXCEPT ![c] = @ \ {a}]
  /\ IF IsActive(a)
     THEN StopNow(a) /\ stopping' = [stopping EXCEPT ![c] = @ \cup {a}]
     ELSE UNCHANGED <<agentVars, stopping>>
  /\ UNCHANGED <<registry, pc, subject>>

StopTaskEnds(c, a) ==
  /\ a \in stopping[c]
  /\ stopping' = [stopping EXCEPT ![c] = @ \ {a}]
  /\ UNCHANGED <<agentVars, registry, pc, subject, toStop>>

\* seeded fault: waits for the agents to be stopped, not for the tasks to end
AllAgentsStopped(c) == stopping[c] = {} /\ \A a \in Agents : Registered(a) => life[a] = "stopped"
AllTasksDone(c) == toStop[c] = {} /\ stopping[c] = {}

ReturnAllStopped(c) ==                   \* registry.clear
  /\ pc[c] = "stopping all"
  /\ AllTasksDone(c)
  /\ registry' = [i \in Ids |-> NoAgent]
  /\ End(c, "all stopped")
  /\ UNCHANGED <<agentVars, taskVars>>

-----------------------------------------------------------------------------
\* pause_agent and resume_agent: nothing is written after their publish.

Pause(a) ==
  /\ Registered(a) /\ CanMove(a, "paused")
  /\ Move(a, "paused")
  /\ UNCHANGED <<wrappers, failures, registry, pc, subject, taskVars>>

Resume(a) ==
  /\ Registered(a) /\ CanMove(a, "running")
  /\ Move(a, "running")
  /\ UNCHANGED <<wrappers, failures, registry, pc, subject, taskVars>>

Continue(c) ==
  \/ Subscribe(c) \/ SetupRaises(c) \/ SetupEnds(c)
  \/ AnnounceRaises(c) \/ ReturnStarted(c) \/ ReraiseFailure(c)
  \/ ReturnStopped(c)
  \/ \E a \in Agents : StopTask(c, a) \/ StopTaskEnds(c, a)
  \/ ReturnAllStopped(c)

Next ==
  \/ \E c \in Calls, a \in Agents :
       RegisterAndStart(c, a) \/ RegisterAndFail(c, a) \/ StopAgent(c, a)
  \/ \E c \in Calls : StopAll(c) \/ Continue(c)
  \/ \E a \in Agents : Pause(a) \/ Resume(a)

Spec == Init /\ [][Next]_vars

\* The event loop resumes a call once setup, cleanup or the handlers are done.
FairSpec == Spec /\ \A c \in Calls : WF_vars(Continue(c))

-----------------------------------------------------------------------------
Ended(c) == pc[c] \in {"returned", "raised", "all stopped"}
Quiet    == \A c \in Calls : pc[c] = "idle" \/ Ended(c)

\* Types of every variable; an id holds an agent of that id.
TypeOK ==
  /\ life \in [Agents -> AgentState]
  /\ registry \in [Ids -> Agents \cup {NoAgent}]
  /\ \A i \in Ids : registry[i] # NoAgent => IdOf[registry[i]] = i
  /\ wrappers \in [Agents -> Nat]
  /\ failures \in [Agents -> Nat]
  /\ pc \in [Calls -> CallState]
  /\ subject \in [Calls -> Agents \cup {NoAgent}]
  /\ toStop \in [Calls -> SUBSET Agents]
  /\ stopping \in [Calls -> SUBSET Agents]

\* An agent is initialized only while some call is setting it up: no overlap of
\* starts, failures and shutdowns leaves it there for ever.
InitializedIsStarting ==
  \A a \in Agents : life[a] = "initialized" =>
    \E c \in Calls : subject[c] = a /\ pc[c] \in {"setup", "subscribed"}

\* With no call under way the registry holds agents that run or are paused:
\* whatever failed or was stopped has left it.
RegistryIsLive ==
  Quiet => \A a \in Agents : Registered(a) => IsActive(a)

\* An agent gets a message once for each of its subscriptions.  A start that
\* failed leaves its subscription behind; nothing else makes a second one.
OneWrapperPerStart == \A a \in Agents : wrappers[a] <= 1 + failures[a]

\* Every call ends, however the calls overlap: none waits for another that waits
\* for it.  (The calls are finitely many, so all end if they are quiet again
\* and again.)
EveryCallEnds == []<>Quiet

\* docs/adr/005-agent-framework.md:19: the framework "prevents rogue agents from
\* continuing to operate after a shutdown command".  Once stop_all has returned
\* and nobody has called the manager since, no agent runs.
NoRogueAgents ==
  \A c \in Calls : (pc[c] = "all stopped" /\ \A d \in Calls : d > c => pc[d] = "idle")
    => \A a \in Agents : life[a] # "running"
=============================================================================
