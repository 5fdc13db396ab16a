------------------------- MODULE AgentManagerProofs -------------------------
(***************************************************************************)
(* Theorems about AgentManager, for any agents and ids and any number of   *)
(* calls.                                                                  *)
(***************************************************************************)
EXTENDS AgentManager, FiniteSetTheorems, TLAPS

-----------------------------------------------------------------------------
\* Where a call is suspended says whether it has an agent.
SubjectInv == \A c \in Calls :
  /\ subject[c] # NoAgent <=> pc[c] \in {"setup", "subscribed", "announcing", "failing", "cleanup"}
  /\ toStop[c] # {} \/ stopping[c] # {} => pc[c] = "stopping all"

\* A registered agent that is not active has a call that will take its id away,
\* or make it run.
Handled(a) == \E c \in Calls :
  \/ subject[c] = a /\ pc[c] \in {"setup", "subscribed"}
  \/ pc[c] \in {"failing", "cleanup"} /\ IdOf[subject[c]] = IdOf[a]
  \/ pc[c] = "stopping all"

\* Starts whose subscription is still to come.
Pending(a) == {c \in Calls : subject[c] = a /\ pc[c] = "setup"}

\* An agent is started from created, once, and from failed.
Allowance(a) == failures[a] + (IF life[a] \in {"created", "failed"} THEN 0 ELSE 1)

WrapperInv == \A a \in Agents : wrappers[a] + Cardinality(Pending(a)) <= Allowance(a)

\* The transition table, as the facts the steps use.
LEMMA TransitionTable ==
  /\ TRANSITIONS["created"] = {"initialized", "failed"}
  /\ TRANSITIONS["initialized"] = {"running", "failed"}
  /\ TRANSITIONS["running"] = {"paused", "stopped", "failed"}
  /\ TRANSITIONS["paused"] = {"running", "stopped"}
  /\ TRANSITIONS["failed"] = {"initialized"}
  /\ TRANSITIONS["stopped"] = {}
BY DEF TRANSITIONS, AgentState

LEMMA MoveFacts ==
  ASSUME TypeOK, NEW a \in Agents
  PROVE  /\ CanMove(a, "initialized") <=> life[a] \in {"created", "failed"}
         /\ CanMove(a, "running") <=> life[a] \in {"initialized", "paused"}
         /\ CanMove(a, "paused") <=> life[a] = "running"
         /\ CanMove(a, "failed") <=> life[a] \in {"created", "initialized", "running"}
<1>1. life[a] \in {"created", "initialized", "running", "paused", "stopped", "failed"}
  BY DEF TypeOK, AgentState
<1> QED
  BY <1>1, TransitionTable DEF CanMove

\* What a failing start does, in one of its two ways.
LEMMA StartFailsFacts ==
  ASSUME TypeOK, NEW c \in Calls, NEW a \in Agents, StartFails(c, a)
  PROVE  \/ /\ life[a] \in {"created", "initialized", "running"}
            /\ life' = [life EXCEPT ![a] = "failed"]
            /\ failures' = [failures EXCEPT ![a] = @ + 1]
            /\ pc' = [pc EXCEPT ![c] = "failing"]
            /\ UNCHANGED <<registry, subject>>
         \/ /\ life[a] \in {"paused", "stopped", "failed"}
            /\ registry' = [registry EXCEPT ![IdOf[a]] = NoAgent]
            /\ pc' = [pc EXCEPT ![c] = "raised"]
            /\ subject' = [subject EXCEPT ![c] = NoAgent]
            /\ UNCHANGED <<life, failures>>
<1>1. life[a] \in {"created", "initialized", "running", "paused", "stopped", "failed"}
  BY DEF TypeOK, AgentState
<1> QED
  BY <1>1, MoveFacts DEF StartFails, Move, GoTo, End, RemoveId

\* The types of everything but the registry, and those of the registry.
AgentTypes ==
  /\ life \in [Agents -> AgentState]
  /\ wrappers \in [Agents -> Nat]
  /\ failures \in [Agents -> Nat]

CallTypes ==
  /\ pc \in [Calls -> CallState]
  /\ subject \in [Calls -> Agents \cup {NoAgent}]
  /\ toStop \in [Calls -> SUBSET Agents]
  /\ stopping \in [Calls -> SUBSET Agents]

StateTypes == AgentTypes /\ CallTypes

RegistryTypes ==
  /\ registry \in [Ids -> Agents \cup {NoAgent}]
  /\ \A i \in Ids : registry[i] # NoAgent => IdOf[registry[i]] = i

LEMMA TypesSplit == TypeOK <=> StateTypes /\ RegistryTypes
BY DEF TypeOK, StateTypes, AgentTypes, CallTypes, RegistryTypes

LEMMA RegistryStep ==
  ASSUME RegistryTypes, NEW a \in Agents,
         \/ registry' = [registry EXCEPT ![IdOf[a]] = a]
         \/ registry' = [registry EXCEPT ![IdOf[a]] = NoAgent]
         \/ registry' = [i \in Ids |-> NoAgent]
         \/ registry' = registry
  PROVE  RegistryTypes'
<1>1. IdOf[a] \in Ids
  BY AgentAssumption
<1>2. CASE registry' = [registry EXCEPT ![IdOf[a]] = a]
  BY <1>1, <1>2 DEF RegistryTypes
<1>3. CASE registry' = [registry EXCEPT ![IdOf[a]] = NoAgent]
  BY <1>1, <1>3 DEF RegistryTypes
<1>4. CASE registry' = [i \in Ids |-> NoAgent] \/ registry' = registry
  BY <1>4 DEF RegistryTypes
<1> QED
  BY <1>2, <1>3, <1>4

LEMMA AgentStep ==
  ASSUME AgentTypes, NEW a \in Agents, NEW s \in AgentState,
         life' = life \/ life' = [life EXCEPT ![a] = s],
         failures' = failures \/ failures' = [failures EXCEPT ![a] = @ + 1],
         \/ wrappers' = wrappers
         \/ wrappers' = [wrappers EXCEPT ![a] = 0]
         \/ wrappers' = [wrappers EXCEPT ![a] = @ + 1]
  PROVE  AgentTypes'
<1>1. life' \in [Agents -> AgentState]
  BY DEF AgentTypes
<1>2. failures' \in [Agents -> Nat]
  BY DEF AgentTypes
<1>3. wrappers' \in [Agents -> Nat]
  BY DEF AgentTypes
<1> QED
  BY <1>1, <1>2, <1>3 DEF AgentTypes

IInv == StateTypes /\ RegistryTypes /\ SubjectInv

LEMMA InitIInv == Init => IInv
BY AgentAssumption
DEF Init, IInv, StateTypes, AgentTypes, CallTypes, RegistryTypes, SubjectInv, AgentState,
    CallState

LEMMA NextIInv == IInv /\ [Next]_vars => IInv'
<1> SUFFICES ASSUME IInv, [Next]_vars PROVE IInv'
  OBVIOUS
<1>t. TypeOK /\ AgentTypes /\ CallTypes /\ RegistryTypes /\ SubjectInv
  BY TypesSplit DEF IInv, StateTypes
<1>n. NoAgent \notin Agents
  BY AgentAssumption
<1> DEFINE Kept == AgentTypes' /\ CallTypes' /\ RegistryTypes' /\ SubjectInv'
<1> SUFFICES Kept
  BY DEF IInv, StateTypes
<1> USE DEF agentVars, taskVars
<1>1. ASSUME NEW c \in Calls, NEW a \in Agents, RegisterAndStart(c, a) PROVE Kept
  <2>1. AgentTypes'
    BY <1>t, <1>1, AgentStep DEF AgentState, RegisterAndStart, Begins, Move, GoTo
  <2>2. CallTypes'
    BY <1>t, <1>1 DEF CallTypes, CallState, RegisterAndStart, Begins, Move, GoTo
  <2>3. RegistryTypes'
    BY <1>t, <1>1, RegistryStep DEF RegisterAndStart, Begins, Move, GoTo
  <2>4. SubjectInv'
    BY <1>t, <1>n, <1>1 DEF CallTypes, SubjectInv, RegisterAndStart, Begins, Move, GoTo
  <2> QED
    BY <2>1, <2>2, <2>3, <2>4
<1>2. ASSUME NEW c \in Calls, NEW a \in Agents, RegisterAndFail(c, a) PROVE Kept
  <2>1. AgentTypes'
    BY <1>t, <1>2, AgentStep DEF AgentState, RegisterAndFail, Begins, Move, GoTo
  <2>2. CallTypes'
    BY <1>t, <1>2 DEF CallTypes, CallState, RegisterAndFail, Begins, Move, GoTo
  <2>3. RegistryTypes'
    BY <1>t, <1>2, RegistryStep DEF RegisterAndFail, Begins, Move, GoTo
  <2>4. SubjectInv'
    BY <1>t, <1>n, <1>2 DEF CallTypes, SubjectInv, RegisterAndFail, Begins, Move, GoTo
  <2> QED
    BY <2>1, <2>2, <2>3, <2>4
<1>3. ASSUME NEW c \in Calls, NEW a \in Agents, StopAgent(c, a) PROVE Kept
  <2>1. AgentTypes'
    BY <1>t, <1>3, AgentStep DEF AgentState, StopAgent, StopNow, Begins, Move, GoTo, End, RemoveId
  <2>2. CallTypes'
    BY <1>t, <1>3 DEF CallTypes, CallState, StopAgent, StopNow, Begins, Move, GoTo, End, RemoveId
  <2>3. RegistryTypes'
    BY <1>t, <1>3, RegistryStep DEF StopAgent, StopNow, Begins, Move, GoTo, End, RemoveId
  <2>4. SubjectInv'
    BY <1>t, <1>n, <1>3
    DEF CallTypes, SubjectInv, StopAgent, StopNow, Begins, Move, GoTo, End, RemoveId
  <2> QED
    BY <2>1, <2>2, <2>3, <2>4
<1>4. ASSUME NEW c \in Calls, StopAll(c) PROVE Kept
  <2>1. AgentTypes'
    BY <1>t, <1>4 DEF AgentTypes, StopAll, Begins, GoTo
  <2>2. CallTypes'
    BY <1>t, <1>4 DEF CallTypes, CallState, StopAll, Begins, GoTo
  <2>3. RegistryTypes'
    BY <1>t, <1>4 DEF RegistryTypes, StopAll, Begins, GoTo
  <2>4. SubjectInv'
    BY <1>t, <1>n, <1>4 DEF CallTypes, SubjectInv, StopAll, Begins, GoTo
  <2> QED
    BY <2>1, <2>2, <2>3, <2>4
<1>5. ASSUME NEW c \in Calls, Subscribe(c) PROVE Kept
  <2>1. subject[c] \in Agents
    BY <1>t, <1>5 DEF Subscribe, CallTypes, SubjectInv
  <2>2. AgentTypes'
    BY <1>t, <1>5, <2>1, AgentStep DEF Subscribe, AgentTypes
  <2>3. CallTypes' /\ SubjectInv'
    BY <1>t, <1>5 DEF Subscribe, GoTo, CallTypes, CallState, SubjectInv
  <2>4. RegistryTypes'
    BY <1>t, <1>5 DEF Subscribe, RegistryTypes
  <2> QED
    BY <2>2, <2>3, <2>4
<1>6. ASSUME NEW c \in Calls, subject[c] \in Agents, StartFails(c, subject[c]),
             pc[c] \in {"setup", "subscribed", "announcing"},
             UNCHANGED <<wrappers, taskVars>>
      PROVE  Kept
  <2> DEFINE a == subject[c]
  <2>1. CASE /\ life' = [life EXCEPT ![a] = "failed"]
             /\ failures' = [failures EXCEPT ![a] = @ + 1]
             /\ pc' = [pc EXCEPT ![c] = "failing"]
             /\ UNCHANGED <<registry, subject>>
    <3>1. AgentTypes'
      BY <1>t, <1>6, <2>1, AgentStep DEF AgentState
    <3>2. CallTypes' /\ SubjectInv'
      BY <1>t, <1>n, <1>6, <2>1 DEF CallTypes, CallState, SubjectInv
    <3>3. RegistryTypes'
      BY <1>t, <2>1 DEF RegistryTypes
    <3> QED
      BY <3>1, <3>2, <3>3
  <2>2. CASE /\ registry' = [registry EXCEPT ![IdOf[a]] = NoAgent]
             /\ pc' = [pc EXCEPT ![c] = "raised"]
             /\ subject' = [subject EXCEPT ![c] = NoAgent]
             /\ UNCHANGED <<life, failures>>
    <3>1. RegistryTypes'
      BY <1>t, <1>6, <2>2, RegistryStep
    <3>2. CallTypes' /\ SubjectInv'
      BY <1>t, <1>6, <2>2 DEF CallTypes, CallState, SubjectInv
    <3>3. AgentTypes'
      BY <1>t, <1>6, <2>2 DEF AgentTypes
    <3> QED
      BY <3>1, <3>2, <3>3
  <2> QED
    BY <1>t, <1>6, <2>1, <2>2, StartFailsFacts
<1>7. ASSUME NEW c \in Calls, SetupRaises(c) \/ AnnounceRaises(c) PROVE Kept
  <2>1. subject[c] \in Agents
    BY <1>t, <1>7 DEF SetupRaises, AnnounceRaises, CallTypes, SubjectInv
  <2> QED
    BY <1>6, <1>7, <2>1 DEF SetupRaises, AnnounceRaises
<1>8. ASSUME NEW c \in Calls, SetupEnds(c) PROVE Kept
  <2>1. subject[c] \in Agents
    BY <1>t, <1>8 DEF SetupEnds, CallTypes, SubjectInv
  <2>2. CASE CanMove(subject[c], "running")
    <3>1. AgentTypes'
      BY <1>t, <1>8, <2>1, <2>2, AgentStep DEF SetupEnds, Move, AgentState
    <3>2. CallTypes' /\ SubjectInv' /\ RegistryTypes'
      BY <1>t, <1>8, <2>2
      DEF SetupEnds, GoTo, CallTypes, CallState, SubjectInv, RegistryTypes
    <3> QED
      BY <3>1, <3>2
  <2>3. CASE ~CanMove(subject[c], "running")
    BY <1>6, <1>8, <2>1, <2>3 DEF SetupEnds
  <2> QED
    BY <2>2, <2>3
<1>9. ASSUME NEW c \in Calls, ReturnStarted(c) PROVE Kept
  <2>1. AgentTypes' /\ RegistryTypes'
    BY <1>t, <1>9 DEF ReturnStarted, AgentTypes, RegistryTypes
  <2>2. CallTypes' /\ SubjectInv'
    BY <1>t, <1>9 DEF ReturnStarted, End, GoTo, CallTypes, CallState, SubjectInv
  <2> QED
    BY <2>1, <2>2
<1>10. ASSUME NEW c \in Calls, ReraiseFailure(c) \/ ReturnStopped(c) PROVE Kept
  <2>1. subject[c] \in Agents
    BY <1>t, <1>10 DEF ReraiseFailure, ReturnStopped, CallTypes, SubjectInv
  <2>2. RegistryTypes'
    BY <1>t, <1>10, <2>1, RegistryStep DEF ReraiseFailure, ReturnStopped, RemoveId
  <2>3. CallTypes' /\ SubjectInv'
    BY <1>t, <1>10 DEF ReraiseFailure, ReturnStopped, End, GoTo, CallTypes, CallState, SubjectInv
  <2>4. AgentTypes'
    BY <1>t, <1>10 DEF ReraiseFailure, ReturnStopped, AgentTypes
  <2> QED
    BY <2>2, <2>3, <2>4
<1>11. ASSUME NEW c \in Calls, NEW a \in Agents, StopTask(c, a) PROVE Kept
  <2>1. AgentTypes'
    BY <1>t, <1>11, AgentStep DEF StopTask, StopNow, Move, AgentState
  <2>2. RegistryTypes'
    BY <1>t, <1>11 DEF StopTask, RegistryTypes
  <2>3. toStop' \in [Calls -> SUBSET Agents] /\ stopping' \in [Calls -> SUBSET Agents]
    BY <1>t, <1>11 DEF StopTask, CallTypes
  <2>4. CallTypes'
    BY <1>t, <1>11, <2>3 DEF StopTask, CallTypes
  <2>5. SubjectInv'
    BY <1>t, <1>11 DEF StopTask, CallTypes, SubjectInv
  <2> QED
    BY <2>1, <2>2, <2>4, <2>5
<1>12. ASSUME NEW c \in Calls, NEW a \in Agents, StopTaskEnds(c, a) PROVE Kept
  <2>1. AgentTypes' /\ RegistryTypes'
    BY <1>t, <1>12 DEF StopTaskEnds, AgentTypes, RegistryTypes
  <2>2. CallTypes' /\ SubjectInv'
    BY <1>t, <1>12 DEF StopTaskEnds, CallTypes, SubjectInv
  <2> QED
    BY <2>1, <2>2
<1>13. ASSUME NEW c \in Calls, ReturnAllStopped(c) PROVE Kept
  <2>1. AgentTypes' /\ RegistryTypes'
    BY <1>t, <1>13 DEF ReturnAllStopped, AgentTypes, RegistryTypes
  <2>2. CallTypes' /\ SubjectInv'
    BY <1>t, <1>13
    DEF ReturnAllStopped, AllTasksDone, End, GoTo, CallTypes, CallState, SubjectInv
  <2> QED
    BY <2>1, <2>2
<1>14. ASSUME NEW a \in Agents, Pause(a) \/ Resume(a) PROVE Kept
  <2>1. AgentTypes'
    BY <1>t, <1>14, AgentStep DEF Pause, Resume, Move, AgentState
  <2>2. CallTypes' /\ SubjectInv' /\ RegistryTypes'
    BY <1>t, <1>14 DEF Pause, Resume, CallTypes, SubjectInv, RegistryTypes
  <2> QED
    BY <2>1, <2>2
<1>15. CASE UNCHANGED vars
  <2>1. AgentTypes' /\ RegistryTypes'
    BY <1>t, <1>15 DEF vars, AgentTypes, RegistryTypes
  <2>2. CallTypes' /\ SubjectInv'
    BY <1>t, <1>15 DEF vars, CallTypes, SubjectInv
  <2> QED
    BY <2>1, <2>2
<1> HIDE DEF Kept
<1> QED
  BY <1>1, <1>2, <1>3, <1>4, <1>5, <1>7, <1>8, <1>9, <1>10, <1>11, <1>12, <1>13, <1>14, <1>15
  DEF Next, Continue

-----------------------------------------------------------------------------
\* What the two invariants about states of agents need of a step.

Starting(a) == \E c \in Calls : subject[c] = a /\ pc[c] \in {"setup", "subscribed"}

StateInv == \A a \in Agents :
  /\ life[a] = "initialized" => Starting(a)
  /\ Registered(a) /\ ~IsActive(a) => Handled(a)

LEMMA InitStateInv == Init => StateInv
BY AgentAssumption DEF Init, StateInv, Registered

LEMMA NextStateInv == IInv /\ StateInv /\ [Next]_vars => StateInv'
<1> SUFFICES ASSUME IInv, StateInv, [Next]_vars, NEW a \in Agents
             PROVE  /\ life'[a] = "initialized" => Starting(a)'
                    /\ Registered(a)' /\ ~IsActive(a)' => Handled(a)'
  BY DEF StateInv
<1> DEFINE Kept == /\ life'[a] = "initialized" => Starting(a)'
                   /\ Registered(a)' /\ ~IsActive(a)' => Handled(a)'
<1>t. TypeOK /\ AgentTypes /\ CallTypes /\ RegistryTypes /\ SubjectInv
  BY TypesSplit DEF IInv, StateTypes
<1>n. NoAgent \notin Agents /\ IdOf \in [Agents -> Ids]
  BY AgentAssumption
<1>s. /\ life[a] = "initialized" => Starting(a)
      /\ Registered(a) /\ ~IsActive(a) => Handled(a)
  BY DEF StateInv
<1> USE DEF agentVars, taskVars, Starting, Handled, Registered, IsActive
<1>removed. ASSUME NEW c \in Calls, NEW b \in Agents, life' = life,
                   registry' = [registry EXCEPT ![IdOf[b]] = NoAgent],
                   \A d \in Calls \ {c} : pc'[d] = pc[d] /\ subject'[d] = subject[d],
                   \/ pc[c] \in {"idle", "announcing"}
                   \/ pc[c] \in {"failing", "cleanup"} /\ b = subject[c]
                   \/ subject[c] = b /\ life[b] \in {"paused", "stopped", "failed"}
                      /\ pc[c] \in {"setup", "subscribed"}
            PROVE  Kept
  <2>1. Registered(a)' => Registered(a) /\ IdOf[a] # IdOf[b]
    BY <1>t, <1>n, <1>removed DEF RegistryTypes
  <2> QED
    BY <1>s, <1>removed, <2>1
<1>1. ASSUME NEW c \in Calls, NEW b \in Agents, RegisterAndStart(c, b) PROVE Kept
  BY <1>t, <1>n, <1>s, <1>1
  DEF RegisterAndStart, Begins, Move, GoTo, AgentTypes, CallTypes, RegistryTypes
<1>2. ASSUME NEW c \in Calls, NEW b \in Agents, RegisterAndFail(c, b) PROVE Kept
  BY <1>t, <1>n, <1>s, <1>2
  DEF RegisterAndFail, Begins, Move, GoTo, AgentTypes, CallTypes, RegistryTypes
<1>3. ASSUME NEW c \in Calls, NEW b \in Agents, StopAgent(c, b) PROVE Kept
  <2>1. CASE IsActive(b)
    <3>1. /\ pc[c] = "idle" /\ pc'[c] = "cleanup" /\ subject'[c] = b
          /\ \A d \in Calls \ {c} : pc'[d] = pc[d] /\ subject'[d] = subject[d]
          /\ life'[b] = "stopped" /\ (a # b => life'[a] = life[a])
          /\ registry' = registry
      BY <1>t, <1>3, <2>1
      DEF StopAgent, StopNow, Begins, Move, GoTo, AgentTypes, CallTypes
    <3>2. CASE a = b
      BY <3>1, <3>2
    <3>3. CASE a # b
      BY <1>s, <3>1, <3>3
    <3> QED
      BY <3>2, <3>3
  <2>2. CASE ~IsActive(b)
    <3>1. /\ registry' = [registry EXCEPT ![IdOf[b]] = NoAgent]
          /\ pc[c] = "idle" /\ life' = life
          /\ \A d \in Calls \ {c} : pc'[d] = pc[d] /\ subject'[d] = subject[d]
      BY <1>t, <1>3, <2>2 DEF StopAgent, Begins, End, GoTo, RemoveId, CallTypes
    <3> QED
      BY <1>removed, <1>3, <3>1
  <2> QED
    BY <2>1, <2>2
<1>4. ASSUME NEW c \in Calls, StopAll(c) PROVE Kept
  BY <1>t, <1>n, <1>s, <1>4 DEF StopAll, Begins, GoTo, CallTypes
<1>5. ASSUME NEW c \in Calls, Subscribe(c) PROVE Kept
  BY <1>t, <1>n, <1>s, <1>5 DEF Subscribe, GoTo, CallTypes
<1>6. ASSUME NEW c \in Calls, subject[c] \in Agents, StartFails(c, subject[c]),
             pc[c] \in {"setup", "subscribed", "announcing"}
      PROVE  Kept
  <2>1. CASE /\ life' = [life EXCEPT ![subject[c]] = "failed"]
             /\ pc' = [pc EXCEPT ![c] = "failing"]
             /\ UNCHANGED <<registry, subject>>
    BY <1>t, <1>n, <1>s, <1>6, <2>1 DEF AgentTypes, CallTypes, RegistryTypes
  <2>2. CASE /\ life[subject[c]] \in {"paused", "stopped", "failed"}
             /\ registry' = [registry EXCEPT ![IdOf[subject[c]]] = NoAgent]
             /\ pc' = [pc EXCEPT ![c] = "raised"]
             /\ subject' = [subject EXCEPT ![c] = NoAgent]
             /\ UNCHANGED life
    <3>1. \A d \in Calls \ {c} : pc'[d] = pc[d] /\ subject'[d] = subject[d]
      BY <1>t, <2>2 DEF CallTypes
    <3> QED
      BY <1>removed, <1>6, <2>2, <3>1
  <2> QED
    BY <1>t, <1>6, <2>1, <2>2, StartFailsFacts
<1>7. ASSUME NEW c \in Calls, SetupRaises(c) \/ AnnounceRaises(c) PROVE Kept
  <2>1. subject[c] \in Agents
    BY <1>t, <1>7 DEF SetupRaises, AnnounceRaises, CallTypes, SubjectInv
  <2> QED
    BY <1>6, <1>7, <2>1 DEF SetupRaises, AnnounceRaises
<1>8. ASSUME NEW c \in Calls, SetupEnds(c) PROVE Kept
  <2>1. subject[c] \in Agents
    BY <1>t, <1>8 DEF SetupEnds, CallTypes, SubjectInv
  <2>2. CASE CanMove(subject[c], "running")
    <3>1. /\ pc[c] = "subscribed" /\ subject' = subject /\ registry' = registry
          /\ \A d \in Calls \ {c} : pc'[d] = pc[d]
          /\ life'[subject[c]] = "running" /\ (a # subject[c] => life'[a] = life[a])
      BY <1>t, <1>8, <2>1, <2>2 DEF SetupEnds, Move, GoTo, AgentTypes, CallTypes
    <3>2. CASE a = subject[c]
      BY <3>1, <3>2
    <3>3. CASE a # subject[c]
      BY <1>s, <3>1, <3>3
    <3> QED
      BY <3>2, <3>3
  <2>3. CASE ~CanMove(subject[c], "running")
    BY <1>6, <1>8, <2>1, <2>3 DEF SetupEnds
  <2> QED
    BY <2>2, <2>3
<1>9. ASSUME NEW c \in Calls, ReturnStarted(c) PROVE Kept
  BY <1>t, <1>n, <1>s, <1>9 DEF ReturnStarted, End, GoTo, CallTypes
<1>10. ASSUME NEW c \in Calls, ReraiseFailure(c) \/ ReturnStopped(c) PROVE Kept
  <2>1. subject[c] \in Agents
    BY <1>t, <1>10 DEF ReraiseFailure, ReturnStopped, CallTypes, SubjectInv
  <2> DEFINE b == subject[c]
  <2>2. /\ pc[c] \in {"failing", "cleanup"}
        /\ registry' = [registry EXCEPT ![IdOf[b]] = NoAgent]
        /\ \A d \in Calls \ {c} : pc'[d] = pc[d] /\ subject'[d] = subject[d]
        /\ life' = life
    BY <1>t, <1>10
    DEF ReraiseFailure, ReturnStopped, RemoveId, End, GoTo, CallTypes, SubjectInv
  <2>3. b = subject[c]
    OBVIOUS
  <2> HIDE DEF Kept, b
  <2> QED
    BY <1>removed, <2>1, <2>2, <2>3
<1>11. ASSUME NEW c \in Calls, NEW b \in Agents, StopTask(c, b) PROVE Kept
  <2>1. pc[c] = "stopping all"
    BY <1>t, <1>11 DEF StopTask, SubjectInv
  <2> QED
    BY <1>t, <1>s, <1>11, <2>1 DEF StopTask, StopNow, Move, AgentTypes
<1>12. ASSUME NEW c \in Calls, NEW b \in Agents, StopTaskEnds(c, b) PROVE Kept
  BY <1>s, <1>12 DEF StopTaskEnds
<1>13. ASSUME NEW c \in Calls, ReturnAllStopped(c) PROVE Kept
  <2>1. ~Registered(a)'
    BY <1>n, <1>13 DEF ReturnAllStopped
  <2>2. /\ pc[c] = "stopping all" /\ life' = life
        /\ \A d \in Calls \ {c} : pc'[d] = pc[d] /\ subject'[d] = subject[d]
    BY <1>t, <1>13 DEF ReturnAllStopped, End, GoTo, CallTypes
  <2> QED
    BY <1>s, <2>1, <2>2
<1>14. ASSUME NEW b \in Agents, Pause(b) \/ Resume(b) PROVE Kept
  BY <1>t, <1>s, <1>14 DEF Pause, Resume, Move, AgentTypes
<1>15. ASSUME UNCHANGED vars PROVE Kept
  BY <1>s, <1>15 DEF vars
<1> HIDE DEF Kept
<1>16. Kept
  BY <1>1, <1>2, <1>3, <1>4, <1>5, <1>7, <1>8, <1>9, <1>10, <1>11, <1>12, <1>13, <1>14, <1>15
  DEF Next, Continue
<1> QED
  BY <1>16 DEF Kept

-----------------------------------------------------------------------------
\* Subscriptions, made and to come, against starts.

LEMMA PendingFacts ==
  ASSUME NEW P \in SUBSET Calls, NEW Q \in SUBSET Calls, NEW c \in Calls
  PROVE  /\ Cardinality(P) \in Nat
         /\ Q \subseteq P => Cardinality(Q) <= Cardinality(P)
         /\ Q \subseteq P \cup {c} => Cardinality(Q) <= Cardinality(P) + 1
         /\ c \in P /\ Q \subseteq P \ {c} => Cardinality(Q) <= Cardinality(P) - 1
<1>1. IsFiniteSet(Calls)
  BY AgentAssumption, FS_Interval DEF Calls
<1>2. IsFiniteSet(P) /\ IsFiniteSet(P \cup {c}) /\ IsFiniteSet(P \ {c})
  BY <1>1, FS_Subset, FS_AddElement, FS_RemoveElement
<1>3. Cardinality(P) \in Nat /\ Cardinality(P \cup {c}) \in Nat /\ Cardinality(Q) \in Nat
  BY <1>1, <1>2, FS_Subset, FS_CardinalityType
<1>4. Cardinality(P \cup {c}) <= Cardinality(P) + 1
  BY <1>2, <1>3, FS_AddElement
<1>5. c \in P => Cardinality(P \ {c}) = Cardinality(P) - 1
  BY <1>2, FS_RemoveElement
<1>6. Q \subseteq P => Cardinality(Q) <= Cardinality(P)
  BY <1>2, FS_Subset
<1>7. Q \subseteq P \cup {c} => Cardinality(Q) <= Cardinality(P \cup {c})
  BY <1>2, FS_Subset
<1>8. Q \subseteq P \ {c} => Cardinality(Q) <= Cardinality(P \ {c})
  BY <1>2, FS_Subset
<1> QED
  BY <1>3, <1>4, <1>5, <1>6, <1>7, <1>8

\* An action that makes no start or subscription pending keeps the bound where it
\* allows no less than before.
LEMMA NoMorePending ==
  ASSUME AgentTypes, AgentTypes', WrapperInv, NEW a \in Agents, Pending(a)' \subseteq Pending(a),
         wrappers'[a] <= wrappers[a], Allowance(a)' >= Allowance(a), NEW c \in Calls
  PROVE  wrappers'[a] + Cardinality(Pending(a)') <= Allowance(a)'
<1>1. Pending(a) \subseteq Calls /\ Pending(a)' \subseteq Calls
  BY DEF Pending
<1>2. /\ Cardinality(Pending(a)) \in Nat /\ Cardinality(Pending(a)') \in Nat
      /\ Cardinality(Pending(a)') <= Cardinality(Pending(a))
  BY <1>1, PendingFacts
<1>3. wrappers[a] + Cardinality(Pending(a)) <= Allowance(a)
  BY DEF WrapperInv
<1>4. wrappers[a] \in Nat /\ wrappers'[a] \in Nat /\ Allowance(a) \in Nat /\ Allowance(a)' \in Nat
  BY DEF AgentTypes, Allowance
<1> QED
  BY <1>2, <1>3, <1>4

LEMMA InitWrapperInv == Init => WrapperInv
<1> SUFFICES ASSUME Init, NEW a \in Agents
             PROVE  wrappers[a] + Cardinality(Pending(a)) <= Allowance(a)
  BY DEF WrapperInv, Allowance
<1>1. Pending(a) = {}
  BY DEF Init, Pending
<1>2. wrappers[a] = 0 /\ failures[a] = 0 /\ life[a] = "created"
  BY DEF Init
<1> QED
  BY <1>1, <1>2, FS_EmptySet DEF Allowance

LEMMA NextWrapperInv == IInv /\ IInv' /\ WrapperInv /\ [Next]_vars => WrapperInv'
<1> SUFFICES ASSUME IInv, IInv', WrapperInv, [Next]_vars, NEW a \in Agents
             PROVE  wrappers'[a] + Cardinality(Pending(a)') <= Allowance(a)'
  BY DEF WrapperInv, Allowance
<1> DEFINE Kept == wrappers'[a] + Cardinality(Pending(a)') <= Allowance(a)'
           Frame == /\ Pending(a)' \subseteq Pending(a)
                    /\ wrappers'[a] <= wrappers[a]
                    /\ Allowance(a)' >= Allowance(a)
<1>t. TypeOK /\ AgentTypes /\ AgentTypes' /\ CallTypes /\ SubjectInv
  BY TypesSplit DEF IInv, StateTypes
<1>f. ASSUME Frame, NEW c \in Calls PROVE Kept
  BY <1>t, <1>f, NoMorePending
<1>w. /\ wrappers[a] + Cardinality(Pending(a)) <= Allowance(a)
      /\ wrappers[a] \in Nat /\ failures[a] \in Nat
      /\ Pending(a) \subseteq Calls /\ Pending(a)' \subseteq Calls
  BY <1>t DEF WrapperInv, AgentTypes, Pending
<1>n. NoAgent \notin Agents
  BY AgentAssumption
<1> USE DEF agentVars, taskVars
<1> HIDE DEF Kept
<1>1. ASSUME NEW c \in Calls, NEW b \in Agents, RegisterAndStart(c, b) PROVE Kept
  <2>1. /\ life[b] \in {"created", "failed"} /\ life' = [life EXCEPT ![b] = "initialized"]
        /\ failures' = failures /\ wrappers' = wrappers
        /\ pc[c] = "idle" /\ pc' = [pc EXCEPT ![c] = "setup"]
        /\ subject' = [subject EXCEPT ![c] = b]
    BY <1>t, <1>1, MoveFacts DEF RegisterAndStart, Begins, Move, GoTo
  <2>2. CASE a = b
    <3>1. Pending(a)' \subseteq Pending(a) \cup {c}
      BY <1>t, <2>1 DEF Pending, CallTypes
    <3>2. Cardinality(Pending(a)') <= Cardinality(Pending(a)) + 1
          /\ Cardinality(Pending(a)) \in Nat /\ Cardinality(Pending(a)') \in Nat
      BY <1>w, <3>1, PendingFacts
    <3>3. Allowance(a) = failures[a] /\ Allowance(a)' = failures[a] + 1
      BY <1>t, <2>1, <2>2 DEF Allowance, AgentTypes
    <3>4. wrappers' = wrappers
      BY <2>1
    <3> QED
      BY <1>w, <3>2, <3>3, <3>4 DEF Kept
  <2>3. CASE a # b
    <3>1. Frame
      BY <1>t, <2>1, <2>3 DEF Pending, Allowance, AgentTypes, CallTypes
    <3> QED
      BY <1>f, <3>1
  <2> QED
    BY <2>2, <2>3
<1>2. ASSUME NEW c \in Calls, NEW b \in Agents, RegisterAndFail(c, b) PROVE Kept
  <2>1. /\ life[b] \notin {"created", "failed"} /\ life' = [life EXCEPT ![b] = "failed"]
        /\ failures' = [failures EXCEPT ![b] = @ + 1] /\ wrappers' = wrappers
        /\ pc' = [pc EXCEPT ![c] = "failing"]
        /\ subject' = [subject EXCEPT ![c] = b]
    BY <1>t, <1>2, MoveFacts DEF RegisterAndFail, Begins, Move, GoTo
  <2>2. Frame
    BY <1>t, <2>1 DEF Pending, Allowance, AgentTypes, CallTypes
  <2> QED
    BY <1>f, <2>2
<1>3. ASSUME NEW c \in Calls, NEW b \in Agents, StopAgent(c, b) PROVE Kept
  <2>1. CASE IsActive(b)
    <3>1. /\ life[b] \in {"running", "paused"} /\ life' = [life EXCEPT ![b] = "stopped"]
          /\ failures' = failures /\ wrappers' = [wrappers EXCEPT ![b] = 0]
          /\ pc' = [pc EXCEPT ![c] = "cleanup"]
          /\ subject' = [subject EXCEPT ![c] = b]
      BY <1>3, <2>1 DEF StopAgent, StopNow, IsActive, Move, GoTo
    <3>2. Frame
      BY <1>t, <3>1 DEF Pending, Allowance, AgentTypes, CallTypes
    <3> QED
      BY <1>f, <3>2
  <2>2. CASE ~IsActive(b)
    <3>1. Frame
      BY <1>t, <1>3, <2>2, <1>n
      DEF StopAgent, Begins, End, GoTo, Pending, Allowance, AgentTypes, CallTypes
    <3> QED
      BY <1>f, <3>1
  <2> QED
    BY <2>1, <2>2
<1>4. ASSUME NEW c \in Calls, StopAll(c) PROVE Kept
  <2>1. /\ pc' = [pc EXCEPT ![c] = "stopping all"]
        /\ UNCHANGED <<life, failures, wrappers, subject>>
    BY <1>4 DEF StopAll, GoTo, agentVars
  <2>2. Frame
    <3>1. Pending(a)' \subseteq Pending(a)
      BY <1>t, <2>1 DEF Pending, CallTypes
    <3>2. Allowance(a)' = Allowance(a) /\ wrappers'[a] = wrappers[a]
      BY <2>1 DEF Allowance
    <3>3. Allowance(a) \in Nat
      BY <1>w DEF Allowance
    <3> QED
      BY <1>w, <3>1, <3>2, <3>3
  <2> QED
    BY <1>f, <2>2, <1>4
<1>5. ASSUME NEW c \in Calls, Subscribe(c) PROVE Kept
  <2>1. /\ pc[c] = "setup" /\ pc' = [pc EXCEPT ![c] = "subscribed"] /\ subject' = subject
        /\ wrappers' = [wrappers EXCEPT ![subject[c]] = @ + 1]
        /\ life' = life /\ failures' = failures
    BY <1>5 DEF Subscribe, GoTo
  <2>2. CASE a = subject[c]
    <3>1. c \in Pending(a) /\ Pending(a)' \subseteq Pending(a) \ {c}
      BY <1>t, <2>1, <2>2 DEF Pending, CallTypes
    <3>2. /\ Cardinality(Pending(a)) \in Nat /\ Cardinality(Pending(a)') \in Nat
          /\ Cardinality(Pending(a)') <= Cardinality(Pending(a)) - 1
      BY <1>w, <3>1, PendingFacts
    <3>3. wrappers'[a] = wrappers[a] + 1 /\ Allowance(a)' = Allowance(a)
      BY <1>t, <2>1, <2>2 DEF Allowance, AgentTypes
    <3>4. Allowance(a) \in Nat
      BY <1>w DEF Allowance
    <3> QED
      BY <1>w, <3>2, <3>3, <3>4 DEF Kept
  <2>3. CASE a # subject[c]
    <3>1. Frame
      BY <1>t, <2>1, <2>3 DEF Pending, Allowance, AgentTypes, CallTypes
    <3> QED
      BY <1>f, <3>1
  <2> QED
    BY <2>2, <2>3
<1>6. ASSUME NEW c \in Calls, subject[c] \in Agents, StartFails(c, subject[c]),
             UNCHANGED <<wrappers, taskVars>>
      PROVE  Kept
  <2>1. CASE /\ life' = [life EXCEPT ![subject[c]] = "failed"]
             /\ failures' = [failures EXCEPT ![subject[c]] = @ + 1]
             /\ pc' = [pc EXCEPT ![c] = "failing"]
             /\ UNCHANGED <<registry, subject>>
    <3>1. Frame
      BY <1>t, <1>6, <2>1 DEF Pending, Allowance, AgentTypes, CallTypes
    <3> QED
      BY <1>f, <3>1
  <2>2. CASE /\ pc' = [pc EXCEPT ![c] = "raised"]
             /\ subject' = [subject EXCEPT ![c] = NoAgent]
             /\ UNCHANGED <<life, failures>>
    <3>1. Frame
      BY <1>t, <1>6, <1>n, <2>2 DEF Pending, Allowance, AgentTypes, CallTypes
    <3> QED
      BY <1>f, <3>1
  <2> QED
    BY <1>t, <1>6, <2>1, <2>2, StartFailsFacts
<1>7. ASSUME NEW c \in Calls, SetupRaises(c) \/ AnnounceRaises(c) PROVE Kept
  <2>1. subject[c] \in Agents
    BY <1>t, <1>7 DEF SetupRaises, AnnounceRaises, CallTypes, SubjectInv
  <2> QED
    BY <1>6, <1>7, <2>1 DEF SetupRaises, AnnounceRaises
<1>8. ASSUME NEW c \in Calls, SetupEnds(c) PROVE Kept
  <2>1. subject[c] \in Agents
    BY <1>t, <1>8 DEF SetupEnds, CallTypes, SubjectInv
  <2>2. CASE CanMove(subject[c], "running")
    <3>1. /\ life[subject[c]] \in {"initialized", "paused"}
          /\ life' = [life EXCEPT ![subject[c]] = "running"]
          /\ pc' = [pc EXCEPT ![c] = "announcing"]
          /\ UNCHANGED <<failures, subject, wrappers>>
      BY <1>t, <1>8, <2>1, <2>2, MoveFacts DEF SetupEnds, Move, GoTo
    <3>2. Frame
      BY <1>t, <2>1, <3>1 DEF Pending, Allowance, AgentTypes, CallTypes
    <3> QED
      BY <1>f, <3>2
  <2>3. CASE ~CanMove(subject[c], "running")
    BY <1>6, <1>8, <2>1, <2>3 DEF SetupEnds
  <2> QED
    BY <2>2, <2>3
<1>9. ASSUME NEW c \in Calls,
             ReturnStarted(c) \/ ReraiseFailure(c) \/ ReturnStopped(c) \/ ReturnAllStopped(c)
      PROVE  Kept
  <2>1. /\ UNCHANGED agentVars /\ subject' = [subject EXCEPT ![c] = NoAgent]
        /\ \A d \in Calls \ {c} : pc'[d] = pc[d]
    BY <1>t, <1>9
    DEF ReturnStarted, ReraiseFailure, ReturnStopped, ReturnAllStopped, End, GoTo, CallTypes
  <2>2. Frame
    BY <1>t, <1>n, <2>1 DEF Pending, Allowance, AgentTypes, CallTypes
  <2> QED
    BY <1>f, <2>2
<1>10. ASSUME Pending(a)' = Pending(a), Allowance(a)' = Allowance(a), wrappers' = wrappers
       PROVE  Kept
  BY <1>w, <1>10 DEF Kept
<1>11. ASSUME NEW c \in Calls, NEW b \in Agents, StopTask(c, b) PROVE Kept
  <2>1. CASE IsActive(b)
    <3>1. /\ life[b] \in {"running", "paused"} /\ life' = [life EXCEPT ![b] = "stopped"]
          /\ failures' = failures /\ wrappers' = [wrappers EXCEPT ![b] = 0]
          /\ UNCHANGED <<pc, subject>>
      BY <1>11, <2>1 DEF StopTask, StopNow, IsActive, Move
    <3>2. Frame
      BY <1>t, <3>1 DEF Pending, Allowance, AgentTypes, CallTypes
    <3> QED
      BY <1>f, <3>2
  <2>2. CASE ~IsActive(b)
    BY <1>11, <1>10, <2>2 DEF StopTask, agentVars, Pending, Allowance
  <2> QED
    BY <2>1, <2>2
<1>12. ASSUME NEW c \in Calls, NEW b \in Agents, StopTaskEnds(c, b) PROVE Kept
  <2>1. Frame
    BY <1>t, <1>12 DEF StopTaskEnds, Pending, Allowance, AgentTypes
  <2> QED
    BY <1>f, <1>12, <2>1
<1>13. ASSUME NEW b \in Agents, Pause(b) \/ Resume(b) PROVE Kept
  <2>1. /\ life[b] \in {"initialized", "running", "paused"}
        /\ life' = [life EXCEPT ![b] = "paused"] \/ life' = [life EXCEPT ![b] = "running"]
        /\ UNCHANGED <<failures, wrappers, pc, subject>>
    BY <1>t, <1>13, MoveFacts DEF Pause, Resume, Move
  <2>2. Pending(a)' = Pending(a) /\ Allowance(a)' = Allowance(a)
    BY <1>t, <2>1 DEF Pending, Allowance, AgentTypes
  <2> QED
    BY <1>10, <2>1, <2>2
<1>14. ASSUME UNCHANGED vars PROVE Kept
  BY <1>10, <1>14 DEF vars, Pending, Allowance
<1>15. Kept
  BY <1>1, <1>2, <1>3, <1>4, <1>5, <1>7, <1>8, <1>9, <1>11, <1>12, <1>13, <1>14
  DEF Next, Continue
<1> QED
  BY <1>15 DEF Kept

-----------------------------------------------------------------------------
Inv == IInv /\ StateInv /\ WrapperInv

LEMMA InvIsInvariant == Spec => []Inv
<1>1. Init => Inv
  BY InitIInv, InitStateInv, InitWrapperInv DEF Inv
<1>2. Inv /\ [Next]_vars => Inv'
  BY NextIInv, NextStateInv, NextWrapperInv DEF Inv
<1> QED
  BY <1>1, <1>2, PTL DEF Spec

\* Types are kept, and an id always holds an agent of that id.
THEOREM TypeCorrect == Spec => []TypeOK
<1>1. Inv => TypeOK
  BY TypesSplit DEF Inv, IInv, StateTypes
<1> QED
  BY <1>1, InvIsInvariant, PTL

\* However many calls overlap, an agent is initialized only while a call sets it
\* up.
THEOREM NoneStranded == Spec => []InitializedIsStarting
<1>1. Inv => InitializedIsStarting
  BY DEF Inv, StateInv, Starting, InitializedIsStarting
<1> QED
  BY <1>1, InvIsInvariant, PTL

\* When no call is under way, whatever is registered runs or is paused.
THEOREM OnlyLiveRegistered == Spec => []RegistryIsLive
<1>1. ASSUME Inv, Quiet, NEW a \in Agents, Registered(a) PROVE IsActive(a)
  <2>1. ~Handled(a)
    BY <1>1 DEF Quiet, Ended, Handled
  <2> QED
    BY <1>1, <2>1 DEF Inv, StateInv
<1>2. Inv => RegistryIsLive
  BY <1>1 DEF RegistryIsLive
<1> QED
  BY <1>2, InvIsInvariant, PTL

\* An agent has one subscription, and one more for each time it failed, at most.
THEOREM WrappersBounded == Spec => []OneWrapperPerStart
<1>1. ASSUME Inv, NEW a \in Agents PROVE wrappers[a] <= 1 + failures[a]
  <2>1. wrappers[a] + Cardinality(Pending(a)) <= Allowance(a)
    BY <1>1 DEF Inv, WrapperInv
  <2>2. wrappers[a] \in Nat /\ failures[a] \in Nat
    BY <1>1 DEF Inv, IInv, StateTypes, AgentTypes
  <2>3. Cardinality(Pending(a)) \in Nat
    <3>1. IsFiniteSet(Calls) /\ Pending(a) \subseteq Calls
      BY AgentAssumption, FS_Interval DEF Calls, Pending
    <3> QED
      BY <3>1, FS_Subset, FS_CardinalityType
  <2> QED
    BY <2>1, <2>2, <2>3 DEF Allowance
<1>2. Inv => OneWrapperPerStart
  BY <1>1 DEF OneWrapperPerStart
<1> QED
  BY <1>2, InvIsInvariant, PTL
=============================================================================
