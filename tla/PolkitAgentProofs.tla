------------------------- MODULE PolkitAgentProofs -------------------------
(***************************************************************************)
(* Proofs about PolkitAgent, for any number of launches, agents and        *)
(* faults: the reference count covers the launches that use an agent, and  *)
(* no launch terminates an agent that another one uses.                    *)
(***************************************************************************)
EXTENDS PolkitAgent, FiniteSetTheorems, TLAPS

-----------------------------------------------------------------------------
(* The inductive invariant.                                                 *)

\* The launches inside the critical section hold the lock.
CriticalIsLocked ==
    \A l \in Launches : pc[l] \in {"starting", "terminating"} => lock = l

\* While the lock is held across steps the file is cleared.
LockedIsEmpty == lock # None => file = Empty

\* A launch refers to an agent only between its acquisition and its release.
ReferenceByPhase ==
    \A l \in Launches :
        /\ pc[l] \in {"new", "done", "killed"} => ref[l] = NoReference
        /\ pc[l] = "starting" => ref[l].agent # None /\ ~ref[l].known
        /\ pc[l] = "terminating" => ref[l].agent # None /\ ref[l].known
        /\ ref[l].known => ref[l].agent # None

\* The one reference with an unknown start time is its agent's only one, and
\* the file does not name that agent.
UnknownIsAlone ==
    \A l \in Launches :
        ref[l].agent # None /\ ~ref[l].known =>
            /\ file.agent # ref[l].agent
            /\ \A m \in Launches : ref[m].agent = ref[l].agent => m = l

\* A launch that terminates its agent is the last one to refer to it.
TerminatingIsAlone ==
    \A l \in Launches :
        pc[l] = "terminating" =>
            \A m \in Launches : ref[m].agent = ref[l].agent => m = l

\* An agent that was not started is referred to by nobody.
UnusedIsUnknown ==
    \A a \in Agents : agent[a] = "unused" =>
        /\ file.agent # a
        /\ a \notin terminated
        /\ \A l \in Launches : ref[l].agent # a

\* An agent that was signalled is not offered again.
TerminatedIsForgotten ==
    /\ HeldIsNotTerminated
    /\ file.agent \notin terminated

IInv ==
    /\ TypeOK
    /\ CriticalIsLocked
    /\ LockedIsEmpty
    /\ ReferenceByPhase
    /\ UnknownIsAlone
    /\ TerminatingIsAlone
    /\ UnusedIsUnknown
    /\ TerminatedIsForgotten
    /\ CountCoversHolders

-----------------------------------------------------------------------------
(* Every step keeps the types.                                              *)

\* finish_agent_reference fills in the start time of its reference.
LEMMA KnownIsReference ==
    ASSUME NEW r \in Reference
    PROVE  [r EXCEPT !.known = TRUE] \in Reference
  BY DEF Reference

\* No action of a launch, an agent or a fault leaves an ill-typed value.
LEMMA TypeStep ==
    ASSUME TypeOK, ReferenceByPhase, [Next]_vars
    PROVE  TypeOK'
  <1> USE LaunchAssumption, AgentAssumption, FaultAssumption
  <1> USE DEF TypeOK, Reference, Life, Where, Empty, NoReference
  <1>1. ASSUME NEW l \in Launches, Launch(l) \/ ApplicationEnds(l) \/ Killed(l)
        PROVE  TypeOK'
    <2>1. CASE JoinAgent(l)
      <3>1. file' \in [agent : Agents \cup {None}, refs : Nat]
        BY <2>1 DEF JoinAgent, Joined
      <3>2. file.agent \in Agents
        BY <2>1 DEF JoinAgent, IsLive
      <3>3. \/ ref' = [ref EXCEPT ![l] = [agent |-> file.agent, known |-> TRUE]]
            \/ ref' = ref
        BY <2>1 DEF JoinAgent
      <3>4. ref' \in [Launches -> Reference]
        <4>1. [agent |-> file.agent, known |-> TRUE] \in Reference
          BY <3>2
        <4> HIDE DEF Reference
        <4> QED
          BY <3>3, <4>1
      <3>5. faults' \in 0..MaxFaults
        BY <2>1 DEF JoinAgent, Fault
      <3>6. pc' \in [Launches -> Where]
        BY <2>1 DEF JoinAgent
      <3> QED
        BY <2>1, <3>1, <3>4, <3>5, <3>6 DEF JoinAgent
    <2>2. CASE StartAgent(l)
      BY <2>2 DEF StartAgent
    <2>3. CASE NoAgent(l)
      BY <2>3 DEF NoAgent, Fault, IsLive
    <2>4. CASE FinishStart(l)
      <3>1. file' \in [agent : Agents \cup {None}, refs : Nat]
        BY <2>4 DEF FinishStart
      <3>2. ref' \in [Launches -> Reference]
        <4> HIDE DEF Reference
        <4>1. [ref[l] EXCEPT !.known = TRUE] \in Reference
          BY KnownIsReference
        <4> QED
          BY <2>4, <4>1 DEF FinishStart
      <3> QED
        BY <2>4, <3>1, <3>2 DEF FinishStart, Unlock
    <2>5. CASE StartedAgentExited(l)
      BY <2>5 DEF ReferenceByPhase, StartedAgentExited, Unlock
    <2>6. CASE AnnounceFails(l)
      BY <2>6 DEF ReferenceByPhase, AnnounceFails, Unlock, Fault
    <2>7. CASE StartTimeUnknown(l)
      BY <2>7 DEF StartTimeUnknown, Unlock, Fault
    <2>8. CASE ReleaseNothing(l)
      BY <2>8 DEF ReleaseNothing, Leave, Matches
    <2>9. CASE ReleaseShared(l)
      BY <2>9 DEF ReleaseShared, Leave, Matches, LastReference, Fault
    <2>10. CASE ReleaseLast(l)
      BY <2>10 DEF ReleaseLast, Matches, LastReference
    <2>11. CASE Terminate(l)
      BY <2>11 DEF ReferenceByPhase, Terminate, Leave
    <2>12. CASE ReleaseFails(l)
      BY <2>12 DEF ReleaseFails, Leave, Fault
    <2>13. CASE ApplicationEnds(l)
      BY <2>13 DEF ApplicationEnds
    <2>14. CASE Killed(l)
      BY <2>14 DEF Killed, Fault
    <2> QED
      BY <1>1, <2>1, <2>2, <2>3, <2>4, <2>5, <2>6, <2>7,
         <2>8, <2>9, <2>10, <2>11, <2>12, <2>13, <2>14
      DEF Launch
  <1>2. ASSUME NEW a \in Agents, AgentExits(a) \/ AgentReaped(a) \/ PidTaken(a)
        PROVE  TypeOK'
    BY <1>2 DEF AgentExits, AgentReaped, PidTaken
  <1>3. CASE UNCHANGED vars
    BY <1>3 DEF vars
  <1> QED
    BY <1>1, <1>2, <1>3 DEF Next

-----------------------------------------------------------------------------
(* The invariant without the count.                                         *)

Structure ==
    /\ CriticalIsLocked
    /\ LockedIsEmpty
    /\ ReferenceByPhase
    /\ UnknownIsAlone
    /\ TerminatingIsAlone
    /\ UnusedIsUnknown
    /\ TerminatedIsForgotten

\* A launch that finds one reference in the file and matches it is the only
\* one that refers to the agent.
LEMMA LastIsAlone ==
    ASSUME IInv, NEW l \in Launches, Matches(l), LastReference
    PROVE  \A m \in Launches : ref[m].agent = ref[l].agent => m = l
  <1> DEFINE a == file.agent
  <1>1. a \in Agents /\ ref[l] = [agent |-> a, known |-> TRUE]
    BY DEF IInv, TypeOK, Reference, ReferenceByPhase, Matches
  <1>2. IsFiniteSet(Counted(a)) /\ Cardinality(Counted(a)) \in Nat
    BY LaunchAssumption, FS_Subset, FS_CardinalityType DEF Counted
  <1>3. Cardinality(Counted(a)) <= 1
    BY <1>1, AgentAssumption DEF IInv, CountCoversHolders, LastReference
  <1>4. l \in Counted(a)
    BY <1>1 DEF Counted
  <1>5. Cardinality(Counted(a)) = 1
    BY <1>2, <1>3, <1>4, FS_EmptySet
  <1>6. \A m \in Counted(a) : m = l
    BY <1>2, <1>4, <1>5, FS_Singleton
  <1>7. ASSUME NEW m \in Launches, ref[m].agent = ref[l].agent
        PROVE  ref[m].known
    BY <1>1, <1>7, AgentAssumption DEF IInv, UnknownIsAlone
  <1> QED
    BY <1>1, <1>6, <1>7 DEF IInv, TypeOK, Reference, Counted

\* Every action keeps what relates the lock, the references and the agents:
\* the parts of the inductive invariant other than the count.
LEMMA StructureStep ==
    ASSUME IInv, [Next]_vars
    PROVE  Structure'
  <1>0. ASSUME NEW l \in Launches, ReleaseLast(l)
        PROVE  \A m \in Launches : ref[m].agent = ref[l].agent => m = l
    BY <1>0, LastIsAlone DEF ReleaseLast
  <1> USE LaunchAssumption, AgentAssumption
  <1> USE DEF IInv, TypeOK, Reference, Life, Where, Empty, NoReference
  <1> USE DEF Structure, CriticalIsLocked, LockedIsEmpty, ReferenceByPhase,
              UnknownIsAlone, TerminatingIsAlone, UnusedIsUnknown,
              TerminatedIsForgotten, HeldIsNotTerminated
  <1>1. ASSUME NEW l \in Launches, Launch(l) \/ ApplicationEnds(l) \/ Killed(l)
        PROVE  Structure'
    <2>1. CASE JoinAgent(l)
      <3>1. /\ lock = None /\ lock' = None /\ terminated' = terminated
            /\ agent' = agent /\ pc' = [pc EXCEPT ![l] = "app"]
            /\ file.agent \in Agents /\ pc[l] = "new"
            /\ agent[file.agent] # "unused"
        BY <2>1 DEF JoinAgent, IsLive
      <3>2. CASE /\ file' = Joined
                 /\ ref' = [ref EXCEPT ![l] =
                               [agent |-> file.agent, known |-> TRUE]]
        <4>1. file'.agent = file.agent
          BY <3>2 DEF Joined
        <4> QED
          BY <3>1, <3>2, <4>1
      <3>3. CASE file' = Empty /\ ref' = ref
        BY <3>1, <3>3
      <3> QED
        BY <2>1, <3>2, <3>3 DEF JoinAgent
    <2>2. CASE StartAgent(l)
      BY <2>2 DEF StartAgent
    <2>3. CASE NoAgent(l)
      BY <2>3 DEF NoAgent, Fault, IsLive
    <2>4. CASE FinishStart(l)
      BY <2>4 DEF FinishStart, Unlock
    <2>5. CASE StartedAgentExited(l)
      BY <2>5 DEF StartedAgentExited, Unlock
    <2>6. CASE AnnounceFails(l)
      BY <2>6 DEF AnnounceFails, Unlock, Fault
    <2>7. CASE StartTimeUnknown(l)
      BY <2>7 DEF StartTimeUnknown, Unlock, Fault
    <2>8. CASE ReleaseNothing(l)
      BY <2>8 DEF ReleaseNothing, Leave, Matches
    <2>9. CASE ReleaseShared(l)
      BY <2>9 DEF ReleaseShared, Leave, Matches, LastReference, Fault
    <2>10. CASE ReleaseLast(l)
      <3>1. \A m \in Launches : ref[m].agent = ref[l].agent => m = l
        BY <1>0, <2>10
      <3> QED
        BY <2>10, <3>1 DEF ReleaseLast, Matches
    <2>11. CASE Terminate(l)
      BY <2>11 DEF Terminate, Leave
    <2>12. CASE ReleaseFails(l)
      BY <2>12 DEF ReleaseFails, Leave, Fault
    <2>13. CASE ApplicationEnds(l)
      BY <2>13 DEF ApplicationEnds
    <2>14. CASE Killed(l)
      BY <2>14 DEF Killed, Fault
    <2> QED
      BY <1>1, <2>1, <2>2, <2>3, <2>4, <2>5, <2>6, <2>7,
         <2>8, <2>9, <2>10, <2>11, <2>12, <2>13, <2>14
      DEF Launch
  <1>2. ASSUME NEW a \in Agents, AgentExits(a) \/ AgentReaped(a) \/ PidTaken(a)
        PROVE  Structure'
    <2>1. CASE AgentExits(a)
      BY <2>1 DEF AgentExits
    <2>2. CASE AgentReaped(a)
      BY <2>2 DEF AgentReaped
    <2>3. CASE PidTaken(a)
      BY <2>3 DEF PidTaken
    <2> QED
      BY <1>2, <2>1, <2>2, <2>3
  <1>3. CASE UNCHANGED vars
    BY <1>3 DEF vars
  <1> QED
    BY <1>1, <1>2, <1>3 DEF Next

-----------------------------------------------------------------------------
(* The reference count.                                                     *)

\* The launches counted for an agent are finitely many.
LEMMA CountedFinite ==
    ASSUME NEW a
    PROVE  IsFiniteSet(Counted(a)) /\ Cardinality(Counted(a)) \in Nat
  BY LaunchAssumption, FS_Subset, FS_CardinalityType DEF Counted

\* References that are only dropped keep the count sufficient.
LEMMA DroppingKeepsCount ==
    ASSUME IInv, file' = file,
           \A m \in Launches : ref'[m] \in {ref[m], NoReference}
    PROVE  CountCoversHolders'
  <1> SUFFICES ASSUME file.agent # None
               PROVE  Cardinality(Counted(file.agent)') <= file.refs
    BY DEF CountCoversHolders
  <1>1. Counted(file.agent)' \subseteq Counted(file.agent)
    BY DEF Counted, NoReference
  <1>2. /\ IsFiniteSet(Counted(file.agent)')
        /\ Cardinality(Counted(file.agent)') <= Cardinality(Counted(file.agent))
    BY <1>1, CountedFinite, FS_Subset
  <1>3. Cardinality(Counted(file.agent)') \in Nat
    BY <1>2, FS_CardinalityType
  <1> QED
    BY <1>2, <1>3, CountedFinite DEF IInv, TypeOK, CountCoversHolders

\* A cleared file promises nothing.
LEMMA ClearedKeepsCount ==
    ASSUME file' = Empty
    PROVE  CountCoversHolders'
  BY DEF CountCoversHolders, Empty

\* acquire_agent_reference adds one reference for one new holder.
LEMMA JoinKeepsCount ==
    ASSUME IInv, NEW l \in Launches, JoinAgent(l)
    PROVE  CountCoversHolders'
  <1>1. CASE file' = Empty
    BY <1>1, ClearedKeepsCount
  <1>2. CASE file' = Joined /\ ref' = [ref EXCEPT ![l] =
                                [agent |-> file.agent, known |-> TRUE]]
    <2>1. file.agent # None /\ file'.agent = file.agent
            /\ file'.refs = file.refs + 1
      BY <1>2 DEF JoinAgent, IsLive, Joined, IInv, TypeOK
    <2>2. Counted(file.agent)' = Counted(file.agent) \cup {l}
      BY <1>2, <2>1 DEF Counted, IInv, TypeOK
    <2>3. Cardinality(Counted(file.agent) \cup {l})
            <= Cardinality(Counted(file.agent)) + 1
      <3> DEFINE C == Counted(file.agent)
      <3>1. IsFiniteSet(C) /\ Cardinality(C) \in Nat
        BY CountedFinite
      <3> HIDE DEF C
      <3>2. Cardinality(C \cup {l}) = IF l \in C THEN Cardinality(C)
                                                 ELSE Cardinality(C) + 1
        BY <3>1, FS_AddElement
      <3>3. Cardinality(C \cup {l}) <= Cardinality(C) + 1
        BY <3>1, <3>2
      <3> QED
        BY <3>3 DEF C
    <2>4. Cardinality(Counted(file.agent) \cup {l}) \in Nat
      BY CountedFinite, FS_AddElement, FS_CardinalityType
    <2>5. Cardinality(Counted(file.agent)) <= file.refs
      BY <2>1 DEF IInv, CountCoversHolders
    <2>6. Cardinality(Counted(file.agent)') <= file'.refs
      BY <2>1, <2>2, <2>3, <2>4, <2>5, CountedFinite DEF IInv, TypeOK
    <2> QED
      BY <2>6 DEF CountCoversHolders
  <1> QED
    BY <1>1, <1>2 DEF JoinAgent

\* finish_agent_reference announces the agent with its one holder.
LEMMA FinishKeepsCount ==
    ASSUME IInv, NEW l \in Launches, FinishStart(l)
    PROVE  CountCoversHolders'
  <1> DEFINE a == ref[l].agent
  <1>1. /\ a # None /\ ~ref[l].known
        /\ file' = [agent |-> a, refs |-> 1]
        /\ ref' = [ref EXCEPT ![l].known = TRUE]
    BY DEF FinishStart, IInv, ReferenceByPhase
  <1>2. \A m \in Launches : ref[m].agent = a => m = l
    BY <1>1 DEF IInv, UnknownIsAlone
  <1>3. Counted(file.agent)' \subseteq {l}
    BY <1>1, <1>2 DEF Counted, IInv, TypeOK, Reference
  <1>4. /\ Cardinality(Counted(file.agent)') <= Cardinality({l})
        /\ Cardinality({l}) = 1
    BY <1>3, FS_Singleton, FS_Subset
  <1> QED
    BY <1>1, <1>4 DEF CountCoversHolders

\* release_agent_reference takes off one reference with one holder.
LEMMA LeaveKeepsCount ==
    ASSUME IInv, NEW l \in Launches, ReleaseShared(l)
    PROVE  CountCoversHolders'
  <1>1. CASE file' = Empty
    BY <1>1, ClearedKeepsCount
  <1>2. CASE file' = [file EXCEPT !.refs = @ - 1]
    <2>1. /\ file'.agent = file.agent /\ file'.refs = file.refs - 1
          /\ file.agent # None
          /\ ref[l] = [agent |-> file.agent, known |-> TRUE]
          /\ ref' = [ref EXCEPT ![l] = NoReference]
      BY <1>2 DEF ReleaseShared, Leave, Matches, IInv, TypeOK, Reference,
                  ReferenceByPhase
    <2>2. Counted(file.agent)' = Counted(file.agent) \ {l}
      BY <2>1 DEF Counted, NoReference, IInv, TypeOK
    <2>3. l \in Counted(file.agent)
      BY <2>1 DEF Counted
    <2>4. Cardinality(Counted(file.agent) \ {l})
            = Cardinality(Counted(file.agent)) - 1
      BY <2>3, CountedFinite, FS_RemoveElement
    <2>5. Cardinality(Counted(file.agent)) <= file.refs
      BY <2>1 DEF IInv, CountCoversHolders
    <2>6. Cardinality(Counted(file.agent)') <= file'.refs
      BY <2>1, <2>2, <2>4, <2>5, CountedFinite DEF IInv, TypeOK
    <2> QED
      BY <2>6 DEF CountCoversHolders
  <1> QED
    BY <1>1, <1>2 DEF ReleaseShared

\* The count in the file covers the holders after every action.
LEMMA CountStep ==
    ASSUME IInv, [Next]_vars
    PROVE  CountCoversHolders'
  <1> USE LaunchAssumption, AgentAssumption
  <1>0. ref \in [Launches -> Reference]
    BY DEF IInv, TypeOK
  <1>1. ASSUME NEW l \in Launches, Launch(l) \/ ApplicationEnds(l) \/ Killed(l)
        PROVE  CountCoversHolders'
    <2>1. CASE JoinAgent(l)
      BY <2>1, JoinKeepsCount
    <2>2. CASE StartAgent(l)
      BY <2>2, ClearedKeepsCount DEF StartAgent
    <2>3. CASE NoAgent(l)
      <3>1. file' \in {file, Empty} /\ ref' = ref
        BY <2>3 DEF NoAgent
      <3> QED
        BY <3>1, ClearedKeepsCount, DroppingKeepsCount
    <2>4. CASE FinishStart(l)
      BY <2>4, FinishKeepsCount
    <2>5. CASE StartedAgentExited(l) \/ AnnounceFails(l) \/ ReleaseLast(l)
      BY <2>5, ClearedKeepsCount
      DEF StartedAgentExited, AnnounceFails, ReleaseLast
    <2>6. CASE StartTimeUnknown(l) \/ ApplicationEnds(l)
      BY <2>6, DroppingKeepsCount DEF StartTimeUnknown, ApplicationEnds
    <2>7. CASE ReleaseNothing(l) \/ Terminate(l) \/ ReleaseFails(l) \/ Killed(l)
      <3>1. file' = file /\ ref' = [ref EXCEPT ![l] = NoReference]
        BY <2>7 DEF ReleaseNothing, Terminate, ReleaseFails, Killed, Leave
      <3>2. \A m \in Launches : ref'[m] \in {ref[m], NoReference}
        BY <1>0, <3>1
      <3> QED
        BY <3>1, <3>2, DroppingKeepsCount
    <2>8. CASE ReleaseShared(l)
      BY <2>8, LeaveKeepsCount
    <2> QED
      BY <1>1, <2>1, <2>2, <2>3, <2>4, <2>5, <2>6, <2>7, <2>8 DEF Launch
  <1>2. ASSUME NEW a \in Agents, AgentExits(a) \/ AgentReaped(a) \/ PidTaken(a)
        PROVE  CountCoversHolders'
    BY <1>2, DroppingKeepsCount DEF AgentExits, AgentReaped, PidTaken
  <1>3. CASE UNCHANGED vars
    BY <1>3, DroppingKeepsCount DEF vars
  <1> QED
    BY <1>1, <1>2, <1>3 DEF Next

-----------------------------------------------------------------------------
(* Without faults.                                                          *)

\* The file counts the holders exactly, and a running agent is the one it
\* names, or belongs to a launch inside the critical section.
Accounted ==
    faults = MaxFaults =>
        /\ file.agent # None =>
             file.refs > 0 /\ file.refs = Cardinality(Counted(file.agent))
        /\ \A a \in Agents : agent[a] = "running" =>
             \/ file.agent = a
             \/ \E l \in Launches :
                  pc[l] \in {"starting", "terminating"} /\ ref[l].agent = a

\* Steps that leave the count and the critical section alone, and start nothing.
LEMMA StillAccounted ==
    ASSUME TypeOK, Accounted, faults' = faults, file' = file,
           file.agent # None => Counted(file.agent)' = Counted(file.agent),
           \A a \in Agents : agent'[a] = "running" => agent[a] = "running",
           \A l \in Launches : pc[l] \in {"starting", "terminating"} =>
              pc'[l] = pc[l] /\ ref'[l] = ref[l]
    PROVE  Accounted'
  BY DEF Accounted

\* One reference more for one holder more, or one less for one less.
LEMMA CountFollows ==
    ASSUME IInv, Accounted, NEW l \in Launches, faults' = faults, faults = MaxFaults,
           JoinAgent(l) \/ ReleaseShared(l)
    PROVE  file'.agent = file.agent /\ file'.refs > 0
           /\ file'.refs = Cardinality(Counted(file.agent)')
  <1> DEFINE C == Counted(file.agent)
             D == Counted(file.agent)'
  <1>1. file.agent # None /\ file.refs = Cardinality(C) /\ file.refs > 0
    BY DEF JoinAgent, ReleaseShared, IsLive, Matches, IInv, ReferenceByPhase, Accounted
  <1>2. IsFiniteSet(C) /\ Cardinality(C) \in Nat
    BY CountedFinite
  <1>3. CASE JoinAgent(l)
    <2>1. /\ file' = Joined
          /\ ref' = [ref EXCEPT ![l] = [agent |-> file.agent, known |-> TRUE]]
          /\ ref[l] = NoReference
      BY <1>3 DEF JoinAgent, Fault, IInv, TypeOK, ReferenceByPhase
    <2>2. file'.agent = file.agent /\ file'.refs = file.refs + 1
      BY <2>1 DEF Joined, IInv, TypeOK
    <2>3. D = C \cup {l} /\ l \notin C
      BY <2>1, <2>2 DEF Counted, NoReference, IInv, TypeOK
    <2> HIDE DEF C, D
    <2>4. Cardinality(D) = Cardinality(C) + 1
      BY <1>2, <2>3, FS_AddElement
    <2>5. file'.refs > 0 /\ file'.refs = Cardinality(D)
      BY <1>1, <1>2, <2>2, <2>4
    <2> QED
      BY <2>2, <2>5 DEF D
  <1>4. CASE ReleaseShared(l)
    <2>1. /\ file' = [file EXCEPT !.refs = @ - 1] /\ file.refs # 1
          /\ ref' = [ref EXCEPT ![l] = NoReference]
          /\ ref[l] = [agent |-> file.agent, known |-> TRUE]
      BY <1>4 DEF ReleaseShared, Fault, Leave, Matches, LastReference, IInv, TypeOK, Reference,
                  ReferenceByPhase
    <2>2. file'.agent = file.agent /\ file'.refs = file.refs - 1
      BY <2>1 DEF IInv, TypeOK
    <2>3. D = C \ {l} /\ l \in C
      BY <2>1, <2>2 DEF Counted, NoReference, IInv, TypeOK
    <2> HIDE DEF C, D
    <2>4. Cardinality(D) = Cardinality(C) - 1
      BY <1>2, <2>3, FS_RemoveElement
    <2>5. file'.refs > 0 /\ file'.refs = Cardinality(D)
      BY <1>1, <1>2, <2>1, <2>2, <2>4
    <2> QED
      BY <2>2, <2>5 DEF D
  <1> QED
    BY <1>3, <1>4

\* Faults are not given back.
LEMMA FaultsFall ==
    ASSUME TypeOK, [Next]_vars, faults' = MaxFaults
    PROVE  faults = MaxFaults /\ ~Fault
  <1>1. faults' = faults \/ Fault
    BY DEF Next, Launch, JoinAgent, StartAgent, NoAgent, FinishStart, StartedAgentExited,
           AnnounceFails, StartTimeUnknown, ApplicationEnds, ReleaseNothing, ReleaseShared,
           ReleaseLast, Terminate, ReleaseFails, Killed, AgentExits, AgentReaped, PidTaken, vars
  <1>2. ~Fault
    BY FaultAssumption DEF Fault, TypeOK
  <1> QED
    BY <1>1, <1>2

LEMMA AccountedStep ==
    ASSUME IInv, Accounted, [Next]_vars
    PROVE  Accounted'
  <1> SUFFICES ASSUME faults' = MaxFaults PROVE Accounted'
    BY DEF Accounted
  <1>0. TypeOK /\ ReferenceByPhase /\ CriticalIsLocked /\ LockedIsEmpty /\ UnknownIsAlone
    BY DEF IInv
  <1>1. faults = MaxFaults /\ faults' = faults /\ ~Fault
    BY <1>0, FaultsFall
  <1>2. /\ file.agent # None =>
             file.refs > 0 /\ file.refs = Cardinality(Counted(file.agent))
        /\ \A a \in Agents : agent[a] = "running" =>
             \/ file.agent = a
             \/ \E l \in Launches :
                  pc[l] \in {"starting", "terminating"} /\ ref[l].agent = a
    BY <1>1 DEF Accounted
  <1>3. \A l \in Launches : pc[l] \in {"starting", "terminating"} =>
           file = Empty /\ \A m \in Launches : pc[m] \in {"starting", "terminating"} => m = l
    BY <1>0, LaunchAssumption DEF CriticalIsLocked, LockedIsEmpty
  <1>4. ASSUME NEW l \in Launches, Launch(l) \/ ApplicationEnds(l) \/ Killed(l)
        PROVE  Accounted'
    <2>1. CASE JoinAgent(l) \/ ReleaseShared(l)
      <3>1. /\ file'.agent = file.agent /\ file'.refs > 0
            /\ file'.refs = Cardinality(Counted(file.agent)')
        BY <1>1, <2>1, CountFollows
      <3>2. /\ agent' = agent
            /\ \A m \in Launches : pc[m] \in {"starting", "terminating"} =>
                 pc'[m] = pc[m] /\ ref'[m] = ref[m]
        <4>1. pc[l] \in {"new", "tail"}
          BY <2>1 DEF JoinAgent, ReleaseShared
        <4>2. \A m \in Launches : m # l => pc'[m] = pc[m] /\ ref'[m] = ref[m]
          BY <1>0, <2>1 DEF JoinAgent, ReleaseShared, Leave, TypeOK
        <4> QED
          BY <2>1, <4>1, <4>2 DEF JoinAgent, ReleaseShared
      <3> QED
        BY <1>2, <3>1, <3>2 DEF Accounted
    <2>2. CASE StartAgent(l)
      <3>1. PICK a \in Agents : /\ agent' = [agent EXCEPT ![a] = "running"]
                                /\ ref' = [ref EXCEPT ![l] = [agent |-> a, known |-> FALSE]]
        BY <2>2 DEF StartAgent
      <3>2. ~IsLive /\ lock = None /\ file'.agent = None
        BY <2>2 DEF StartAgent, Empty
      <3>3. \A b \in Agents : agent[b] # "running"
        BY <1>0, <1>2, <3>2, LaunchAssumption, AgentAssumption
           DEF IsLive, CriticalIsLocked
      <3>4. \A b \in Agents : agent'[b] = "running" => b = a
        BY <1>0, <3>1, <3>3 DEF TypeOK
      <3>5. pc'[l] = "starting" /\ ref'[l].agent = a
        BY <1>0, <2>2, <3>1 DEF StartAgent, TypeOK
      <3> QED
        BY <3>2, <3>4, <3>5 DEF Accounted
    <2>3. CASE FinishStart(l)
      <3> DEFINE a == ref[l].agent
      <3>1. /\ a # None /\ ~ref[l].known /\ pc[l] = "starting"
            /\ file'.agent = a /\ file'.refs = 1 /\ agent' = agent
            /\ ref' = [ref EXCEPT ![l].known = TRUE]
        BY <1>0, <2>3 DEF FinishStart, ReferenceByPhase
      <3>2. \A m \in Launches : ref[m].agent = a => m = l
        BY <1>0, <3>1 DEF UnknownIsAlone
      <3>3. Counted(a)' = {l}
        <4>1. ref[l] \in Reference /\ a' = a
          BY <1>0, <3>1 DEF TypeOK, Reference
        <4>2. ref'[l] = [agent |-> a, known |-> TRUE]
          BY <1>0, <3>1, <4>1 DEF TypeOK, Reference
        <4>3. \A m \in Launches : m # l => ref'[m] = ref[m]
          BY <1>0, <3>1 DEF TypeOK
        <4> QED
          BY <3>2, <4>1, <4>2, <4>3 DEF Counted
      <3>4. Cardinality(Counted(a)') = 1
        BY <3>3, FS_Singleton
      <3>5. \A b \in Agents : agent[b] = "running" => b = a
        BY <1>2, <1>3, <3>1, AgentAssumption DEF Empty
      <3> QED
        BY <3>1, <3>4, <3>5 DEF Accounted
    <2>4. CASE StartedAgentExited(l) \/ Terminate(l)
      <3> DEFINE a == ref[l].agent
      <3>1. /\ a \in Agents /\ pc[l] \in {"starting", "terminating"} /\ file'.agent = None
        BY <1>0, <1>3, <2>4 DEF StartedAgentExited, Terminate, ReferenceByPhase, TypeOK,
                                Reference, Empty
      <3>2. \A b \in Agents : agent[b] = "running" => b = a
        BY <1>2, <1>3, <3>1, AgentAssumption DEF Empty
      <3>3. \A b \in Agents : agent'[b] # "running"
        BY <1>0, <2>4, <3>1, <3>2 DEF StartedAgentExited, Terminate, TypeOK, Life
      <3> QED
        BY <3>1, <3>3 DEF Accounted
    <2>5. CASE ReleaseNothing(l)
      <3>1. /\ file' = file /\ agent' = agent /\ pc[l] = "tail" /\ ~Matches(l)
            /\ ref' = [ref EXCEPT ![l] = NoReference] /\ pc' = [pc EXCEPT ![l] = "done"]
        BY <2>5 DEF ReleaseNothing, Leave
      <3>2. file.agent # None => l \notin Counted(file.agent)
        BY <1>2, <3>1 DEF Matches, Counted
      <3>3. file.agent # None => Counted(file.agent)' = Counted(file.agent)
        BY <1>0, <3>1, <3>2 DEF Counted, TypeOK, NoReference
      <3>4. \A m \in Launches : pc[m] \in {"starting", "terminating"} =>
              pc'[m] = pc[m] /\ ref'[m] = ref[m]
        BY <1>0, <3>1 DEF TypeOK
      <3> QED
        BY <1>0, <1>1, <3>1, <3>3, <3>4, StillAccounted
    <2>6. CASE ReleaseLast(l)
      <3>1. /\ pc[l] = "tail" /\ file'.agent = None /\ file.agent = ref[l].agent
            /\ agent' = agent /\ ref' = ref /\ pc' = [pc EXCEPT ![l] = "terminating"]
        BY <2>6 DEF ReleaseLast, Matches, Empty
      <3>2. lock = None
        BY <2>6 DEF ReleaseLast
      <3>3. \A b \in Agents : agent[b] = "running" => b = ref[l].agent
        BY <1>0, <1>2, <3>1, <3>2, LaunchAssumption DEF CriticalIsLocked
      <3>4. pc'[l] = "terminating"
        BY <1>0, <3>1 DEF TypeOK
      <3> QED
        BY <3>1, <3>3, <3>4 DEF Accounted
    <2>7. CASE ApplicationEnds(l)
      <3>1. \A m \in Launches : pc[m] \in {"starting", "terminating"} => pc'[m] = pc[m]
        BY <1>0, <2>7 DEF ApplicationEnds, TypeOK
      <3> QED
        BY <1>0, <2>7, <3>1, StillAccounted DEF ApplicationEnds, Counted
    <2>8. ~NoAgent(l) /\ ~AnnounceFails(l) /\ ~StartTimeUnknown(l) /\ ~ReleaseFails(l)
          /\ ~Killed(l)
      BY <1>1 DEF NoAgent, AnnounceFails, StartTimeUnknown, ReleaseFails, Killed
    <2> QED
      BY <1>4, <2>1, <2>2, <2>3, <2>4, <2>5, <2>6, <2>7, <2>8 DEF Launch
  <1>5. ASSUME NEW a \in Agents, AgentExits(a) \/ AgentReaped(a) \/ PidTaken(a)
        PROVE  Accounted'
    <2>1. \A b \in Agents : agent'[b] = "running" => agent[b] = "running"
      BY <1>0, <1>5 DEF AgentExits, AgentReaped, PidTaken, TypeOK
    <2> QED
      BY <1>0, <1>5, <2>1, StillAccounted DEF AgentExits, AgentReaped, PidTaken, Counted
  <1>6. CASE UNCHANGED vars
    BY <1>0, <1>6, StillAccounted DEF vars, Counted
  <1> QED
    BY <1>4, <1>5, <1>6 DEF Next

-----------------------------------------------------------------------------
(* The theorems.                                                            *)

\* The inductive invariant holds before the first launch.
LEMMA InitInvariant == Init => IInv
  <1> SUFFICES ASSUME Init PROVE IInv
    OBVIOUS
  <1>1. TypeOK
    BY FaultAssumption DEF Init, TypeOK, Empty, NoReference, Reference, Life, Where
  <1>2. CountCoversHolders
    BY DEF Init, Empty, CountCoversHolders
  <1> QED
    BY <1>1, <1>2, AgentAssumption, LaunchAssumption
    DEF Init, IInv, CriticalIsLocked, LockedIsEmpty, ReferenceByPhase,
        UnknownIsAlone, TerminatingIsAlone, UnusedIsUnknown,
        TerminatedIsForgotten, HeldIsNotTerminated, Empty, NoReference

\* The inductive invariant holds always.
LEMMA Invariance == Spec => []IInv
  <1>1. IInv /\ [Next]_vars => IInv'
    <2> SUFFICES ASSUME IInv, [Next]_vars PROVE IInv'
      OBVIOUS
    <2>1. TypeOK'
      BY TypeStep DEF IInv
    <2>2. Structure' /\ CountCoversHolders'
      BY StructureStep, CountStep
    <2> QED
      BY <2>1, <2>2 DEF IInv, Structure
  <1> QED
    BY <1>1, InitInvariant, PTL DEF Spec

\* The state file, the lock, the references and the agents of spaces.c keep
\* their types for every set of launches and agents.
THEOREM TypeCorrect == Spec => []TypeOK
  <1>1. IInv => TypeOK
    BY DEF IInv
  <1> QED
    BY <1>1, Invariance, PTL

\* release_agent_reference terminates an agent only with its last reference:
\* no launch of the session still refers to an agent that was signalled.
THEOREM SharedAgentSurvives == Spec => []HeldIsNotTerminated
  <1>1. IInv => HeldIsNotTerminated
    BY DEF IInv, TerminatedIsForgotten
  <1> QED
    BY <1>1, Invariance, PTL

\* The references written to the state file cover the launches that use the
\* agent, whatever is killed or fails.
THEOREM CountSound == Spec => []CountCoversHolders
  <1>1. IInv => CountCoversHolders
    BY DEF IInv
  <1> QED
    BY <1>1, Invariance, PTL

\* The last launch to leave takes the agent along: without a fault none is left
\* running when the launches of the session have ended (spaces.c:1112-1141).
THEOREM NoAgentIsLeft == Spec => []AgentStopsWithLastLaunch
  <1>1. Init => Accounted
    BY DEF Init, Accounted, Empty
  <1>2. IInv /\ Accounted => AgentStopsWithLastLaunch
    <2> SUFFICES ASSUME IInv, Accounted, Ended, faults = MaxFaults,
                        NEW a \in Agents, agent[a] = "running"
                 PROVE  FALSE
      BY DEF AgentStopsWithLastLaunch
    <2>1. \A l \in Launches : ref[l] = NoReference
      BY DEF Ended, IInv, ReferenceByPhase
    <2>2. \A b : b # None => Counted(b) = {}
      BY <2>1 DEF Counted, NoReference
    <2>3. file.agent = a
      BY DEF Accounted, Ended
    <2>4. a # None /\ file.refs > 0 /\ file.refs = Cardinality(Counted(a))
      BY <2>3, AgentAssumption DEF Accounted
    <2>5. Cardinality({}) = 0
      BY FS_EmptySet
    <2> QED
      BY <2>2, <2>4, <2>5
  <1>3. IInv /\ Accounted /\ [Next]_vars => Accounted'
    BY AccountedStep
  <1> QED
    BY <1>1, <1>2, <1>3, Invariance, PTL DEF Spec

=============================================================================
