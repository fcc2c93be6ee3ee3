---------------------------- MODULE PolkitAgent ----------------------------
(***************************************************************************)
(* The polkit agent that overlapping launches of one guest session share:  *)
(* native/spaces.c.  A state file names the agent's process and counts the *)
(* launches that use it; flock serialises the launches.  The first launch  *)
(* starts the agent, the last one terminates it.  Launches are killed,     *)
(* agents exit on their own, writes fail, and the pid of an agent that is  *)
(* gone is taken by another process group.  A failed write has truncated    *)
(* the file; that the truncation itself fails (spaces.c:424) is left out.   *)
(***************************************************************************)
EXTENDS Naturals, FiniteSets

CONSTANTS Launches,   \* runs of /run/spaces-host/bin/spaces in the session
          Agents,     \* agent processes, each a pid and a start time
          None,       \* no process, no owner
          MaxFaults   \* kills of launches and failed system calls (bound)

ASSUME LaunchAssumption == IsFiniteSet(Launches) /\ None \notin Launches
ASSUME AgentAssumption == None \notin Agents /\ Launches \cap Agents = {}
ASSUME FaultAssumption == MaxFaults \in Nat

VARIABLES
    file,       \* the state file: pid and start time, references
    lock,       \* who holds flock on the state file
    pc,         \* where each launch is
    ref,        \* AgentReference of each launch
    agent,      \* the process group behind each agent's pid
    parent,     \* the launch that forked the agent
    terminated, \* agents a launch has signalled
    faults

vars == <<file, lock, pc, ref, agent, parent, terminated, faults>>

Empty == [agent |-> None, refs |-> 0]

\* A reference names an agent; `known` is false while its start time is 0.
NoReference == [agent |-> None, known |-> FALSE]
Reference == [agent : Agents \cup {None}, known : BOOLEAN]

\* "taken": the agent is gone and another process group has its pid.
Life == {"unused", "running", "zombie", "gone", "taken"}
Where == {"new", "starting", "app", "tail", "terminating", "done", "killed"}

TypeOK ==
    /\ file \in [agent : Agents \cup {None}, refs : Nat]
    /\ lock \in Launches \cup Agents \cup {None}
    /\ pc \in [Launches -> Where]
    /\ ref \in [Launches -> Reference]
    /\ agent \in [Agents -> Life]
    /\ parent \in [Agents -> Launches \cup {None}]
    /\ terminated \subseteq Agents
    /\ faults \in 0..MaxFaults

Init ==
    /\ file = Empty
    /\ lock = None
    /\ pc = [l \in Launches |-> "new"]
    /\ ref = [l \in Launches |-> NoReference]
    /\ agent = [a \in Agents |-> "unused"]
    /\ parent = [a \in Agents |-> None]
    /\ terminated = {}
    /\ faults = MaxFaults

Fault == faults > 0 /\ faults' = faults - 1

-----------------------------------------------------------------------------
(* Processes (external).                                                    *)

\* An agent exits; a lock it inherited from a killed launch goes with it.
AgentExits(a) ==
    /\ agent[a] = "running"
    /\ agent' = [agent EXCEPT ![a] = "zombie"]
    /\ lock' = IF lock = a THEN None ELSE lock
    /\ UNCHANGED <<file, pc, ref, parent, terminated, faults>>

\* The launch that forked the agent has returned: init reaps the agent.
AgentReaped(a) ==
    /\ agent[a] = "zombie"
    /\ pc[parent[a]] \notin {"starting", "app"}
    /\ agent' = [agent EXCEPT ![a] = "gone"]
    /\ UNCHANGED <<file, lock, pc, ref, parent, terminated, faults>>

\* Other process groups come and go under the pid of an agent that is gone.
PidTaken(a) ==
    /\ agent[a] \in {"gone", "taken"}
    /\ agent' = [agent EXCEPT ![a] = IF @ = "gone" THEN "taken" ELSE "gone"]
    /\ UNCHANGED <<file, lock, pc, ref, parent, terminated, faults>>

-----------------------------------------------------------------------------
(* acquire_agent_reference and finish_agent_reference.                      *)

\* agent_state_is_live: the group exists and has the recorded start time.  A
\* zombie passes: it still has its pid, its group and its start time.
IsLive ==
    /\ file.agent # None
    /\ file.refs > 0
    /\ agent[file.agent] \in {"running", "zombie"}

\* Mutant of Joined: the launch is not counted.
JoinedUncounted == file

Joined == [file EXCEPT !.refs = @ + 1]

\* A live agent is shared; a write that fails leaves the file truncated.
JoinAgent(l) ==
    /\ pc[l] = "new"
    /\ lock = None
    /\ IsLive
    /\ pc' = [pc EXCEPT ![l] = "app"]
    /\ \/ /\ file' = Joined
          /\ ref' = [ref EXCEPT ![l] = [agent |-> file.agent, known |-> TRUE]]
          /\ UNCHANGED faults
       \/ /\ Fault
          /\ file' = Empty
          /\ UNCHANGED ref
    /\ UNCHANGED <<lock, agent, parent, terminated>>

\* No live agent: the file is cleared and one is forked under the lock, which
\* is kept until finish_agent_reference.
StartAgent(l) ==
    /\ pc[l] = "new"
    /\ lock = None
    /\ ~IsLive
    /\ \E a \in Agents :
        /\ agent[a] = "unused"
        /\ agent' = [agent EXCEPT ![a] = "running"]
        /\ parent' = [parent EXCEPT ![a] = l]
        /\ ref' = [ref EXCEPT ![l] = [agent |-> a, known |-> FALSE]]
    /\ file' = Empty
    /\ lock' = l
    /\ pc' = [pc EXCEPT ![l] = "starting"]
    /\ UNCHANGED <<terminated, faults>>

\* The file cannot be locked, or no agent can be started: the application
\* runs without one.
NoAgent(l) ==
    /\ pc[l] = "new"
    /\ Fault
    /\ file' \in IF lock = None /\ ~IsLive THEN {file, Empty} ELSE {file}
    /\ pc' = [pc EXCEPT ![l] = "app"]
    /\ UNCHANGED <<lock, ref, agent, parent, terminated>>

\* Mutant of Unlock: the lock stays with the launch.
StayLocked(l) == pc' = [pc EXCEPT ![l] = "app"] /\ UNCHANGED lock

Unlock(l) == lock' = None /\ pc' = [pc EXCEPT ![l] = "app"]

\* The agent is announced with one reference.
FinishStart(l) ==
    /\ pc[l] = "starting"
    /\ agent[ref[l].agent] = "running"
    /\ file' = [agent |-> ref[l].agent, refs |-> 1]
    /\ ref' = [ref EXCEPT ![l].known = TRUE]
    /\ Unlock(l)
    /\ UNCHANGED <<agent, parent, terminated, faults>>

\* waitpid finds that the agent exited during startup; stop_agent signals its
\* group all the same.
StartedAgentExited(l) ==
    /\ pc[l] = "starting"
    /\ agent[ref[l].agent] = "zombie"
    /\ agent' = [agent EXCEPT ![ref[l].agent] = "gone"]
    /\ terminated' = terminated \cup {ref[l].agent}
    /\ file' = Empty
    /\ ref' = [ref EXCEPT ![l] = NoReference]
    /\ Unlock(l)
    /\ UNCHANGED <<parent, faults>>

\* The state cannot be written: stop_agent kills and reaps the agent.
AnnounceFails(l) ==
    /\ pc[l] = "starting"
    /\ agent[ref[l].agent] = "running"
    /\ Fault
    /\ file' = Empty
    /\ agent' = [agent EXCEPT ![ref[l].agent] = "gone"]
    /\ terminated' = terminated \cup {ref[l].agent}
    /\ ref' = [ref EXCEPT ![l] = NoReference]
    /\ Unlock(l)
    /\ UNCHANGED parent

\* process_start_time fails: the reference is kept, the file stays cleared.
StartTimeUnknown(l) ==
    /\ pc[l] = "starting"
    /\ agent[ref[l].agent] = "running"
    /\ Fault
    /\ Unlock(l)
    /\ UNCHANGED <<file, ref, agent, parent, terminated>>

-----------------------------------------------------------------------------
(* monitor_application and release_agent_reference.                         *)

\* The status is reported, the launcher returns; the monitor waits on for
\* daemonized descendants.
ApplicationEnds(l) ==
    /\ pc[l] = "app"
    /\ pc' = [pc EXCEPT ![l] = "tail"]
    /\ UNCHANGED <<file, lock, ref, agent, parent, terminated, faults>>

\* The file still names the agent this launch refers to.
Matches(l) ==
    /\ ref[l].known
    /\ file.agent = ref[l].agent
    /\ file.refs > 0

\* Mutant of LastReference: whoever leaves takes the agent along.
AnyReference == TRUE

LastReference == file.refs = 1

Leave(l) ==
    /\ ref' = [ref EXCEPT ![l] = NoReference]
    /\ pc' = [pc EXCEPT ![l] = "done"]

\* The state file names another agent, or there is nothing to release.
ReleaseNothing(l) ==
    /\ pc[l] = "tail"
    /\ ref[l].agent # None => lock = None
    /\ ~Matches(l)
    /\ Leave(l)
    /\ UNCHANGED <<file, lock, agent, parent, terminated, faults>>

ReleaseShared(l) ==
    /\ pc[l] = "tail"
    /\ lock = None
    /\ Matches(l) /\ ~LastReference
    /\ \/ file' = [file EXCEPT !.refs = @ - 1] /\ UNCHANGED faults
       \/ Fault /\ file' = Empty
    /\ Leave(l)
    /\ UNCHANGED <<lock, agent, parent, terminated>>

\* Mutant of ReleaseLast: the file is cleared and the agent forgotten.
ReleaseLastForgets(l) ==
    /\ pc[l] = "tail"
    /\ lock = None
    /\ Matches(l) /\ LastReference
    /\ file' = Empty
    /\ Leave(l)
    /\ UNCHANGED <<lock, agent, parent, terminated, faults>>

\* The last reference: the file is cleared before the agent is signalled.
ReleaseLast(l) ==
    /\ pc[l] = "tail"
    /\ lock = None
    /\ Matches(l) /\ LastReference
    /\ file' = Empty
    /\ lock' = l
    /\ pc' = [pc EXCEPT ![l] = "terminating"]
    /\ UNCHANGED <<ref, agent, parent, terminated, faults>>

\* terminate_agent signals the group, SIGTERM and then SIGKILL, and unlocks.
Terminate(l) ==
    /\ pc[l] = "terminating"
    /\ agent' = [agent EXCEPT ![ref[l].agent] =
                    IF @ = "running" THEN "zombie" ELSE @]
    /\ terminated' = terminated \cup {ref[l].agent}
    /\ lock' = None
    /\ Leave(l)
    /\ UNCHANGED <<file, parent, faults>>

\* The state file cannot be opened or locked: the reference is dropped.
ReleaseFails(l) ==
    /\ pc[l] = "tail"
    /\ ref[l].agent # None
    /\ Fault
    /\ Leave(l)
    /\ UNCHANGED <<file, lock, agent, parent, terminated>>

\* A launch is killed.  While it starts the agent, the agent's supervisor has
\* inherited the locked descriptor and keeps the lock.
Killed(l) ==
    /\ pc[l] \notin {"done", "killed"}
    /\ Fault
    /\ pc' = [pc EXCEPT ![l] = "killed"]
    /\ ref' = [ref EXCEPT ![l] = NoReference]
    /\ lock' = IF lock # l THEN lock
               ELSE IF pc[l] = "starting" /\ agent[ref[l].agent] = "running"
                    THEN ref[l].agent ELSE None
    /\ UNCHANGED <<file, agent, parent, terminated>>

-----------------------------------------------------------------------------

Launch(l) ==
    \/ JoinAgent(l) \/ StartAgent(l) \/ NoAgent(l)
    \/ FinishStart(l) \/ StartedAgentExited(l)
    \/ AnnounceFails(l) \/ StartTimeUnknown(l)
    \/ ReleaseNothing(l) \/ ReleaseShared(l) \/ ReleaseLast(l)
    \/ Terminate(l) \/ ReleaseFails(l)

Ended == \A l \in Launches : pc[l] \in {"done", "killed"}

Next ==
    \/ \E l \in Launches : Launch(l) \/ ApplicationEnds(l) \/ Killed(l)
    \/ \E a \in Agents : AgentExits(a) \/ AgentReaped(a) \/ PidTaken(a)
    \/ Ended /\ UNCHANGED vars

Spec == Init /\ [][Next]_vars

\* A launch that can go on without a fault does; an application may run for
\* ever, and an agent owes nothing.
FairSpec ==
    Spec /\ \A l \in Launches : WF_vars(Launch(l) /\ UNCHANGED faults)

-----------------------------------------------------------------------------
(* Properties.                                                              *)

Counted(a) == {l \in Launches : ref[l] = [agent |-> a, known |-> TRUE]}

\* No launch loses its agent to another launch: an agent that was signalled
\* has no launch left that refers to it.
HeldIsNotTerminated ==
    \A l \in Launches, a \in terminated : ref[l].agent # a

\* The references in the file cover the launches that use the agent it names;
\* killed launches and failed writes can only leave it too high.
CountCoversHolders ==
    file.agent # None => Cardinality(Counted(file.agent)) <= file.refs

\* With no fault, no agent outlives the launches of its session.
AgentStopsWithLastLaunch ==
    Ended /\ faults = MaxFaults => \A a \in Agents : agent[a] # "running"

\* The state file never blocks a launch for good, unless a launch was killed
\* while it started the agent: every application is started in the end, and
\* every monitor whose application tree has ended leaves (spaces.c:950).
LaunchesProceed ==
    [](lock \notin Agents) =>
        \A l \in Launches :
            /\ <>(pc[l] \notin {"new", "starting"})
            /\ pc[l] = "tail" ~> pc[l] \in {"done", "killed"}

=============================================================================
