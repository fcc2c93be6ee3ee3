----------------------- MODULE ComputerDesktopProofs -----------------------
(***************************************************************************)
(* Proofs about ComputerDesktop, for any number of input chunks and any     *)
(* scenario: no picture that was taken under a lock is ever answered with,  *)
(* and no input is sent after an indicator has told the host of a lock.     *)
(***************************************************************************)
EXTENDS ComputerDesktop, TLAPS

Tools == {"status", "keys", "drag", "text"}
Stages == {"start", "action", "observe", "final"}
Answers == States \cup {"error", NoAnswer}
OpNames == {"tick", "askSession", "readSession", "askLocker", "readLocker", "capture", "append",
            "allowed", "vision", "unseen", "press", "release"}
Items ==
    [type : {"changed"}, value : States] \cup [type : {"reply"}, value : States \cup {"error"}]
      \cup [type : {"inactive", "owner"}, value : {"none"}]
Jobs == [tool : Tools, stage : Stages, ops : Seq(OpNames)]

\* The values of the variables; the pictures and the scenario need no type.
HostTypes ==
    /\ truth \in [Buses -> States]
    /\ wire \in [Buses -> Seq(Items)]
    /\ answer \in [Buses -> Answers]
    /\ locked \in [Buses -> BOOLEAN]
    /\ known \in [Buses -> BOOLEAN]
    /\ valid \in BOOLEAN /\ stopping \in BOOLEAN
    /\ lockSeen \in BOOLEAN /\ monitor \in BOOLEAN /\ held \in BOOLEAN
    /\ heard \in [Buses -> BOOLEAN]
DesktopTypes == HostTypes /\ (job = Idle \/ job \in Jobs)

Busy == job # Idle
Todo(j) == Len(j.ops)
Ahead == Todo(job)

\* What is left of a call is the end of its stage's operations.
Placed(j) ==
    LET s == Ops(j.tool, j.stage)
        n == Len(j.ops)
    IN  /\ j.stage \in {"action", "observe"} => j.tool # "status"
        /\ n <= Len(s)
        /\ \A i \in 1..n : j.ops[i] = s[Len(s) - n + i]
Positioned == Busy => Placed(job)

\* The next operation, and the stages that take a picture: their last 14
\* operations are Capture.
OpOf(j) == IF j.ops = <<>> THEN "end" ELSE Head(j.ops)
Shooting(j) == j.stage = "observe" \/ (j.stage = "start" /\ j.tool = "status")

LockItem == Item("changed", "locked")
UnlockItem == Item("changed", "unlocked")

\* On the wire s: the news of a lock, the news of a lock before any answer, an
\* answer, at most one answer, an answer that denies the lock; and no news that
\* denies the lock without later news of one.
News(s) == \E i \in DOMAIN s : s[i] = LockItem
NewsFirst(s) ==
    \E i \in DOMAIN s : s[i] = LockItem /\ \A j \in 1..i : s[j].type # "reply"
Replying(s) == \E i \in DOMAIN s : s[i].type = "reply"
OneReply(s) ==
    \A i, j \in DOMAIN s : s[i].type = "reply" /\ s[j].type = "reply" => i = j
Denies(s) == \E i \in DOMAIN s : s[i] = Item("reply", "unlocked")
EndsLocked(s) ==
    \A i \in DOMAIN s : s[i] = UnlockItem => \E j \in DOMAIN s : j > i /\ s[j] = LockItem

\* An answer is on its way, or has come, only where a call waits for it, and
\* there is only one.
Replies ==
    \A b \in Buses :
        /\ Replying(wire[b]) => Reading(b) /\ answer[b] = NoAnswer
        /\ answer[b] # NoAnswer => Reading(b)
        /\ OneReply(wire[b])

\* What was signalled last is what is true, where that is a lock.
LastNews == \A b \in Buses : truth[b] = "locked" => EndsLocked(wire[b])

Shoots == Busy /\ Shooting(job)

\* After the first look at the lock, every later one is remembered.
Monitored ==
    Busy => \/ monitor
            \/ job.stage = "start" /\ job.tool = "status" /\ Ahead > 9
            \/ job.stage = "start" /\ job.tool # "status" /\ Ahead > 2

Noticed(b) == lockSeen \/ News(wire[b])

\* No answer will hide a lock.
Undenied(b) == answer[b] # "unlocked" /\ ~Denies(wire[b])

\* The second look before a picture: at each of its boundaries, what the host
\* has of a lock that is in place.
Looked ==
    \A b \in Buses : Shoots /\ truth[b] = "locked" =>
        /\ Ahead = 7 /\ b = "session" => Noticed(b) \/ Undenied(b)
        /\ Ahead \in {5, 6} /\ b = "session" => Noticed(b) \/ locked[b]
        /\ Ahead = 5 /\ b = "locker" => Noticed(b) \/ Undenied(b)
        /\ Ahead = 4 => Noticed(b) \/ stopping
        /\ Ahead = 3 => Noticed(b)

Tainted == picture = "locked" \/ images = "locked"

\* The news of a lock that a picture was taken under are still to come or have
\* been remembered; the last look finds them on the wire before its answers.
Noted ==
    Tainted =>
        /\ Busy /\ (job.stage = "final" \/ (Shoots /\ Ahead <= 2))
        /\ \/ lockSeen
           \/ job.stage # "final" /\ \E b \in Buses : News(wire[b])
           \/ Op \in {"unseen", "askSession"} /\ \E b \in Buses : News(wire[b])
           \/ /\ Op = "readSession"
              /\ News(wire["locker"]) \/ (answer["session"] = NoAnswer /\ NewsFirst(wire["session"]))
           \/ Op = "askLocker" /\ News(wire["locker"])
           \/ Op = "readLocker" /\ answer["locker"] = NoAnswer /\ NewsFirst(wire["locker"])

\* What the chunks of an action still take: at most this many operations.
InChunks == Chunks * Len(Chunk(job.tool))

\* What a provider said last is known, from the last look before the input on.
Heeded ==
    /\ \A b \in Buses : monitor /\ answer[b] = "unlocked" /\ heard[b] => lockSeen
    /\ Busy /\ job.stage = "action" =>
         /\ Ahead <= InChunks + 2 /\ heard["session"] => lockSeen \/ locked["session"]
         /\ Ahead <= InChunks /\ heard["locker"] => lockSeen \/ locked["locker"]

Ready == Op = "press" => \A b \in Buses : ~heard[b]

IInv ==
    /\ DesktopTypes /\ Positioned /\ Replies /\ LastNews /\ Monitored
    /\ Looked /\ Noted /\ Heeded /\ Ready /\ PicturesUnlocked

-----------------------------------------------------------------------------
(* The operations of the stages.                                            *)

\* The program s has n operations; the concatenation of two programs.
Prog(s, n) == s \in Seq(OpNames) /\ Len(s) = n
Joined(s, t) == s \o t

LEMMA JoinedProg ==
    ASSUME NEW s, NEW t, NEW n \in Nat, NEW m \in Nat, Prog(s, n), Prog(t, m)
    PROVE  /\ Prog(Joined(s, t), n + m)
           /\ \A i \in Nat : 1 <= i /\ i <= n => Joined(s, t)[i] = s[i]
           /\ \A i \in Nat : 1 <= i /\ i <= m => Joined(s, t)[n + i] = t[i]
BY DEF Prog, Joined

LEMMA RefreshSeq ==
    /\ Prog(Refresh, 4)
    /\ Refresh[1] = "askSession" /\ Refresh[2] = "readSession"
    /\ Refresh[3] = "askLocker" /\ Refresh[4] = "readLocker"
BY DEF Refresh, OpNames, Prog

LEMMA OneSeq ==
    ASSUME NEW x \in OpNames
    PROVE  Prog(<<x>>, 1) /\ <<x>>[1] = x
BY DEF Prog

LEMMA JoinedOne ==
    ASSUME NEW s, NEW n \in Nat, Prog(s, n), NEW x \in OpNames
    PROVE  /\ Prog(Joined(s, <<x>>), n + 1)
           /\ \A i \in Nat : 1 <= i /\ i <= n => Joined(s, <<x>>)[i] = s[i]
           /\ Joined(s, <<x>>)[n + 1] = x
BY OneSeq, JoinedProg, 1 \in Nat

LEMMA JoinedRefresh ==
    ASSUME NEW s, NEW n \in Nat, Prog(s, n)
    PROVE  LET r == Joined(s, Refresh)
           IN /\ Prog(r, n + 4)
              /\ \A i \in Nat : 1 <= i /\ i <= n => r[i] = s[i]
              /\ r[n + 1] = "askSession" /\ r[n + 2] = "readSession"
              /\ r[n + 3] = "askLocker" /\ r[n + 4] = "readLocker"
BY RefreshSeq, JoinedProg

LEMMA TickRefresh ==
    LET r == Joined(<<"tick">>, Refresh)
    IN /\ Prog(r, 5) /\ r[1] = "tick" /\ r[2] = "askSession"
       /\ r[3] = "readSession" /\ r[4] = "askLocker" /\ r[5] = "readLocker"
<1>1. Prog(<<"tick">>, 1) /\ <<"tick">>[1] = "tick"
  BY OneSeq DEF OpNames
<1> QED
  BY <1>1, JoinedRefresh, 1 \in Nat

LEMMA CaptureSeq ==
    /\ Prog(Capture, 14)
    /\ Capture[1] = "tick" /\ Capture[2] = "askSession" /\ Capture[3] = "readSession"
    /\ Capture[4] = "askLocker" /\ Capture[5] = "readLocker" /\ Capture[6] = "tick"
    /\ Capture[7] = "askSession" /\ Capture[8] = "readSession"
    /\ Capture[9] = "askLocker" /\ Capture[10] = "readLocker" /\ Capture[11] = "tick"
    /\ Capture[12] = "capture" /\ Capture[13] = "tick" /\ Capture[14] = "append"
<1> DEFINE a == Joined(<<"tick">>, Refresh)
           b == Joined(a, <<"tick">>)
           c == Joined(b, Refresh)
           d == <<"tick", "capture", "tick", "append">>
<1>1. Capture = Joined(c, d)
  BY DEF Joined, Capture
<1>2. "tick" \in OpNames
  BY DEF OpNames
<1>3. /\ Prog(d, 4)
      /\ d[1] = "tick" /\ d[2] = "capture" /\ d[3] = "tick" /\ d[4] = "append"
  BY DEF OpNames, Prog
<1>4. /\ Prog(a, 5) /\ a[1] = "tick" /\ a[2] = "askSession"
      /\ a[3] = "readSession" /\ a[4] = "askLocker" /\ a[5] = "readLocker"
  BY TickRefresh
<1> HIDE DEF a, d
<1>5. Prog(b, 6) /\ b[6] = "tick" /\ \A i \in Nat : 1 <= i /\ i <= 5 => b[i] = a[i]
  BY <1>2, <1>4, JoinedOne, 5 \in Nat
<1> HIDE DEF b
<1>6. /\ Prog(c, 10) /\ \A i \in Nat : 1 <= i /\ i <= 6 => c[i] = b[i]
      /\ c[7] = "askSession" /\ c[8] = "readSession" /\ c[9] = "askLocker" /\ c[10] = "readLocker"
  BY <1>5, JoinedRefresh, 6 \in Nat
<1> HIDE DEF c
<1>7. /\ Prog(Joined(c, d), 14)
      /\ \A i \in Nat : 1 <= i /\ i <= 10 => Joined(c, d)[i] = c[i]
      /\ \A i \in Nat : 1 <= i /\ i <= 4 => Joined(c, d)[10 + i] = d[i]
  BY <1>3, <1>6, JoinedProg, 4 \in Nat, 10 \in Nat
<1>8. /\ c[1] = "tick" /\ c[2] = "askSession" /\ c[3] = "readSession"
      /\ c[4] = "askLocker" /\ c[5] = "readLocker" /\ c[6] = "tick"
  BY <1>4, <1>5, <1>6
<1> QED
  BY <1>1, <1>3, <1>6, <1>7, <1>8

LEMMA EnterSeq ==
    /\ Prog(Enter, 15)
    /\ Enter[1] = "tick" /\ Enter[2] = "askSession" /\ Enter[3] = "readSession"
    /\ Enter[4] = "askLocker" /\ Enter[5] = "readLocker"
    /\ Enter[6] = "askSession" /\ Enter[7] = "readSession"
    /\ Enter[8] = "askLocker" /\ Enter[9] = "readLocker" /\ Enter[10] = "allowed"
    /\ Enter[11] = "tick" /\ Enter[12] = "askSession" /\ Enter[13] = "readSession"
    /\ Enter[14] = "askLocker" /\ Enter[15] = "readLocker"
<1> DEFINE a == Joined(<<"tick">>, Refresh)
           b == Joined(a, Refresh)
           d == <<"allowed", "tick">>
           c == Joined(b, d)
<1>1. Enter = Joined(c, Refresh)
  BY DEF Joined, Enter
<1>2. Prog(d, 2) /\ d[1] = "allowed" /\ d[2] = "tick"
  BY DEF OpNames, Prog
<1>3. /\ Prog(a, 5) /\ a[1] = "tick" /\ a[2] = "askSession"
      /\ a[3] = "readSession" /\ a[4] = "askLocker" /\ a[5] = "readLocker"
  BY TickRefresh
<1> HIDE DEF a, d
<1>4. /\ Prog(b, 9) /\ \A i \in Nat : 1 <= i /\ i <= 5 => b[i] = a[i]
      /\ b[6] = "askSession" /\ b[7] = "readSession" /\ b[8] = "askLocker" /\ b[9] = "readLocker"
  BY <1>3, JoinedRefresh, 5 \in Nat
<1> HIDE DEF b
<1>5. /\ Prog(c, 11) /\ \A i \in Nat : 1 <= i /\ i <= 9 => c[i] = b[i]
      /\ \A i \in Nat : 1 <= i /\ i <= 2 => c[9 + i] = d[i]
  BY <1>2, <1>4, JoinedProg, 9 \in Nat, 2 \in Nat
<1>6. c[10] = "allowed" /\ c[11] = "tick"
  BY <1>2, <1>5
<1>7. /\ c[1] = "tick" /\ c[2] = "askSession" /\ c[3] = "readSession"
      /\ c[4] = "askLocker" /\ c[5] = "readLocker" /\ c[6] = "askSession"
      /\ c[7] = "readSession" /\ c[8] = "askLocker" /\ c[9] = "readLocker"
  BY <1>3, <1>4, <1>5
<1> HIDE DEF c
<1>8. LET r == Joined(c, Refresh)
      IN /\ Prog(r, 15)
         /\ \A i \in Nat : 1 <= i /\ i <= 11 => r[i] = c[i]
         /\ r[12] = "askSession" /\ r[13] = "readSession"
         /\ r[14] = "askLocker" /\ r[15] = "readLocker"
  BY <1>5, JoinedRefresh, 11 \in Nat
<1> QED
  BY <1>1, <1>6, <1>7, <1>8

LEMMA StartSeq ==
    ASSUME NEW tool, tool # "status"
    PROVE  LET s == Ops(tool, "start")
           IN /\ Prog(s, 7)
              /\ s[1] = "tick" /\ s[2] = "askSession" /\ s[3] = "readSession" /\ s[4] = "askLocker"
              /\ s[5] = "readLocker" /\ s[6] = "vision" /\ s[7] = "tick"
<1> DEFINE a == Joined(<<"tick">>, Refresh)
           d == <<"vision", "tick">>
<1>1. Ops(tool, "start") = Joined(a, d)
  BY DEF Joined, Ops
<1>2. Prog(d, 2) /\ d[1] = "vision" /\ d[2] = "tick"
  BY DEF OpNames, Prog
<1>3. /\ Prog(a, 5) /\ a[1] = "tick" /\ a[2] = "askSession"
      /\ a[3] = "readSession" /\ a[4] = "askLocker" /\ a[5] = "readLocker"
  BY TickRefresh
<1> HIDE DEF a, d
<1>4. /\ Prog(Joined(a, d), 7)
      /\ \A i \in Nat : 1 <= i /\ i <= 5 => Joined(a, d)[i] = a[i]
      /\ \A i \in Nat : 1 <= i /\ i <= 2 => Joined(a, d)[5 + i] = d[i]
  BY <1>2, <1>3, JoinedProg, 5 \in Nat, 2 \in Nat
<1> QED
  BY <1>1, <1>2, <1>3, <1>4

LEMMA FinalSeq ==
    ASSUME NEW tool, tool # "status"
    PROVE  LET s == Ops(tool, "final")
           IN /\ Prog(s, 6)
              /\ s[1] = "unseen" /\ s[2] = "askSession" /\ s[3] = "readSession" /\ s[4] = "askLocker"
              /\ s[5] = "readLocker" /\ s[6] = "allowed"
<1> DEFINE u == <<"unseen">>
           a == Joined(u, Refresh)
<1>1. Ops(tool, "final") = Joined(a, <<"allowed">>)
  BY DEF Joined, Ops
<1>2. Prog(u, 1) /\ u[1] = "unseen"
  BY OneSeq DEF OpNames
<1> HIDE DEF u
<1>3. /\ Prog(a, 5) /\ a[1] = "unseen" /\ a[2] = "askSession"
      /\ a[3] = "readSession" /\ a[4] = "askLocker" /\ a[5] = "readLocker"
  BY <1>2, JoinedRefresh, 1 \in Nat
<1>4. "allowed" \in OpNames
  BY DEF OpNames
<1> HIDE DEF a
<1>5. LET r == Joined(a, <<"allowed">>)
      IN Prog(r, 6) /\ r[6] = "allowed" /\ \A i \in Nat : 1 <= i /\ i <= 5 => r[i] = a[i]
  BY <1>3, <1>4, JoinedOne, 5 \in Nat
<1> QED
  BY <1>1, <1>3, <1>5

LEMMA StatusSeq == Ops("status", "start") = Capture /\ Ops("status", "final") = Refresh
BY DEF Ops

LEMMA ObserveSeq ==
    ASSUME NEW tool, tool # "status"
    PROVE  LET s == Ops(tool, "observe")
           IN /\ Prog(s, 20)
              /\ s[1] = "unseen" /\ s[2] = "askSession" /\ s[3] = "readSession" /\ s[4] = "askLocker"
              /\ s[5] = "readLocker" /\ s[6] = "allowed"
              /\ \A i \in Nat : 1 <= i /\ i <= 14 => s[6 + i] = Capture[i]
<1>1. Ops(tool, "observe") = Joined(Ops(tool, "final"), Capture)
  BY DEF Joined, Ops
<1>2. Prog(Ops(tool, "final"), 6) /\ Prog(Capture, 14)
  BY FinalSeq, CaptureSeq
<1>3. LET s == Ops(tool, "observe")
      IN /\ Prog(s, 20)
         /\ \A i \in Nat : 1 <= i /\ i <= 6 => s[i] = Ops(tool, "final")[i]
         /\ \A i \in Nat : 1 <= i /\ i <= 14 => s[6 + i] = Capture[i]
  BY <1>1, <1>2, JoinedProg, 6 \in Nat, 14 \in Nat
<1> QED
  BY <1>3, FinalSeq

\* One chunk: how long it is and where it presses.
Length(tool) == IF tool = "keys" THEN 5 ELSE IF tool = "drag" THEN 8 ELSE 4

LEMMA ChunkSeq ==
    ASSUME NEW tool \in Tools \ {"status"}
    PROVE  /\ Prog(Chunk(tool), Length(tool))
           /\ \A i \in 1..Length(tool) :
                /\ Chunk(tool)[i] \in {"tick", "allowed", "press", "release"}
                /\ Chunk(tool)[i] = "press" <=> i = 3
           /\ Chunk(tool)[2] = "allowed"
<1>1. CASE tool = "keys"
  <2>1. Chunk(tool) = Keys /\ Length(tool) = 5
    BY <1>1 DEF Chunk, Length
  <2> QED BY <2>1 DEF Keys, OpNames, Prog
<1>2. CASE tool = "drag"
  <2>1. Chunk(tool) = Drag /\ Length(tool) = 8
    BY <1>2 DEF Chunk, Length
  <2> QED BY <2>1 DEF Drag, OpNames, Prog
<1>3. CASE tool = "text"
  <2>1. Chunk(tool) = Text /\ Length(tool) = 4
    BY <1>3 DEF Chunk, Length
  <2> QED BY <2>1 DEF Text, OpNames, Prog
<1> QED
  BY <1>1, <1>2, <1>3 DEF Tools

LEMMA RepeatSeq ==
    ASSUME NEW s, NEW n \in {4, 5, 8}, Prog(s, n)
    PROVE  /\ Prog(Repeat(s, Chunks), Chunks * n)
           /\ \A i \in Nat : 1 <= i /\ i <= Chunks * n =>
                Repeat(s, Chunks)[i] = s[((i - 1) % n) + 1]
<1>1. n \in Nat /\ n > 0 /\ Chunks * n \in Nat
  BY ChunksAssumption
<1>2. \A i \in 1..(Chunks * n) : ((i - 1) % n) + 1 \in 1..n
  BY <1>1
<1>3. Repeat(s, Chunks) = [i \in 1..(Chunks * n) |-> s[((i - 1) % n) + 1]]
  BY DEF Repeat, Prog
<1>4. \A i \in 1..(Chunks * n) : s[((i - 1) % n) + 1] \in OpNames
  BY <1>1, <1>2 DEF Prog
<1>5. Repeat(s, Chunks) \in [1..(Chunks * n) -> OpNames]
  BY <1>3, <1>4
<1>6. Prog(Repeat(s, Chunks), Chunks * n)
  BY <1>1, <1>5 DEF Prog
<1> QED
  BY <1>1, <1>3, <1>6

LEMMA ActionSeq ==
    ASSUME NEW tool \in Tools \ {"status"}
    PROVE  LET s == Ops(tool, "action")
               c == Chunks * Length(tool)
           IN /\ c \in Nat
              /\ Prog(s, 15 + c)
              /\ \A i \in Nat : 1 <= i /\ i <= 15 => s[i] = Enter[i]
              /\ \A i \in Nat : 1 <= i /\ i <= c =>
                   s[15 + i] = Chunk(tool)[((i - 1) % Length(tool)) + 1]
<1> DEFINE c == Chunks * Length(tool)
<1>1. Length(tool) \in {4, 5, 8} /\ c \in Nat
  BY ChunksAssumption DEF Length
<1>2. Ops(tool, "action") = Joined(Enter, Repeat(Chunk(tool), Chunks))
  BY DEF Joined, Ops
<1>3. /\ Prog(Repeat(Chunk(tool), Chunks), c)
      /\ \A i \in Nat : 1 <= i /\ i <= c =>
           Repeat(Chunk(tool), Chunks)[i] = Chunk(tool)[((i - 1) % Length(tool)) + 1]
  BY <1>1, ChunkSeq, RepeatSeq
<1> HIDE DEF c
<1>4. Prog(Enter, 15)
  BY EnterSeq
<1>5. LET s == Joined(Enter, Repeat(Chunk(tool), Chunks))
      IN /\ Prog(s, 15 + c)
         /\ \A i \in Nat : 1 <= i /\ i <= 15 => s[i] = Enter[i]
         /\ \A i \in Nat : 1 <= i /\ i <= c => s[15 + i] = Repeat(Chunk(tool), Chunks)[i]
  BY <1>1, <1>3, <1>4, JoinedProg, 15 \in Nat
<1> QED
  BY <1>1, <1>2, <1>3, <1>5 DEF c

-----------------------------------------------------------------------------
(* Where a call is.                                                         *)

\* In a program of n operations a question is followed by its answer, a press
\* follows a test of the lock, and the first operation is none of these.
Linked(s, n) ==
    /\ n > 0 /\ s[1] \in {"tick", "unseen", "askSession"}
    /\ \A i \in Nat : 1 <= i /\ i <= n =>
         /\ s[i] = "askSession" => i < n /\ s[i + 1] = "readSession"
         /\ s[i] = "askLocker" => i < n /\ s[i + 1] = "readLocker"
         /\ s[i] = "press" => i > 1 /\ s[i - 1] = "allowed"

LEMMA CaptureLinked == Linked(Capture, 14)
<1>1. \A i \in Nat : 1 <= i /\ i <= 14 =>
        i \in {1, 2, 3, 4, 5, 6, 7, 8, 9, 10, 11, 12, 13, 14}
  OBVIOUS
<1> QED
  BY <1>1, CaptureSeq DEF Linked

LEMMA EnterLinked == 
    \A i \in Nat : 1 <= i /\ i <= 15 =>
         /\ Enter[i] = "askSession" => i < 15 /\ Enter[i + 1] = "readSession"
         /\ Enter[i] = "askLocker" => i < 15 /\ Enter[i + 1] = "readLocker"
         /\ Enter[i] \notin {"press", "capture", "append"}
<1>1. \A i \in Nat : 1 <= i /\ i <= 15 =>
        i \in {1, 2, 3, 4, 5, 6, 7, 8, 9, 10, 11, 12, 13, 14, 15}
  OBVIOUS
<1> QED
  BY <1>1, EnterSeq

LEMMA RefreshLinked == Linked(Refresh, 4)
<1>1. \A i \in Nat : 1 <= i /\ i <= 4 => i \in {1, 2, 3, 4}
  OBVIOUS
<1> QED
  BY <1>1, RefreshSeq DEF Linked

LEMMA ActionLinked ==
    ASSUME NEW tool \in Tools \ {"status"}
    PROVE  Linked(Ops(tool, "action"), 15 + Chunks * Length(tool))
<1> DEFINE s == Ops(tool, "action")
           c == Chunks * Length(tool)
           l == Length(tool)
<1>1. /\ c \in Nat
      /\ \A i \in Nat : 1 <= i /\ i <= 15 => s[i] = Enter[i]
      /\ \A i \in Nat : 1 <= i /\ i <= c => s[15 + i] = Chunk(tool)[((i - 1) % l) + 1]
  BY ActionSeq
<1>2. l \in {4, 5, 8}
  BY DEF Length
<1>3. /\ \A i \in 1..l :
           /\ Chunk(tool)[i] \in {"tick", "allowed", "press", "release"}
           /\ Chunk(tool)[i] = "press" <=> i = 3
      /\ Chunk(tool)[2] = "allowed"
  BY ChunkSeq
<1> HIDE DEF s, c, l
<1>4. ASSUME NEW i \in Nat, 1 <= i, i <= 15
      PROVE  /\ s[i] = "askSession" => i < 15 + c /\ s[i + 1] = "readSession"
             /\ s[i] = "askLocker" => i < 15 + c /\ s[i + 1] = "readLocker"
             /\ s[i] # "press"
  BY <1>1, <1>4, EnterLinked
<1>5. ASSUME NEW i \in Nat, 1 <= i, i <= c
      PROVE  /\ s[15 + i] \notin {"askSession", "askLocker"}
             /\ s[15 + i] = "press" => i > 1 /\ s[15 + i - 1] = "allowed"
  <2> DEFINE k == ((i - 1) % l) + 1
  <2>1. k \in 1..l
    BY <1>2
  <2>2. s[15 + i] = Chunk(tool)[k]
    BY <1>1, <1>5
  <2>3. ASSUME s[15 + i] = "press"
        PROVE  i > 1 /\ s[15 + i - 1] = "allowed"
    <3>1. (i - 1) % l = 2
      <4> HIDE DEF k
      <4>1. k = 3
        BY <1>3, <2>1, <2>2, <2>3
      <4> USE DEF k
      <4> QED
        BY <1>2, <4>1
    <3>2. i > 1 /\ ((i - 1) - 1) % l = 1
      BY <1>2, <3>1
    <3>3. s[15 + (i - 1)] = Chunk(tool)[(((i - 1) - 1) % l) + 1]
      BY <1>1, <1>5, <3>2
    <3> QED
      BY <1>3, <3>2, <3>3
  <2>4. s[15 + i] \in {"tick", "allowed", "press", "release"}
    <3> HIDE DEF k
    <3>1. Chunk(tool)[k] \in {"tick", "allowed", "press", "release"}
      BY <1>3, <2>1, Zenon
    <3> QED
      BY <2>2, <3>1, Zenon
  <2> QED
    BY <2>3, <2>4
<1>6. ASSUME NEW i \in Nat, 1 <= i, i <= 15 + c
      PROVE  /\ s[i] = "askSession" => i < 15 + c /\ s[i + 1] = "readSession"
             /\ s[i] = "askLocker" => i < 15 + c /\ s[i + 1] = "readLocker"
             /\ s[i] = "press" => i > 1 /\ s[i - 1] = "allowed"
  <2>1. CASE i <= 15
    BY <1>4, <1>6, <2>1
  <2>2. CASE i > 15
    <3>1. i - 15 \in Nat /\ 1 <= i - 15 /\ i - 15 <= c /\ i = 15 + (i - 15)
      BY <1>1, <1>6, <2>2
    <3> QED
      BY <1>5, <3>1
  <2> QED
    BY <2>1, <2>2
<1>7. s[1] = "tick"
  BY <1>1, EnterSeq
<1> QED
  BY <1>1, <1>6, <1>7 DEF Linked, s, c

LEMMA StartLinked ==
    ASSUME NEW tool, tool # "status"
    PROVE  Linked(Ops(tool, "start"), 7)
<1>1. \A i \in Nat : 1 <= i /\ i <= 7 => i \in {1, 2, 3, 4, 5, 6, 7}
  OBVIOUS
<1> QED
  BY <1>1, StartSeq DEF Linked

LEMMA FinalLinked ==
    ASSUME NEW tool, tool # "status"
    PROVE  Linked(Ops(tool, "final"), 6)
<1>1. \A i \in Nat : 1 <= i /\ i <= 6 => i \in {1, 2, 3, 4, 5, 6}
  OBVIOUS
<1> QED
  BY <1>1, FinalSeq DEF Linked

LEMMA ObserveLinked ==
    ASSUME NEW tool, tool # "status"
    PROVE  Linked(Ops(tool, "observe"), 20)
<1> DEFINE s == Ops(tool, "observe")
<1>1. ASSUME NEW i \in Nat, 1 <= i, i <= 20
      PROVE  /\ s[i] = "askSession" => i < 20 /\ s[i + 1] = "readSession"
             /\ s[i] = "askLocker" => i < 20 /\ s[i + 1] = "readLocker"
             /\ s[i] = "press" => i > 1 /\ s[i - 1] = "allowed"
  <2>1. CASE i <= 6
    <3>1. i \in {1, 2, 3, 4, 5, 6}
      BY <1>1, <2>1
    <3> QED
      BY <3>1, ObserveSeq
  <2>2. CASE i > 6
    <3>1. PICK k \in Nat : 1 <= k /\ k <= 14 /\ i = 6 + k
      <4>1. i - 6 \in Nat /\ 1 <= i - 6 /\ i - 6 <= 14 /\ i = 6 + (i - 6)
        BY <1>1, <2>2
      <4> QED
        BY <4>1
    <3>2. /\ Capture[k] = "askSession" => k < 14 /\ Capture[k + 1] = "readSession"
          /\ Capture[k] = "askLocker" => k < 14 /\ Capture[k + 1] = "readLocker"
          /\ Capture[k] # "press"
      <4>1. k \in {1, 2, 3, 4, 5, 6, 7, 8, 9, 10, 11, 12, 13, 14}
        BY <3>1
      <4> QED
        BY <4>1, CaptureSeq
    <3>3. s[i] = Capture[k] /\ (k < 14 => s[i + 1] = Capture[k + 1])
      <4>1. k < 14 => k + 1 \in Nat /\ 1 <= k + 1 /\ k + 1 <= 14 /\ i + 1 = 6 + (k + 1)
        BY <3>1
      <4> QED
        BY <3>1, <4>1, ObserveSeq
    <3> QED
      BY <3>1, <3>2, <3>3
  <2> QED
    BY <2>1, <2>2
<1> QED
  BY <1>1, ObserveSeq DEF Linked

LEMMA OpsLinked ==
    ASSUME NEW tool \in Tools, NEW stage \in Stages, stage \in {"action", "observe"} => tool # "status"
    PROVE  \E n \in Nat : Prog(Ops(tool, stage), n) /\ Linked(Ops(tool, stage), n)
<1>1. CASE stage = "start" /\ tool = "status"
  BY <1>1, StatusSeq, CaptureSeq, CaptureLinked, 14 \in Nat
<1>2. CASE stage = "start" /\ tool # "status"
  BY <1>2, StartSeq, StartLinked, 7 \in Nat
<1>3. CASE stage = "action"
  <2>1. tool \in Tools \ {"status"}
    BY <1>3
  <2>2. 15 + Chunks * Length(tool) \in Nat
    BY <2>1, ActionSeq
  <2> QED
    BY <1>3, <2>1, <2>2, ActionSeq, ActionLinked
<1>4. CASE stage = "observe"
  BY <1>4, ObserveSeq, ObserveLinked, 20 \in Nat
<1>5. CASE stage = "final" /\ tool = "status"
  BY <1>5, StatusSeq, RefreshSeq, RefreshLinked, 4 \in Nat
<1>6. CASE stage = "final" /\ tool # "status"
  BY <1>6, FinalSeq, FinalLinked, 6 \in Nat
<1> QED
  BY <1>1, <1>2, <1>3, <1>4, <1>5, <1>6 DEF Stages

LEMMA WholeLinked ==
    ASSUME NEW j \in Jobs, Placed(j)
    PROVE  LET s == Ops(j.tool, j.stage)
           IN Len(s) \in Nat /\ Prog(s, Len(s)) /\ Linked(s, Len(s))
<1>1. j.tool \in Tools /\ j.stage \in Stages /\ (j.stage \in {"action", "observe"} => j.tool # "status")
  BY DEF Jobs, Placed
<1>2. PICK n \in Nat : Prog(Ops(j.tool, j.stage), n) /\ Linked(Ops(j.tool, j.stage), n)
  BY <1>1, OpsLinked
<1> QED
  BY <1>2 DEF Prog

LEMMA OpPlace ==
    ASSUME NEW j \in Jobs, Placed(j), NEW m \in Nat, Prog(Ops(j.tool, j.stage), m)
    PROVE  LET n == Todo(j)
           IN /\ n \in Nat /\ n <= m
              /\ n = 0 <=> j.ops = <<>>
              /\ n = 0 => OpOf(j) = "end"
              /\ n > 0 => OpOf(j) = Ops(j.tool, j.stage)[(m - n) + 1]
<1>1. j.ops \in Seq(OpNames)
  BY DEF Jobs
<1> DEFINE ops == j.ops
           s == Ops(j.tool, j.stage)
<1>2. Len(s) = m
  BY DEF Prog
<1>3. Len(ops) <= Len(s) /\ \A i \in 1..Len(ops) : ops[i] = s[Len(s) - Len(ops) + i]
  BY DEF Placed
<1>4. OpOf(j) = IF ops = <<>> THEN "end" ELSE Head(ops)
  BY DEF OpOf
<1> HIDE DEF ops, s
<1>5. Len(ops) \in Nat /\ (Len(ops) = 0 <=> ops = <<>>) /\ (ops # <<>> => Head(ops) = ops[1])
  BY <1>1 DEF ops
<1>6. Len(ops) > 0 => ops[1] = s[(m - Len(ops)) + 1]
  BY <1>2, <1>3, <1>5
<1>7. Len(ops) > 0 => OpOf(j) = s[(m - Len(ops)) + 1]
  BY <1>4, <1>5, <1>6
<1>8. Len(ops) = Todo(j)
  BY DEF Todo, ops
<1> QED
  BY <1>2, <1>3, <1>4, <1>5, <1>7, <1>8 DEF ops, s

LEMMA Stepped ==
    ASSUME NEW j \in Jobs, Placed(j), j.ops # <<>>
    PROVE  LET k == [j EXCEPT !.ops = Tail(@)]
           IN /\ k \in Jobs /\ k.tool = j.tool /\ k.stage = j.stage
              /\ Placed(k)
              /\ Todo(k) = Todo(j) - 1
<1> DEFINE k == [j EXCEPT !.ops = Tail(@)]
           ops == j.ops
           s == Ops(j.tool, j.stage)
           n == Len(ops)
<1>1. ops \in Seq(OpNames) /\ ops # <<>> /\ n \in Nat /\ n > 0
  BY DEF Jobs
<1>2. /\ k \in Jobs /\ k.tool = j.tool /\ k.stage = j.stage /\ k.ops = Tail(ops)
  BY <1>1 DEF Jobs
<1>3. Len(s) \in Nat
  BY WholeLinked
<1>4. n <= Len(s) /\ \A i \in 1..n : ops[i] = s[Len(s) - n + i]
  BY DEF Placed
<1>5. j.stage \in {"action", "observe"} => j.tool # "status"
  BY DEF Placed
<1> HIDE DEF s, ops, k
<1>6. Len(Tail(ops)) = n - 1 /\ \A i \in 1..(n - 1) : Tail(ops)[i] = ops[i + 1]
  BY <1>1
<1> HIDE DEF n
<1>7. n - 1 <= Len(s)
  BY <1>1, <1>3, <1>4
<1>8. ASSUME NEW i \in 1..(n - 1)
      PROVE  Tail(ops)[i] = s[Len(s) - (n - 1) + i]
  <2>1. i + 1 \in 1..n /\ Len(s) - n + (i + 1) = Len(s) - (n - 1) + i
    BY <1>1, <1>3
  <2> QED
    BY <1>4, <1>6, <2>1
<1>9. Placed(k)
  BY <1>2, <1>5, <1>6, <1>7, <1>8 DEF Placed, s
<1> QED
  BY <1>2, <1>6, <1>9 DEF k, n, ops, Todo

\* From one operation to the next.
LEMMA NextOps ==
    ASSUME NEW j \in Jobs, Placed(j), j.ops # <<>>
    PROVE  LET k == [j EXCEPT !.ops = Tail(@)]
           IN /\ OpOf(j) = "askSession" => OpOf(k) = "readSession"
              /\ OpOf(j) = "askLocker" => OpOf(k) = "readLocker"
              /\ OpOf(k) = "press" => OpOf(j) = "allowed"
<1> DEFINE k == [j EXCEPT !.ops = Tail(@)]
           s == Ops(j.tool, j.stage)
           m == Len(s)
           n == Todo(j)
<1>1. m \in Nat /\ Prog(s, m) /\ Linked(s, m)
  BY WholeLinked
<1>2. n \in Nat /\ n > 0 /\ n <= m /\ OpOf(j) = s[(m - n) + 1]
  BY <1>1, OpPlace
<1>3. k \in Jobs /\ Placed(k) /\ k.tool = j.tool /\ k.stage = j.stage /\ Todo(k) = n - 1
  BY Stepped
<1> HIDE DEF k
<1>4. /\ n - 1 = 0 => OpOf(k) = "end"
      /\ n - 1 > 0 => OpOf(k) = s[(m - (n - 1)) + 1]
  BY <1>1, <1>3, OpPlace
<1> HIDE DEF s, m, n
<1> DEFINE p == (m - n) + 1
<1>5. p \in Nat /\ 1 <= p /\ p <= m /\ (p < m <=> n - 1 > 0) /\ (p = m <=> n - 1 = 0)
      /\ (m - (n - 1)) + 1 = p + 1
  BY <1>1, <1>2
<1>6. /\ s[p] = "askSession" => p < m /\ s[p + 1] = "readSession"
      /\ s[p] = "askLocker" => p < m /\ s[p + 1] = "readLocker"
  BY <1>1, <1>5 DEF Linked
<1>7. p < m /\ s[p + 1] = "press" => s[p] = "allowed"
  <2>1. p < m => p + 1 \in Nat /\ 1 <= p + 1 /\ p + 1 <= m /\ (p + 1) - 1 = p
    BY <1>1, <1>5
  <2> QED
    BY <1>1, <2>1 DEF Linked
<1>8. OpOf(j) = s[p] /\ (p < m => OpOf(k) = s[p + 1]) /\ (p = m => OpOf(k) = "end") /\ p <= m
  BY <1>2, <1>4, <1>5
<1> HIDE DEF p
<1>9. p \in Nat /\ m \in Nat /\ (p < m \/ p = m)
  BY <1>1, <1>2, <1>5
<1> QED
  BY <1>6, <1>7, <1>8, <1>9 DEF k

\* Before a picture.
LEMMA ShootPlace ==
    ASSUME NEW j \in Jobs, Placed(j), Shooting(j)
    PROVE  LET n == Todo(j)
           IN /\ n = 10 => OpOf(j) = "readLocker"
              /\ n = 9 => OpOf(j) = "tick"
              /\ n = 8 => OpOf(j) = "askSession"
              /\ n = 7 => OpOf(j) = "readSession"
              /\ n = 6 => OpOf(j) = "askLocker"
              /\ n = 5 => OpOf(j) = "readLocker"
              /\ n = 4 => OpOf(j) = "tick"
              /\ n = 3 => OpOf(j) = "capture"
              /\ n = 2 => OpOf(j) = "tick"
              /\ n = 1 => OpOf(j) = "append"
<1> DEFINE n == Todo(j)
<1>1. CASE j.stage = "start"
  <2>1. Ops(j.tool, j.stage) = Capture /\ Prog(Capture, 14)
    BY <1>1, StatusSeq, CaptureSeq DEF Shooting
  <2>2. n \in Nat /\ (n > 0 => OpOf(j) = Capture[(14 - n) + 1])
    BY <2>1, OpPlace, 14 \in Nat
  <2> HIDE DEF n
  <2>3. n > 0 => OpOf(j) = Capture[15 - n]
    BY <2>2
  <2> QED
    BY <2>3, CaptureSeq DEF n
<1>2. CASE j.stage = "observe"
  <2>1. j.tool # "status"
    BY <1>2 DEF Placed
  <2> DEFINE s == Ops(j.tool, j.stage)
  <2>2. Prog(s, 20) /\ \A i \in Nat : 1 <= i /\ i <= 14 => s[6 + i] = Capture[i]
    BY <1>2, <2>1, ObserveSeq
  <2>3. n \in Nat /\ (n > 0 => OpOf(j) = s[(20 - n) + 1])
    BY <2>2, OpPlace, 20 \in Nat
  <2> HIDE DEF s, n
  <2>4. n > 0 /\ n <= 14 => OpOf(j) = Capture[15 - n]
    <3>1. n > 0 /\ n <= 14 =>
            15 - n \in Nat /\ 1 <= 15 - n /\ 15 - n <= 14 /\ (20 - n) + 1 = 6 + (15 - n)
      BY <2>3
    <3> QED
      BY <2>2, <2>3, <3>1
  <2> QED
    BY <2>4, CaptureSeq DEF n
<1> QED
  BY <1>1, <1>2 DEF Shooting

LEMMA StartPlace ==
    ASSUME NEW j \in Jobs, Placed(j), j.stage = "start", j.tool # "status"
    PROVE  LET n == Todo(j)
           IN n <= 7 /\ (n = 3 => OpOf(j) = "readLocker") /\ OpOf(j) \notin {"capture", "append", "press"}
<1> DEFINE n == Todo(j)
           s == Ops(j.tool, "start")
<1>1. n \in Nat /\ n <= 7 /\ (n > 0 => OpOf(j) = s[(7 - n) + 1]) /\ (n = 0 => OpOf(j) = "end")
  BY OpPlace, StartSeq, 7 \in Nat
<1> HIDE DEF n
<1>2. n \in {0, 1, 2, 3, 4, 5, 6, 7}
  BY <1>1
<1> QED
  BY <1>1, <1>2, StartSeq DEF n

\* The last look at the lock.
LEMMA FinalPlace ==
    ASSUME NEW j \in Jobs, Placed(j), j.stage = "final"
    PROVE  LET n == Todo(j)
               d == IF j.tool = "status" THEN 0 ELSE 1
           IN /\ n <= 6 /\ (j.tool = "status" => n <= 4)
              /\ n = 6 => OpOf(j) = "unseen"
              /\ n = 4 + d => OpOf(j) = "askSession"
              /\ n = 3 + d => OpOf(j) = "readSession"
              /\ n = 2 + d => OpOf(j) = "askLocker"
              /\ n = 1 + d => OpOf(j) = "readLocker"
              /\ n = 1 /\ d = 1 => OpOf(j) = "allowed"
<1> DEFINE n == Todo(j)
           s == Ops(j.tool, "final")
<1>1. CASE j.tool = "status"
  <2>1. s = Refresh /\ Prog(Refresh, 4)
    BY <1>1, StatusSeq, RefreshSeq
  <2>2. n \in Nat /\ n <= 4 /\ (n > 0 => OpOf(j) = Refresh[(4 - n) + 1])
    BY <2>1, OpPlace, 4 \in Nat
  <2> HIDE DEF n
  <2> QED
    BY <1>1, <2>2, RefreshSeq DEF n
<1>2. CASE j.tool # "status"
  <2>1. n \in Nat /\ n <= 6 /\ (n > 0 => OpOf(j) = s[(6 - n) + 1])
    BY <1>2, OpPlace, FinalSeq, 6 \in Nat
  <2> HIDE DEF n
  <2> QED
    BY <1>2, <2>1, FinalSeq DEF n
<1> QED
  BY <1>1, <1>2

\* The chunks of an action and the look at the lock before them.
LEMMA ActionPlace ==
    ASSUME NEW j \in Jobs, Placed(j), j.stage = "action"
    PROVE  LET n == Todo(j)
               c == Chunks * Len(Chunk(j.tool))
           IN /\ c \in Nat /\ n <= c + 15
              /\ n = c + 3 => OpOf(j) = "readSession"
              /\ n = c + 2 => OpOf(j) = "askLocker"
              /\ n = c + 1 => OpOf(j) = "readLocker"
              /\ n <= c => OpOf(j) \in {"tick", "allowed", "press", "release", "end"}
              /\ OpOf(j) \notin {"capture", "append"}
              /\ OpOf(j) = "press" => n <= c
<1> DEFINE n == Todo(j)
           s == Ops(j.tool, "action")
           l == Length(j.tool)
           c == Chunks * l
<1>1. j.tool \in Tools \ {"status"}
  BY DEF Placed, Jobs
<1>2. /\ c \in Nat /\ 15 + c \in Nat /\ Prog(s, 15 + c)
      /\ \A i \in Nat : 1 <= i /\ i <= 15 => s[i] = Enter[i]
      /\ \A i \in Nat : 1 <= i /\ i <= c => s[15 + i] = Chunk(j.tool)[((i - 1) % l) + 1]
  BY <1>1, ActionSeq
<1>3. /\ n \in Nat /\ n <= 15 + c
      /\ n > 0 => OpOf(j) = s[((15 + c) - n) + 1]
      /\ n = 0 => OpOf(j) = "end"
  BY <1>2, OpPlace
<1>4. Chunks * Len(Chunk(j.tool)) = c
  BY <1>1, ChunkSeq DEF Prog
<1>5. l \in {4, 5, 8}
  BY DEF Length
<1> HIDE DEF n, s, c, l
<1>6. ASSUME n > 0, n <= c
      PROVE  OpOf(j) \in {"tick", "allowed", "press", "release"}
  <2> DEFINE i == (c - n) + 1
             k == ((i - 1) % l) + 1
  <2>1. i \in Nat /\ 1 <= i /\ i <= c /\ ((15 + c) - n) + 1 = 15 + i
    BY <1>2, <1>3, <1>6
  <2>2. k \in 1..l
    <3> HIDE DEF i
    <3> QED
      BY <1>5, <2>1
  <2>3. OpOf(j) = Chunk(j.tool)[k]
    BY <1>2, <1>3, <1>6, <2>1
  <2> HIDE DEF k
  <2>4. Chunk(j.tool)[k] \in {"tick", "allowed", "press", "release"}
    BY <1>1, <2>2, ChunkSeq DEF l
  <2> QED
    BY <2>3, <2>4
<1>7. ASSUME n > c
      PROVE  /\ OpOf(j) \notin {"capture", "append", "press"}
             /\ n = c + 3 => OpOf(j) = "readSession"
             /\ n = c + 2 => OpOf(j) = "askLocker"
             /\ n = c + 1 => OpOf(j) = "readLocker"
  <2> DEFINE i == ((15 + c) - n) + 1
  <2>1. /\ i \in Nat /\ 1 <= i /\ i <= 15 /\ n > 0
        /\ (n = c + 3 => i = 13) /\ (n = c + 2 => i = 14) /\ (n = c + 1 => i = 15)
    BY <1>2, <1>3, <1>7
  <2>2. OpOf(j) = s[i]
    BY <1>3, <2>1
  <2> HIDE DEF i
  <2>3. OpOf(j) = Enter[i]
    BY <1>2, <2>1, <2>2
  <2>4. Enter[i] \notin {"capture", "append", "press"}
    BY <2>1, EnterLinked
  <2> QED
    BY <2>1, <2>3, <2>4, EnterSeq
<1> QED
  BY <1>2, <1>3, <1>4, <1>6, <1>7 DEF n

\* Pictures are taken and kept at one place each, and input is sent in chunks.
LEMMA PicturePlace ==
    ASSUME NEW j \in Jobs, Placed(j)
    PROVE  /\ OpOf(j) = "capture" => Shooting(j) /\ Todo(j) = 3
           /\ OpOf(j) = "append" => Shooting(j) /\ Todo(j) = 1
           /\ OpOf(j) = "press" => j.stage = "action" /\ Todo(j) <= Chunks * Len(Chunk(j.tool))
<1> DEFINE n == Todo(j)
           s == Ops(j.tool, j.stage)
<1>1. \A m \in Nat : Prog(s, m) =>
        /\ n \in Nat /\ n <= m
        /\ n = 0 => OpOf(j) = "end"
        /\ n > 0 => OpOf(j) = s[(m - n) + 1]
  BY OpPlace
<1>2. j.stage \in Stages
  BY DEF Jobs
<1>3. CASE j.stage = "start" /\ j.tool = "status"
  <2>1. s = Capture /\ Prog(Capture, 14)
    BY <1>3, StatusSeq, CaptureSeq
  <2> HIDE DEF n, s
  <2>2. /\ n \in {0, 1, 2, 3, 4, 5, 6, 7, 8, 9, 10, 11, 12, 13, 14}
        /\ n = 0 => OpOf(j) = "end"
        /\ n > 0 => OpOf(j) = Capture[(14 - n) + 1]
    BY <1>1, <2>1, 14 \in Nat
  <2> QED
    BY <1>3, <2>2, CaptureSeq DEF n, Shooting
<1>4. CASE j.stage = "start" /\ j.tool # "status"
  BY <1>4, StartPlace
<1>5. CASE j.stage = "action"
  BY <1>5, ActionPlace
<1>6. CASE j.stage = "observe"
  <2>1. j.tool # "status"
    BY <1>6 DEF Placed
  <2>2. /\ Prog(s, 20)
        /\ s[1] = "unseen" /\ s[2] = "askSession" /\ s[3] = "readSession" /\ s[4] = "askLocker"
        /\ s[5] = "readLocker" /\ s[6] = "allowed"
        /\ \A i \in Nat : 1 <= i /\ i <= 14 => s[6 + i] = Capture[i]
    BY <1>6, <2>1, ObserveSeq
  <2> HIDE DEF n, s
  <2>3. /\ n \in Nat /\ n <= 20
        /\ n = 0 => OpOf(j) = "end"
        /\ n > 0 => OpOf(j) = s[(20 - n) + 1]
    BY <1>1, <2>2, 20 \in Nat
  <2>4. CASE n > 14
    <3>1. n \in {15, 16, 17, 18, 19, 20}
      BY <2>3, <2>4
    <3> QED
      BY <2>2, <2>3, <3>1
  <2>5. CASE n <= 14 /\ n > 0
    <3>1. OpOf(j) = Capture[15 - n]
      <4>1. 15 - n \in Nat /\ 1 <= 15 - n /\ 15 - n <= 14 /\ (20 - n) + 1 = 6 + (15 - n)
        BY <2>3, <2>5
      <4> QED
        BY <2>2, <2>3, <2>5, <4>1
    <3>2. n \in {1, 2, 3, 4, 5, 6, 7, 8, 9, 10, 11, 12, 13, 14}
      BY <2>3, <2>5
    <3> QED
      BY <1>6, <3>1, <3>2, CaptureSeq DEF n, Shooting
  <2> QED
    BY <2>3, <2>4, <2>5
<1>7. CASE j.stage = "final"
  <2>1. OpOf(j) \in {"unseen", "askSession", "readSession", "askLocker", "readLocker", "allowed", "end"}
    <3>1. PICK m \in Nat : Prog(s, m)
      BY WholeLinked
    <3>2. n \in Nat /\ n <= 6 /\ (j.tool = "status" => n <= 4) /\ (n = 0 => OpOf(j) = "end")
      BY <1>1, <1>7, <3>1, FinalPlace
    <3> HIDE DEF n, s
    <3>3. n \in {0, 1, 2, 3, 4, 5, 6}
      BY <3>2
    <3> QED
      BY <1>7, <3>2, <3>3, FinalPlace DEF n
  <2> QED
    BY <2>1
<1> QED
  BY <1>2, <1>3, <1>4, <1>5, <1>6, <1>7 DEF Stages

-----------------------------------------------------------------------------
(* The wires.                                                               *)

LEMMA AppendWire ==
    ASSUME NEW s \in Seq(Items), NEW x \in Items
    PROVE  LET t == Append(s, x)
           IN /\ t \in Seq(Items)
              /\ News(s) => News(t)
              /\ x = LockItem => News(t)
              /\ NewsFirst(s) => NewsFirst(t)
              /\ Replying(t) => Replying(s) \/ x.type = "reply"
              /\ OneReply(s) /\ (x.type = "reply" => ~Replying(s)) => OneReply(t)
              /\ Denies(t) => Denies(s) \/ x = Item("reply", "unlocked")
              /\ x = LockItem => EndsLocked(t)
              /\ x # UnlockItem /\ EndsLocked(s) => EndsLocked(t)
<1> DEFINE t == Append(s, x)
           n == Len(s)
<1>1. n \in Nat /\ DOMAIN s = 1..n
  OBVIOUS
<1>2. /\ t \in Seq(Items) /\ DOMAIN t = 1..(n + 1)
      /\ \A i \in 1..n : t[i] = s[i]
      /\ t[n + 1] = x
  OBVIOUS
<1> HIDE DEF t, n
<1>3. /\ News(s) => News(t)
      /\ x = LockItem => News(t)
  BY <1>1, <1>2 DEF News
<1>4. NewsFirst(s) => NewsFirst(t)
  <2> SUFFICES ASSUME NewsFirst(s) PROVE NewsFirst(t)
    OBVIOUS
  <2>1. PICK i \in 1..n : s[i] = LockItem /\ \A j \in 1..i : s[j].type # "reply"
    BY <1>1 DEF NewsFirst
  <2>2. i \in DOMAIN t /\ t[i] = LockItem /\ \A j \in 1..i : t[j].type # "reply"
    BY <1>1, <1>2, <2>1
  <2> QED
    BY <2>2 DEF NewsFirst
<1>5. Replying(t) => Replying(s) \/ x.type = "reply"
  BY <1>1, <1>2 DEF Replying
<1>6. OneReply(s) /\ (x.type = "reply" => ~Replying(s)) => OneReply(t)
  BY <1>1, <1>2 DEF Replying, OneReply
<1>7. Denies(t) => Denies(s) \/ x = Item("reply", "unlocked")
  BY <1>1, <1>2 DEF Denies
<1>8. x = LockItem => EndsLocked(t)
  <2>1. LockItem # UnlockItem
    BY DEF LockItem, UnlockItem, Item
  <2> QED
    BY <1>1, <1>2, <2>1 DEF EndsLocked
<1>9. x # UnlockItem /\ EndsLocked(s) => EndsLocked(t)
  BY <1>1, <1>2 DEF EndsLocked
<1> QED
  BY <1>2, <1>3, <1>4, <1>5, <1>6, <1>7, <1>8, <1>9 DEF t

LEMMA TailWire ==
    ASSUME NEW s \in Seq(Items), s # <<>>
    PROVE  LET t == Tail(s)
               x == Head(s)
           IN /\ t \in Seq(Items) /\ x \in Items
              /\ News(s) => x = LockItem \/ News(t)
              /\ NewsFirst(s) => x = LockItem \/ (x.type # "reply" /\ NewsFirst(t))
              /\ Replying(t) => Replying(s)
              /\ x.type = "reply" => Replying(s)
              /\ OneReply(s) => OneReply(t)
              /\ OneReply(s) /\ x.type = "reply" => ~Replying(t)
              /\ Denies(t) => Denies(s)
              /\ x = Item("reply", "unlocked") => Denies(s)
              /\ EndsLocked(s) => EndsLocked(t)
              /\ EndsLocked(s) /\ x = UnlockItem => News(t)
<1> DEFINE t == Tail(s)
           x == Head(s)
           n == Len(s)
<1>1. n \in Nat /\ n > 0 /\ DOMAIN s = 1..n /\ x = s[1] /\ x \in Items
  OBVIOUS
<1>2. t \in Seq(Items) /\ DOMAIN t = 1..(n - 1) /\ \A i \in 1..(n - 1) : t[i] = s[i + 1]
  OBVIOUS
<1> HIDE DEF t, x, n
<1>3. \A i \in 1..n : i = 1 \/ (i - 1 \in 1..(n - 1) /\ t[i - 1] = s[i])
  BY <1>1, <1>2
<1>4. \A i \in 1..(n - 1) : i + 1 \in 1..n /\ i + 1 # 1
  BY <1>1
<1>5. News(s) => x = LockItem \/ News(t)
  BY <1>1, <1>2, <1>3 DEF News
<1>6. NewsFirst(s) => x = LockItem \/ (x.type # "reply" /\ NewsFirst(t))
  <2> SUFFICES ASSUME NewsFirst(s), x # LockItem PROVE x.type # "reply" /\ NewsFirst(t)
    OBVIOUS
  <2>1. PICK i \in 1..n : s[i] = LockItem /\ \A j \in 1..i : s[j].type # "reply"
    BY <1>1 DEF NewsFirst
  <2>2. i # 1 /\ i - 1 \in 1..(n - 1) /\ t[i - 1] = LockItem
    BY <1>1, <1>3, <2>1
  <2>3. \A j \in 1..(i - 1) : t[j].type # "reply"
    BY <1>1, <1>2, <2>1, <2>2
  <2>4. x.type # "reply"
    BY <1>1, <2>1
  <2> QED
    BY <1>2, <2>2, <2>3, <2>4 DEF NewsFirst
<1>7. Replying(t) => Replying(s)
  BY <1>1, <1>2, <1>4 DEF Replying
<1>8. x.type = "reply" => Replying(s)
  BY <1>1 DEF Replying
<1>9. OneReply(s) => OneReply(t)
  <2> SUFFICES ASSUME OneReply(s), NEW i \in 1..(n - 1), NEW j \in 1..(n - 1),
                      t[i].type = "reply", t[j].type = "reply"
               PROVE  i = j
    BY <1>2 DEF OneReply
  <2>1. s[i + 1].type = "reply" /\ s[j + 1].type = "reply"
    BY <1>2
  <2>2. i + 1 = j + 1
    BY <1>1, <1>4, <2>1 DEF OneReply
  <2> QED
    BY <1>1, <2>2
<1>10. OneReply(s) /\ x.type = "reply" => ~Replying(t)
  <2> SUFFICES ASSUME OneReply(s), x.type = "reply", NEW i \in 1..(n - 1), t[i].type = "reply"
               PROVE  FALSE
    BY <1>2 DEF Replying
  <2>1. s[i + 1].type = "reply" /\ s[1].type = "reply" /\ 1 \in 1..n
    BY <1>1, <1>2
  <2> QED
    BY <1>1, <1>4, <2>1 DEF OneReply
<1>11. Denies(t) => Denies(s)
  BY <1>1, <1>2, <1>4 DEF Denies
<1>12. x = Item("reply", "unlocked") => Denies(s)
  <2>1. 1 \in DOMAIN s
    BY <1>1
  <2> QED
    BY <1>1, <2>1 DEF Denies
<1>13. EndsLocked(s) => EndsLocked(t)
  <2> SUFFICES ASSUME EndsLocked(s), NEW i \in 1..(n - 1), t[i] = UnlockItem
               PROVE  \E j \in 1..(n - 1) : j > i /\ t[j] = LockItem
    BY <1>2 DEF EndsLocked
  <2>1. i + 1 \in DOMAIN s /\ s[i + 1] = UnlockItem
    BY <1>1, <1>2, <1>4
  <2>2. PICK k \in 1..n : k > i + 1 /\ s[k] = LockItem
    BY <1>1, <2>1 DEF EndsLocked
  <2>3. k - 1 \in 1..(n - 1) /\ k - 1 > i /\ t[k - 1] = LockItem
    BY <1>1, <1>3, <2>2
  <2> QED
    BY <2>3
<1>14. EndsLocked(s) /\ x = UnlockItem => News(t)
  <2> SUFFICES ASSUME EndsLocked(s), x = UnlockItem PROVE News(t)
    OBVIOUS
  <2>1. 1 \in DOMAIN s /\ s[1] = UnlockItem
    BY <1>1
  <2>2. PICK k \in 1..n : k > 1 /\ s[k] = LockItem
    BY <1>1, <2>1 DEF EndsLocked
  <2>3. k - 1 \in DOMAIN t /\ t[k - 1] = LockItem
    BY <1>1, <1>2, <1>3, <2>2
  <2> QED
    BY <2>3 DEF News
<1> QED
  BY <1>1, <1>2, <1>5, <1>6, <1>7, <1>8, <1>9, <1>10, <1>11, <1>12, <1>13, <1>14 DEF t, x

LEMMA DroppedWire ==
    ASSUME NEW s \in Seq(Items), OneReply(s)
    PROVE  LET t == Dropped(s)
           IN /\ t \in Seq(Items)
              /\ News(s) => News(t)
              /\ ~Replying(t) /\ OneReply(t)
              /\ EndsLocked(s) => EndsLocked(t)
<1> DEFINE n == Len(s)
<1>1. n \in Nat /\ DOMAIN s = 1..n /\ \A i \in 1..n : s[i] \in Items
  OBVIOUS
<1>2. CASE ~Replying(s)
  <2>1. Dropped(s) = s
    BY <1>2 DEF Dropped, Replying
  <2> QED
    BY <1>2, <2>1
<1>3. CASE Replying(s)
  <2> DEFINE d == CHOOSE i \in DOMAIN s : s[i].type = "reply"
             t == Dropped(s)
  <2>1. d \in 1..n /\ s[d].type = "reply"
    BY <1>1, <1>3 DEF Replying
  <2>2. t = [i \in 1..(n - 1) |-> s[IF i < d THEN i ELSE i + 1]]
    BY <1>3 DEF Dropped, Replying
  <2> HIDE DEF n, d, t
  <2>3. \A i \in 1..(n - 1) : (IF i < d THEN i ELSE i + 1) \in 1..n
    BY <1>1, <2>1
  <2>4. t \in [1..(n - 1) -> Items] /\ n - 1 \in Nat
    BY <1>1, <2>1, <2>2, <2>3
  <2>5. t \in Seq(Items) /\ DOMAIN t = 1..(n - 1)
    BY <2>4
  <2>6. /\ \A i \in 1..n : i < d => i \in 1..(n - 1) /\ t[i] = s[i]
        /\ \A i \in 1..n : i > d => i - 1 \in 1..(n - 1) /\ t[i - 1] = s[i]
    BY <1>1, <2>1, <2>2
  <2>7. \A i \in 1..(n - 1) :
           \/ i < d /\ i \in 1..n /\ t[i] = s[i]
           \/ i >= d /\ i + 1 \in 1..n /\ t[i] = s[i + 1]
    BY <1>1, <2>1, <2>2
  <2>8. LockItem.type # "reply" /\ UnlockItem.type # "reply"
    BY DEF LockItem, UnlockItem, Item
  <2>9. News(s) => News(t)
    <3> SUFFICES ASSUME NEW i \in 1..n, s[i] = LockItem PROVE News(t)
      BY <1>1 DEF News
    <3>1. i # d
      BY <2>1, <2>8
    <3>2. i < d \/ i > d
      BY <1>1, <2>1, <3>1
    <3> QED
      BY <2>5, <2>6, <3>2 DEF News
  <2>10. ~Replying(t)
    <3> SUFFICES ASSUME NEW i \in 1..(n - 1), t[i].type = "reply" PROVE FALSE
      BY <2>5 DEF Replying
    <3>1. CASE i < d
      <4>1. i \in 1..n /\ s[i].type = "reply" /\ i # d
        BY <1>1, <2>1, <2>7, <3>1
      <4> QED
        BY <1>1, <2>1, <4>1 DEF OneReply
    <3>2. CASE ~(i < d)
      <4>1. i + 1 \in 1..n /\ s[i + 1].type = "reply" /\ i + 1 # d
        BY <1>1, <2>1, <2>7, <3>2
      <4> QED
        BY <1>1, <2>1, <4>1 DEF OneReply
    <3> QED
      BY <3>1, <3>2
  <2>11. OneReply(t)
    BY <2>10 DEF Replying, OneReply
  <2>12. EndsLocked(s) => EndsLocked(t)
    <3> SUFFICES ASSUME EndsLocked(s), NEW i \in 1..(n - 1), t[i] = UnlockItem
                 PROVE  \E j \in 1..(n - 1) : j > i /\ t[j] = LockItem
      BY <2>5 DEF EndsLocked
    <3>1. PICK k \in 1..n : s[k] = UnlockItem /\ ((k = i /\ i < d) \/ (k = i + 1 /\ i >= d))
      BY <2>7
    <3>2. PICK m \in 1..n : m > k /\ s[m] = LockItem
      BY <1>1, <3>1 DEF EndsLocked
    <3>3. m # d
      BY <2>1, <2>8, <3>2
    <3>4. CASE m < d
      BY <1>1, <2>1, <2>6, <3>1, <3>2, <3>4
    <3>5. CASE m > d
      <4>1. m - 1 \in 1..(n - 1) /\ t[m - 1] = LockItem
        BY <2>6, <3>2, <3>5
      <4>2. m - 1 > i
        BY <1>1, <2>1, <3>1, <3>2, <3>5
      <4> QED
        BY <4>1, <4>2
    <3> QED
      BY <1>1, <2>1, <3>3, <3>4, <3>5
  <2> QED
    BY <2>5, <2>9, <2>10, <2>11, <2>12 DEF t
<1> QED
  BY <1>2, <1>3

LEMMA FirstNews ==
    ASSUME NEW s \in Seq(Items), News(s), ~Replying(s)
    PROVE  NewsFirst(s)
<1>1. PICK i \in DOMAIN s : s[i] = LockItem
  BY DEF News
<1>2. \A j \in 1..i : j \in DOMAIN s
  BY <1>1
<1> QED
  BY <1>1, <1>2 DEF NewsFirst, Replying

-----------------------------------------------------------------------------
(* The invariant is kept: around the host.                                  *)

\* What is said of the call, when the call does not move.
LEMMA SameJob ==
    ASSUME job' = job
    PROVE  /\ Op' = Op /\ Ahead' = Ahead /\ Busy' = Busy /\ Shoots' = Shoots
           /\ InChunks' = InChunks
           /\ \A b \in Buses : Reading(b)' = Reading(b)
           /\ Positioned => Positioned'
BY DEF Op, Ahead, Todo, Busy, Shoots, Shooting, InChunks, Reading, At, Positioned

LEMMA SignalKeeps ==
    ASSUME IInv, NEW bus \in Buses, NEW x \in Items, x.type # "reply",
           wire' = [wire EXCEPT ![bus] = Append(@, x)],
           truth' \in [Buses -> States],
           \A b \in Buses : truth'[b] = "locked" =>
               \/ truth[b] = "locked" /\ (b = bus => x # UnlockItem)
               \/ b = bus /\ x = LockItem,
           UNCHANGED HostVars
    PROVE  IInv'
<1> USE DEF HostVars, lockVars, callVars, shots
<1>1. \A b \in Buses :
        /\ wire'[b] \in Seq(Items)
        /\ News(wire[b]) => News(wire'[b])
        /\ NewsFirst(wire[b]) => NewsFirst(wire'[b])
        /\ Replying(wire'[b]) => Replying(wire[b])
        /\ OneReply(wire'[b])
        /\ Denies(wire'[b]) => Denies(wire[b])
        /\ truth'[b] = "locked" => EndsLocked(wire'[b]) /\ (truth[b] = "locked" \/ News(wire'[b]))
  <2> TAKE b \in Buses
  <2>1. wire[b] \in Seq(Items) /\ OneReply(wire[b]) /\ (truth[b] = "locked" => EndsLocked(wire[b]))
    BY DEF IInv, DesktopTypes, HostTypes, Replies, LastNews
  <2>2. CASE b = bus
    <3>1. wire'[b] = Append(wire[b], x)
      BY <2>2 DEF IInv, DesktopTypes, HostTypes
    <3>2. Item("reply", "unlocked").type = "reply"
      BY DEF Item
    <3> QED
      BY <2>1, <2>2, <3>1, <3>2, AppendWire
  <2>3. CASE b # bus
    <3>1. wire'[b] = wire[b]
      BY <2>3 DEF IInv, DesktopTypes, HostTypes
    <3> QED
      BY <2>1, <2>3, <3>1
  <2> QED
    BY <2>2, <2>3
<1>2. wire' \in [Buses -> Seq(Items)]
  <2>1. wire' \in [Buses -> Seq(Items)] <=> \A b \in Buses : wire'[b] \in Seq(Items)
    BY DEF IInv, DesktopTypes, HostTypes
  <2> QED
    BY <1>1, <2>1
<1>3. DesktopTypes'
  BY <1>2 DEF IInv, DesktopTypes, HostTypes
<1>4. /\ Op' = Op /\ Ahead' = Ahead /\ Busy' = Busy /\ Shoots' = Shoots
      /\ InChunks' = InChunks /\ Positioned'
      /\ \A b \in Buses : Reading(b)' = Reading(b)
  BY SameJob DEF IInv
<1>5. Replies'
  BY <1>1, <1>4 DEF IInv, Replies
<1>6. LastNews'
  BY <1>1 DEF LastNews
<1>7. Monitored'
  BY <1>4 DEF IInv, Monitored
<1>8. Looked'
  BY <1>1, <1>4 DEF IInv, Looked, Noticed, Undenied
<1>9. Noted'
  BY <1>1, <1>4 DEF IInv, Noted, Tainted, Buses
<1>10. Heeded'
  BY <1>4 DEF IInv, Heeded
<1>11. Ready' /\ PicturesUnlocked'
  BY <1>4 DEF IInv, Ready, PicturesUnlocked
<1> QED
  BY <1>3, <1>4, <1>5, <1>6, <1>7, <1>8, <1>9, <1>10, <1>11 DEF IInv

LEMMA EnvironmentKeeps ==
    ASSUME IInv, (\E b \in Buses : Switch(b)) \/ Deactivate \/ LockerRestarts
    PROVE  IInv'
<1>1. /\ Item("changed", "locked") \in Items /\ Item("changed", "unlocked") \in Items
      /\ Item("inactive", "none") \in Items /\ Item("owner", "none") \in Items
      /\ LockItem.type # "reply" /\ UnlockItem.type # "reply"
      /\ Item("inactive", "none").type # "reply" /\ Item("owner", "none").type # "reply"
      /\ Item("inactive", "none") # UnlockItem /\ Item("owner", "none") # UnlockItem
      /\ LockItem # UnlockItem
  BY DEF Item, Items, Answers, States, NoAnswer, LockItem, UnlockItem
<1>2. truth \in [Buses -> States] /\ "session" \in Buses /\ "locker" \in Buses
  BY DEF IInv, DesktopTypes, HostTypes, Buses
<1>3. ASSUME NEW b \in Buses, Switch(b)
      PROVE  IInv'
  <2> DEFINE x == Item("changed", truth'[b])
  <2>1. truth'[b] \in States /\ truth' \in [Buses -> States] /\ \A c \in Buses \ {b} : truth'[c] = truth[c]
    <3>1. \A v \in States : (CHOOSE s \in States : s # v) \in States
      BY DEF States
    <3> QED
      BY <1>2, <1>3, <3>1 DEF Switch
  <2>2. x \in Items /\ x.type # "reply" /\ (truth'[b] = "locked" => x = LockItem)
    BY <1>1, <2>1 DEF States, LockItem, UnlockItem
  <2>3. wire' = [wire EXCEPT ![b] = Append(@, x)] /\ UNCHANGED HostVars
    BY <1>3 DEF Switch, Tell, HostVars
  <2> HIDE DEF x
  <2>4. \A c \in Buses : truth'[c] = "locked" =>
          \/ truth[c] = "locked" /\ (c = b => x # UnlockItem)
          \/ c = b /\ x = LockItem
    BY <2>1, <2>2
  <2> QED
    BY <1>2, <2>1, <2>2, <2>3, <2>4, SignalKeeps
<1>4. ASSUME Deactivate
      PROVE  IInv'
  <2> DEFINE x == Item("inactive", "none")
  <2>1. wire' = [wire EXCEPT !["session"] = Append(@, x)] /\ truth' = truth /\ UNCHANGED HostVars
    BY <1>4 DEF Deactivate, Tell, HostVars
  <2>2. x \in Items /\ x.type # "reply" /\ x # UnlockItem
    BY <1>1
  <2> HIDE DEF x
  <2> QED
    BY <1>2, <2>1, <2>2, SignalKeeps
<1>5. ASSUME LockerRestarts
      PROVE  IInv'
  <2> DEFINE x == Item("owner", "none")
  <2>1. /\ wire' = [wire EXCEPT !["locker"] = Append(@, x)] /\ UNCHANGED HostVars
        /\ truth' = [truth EXCEPT !["locker"] = "unlocked"]
    BY <1>5 DEF LockerRestarts, Tell, HostVars
  <2>2. x \in Items /\ x.type # "reply" /\ x # UnlockItem
    BY <1>1
  <2> HIDE DEF x
  <2>3. /\ truth' \in [Buses -> States] 
        /\ \A c \in Buses : truth'[c] = "locked" => truth[c] = "locked"
    BY <1>2, <2>1 DEF States
  <2> QED
    BY <1>2, <2>1, <2>2, <2>3, SignalKeeps
<1> QED
  BY <1>3, <1>4, <1>5

-----------------------------------------------------------------------------
(* The main loop.                                                           *)

LEMMA TimerKeeps ==
    ASSUME IInv, Timer
    PROVE  IInv'
<1> USE DEF envVars, callVars, shots
<1>1. /\ UNCHANGED <<truth, wire, answer, locked, known, valid, monitor, job, picture, images, shown, heard>>
      /\ lockSeen' = (lockSeen \/ ((valid /\ \E b \in Buses : locked[b]) /\ monitor))
      /\ stopping' = (stopping \/ ~valid)
      /\ held' = (held /\ Clear(locked, known, valid))
  BY DEF Timer, CheckLock, Remember
<1>2. (lockSeen => lockSeen') /\ (stopping => stopping')
  BY <1>1
<1>3. DesktopTypes'
  BY <1>1 DEF IInv, DesktopTypes, HostTypes
<1>4. /\ Op' = Op /\ Ahead' = Ahead /\ Busy' = Busy /\ Shoots' = Shoots
      /\ InChunks' = InChunks /\ Positioned'
      /\ \A b \in Buses : Reading(b)' = Reading(b)
  BY <1>1, SameJob DEF IInv
<1>5. Replies' /\ LastNews' /\ Monitored'
  BY <1>1, <1>4 DEF IInv, Replies, LastNews, Monitored
<1>6. Looked'
  BY <1>1, <1>2, <1>4 DEF IInv, Looked, Noticed, Undenied
<1>7. Noted'
  BY <1>1, <1>2, <1>4 DEF IInv, Noted, Tainted
<1>8. Heeded'
  BY <1>1, <1>2, <1>4 DEF IInv, Heeded
<1>9. Ready' /\ PicturesUnlocked'
  BY <1>1, <1>4 DEF IInv, Ready, PicturesUnlocked
<1> QED
  BY <1>3, <1>4, <1>5, <1>6, <1>7, <1>8, <1>9 DEF IInv

\* The items of a wire.
LEMMA ItemFacts ==
    ASSUME NEW x \in Items
    PROVE  /\ x.type \in {"changed", "reply", "inactive", "owner"}
           /\ x.type = "changed" => x = LockItem \/ x = UnlockItem
           /\ x.type = "changed" => (x.value = "locked" <=> x = LockItem)
           /\ x.type = "reply" => x.value \in {"locked", "unlocked", "error"}
           /\ x.type = "reply" /\ x.value = "unlocked" => x = Item("reply", "unlocked")
           /\ x.type # "changed" => x # LockItem /\ x # UnlockItem
           /\ LockItem # UnlockItem
           /\ LockItem.type = "changed" /\ UnlockItem.type = "changed"
           /\ LockItem.value = "locked" /\ UnlockItem.value = "unlocked"
BY DEF Items, LockItem, UnlockItem, Item, States, Answers

LEMMA MonitoredLate ==
    ASSUME IInv, Busy, job.stage \in {"action", "observe", "final"} \/ (Shoots /\ Ahead <= 9)
    PROVE  monitor
<1>1. Busy => job \in Jobs
  BY DEF IInv, DesktopTypes, HostTypes, Busy
<1>2. Ahead \in Nat
  BY <1>1 DEF Ahead, Todo, Jobs
<1>3. CASE job.stage \in {"action", "observe", "final"}
  BY <1>3 DEF IInv, Monitored
<1>4. CASE Shoots /\ Ahead <= 9
  <2>1. ~(Ahead > 9)
    BY <1>2, <1>4
  <2> QED
    BY <1>4, <2>1 DEF IInv, Monitored, Shoots, Shooting
<1> QED
  BY <1>3, <1>4

LEMMA TaintedMonitored ==
    ASSUME IInv, Tainted
    PROVE  monitor
<1>1. Busy /\ (job.stage = "final" \/ (Shoots /\ Ahead <= 2))
  BY DEF IInv, Noted
<1>2. Ahead \in Nat
  BY <1>1 DEF IInv, DesktopTypes, HostTypes, Busy, Ahead, Todo, Jobs
<1>3. Ahead <= 2 => Ahead <= 9
  BY <1>2
<1> QED
  BY <1>1, <1>3, MonitoredLate

LEMMA DispatchKeeps ==
    ASSUME IInv, NEW bus \in Buses, Dispatch(bus)
    PROVE  IInv'
<1> DEFINE x == Head(wire[bus])
<1>1. /\ UNCHANGED <<truth, monitor, job, picture, images, shown>>
      /\ Dispatching /\ wire[bus] # <<>>
      /\ wire' = [wire EXCEPT ![bus] = Tail(@)]
  BY DEF Dispatch, envVars, callVars, shots, lockVars
<1>2. wire \in [Buses -> Seq(Items)] /\ x \in Items
  <2>1. wire \in [Buses -> Seq(Items)]
    BY DEF IInv, DesktopTypes, HostTypes
  <2> QED
    BY <1>1, <2>1, TailWire
<1>3. /\ wire'[bus] = Tail(wire[bus])
      /\ \A b \in Buses \ {bus} : wire'[b] = wire[b]
  BY <1>1, <1>2
<1>4. \A b \in Buses :
        /\ wire'[b] \in Seq(Items)
        /\ News(wire[b]) => News(wire'[b]) \/ (b = bus /\ x = LockItem)
        /\ NewsFirst(wire[b]) => NewsFirst(wire'[b]) \/ (b = bus /\ x = LockItem)
        /\ Replying(wire'[b]) => Replying(wire[b])
        /\ OneReply(wire'[b])
        /\ Denies(wire'[b]) => Denies(wire[b])
        /\ EndsLocked(wire[b]) => EndsLocked(wire'[b])
        /\ EndsLocked(wire[b]) /\ b = bus /\ x = UnlockItem => News(wire'[b])
        /\ b = bus /\ x.type = "reply" =>
             /\ Replying(wire[b]) /\ ~Replying(wire'[b])
             /\ NewsFirst(wire[b]) => FALSE
        /\ b = bus /\ x = Item("reply", "unlocked") => Denies(wire[b])
  <2> TAKE b \in Buses
  <2>1. wire[b] \in Seq(Items) /\ OneReply(wire[b])
    BY DEF IInv, DesktopTypes, HostTypes, Replies
  <2>2. CASE b = bus
    <3>1. x.type = "reply" => x # LockItem
      BY <1>2, ItemFacts
    <3> QED
      BY <1>1, <1>3, <2>1, <2>2, <3>1, TailWire
  <2>3. CASE b # bus
    BY <1>3, <2>1, <2>3
  <2> QED
    BY <2>2, <2>3
<1>5. wire' \in [Buses -> Seq(Items)]
  <2>1. wire' \in [Buses -> Seq(Items)] <=> \A b \in Buses : wire'[b] \in Seq(Items)
    BY <1>1, <1>2
  <2> QED
    BY <1>4, <2>1
<1>6. /\ Op' = Op /\ Ahead' = Ahead /\ Busy' = Busy /\ Shoots' = Shoots
      /\ InChunks' = InChunks /\ Positioned'
      /\ \A b \in Buses : Reading(b)' = Reading(b)
  BY <1>1, SameJob DEF IInv
<1>7. Op # "press"
  BY <1>1 DEF Dispatching, Idle, Op
<1>8. LastNews'
  BY <1>1, <1>4 DEF IInv, LastNews
<1>9. Monitored' /\ Ready' /\ PicturesUnlocked'
  BY <1>1, <1>6, <1>7 DEF IInv, Monitored, Ready, PicturesUnlocked
<1>10. Shoots /\ Ahead \in {3, 4, 5, 6, 7} => monitor
  BY MonitoredLate DEF Shoots
<1>11. Tainted => monitor
  BY TaintedMonitored
<1>12. /\ valid \in BOOLEAN /\ stopping \in BOOLEAN /\ lockSeen \in BOOLEAN
       /\ monitor \in BOOLEAN /\ held \in BOOLEAN
       /\ heard \in [Buses -> BOOLEAN] /\ answer \in [Buses -> Answers]
       /\ locked \in [Buses -> BOOLEAN] /\ known \in [Buses -> BOOLEAN]
       /\ "locker" \in Buses /\ "session" \in Buses
  BY DEF IInv, DesktopTypes, HostTypes, Buses
<1> HIDE DEF x
<1>13. CASE x.type = "reply"
  <2>1. /\ answer' = [answer EXCEPT ![bus] = x.value]
        /\ heard' = [heard EXCEPT ![bus] = x.value = "locked"]
        /\ UNCHANGED <<locked, known, valid, stopping, lockSeen, held>>
    BY <1>13 DEF Dispatch, lockVars, x
  <2>2. x.value \in {"locked", "unlocked", "error"} /\ x # LockItem
    BY <1>2, <1>13, ItemFacts
  <2>3. /\ Reading(bus) /\ answer[bus] = NoAnswer
    BY <1>4, <1>13 DEF IInv, Replies
  <2>4. DesktopTypes'
    <3>1. answer' \in [Buses -> Answers] /\ heard' \in [Buses -> BOOLEAN]
      BY <1>12, <2>1, <2>2 DEF Answers, States
    <3> QED
      BY <1>1, <1>5, <2>1, <3>1 DEF IInv, DesktopTypes, HostTypes
  <2>5. Replies'
    BY <1>4, <1>6, <1>12, <1>13, <2>1, <2>3 DEF IInv, Replies
  <2>6. Looked'
    <3> SUFFICES ASSUME NEW b \in Buses, Shoots, truth[b] = "locked"
                 PROVE  /\ Ahead = 7 /\ b = "session" => Noticed(b)' \/ Undenied(b)'
                        /\ Ahead \in {5, 6} /\ b = "session" => Noticed(b)' \/ locked'[b]
                        /\ Ahead = 5 /\ b = "locker" => Noticed(b)' \/ Undenied(b)'
                        /\ Ahead = 4 => Noticed(b)' \/ stopping'
                        /\ Ahead = 3 => Noticed(b)'
      BY <1>1, <1>6 DEF Looked
    <3>1. Noticed(b) => Noticed(b)'
      BY <1>4, <2>1, <2>2 DEF Noticed
    <3>2. Undenied(b) => Undenied(b)'
      <4>1. b = bus /\ Undenied(b) => x.value # "unlocked"
        BY <1>2, <1>4, <1>13, ItemFacts DEF Undenied
      <4> QED
        BY <1>4, <1>12, <2>1, <4>1 DEF Undenied
    <3> QED
      BY <2>1, <3>1, <3>2 DEF IInv, Looked
  <2>7. Noted'
    <3>1. bus = "session" => Op = "readSession"
      BY <2>3 DEF Reading, At
    <3>2. bus = "locker" => Op = "readLocker"
      BY <2>3 DEF Reading, At
    <3>3. \A b \in Buses : News(wire[b]) => News(wire'[b])
      BY <1>4, <2>2
    <3>4. \A b \in Buses : NewsFirst(wire[b]) => NewsFirst(wire'[b]) /\ b # bus
      BY <1>4, <1>13, <2>2
    <3>5. \A b \in Buses \ {bus} : answer'[b] = answer[b]
      BY <1>12, <2>1
    <3> QED
      BY <1>1, <1>6, <1>12, <2>1, <3>1, <3>2, <3>3, <3>4, <3>5 DEF IInv, Noted, Tainted
  <2>8. Heeded'
    <3>1. \A b \in Buses : monitor' /\ answer'[b] = "unlocked" /\ heard'[b] => lockSeen'
      BY <1>1, <1>12, <2>1 DEF IInv, Heeded
    <3>2. ASSUME Busy, job.stage = "action"
          PROVE  /\ Ahead <= InChunks + 2 => heard'["session"] = heard["session"]
                 /\ Ahead <= InChunks => heard'["locker"] = heard["locker"]
      <4>1. Op = OpOf(job) /\ job \in Jobs /\ Placed(job)
        BY <3>2 DEF Op, OpOf, IInv, DesktopTypes, HostTypes, Positioned, Busy
      <4>2. /\ InChunks \in Nat /\ Ahead \in Nat
            /\ Ahead = InChunks + 2 => Op = "askLocker"
            /\ Ahead = InChunks + 1 => Op = "readLocker"
            /\ Ahead <= InChunks => Op \in {"tick", "allowed", "press", "release", "end"}
        BY <3>2, <4>1, ActionPlace DEF InChunks, Ahead, Todo, Jobs
      <4>3. Ahead <= InChunks + 2 => Op # "readSession"
        BY <4>2
      <4>4. Ahead <= InChunks => Op # "readLocker"
        BY <4>2
      <4>5. Op = IF bus = "session" THEN "readSession" ELSE "readLocker"
        BY <2>3 DEF Reading, At
      <4>6. /\ Ahead <= InChunks + 2 => bus # "session"
            /\ Ahead <= InChunks => bus # "locker"
        BY <4>3, <4>4, <4>5 DEF Buses
      <4> QED
        BY <1>12, <2>1, <4>6
    <3> QED
      BY <1>1, <1>6, <2>1, <3>1, <3>2 DEF IInv, Heeded
  <2> QED
    BY <1>6, <1>8, <1>9, <2>4, <2>5, <2>6, <2>7, <2>8 DEF IInv
<1>14. CASE x.type \in {"inactive", "owner"}
  <2>1. /\ UNCHANGED <<answer, locked, stopping, lockSeen, heard>>
        /\ valid' \in BOOLEAN /\ held' \in BOOLEAN /\ known' \in [Buses -> BOOLEAN]
    BY <1>12, <1>14 DEF Dispatch, x
  <2>2. x # LockItem
    BY <1>2, <1>14, ItemFacts
  <2>3. DesktopTypes'
    BY <1>1, <1>5, <2>1 DEF IInv, DesktopTypes, HostTypes
  <2>4. Replies'
    BY <1>4, <1>6, <2>1 DEF IInv, Replies
  <2>5. Looked'
    BY <1>1, <1>4, <1>6, <2>1, <2>2 DEF IInv, Looked, Noticed, Undenied
  <2>6. Noted'
    BY <1>1, <1>4, <1>6, <1>12, <2>1, <2>2 DEF IInv, Noted, Tainted
  <2>7. Heeded'
    BY <1>1, <1>6, <2>1 DEF IInv, Heeded
  <2> QED
    BY <1>6, <1>8, <1>9, <2>3, <2>4, <2>5, <2>6, <2>7 DEF IInv
<1>15. CASE x.type = "changed"
  <2>1. /\ locked' = [locked EXCEPT ![bus] = x.value = "locked"]
        /\ known' = [known EXCEPT ![bus] = TRUE]
        /\ heard' = [heard EXCEPT ![bus] = x.value = "locked"]
        /\ UNCHANGED <<answer, valid>>
        /\ lockSeen => lockSeen'
        /\ stopping => stopping'
        /\ x.value = "locked" /\ monitor => lockSeen'
        /\ lockSeen' \in BOOLEAN /\ stopping' \in BOOLEAN /\ held' \in BOOLEAN
    <3>1. x.type # "reply" /\ x.type # "inactive" /\ x.type # "owner"
      BY <1>15
    <3>2. /\ locked' = [locked EXCEPT ![bus] = x.value = "locked"]
          /\ known' = [known EXCEPT ![bus] = TRUE]
          /\ heard' = [heard EXCEPT ![bus] = x.value = "locked"]
          /\ IF bus = "locker"
             THEN /\ stopping' = (stopping \/ ~valid)
                  /\ lockSeen' = Remember(x.value = "locked"
                                          \/ (valid /\ \E b \in Buses : locked'[b]), monitor)
                  /\ held' = (held /\ Clear(locked', known', valid))
             ELSE /\ lockSeen' = Remember(x.value = "locked", monitor)
                  /\ UNCHANGED <<stopping, held>>
          /\ UNCHANGED <<answer, valid>>
      BY <3>1 DEF Dispatch, x
    <3> QED
      BY <1>12, <3>2 DEF Remember
  <2>2. /\ x = LockItem \/ x = UnlockItem
        /\ x.value = "locked" <=> x = LockItem
    BY <1>2, <1>15, ItemFacts
  <2>3. DesktopTypes'
    <3>1. /\ locked' \in [Buses -> BOOLEAN] /\ known' \in [Buses -> BOOLEAN]
          /\ heard' \in [Buses -> BOOLEAN]
      BY <1>12, <2>1
    <3> QED
      BY <1>1, <1>5, <2>1, <3>1 DEF IInv, DesktopTypes, HostTypes
  <2>4. Replies'
    BY <1>4, <1>6, <2>1 DEF IInv, Replies
  <2>5. monitor => \A b \in Buses : Noticed(b) => Noticed(b)'
    BY <1>4, <2>1, <2>2 DEF Noticed
  <2>6. Looked'
    <3> SUFFICES ASSUME NEW b \in Buses, Shoots, truth[b] = "locked"
                 PROVE  /\ Ahead = 7 /\ b = "session" => Noticed(b)' \/ Undenied(b)'
                        /\ Ahead \in {5, 6} /\ b = "session" => Noticed(b)' \/ locked'[b]
                        /\ Ahead = 5 /\ b = "locker" => Noticed(b)' \/ Undenied(b)'
                        /\ Ahead = 4 => Noticed(b)' \/ stopping'
                        /\ Ahead = 3 => Noticed(b)'
      BY <1>1, <1>6 DEF Looked
    <3>1. Undenied(b) => Undenied(b)'
      BY <1>4, <2>1 DEF Undenied
    <3>2. locked[b] => locked'[b] \/ News(wire'[b])
      <4>1. EndsLocked(wire[b])
        BY DEF IInv, LastNews
      <4>2. CASE b = bus
        BY <1>4, <1>12, <2>1, <2>2, <4>1, <4>2
      <4>3. CASE b # bus
        BY <1>12, <2>1, <4>3
      <4> QED
        BY <4>2, <4>3
    <3>3. Ahead \in {3, 4, 5, 6, 7} => (Noticed(b) => Noticed(b)')
      BY <1>10, <2>5
    <3>4. News(wire'[b]) => Noticed(b)'
      BY DEF Noticed
    <3> QED
      BY <2>1, <3>1, <3>2, <3>3, <3>4 DEF IInv, Looked
  <2>7. Noted'
    <3>1. ASSUME Tainted
          PROVE  \/ lockSeen'
                 \/ x # LockItem
      BY <1>11, <2>1, <2>2, <3>1
    <3>2. x # LockItem => \A b \in Buses : /\ News(wire[b]) => News(wire'[b])
                                           /\ NewsFirst(wire[b]) => NewsFirst(wire'[b])
      BY <1>4
    <3> QED
      BY <1>1, <1>6, <1>12, <2>1, <3>1, <3>2 DEF IInv, Noted, Tainted
  <2>8. Heeded'
    <3>1. \A b \in Buses : monitor' /\ answer'[b] = "unlocked" /\ heard'[b] => lockSeen'
      BY <1>1, <1>12, <2>1 DEF IInv, Heeded
    <3>2. \A b \in Buses : heard'[b] =>
            \/ heard[b] /\ (locked[b] => locked'[b])
            \/ locked'[b]
      BY <1>12, <2>1
    <3> QED
      BY <1>1, <1>6, <1>12, <2>1, <3>1, <3>2 DEF IInv, Heeded
  <2> QED
    BY <1>6, <1>8, <1>9, <2>3, <2>4, <2>6, <2>7, <2>8 DEF IInv
<1> QED
  BY <1>2, <1>13, <1>14, <1>15, ItemFacts

-----------------------------------------------------------------------------
(* A call moves.                                                            *)

\* A call at an operation.
LEMMA Here ==
    ASSUME IInv, Op # "end"
    PROVE  /\ Busy /\ job \in Jobs /\ Placed(job) /\ job.ops # <<>>
           /\ Op = OpOf(job) /\ Ahead \in Nat /\ Ahead > 0
<1>1. job.ops # <<>> /\ Op = OpOf(job)
  BY DEF Op, OpOf
<1>2. Busy
  BY <1>1 DEF Busy, Idle
<1>3. job \in Jobs /\ Placed(job)
  BY <1>2 DEF IInv, DesktopTypes, Positioned, Busy
<1>4. job.ops \in Seq(OpNames)
  BY <1>3 DEF Jobs
<1>5. Ahead \in Nat /\ Ahead > 0
  BY <1>1, <1>4 DEF Ahead, Todo
<1> QED
  BY <1>1, <1>2, <1>3, <1>5

LEMMA NotIdle == \A j \in Jobs : j # Idle
BY DEF Jobs, Idle, Stages

LEMMA Moves ==
    ASSUME IInv, Op # "end", job' = [job EXCEPT !.ops = Tail(@)]
    PROVE  /\ job' \in Jobs /\ Busy' /\ Positioned' /\ Placed(job')
           /\ job'.tool = job.tool /\ job'.stage = job.stage
           /\ Ahead' = Ahead - 1 /\ Shoots' = Shoots /\ InChunks' = InChunks
           /\ Op' = OpOf(job')
           /\ Op = "askSession" => Op' = "readSession"
           /\ Op = "askLocker" => Op' = "readLocker"
           /\ Op' = "press" => Op = "allowed"
<1>1. Busy /\ job \in Jobs /\ Placed(job) /\ job.ops # <<>> /\ Op = OpOf(job)
  BY Here
<1>2. /\ job' \in Jobs /\ job'.tool = job.tool /\ job'.stage = job.stage
      /\ Placed(job') /\ Todo(job') = Todo(job) - 1
  BY <1>1, Stepped
<1>3. Busy'
  BY <1>2, NotIdle DEF Busy
<1>4. Positioned'
  BY <1>2 DEF Positioned
<1>5. Op' = OpOf(job')
  BY DEF Op, OpOf
<1>6. Shoots' = Shoots /\ InChunks' = InChunks /\ Ahead' = Ahead - 1
  BY <1>1, <1>2, <1>3 DEF Shoots, Shooting, InChunks, Ahead
<1>7. /\ OpOf(job) = "askSession" => OpOf(job') = "readSession"
      /\ OpOf(job) = "askLocker" => OpOf(job') = "readLocker"
      /\ OpOf(job') = "press" => OpOf(job) = "allowed"
  BY <1>1, NextOps
<1> QED
  BY <1>1, <1>2, <1>3, <1>4, <1>5, <1>6, <1>7

LEMMA TodoIs ==
    ASSUME NEW j, NEW n \in Nat, Prog(j.ops, n)
    PROVE  Todo(j) = n
BY DEF Prog, Todo

\* A stage from its beginning.
LEMMA Fresh ==
    ASSUME NEW tool \in Tools, NEW stage \in Stages, stage \in {"action", "observe"} => tool # "status"
    PROVE  LET j == [tool |-> tool, stage |-> stage, ops |-> Ops(tool, stage)]
           IN /\ j \in Jobs /\ Placed(j)
              /\ OpOf(j) \in {"tick", "unseen", "askSession"}
              /\ stage = "start" /\ tool = "status" => Todo(j) = 14
              /\ stage = "start" /\ tool # "status" => Todo(j) = 7
              /\ stage = "observe" => Todo(j) = 20
              /\ stage = "action" => Todo(j) = 15 + Chunks * Len(Chunk(tool))
              /\ stage = "final" => OpOf(j) \in {"unseen", "askSession"}
<1> DEFINE s == Ops(tool, stage)
           j == [tool |-> tool, stage |-> stage, ops |-> s]
<1>1. PICK n \in Nat : Prog(s, n) /\ Linked(s, n)
  BY OpsLinked
<1> HIDE DEF s
<1>2. j \in Jobs /\ j.tool = tool /\ j.stage = stage /\ j.ops = s
  BY <1>1 DEF Prog, Jobs
<1>3. OpOf(j) = s[1] /\ s[1] \in {"tick", "unseen", "askSession"}
  <2>1. n > 0 /\ s[1] \in {"tick", "unseen", "askSession"}
    BY <1>1 DEF Linked
  <2>2. s # <<>> /\ Head(s) = s[1]
    BY <1>1, <2>1 DEF Prog
  <2> QED
    BY <1>2, <2>1, <2>2 DEF OpOf
<1> HIDE DEF j
<1>4. Placed(j)
  <2>1. n = Len(s) /\ s = Ops(j.tool, j.stage) /\ s = j.ops
    BY <1>1, <1>2 DEF Prog, s
  <2>2. n <= n /\ \A i \in 1..n : s[i] = s[n - n + i]
    BY <1>1
  <2> QED
    BY <1>2, <2>1, <2>2 DEF Placed
<1>5. \A m \in Nat : Prog(s, m) => Todo(j) = m
  BY <1>2, TodoIs
<1>6. stage = "start" /\ tool = "status" => Todo(j) = 14
  BY <1>5, StatusSeq, CaptureSeq, 14 \in Nat DEF s
<1>7. stage = "start" /\ tool # "status" => Todo(j) = 7
  BY <1>5, StartSeq, 7 \in Nat DEF s
<1>8. stage = "observe" => Todo(j) = 20
  BY <1>5, ObserveSeq, 20 \in Nat DEF s
<1>9. stage = "action" => Todo(j) = 15 + Chunks * Len(Chunk(tool))
  <2> SUFFICES ASSUME stage = "action" PROVE Todo(j) = 15 + Chunks * Len(Chunk(tool))
    OBVIOUS
  <2>1. tool \in Tools \ {"status"}
    OBVIOUS
  <2>2. 15 + Chunks * Length(tool) \in Nat /\ Prog(s, 15 + Chunks * Length(tool))
    BY <2>1, ActionSeq DEF s
  <2>3. Len(Chunk(tool)) = Length(tool)
    BY <2>1, ChunkSeq DEF Prog
  <2> QED
    BY <1>5, <2>2, <2>3
<1>10. stage = "final" => s[1] \in {"unseen", "askSession"}
  BY StatusSeq, RefreshSeq, FinalSeq DEF s
<1> QED
  BY <1>2, <1>3, <1>4, <1>6, <1>7, <1>8, <1>9, <1>10 DEF j, s

\* No call waits for an answer.
Quiet == \A b \in Buses : ~Replying(wire[b]) /\ OneReply(wire[b]) /\ answer[b] = NoAnswer

\* What a step that ends a stage leaves of the lock's news.
Settled ==
    /\ HostTypes' /\ Quiet' /\ LastNews' /\ monitor' = monitor
    /\ lockSeen => lockSeen'
    /\ \A b \in Buses : News(wire[b]) => News(wire'[b])

LEMMA StageKeeps ==
    ASSUME IInv, Busy, job.stage # "final", job.stage = "start" => Ahead = 0, Settled, NextStage
    PROVE  IInv'
<1> DEFINE next == Following(job.tool, job.stage)
<1>1. /\ job' = [job EXCEPT !.stage = next, !.ops = Ops(job.tool, next)]
      /\ UNCHANGED <<picture, images, shown>>
  BY DEF NextStage, shots
<1>2. job \in Jobs /\ Placed(job) /\ Ahead \in Nat
  BY DEF IInv, DesktopTypes, Positioned, Busy, Ahead, Todo, Jobs
<1>3. /\ job.tool \in Tools
      /\ next \in {"action", "observe", "final"}
      /\ next \in {"action", "observe"} => job.tool # "status"
      /\ job.stage = "action" => next = "observe"
  <2>1. job.stage \in {"start", "action", "observe"} /\ job.tool \in Tools
    BY <1>2 DEF Jobs, Stages
  <2> QED
    BY <1>2, <2>1 DEF Following, Placed
<1>4. job' = [tool |-> job.tool, stage |-> next, ops |-> Ops(job.tool, next)]
  BY <1>1, <1>2 DEF Jobs
<1> HIDE DEF next
<1>5. /\ job' \in Jobs /\ Placed(job') /\ job'.tool = job.tool /\ job'.stage = next
      /\ OpOf(job') \in {"tick", "unseen", "askSession"}
      /\ next = "observe" => Ahead' = 20
      /\ next = "action" => Ahead' = 15 + InChunks'
      /\ next = "final" => OpOf(job') \in {"unseen", "askSession"}
  <2>1. next \in Stages
    BY <1>3 DEF Stages
  <2>2. job'.tool = job.tool /\ job'.stage = next
    BY <1>4
  <2>3. /\ job' \in Jobs /\ Placed(job')
        /\ OpOf(job') \in {"tick", "unseen", "askSession"}
        /\ next = "observe" => Todo(job') = 20
        /\ next = "action" => Todo(job') = 15 + Chunks * Len(Chunk(job.tool))
        /\ next = "final" => OpOf(job') \in {"unseen", "askSession"}
    BY <1>3, <1>4, <2>1, Fresh
  <2> QED
    BY <2>2, <2>3 DEF Ahead, InChunks
<1>6. Busy' /\ Positioned' /\ Op' = OpOf(job')
  BY <1>5, NotIdle DEF Busy, Positioned, Op, OpOf
<1>7. monitor
  <2>1. job.stage = "start" => ~(Ahead > 9) /\ ~(Ahead > 2)
    BY <1>2
  <2> QED
    BY <2>1 DEF IInv, Monitored
<1>8. DesktopTypes'
  BY <1>5 DEF Settled, DesktopTypes
<1>9. Replies' /\ LastNews'
  BY DEF Settled, Quiet, Replies
<1>10. Monitored'
  BY <1>7 DEF Settled, Monitored
<1>11. Looked'
  <2>1. Shoots' => Ahead' = 20
    BY <1>3, <1>5 DEF Shoots, Shooting
  <2> QED
    BY <2>1 DEF Looked
<1>12. Noted'
  <2> SUFFICES ASSUME Tainted' PROVE Noted'
    BY DEF Noted
  <2>1. Tainted
    BY <1>1 DEF Tainted
  <2>2. Shoots
    BY <2>1 DEF IInv, Noted
  <2>3. lockSeen \/ \E b \in Buses : News(wire[b])
    <3>1. \A b \in Buses : NewsFirst(wire[b]) => News(wire[b])
      BY DEF NewsFirst, News
    <3> QED
      BY <2>1, <3>1 DEF IInv, Noted, Buses
  <2>4. next = "final"
    BY <1>2, <2>2 DEF Shoots, Shooting, next, Following
  <2>5. job'.stage = "final" /\ Op' \in {"unseen", "askSession"}
    BY <1>5, <1>6, <2>4
  <2>6. lockSeen' \/ \E b \in Buses : News(wire'[b])
    BY <2>3 DEF Settled
  <2> QED
    BY <1>6, <2>5, <2>6 DEF Noted
<1>13. Heeded'
  <2>1. next = "action" => ~(Ahead' <= InChunks' + 2) /\ ~(Ahead' <= InChunks')
    <3>1. next = "action" => InChunks' \in Nat
      BY <1>5, ActionPlace DEF InChunks
    <3> QED
      BY <1>5, <3>1
  <2> QED
    BY <1>5, <2>1 DEF Settled, Quiet, Heeded, NoAnswer
<1>14. Ready' /\ PicturesUnlocked'
  BY <1>1, <1>5, <1>6 DEF IInv, Ready, PicturesUnlocked
<1> QED
  BY <1>6, <1>8, <1>9, <1>10, <1>11, <1>12, <1>13, <1>14 DEF IInv

LEMMA ResponseKeeps ==
    ASSUME IInv, Settled, NEW what, what # "locked", Respond(what)
    PROVE  IInv'
<1>1. job' = Idle /\ shown' = what /\ picture' = "none" /\ images' = "none"
  BY DEF Respond
<1>2. ~Busy' /\ Op' = "end"
  BY <1>1 DEF Busy, Op, Idle
<1>3. DesktopTypes'
  BY <1>1 DEF Settled, DesktopTypes
<1>4. Positioned' /\ Monitored' /\ Looked'
  BY <1>2 DEF Positioned, Monitored, Looked, Shoots
<1>5. Replies' /\ LastNews'
  BY DEF Settled, Quiet, Replies
<1>6. Noted'
  BY <1>1 DEF Noted, Tainted
<1>7. Heeded'
  BY <1>2 DEF Settled, Quiet, Heeded, NoAnswer
<1>8. Ready' /\ PicturesUnlocked'
  BY <1>1, <1>2 DEF Ready, PicturesUnlocked
<1> QED
  BY <1>3, <1>4, <1>5, <1>6, <1>7, <1>8 DEF IInv

LEMMA FailKeeps ==
    ASSUME IInv, Busy, Settled, Fail
    PROVE  IInv'
<1>1. CASE job.stage \in {"start", "final"}
  BY <1>1, ResponseKeeps DEF Fail
<1>2. CASE job.stage \notin {"start", "final"}
  BY <1>2, StageKeeps DEF Fail
<1> QED
  BY <1>1, <1>2

\* Where no call waits for an answer.
LEMMA QuietPlaces ==
    ASSUME IInv, Op \notin {"readSession", "readLocker"}
    PROVE  Quiet
BY DEF IInv, Replies, Quiet, Reading, At

-----------------------------------------------------------------------------
(* The operations of a call.                                                *)

LEMMA TaintedNews ==
    ASSUME IInv, Tainted
    PROVE  /\ lockSeen \/ \E b \in Buses : News(wire[b])
           /\ Busy /\ (job.stage = "final" \/ (Shoots /\ Ahead <= 2))
<1>1. \A b \in Buses : NewsFirst(wire[b]) => News(wire[b])
  BY DEF NewsFirst, News
<1> QED
  BY <1>1 DEF IInv, Noted, Buses

\* Where a call is, by what is left of it.
LEMMA Places ==
    ASSUME IInv, Op # "end"
    PROVE  /\ Shoots =>
                /\ Ahead = 8 => Op = "askSession"
                /\ Ahead = 7 => Op = "readSession"
                /\ Ahead = 6 => Op = "askLocker"
                /\ Ahead \in {5, 10} => Op = "readLocker"
                /\ Ahead = 4 => Op = "tick"
                /\ Ahead \in {2, 9} => Op = "tick"
           /\ job.stage = "start" /\ job.tool # "status" /\ Ahead = 3 => Op = "readLocker"
           /\ job.stage = "action" =>
                /\ InChunks \in Nat
                /\ Ahead = InChunks + 3 => Op = "readSession"
                /\ Ahead = InChunks + 1 => Op = "readLocker"
           /\ Op = "capture" => Shoots /\ Ahead = 3
           /\ Op = "append" => Shoots /\ Ahead = 1
           /\ Op = "press" => job.stage = "action" /\ Ahead <= InChunks
<1>1. Busy /\ job \in Jobs /\ Placed(job) /\ Op = OpOf(job)
  BY Here
<1>2. Ahead = Todo(job) /\ (Shoots <=> Shooting(job)) /\ InChunks = Chunks * Len(Chunk(job.tool))
  BY <1>1 DEF Ahead, Shoots, InChunks
<1> QED
  BY <1>1, <1>2, ShootPlace, StartPlace, ActionPlace, PicturePlace

LEMMA FinalOps ==
    ASSUME IInv, Op # "end", job.stage = "final"
    PROVE  /\ Op \in {"unseen", "askSession", "readSession", "askLocker", "readLocker", "allowed"}
           /\ job' = [job EXCEPT !.ops = Tail(@)] =>
                /\ Op = "unseen" => Op' = "askSession"
                /\ Op = "readSession" => Op' = "askLocker"
<1> DEFINE d == IF job.tool = "status" THEN 0 ELSE 1
           n == Todo(job)
<1>1. Busy /\ job \in Jobs /\ Placed(job) /\ Op = OpOf(job) /\ n \in Nat /\ n > 0
  BY Here DEF Ahead
<1> HIDE DEF n
<1>2. /\ n <= 6 /\ (job.tool = "status" => n <= 4)
      /\ n = 6 => Op = "unseen"
      /\ n = 4 + d => Op = "askSession"
      /\ n = 3 + d => Op = "readSession"
      /\ n = 2 + d => Op = "askLocker"
      /\ n = 1 + d => Op = "readLocker"
      /\ n = 1 /\ d = 1 => Op = "allowed"
  BY <1>1, FinalPlace DEF n
<1>3. d \in {0, 1} /\ (d = 0 <=> job.tool = "status")
  OBVIOUS
<1> HIDE DEF d
<1>4. n \in {1, 2, 3, 4, 5, 6}
  BY <1>1, <1>2
<1>5. /\ Op \in {"unseen", "askSession", "readSession", "askLocker", "readLocker", "allowed"}
      /\ Op = "unseen" => n = 6 /\ d = 1
      /\ Op = "readSession" => n = 3 + d
  BY <1>2, <1>3, <1>4
<1>6. ASSUME job' = [job EXCEPT !.ops = Tail(@)]
      PROVE  /\ Op = "unseen" => Op' = "askSession"
             /\ Op = "readSession" => Op' = "askLocker"
  <2>1. /\ job' \in Jobs /\ Placed(job') /\ Op' = OpOf(job') /\ job'.stage = "final"
        /\ job'.tool = job.tool /\ Todo(job') = n - 1
    BY <1>6, Moves DEF Ahead, n
  <2>2. /\ Todo(job') = 4 + d => Op' = "askSession"
        /\ Todo(job') = 2 + d => Op' = "askLocker"
    BY <2>1, FinalPlace DEF d
  <2> QED
    BY <1>3, <1>4, <1>5, <2>1, <2>2
<1> QED
  BY <1>5, <1>6

\* An operation that leaves the news alone; Noted is left to the picture.
LEMMA MoveKeeps ==
    ASSUME IInv, Op \notin {"end", "askSession", "readSession", "askLocker", "readLocker"},
           job' = [job EXCEPT !.ops = Tail(@)],
           UNCHANGED <<truth, wire, answer, locked, known, valid, monitor, heard, shown>>,
           lockSeen' \in BOOLEAN, lockSeen => lockSeen',
           stopping' \in BOOLEAN, stopping => stopping', Op = "tick" => ~stopping',
           held' \in BOOLEAN,
           Op = "allowed" => InputAllowed(locked, known, lockSeen)
    PROVE  /\ DesktopTypes' /\ Positioned' /\ Replies' /\ LastNews' /\ Monitored'
           /\ Looked' /\ Heeded' /\ Ready' /\ PicturesUnlocked'
<1>1. /\ job' \in Jobs /\ Busy' /\ Positioned' /\ Placed(job')
      /\ job'.tool = job.tool /\ job'.stage = job.stage
      /\ Ahead' = Ahead - 1 /\ Shoots' = Shoots /\ InChunks' = InChunks
      /\ Op' = OpOf(job')
      /\ Op' = "press" => Op = "allowed"
  BY Moves
<1>2. Busy /\ Ahead \in Nat /\ Ahead > 0
  BY Here
<1>3. Quiet
  BY QuietPlaces
<1>4. DesktopTypes'
  BY <1>1 DEF IInv, DesktopTypes, HostTypes
<1>5. Replies' /\ LastNews' /\ PicturesUnlocked'
  BY <1>3 DEF IInv, Quiet, Replies, LastNews, PicturesUnlocked
<1>6. Monitored'
  <2>1. Ahead' > 9 \/ Ahead # 10 => (Ahead > 9 => Ahead' > 9)
    BY <1>1, <1>2
  <2>2. Ahead # 3 => (Ahead > 2 => Ahead' > 2)
    BY <1>1, <1>2
  <2>3. job.stage = "start" /\ job.tool = "status" => Ahead # 10
    BY <1>2, Places DEF Shoots, Shooting
  <2>4. job.stage = "start" /\ job.tool # "status" => Ahead # 3
    BY Places
  <2> QED
    BY <1>1, <1>2, <2>1, <2>2, <2>3, <2>4 DEF IInv, Monitored
<1>7. Looked'
  <2>1. Shoots => Ahead \notin {8, 7, 6, 5}
    BY Places
  <2>2. Shoots => Ahead' \notin {7, 6, 5, 4}
    BY <1>1, <1>2, <2>1
  <2>3. Ahead' = 3 => Ahead = 4
    BY <1>1, <1>2
  <2>4. ASSUME NEW b \in Buses, Shoots, truth[b] = "locked", Ahead' = 3
        PROVE  Noticed(b)'
    <3>1. Op = "tick"
      BY <2>3, <2>4, Places
    <3>2. Noticed(b) \/ stopping
      BY <2>3, <2>4 DEF IInv, Looked
    <3>3. Noticed(b)
      BY <3>1, <3>2
    <3> QED
      BY <3>3 DEF Noticed
  <2> QED
    BY <1>1, <2>2, <2>4 DEF Looked
<1>8. Heeded'
  <2>1. job.stage = "action" =>
          /\ Ahead' <= InChunks + 2 => Ahead <= InChunks + 2
          /\ Ahead' <= InChunks => Ahead <= InChunks
    <3>1. job.stage = "action" => InChunks \in Nat /\ Ahead # InChunks + 3 /\ Ahead # InChunks + 1
      BY Places
    <3> QED
      BY <1>1, <1>2, <3>1
  <2> QED
    BY <1>1, <1>2, <2>1 DEF IInv, Heeded
<1>9. Ready'
  <2> SUFFICES ASSUME Op' = "press", NEW b \in Buses PROVE ~heard[b]
    BY DEF Ready
  <2>1. job'.stage = "action" /\ Ahead' <= InChunks'
    BY <1>1, PicturePlace DEF Ahead, InChunks
  <2>2. Op = "allowed"
    BY <1>1
  <2>3. job.stage = "action" /\ InChunks \in Nat /\ Ahead # InChunks + 1
    BY <1>1, <2>1, <2>2, Places
  <2>4. Ahead <= InChunks /\ Ahead <= InChunks + 2
    BY <1>1, <1>2, <2>1, <2>3
  <2>5. /\ heard["session"] => lockSeen \/ locked["session"]
        /\ heard["locker"] => lockSeen \/ locked["locker"]
    BY <1>2, <2>3, <2>4 DEF IInv, Heeded
  <2>6. ~lockSeen /\ ~locked[b]
    BY <2>2 DEF InputAllowed
  <2> QED
    BY <2>5, <2>6 DEF Buses
<1> QED
  BY <1>1, <1>4, <1>5, <1>6, <1>7, <1>8, <1>9

LEMMA NotedMove ==
    ASSUME IInv, Op \notin {"end", "askSession", "readSession", "askLocker", "readLocker"},
           job' = [job EXCEPT !.ops = Tail(@)],
           UNCHANGED <<wire, answer, picture, images>>, lockSeen => lockSeen'
    PROVE  Noted'
<1> SUFFICES ASSUME Tainted' PROVE Noted'
  BY DEF Noted
<1>1. Tainted
  BY DEF Tainted
<1>2. /\ Busy' /\ job'.stage = job.stage /\ Ahead' = Ahead - 1 /\ Shoots' = Shoots
  BY Moves
<1>3. Busy /\ Ahead \in Nat
  BY Here
<1>4. CASE job.stage # "final"
  <2>1. Shoots' /\ Ahead' <= 2
    BY <1>1, <1>2, <1>3, <1>4, TaintedNews
  <2> QED
    BY <1>1, <1>2, <1>4, <2>1, TaintedNews DEF Noted
<1>5. CASE job.stage = "final"
  <2>1. CASE lockSeen
    BY <1>2, <1>5, <2>1 DEF Noted
  <2>2. CASE ~lockSeen
    <3>1. Op = "unseen" /\ \E b \in Buses : News(wire[b])
      BY <1>1, <1>5, <2>2 DEF IInv, Noted
    <3>2. Op' = "askSession"
      BY <1>5, <3>1, FinalOps
    <3> QED
      BY <1>2, <1>5, <3>1, <3>2 DEF Noted
  <2> QED
    BY <2>1, <2>2
<1> QED
  BY <1>4, <1>5

\* A step that fails where no call waits for an answer.
LEMMA QuietSettled ==
    ASSUME IInv, Op \notin {"readSession", "readLocker"},
           UNCHANGED <<truth, wire, answer, locked, known, valid, monitor, heard>>,
           lockSeen' \in BOOLEAN, lockSeen => lockSeen', stopping' \in BOOLEAN, held' \in BOOLEAN
    PROVE  Settled
<1>1. Quiet
  BY QuietPlaces
<1> QED
  BY <1>1 DEF IInv, DesktopTypes, HostTypes, LastNews, Quiet, Settled

LEMMA TickKeeps ==
    ASSUME IInv, Tick
    PROVE  IInv'
<1>1. /\ Op = "tick"
      /\ UNCHANGED <<truth, wire, answer, locked, known, valid, monitor, heard>>
      /\ lockSeen' = (lockSeen \/ ((valid /\ \E b \in Buses : locked[b]) /\ monitor))
      /\ stopping' = (stopping \/ ~valid)
  BY DEF Tick, At, CheckLock, Remember, envVars
<1>2. /\ lockSeen' \in BOOLEAN /\ (lockSeen => lockSeen')
      /\ stopping' \in BOOLEAN /\ (stopping => stopping')
  BY <1>1 DEF IInv, DesktopTypes, HostTypes
<1>3. CASE TickFails(lockSeen', stopping')
  <2>1. Fail /\ held' = FALSE
    BY <1>3 DEF Tick, Fail
  <2>2. Settled
    BY <1>1, <1>2, <2>1, QuietSettled
  <2> QED
    BY <1>1, <2>1, <2>2, Here, FailKeeps
<1>4. CASE ~TickFails(lockSeen', stopping')
  <2>1. Advance /\ held' = (held /\ Clear(locked, known, valid)) /\ ~stopping'
    BY <1>4 DEF Tick, TickFails
  <2>2. job' = [job EXCEPT !.ops = Tail(@)] /\ UNCHANGED <<picture, images, shown>> /\ held' \in BOOLEAN
    BY <2>1 DEF Advance, shots
  <2>3. /\ DesktopTypes' /\ Positioned' /\ Replies' /\ LastNews' /\ Monitored'
        /\ Looked' /\ Heeded' /\ Ready' /\ PicturesUnlocked'
    BY <1>1, <1>2, <2>1, <2>2, MoveKeeps
  <2>4. Noted'
    BY <1>1, <1>2, <2>2, NotedMove
  <2> QED
    BY <2>3, <2>4 DEF IInv
<1> QED
  BY <1>3, <1>4

LEMMA AllowedKeeps ==
    ASSUME IInv, Allowed
    PROVE  IInv'
<1>1. /\ Op \in {"allowed", "vision", "unseen"}
      /\ UNCHANGED <<truth, wire, answer, locked, known, valid, stopping, lockSeen, monitor, heard>>
      /\ lockSeen \in BOOLEAN /\ stopping \in BOOLEAN /\ held \in BOOLEAN
  BY DEF Allowed, envVars, lockVars, IInv, DesktopTypes, HostTypes
<1>2. CASE Fail
  <2>1. held' = FALSE
    BY <1>2 DEF Fail
  <2>2. Settled
    BY <1>1, <2>1, QuietSettled
  <2> QED
    BY <1>1, <1>2, <2>2, Here, FailKeeps
<1>3. CASE ~Fail
  <2>1. /\ job' = [job EXCEPT !.ops = Tail(@)] /\ UNCHANGED <<held, picture, images, shown>>
        /\ Op = "allowed" => InputAllowed(locked, known, lockSeen)
    BY <1>3 DEF Allowed, At, shots
  <2>2. /\ DesktopTypes' /\ Positioned' /\ Replies' /\ LastNews' /\ Monitored'
        /\ Looked' /\ Heeded' /\ Ready' /\ PicturesUnlocked'
    BY <1>1, <2>1, MoveKeeps
  <2>3. Noted'
    BY <1>1, <2>1, NotedMove
  <2> QED
    BY <2>2, <2>3 DEF IInv
<1> QED
  BY <1>2, <1>3

LEMMA PressKeeps ==
    ASSUME IInv, Press
    PROVE  IInv'
<1>1. /\ Op \in {"press", "release"} /\ held' \in BOOLEAN
      /\ UNCHANGED <<truth, wire, answer, locked, known, valid, stopping, lockSeen, monitor, heard>>
      /\ lockSeen \in BOOLEAN /\ stopping \in BOOLEAN
      /\ job' = [job EXCEPT !.ops = Tail(@)] /\ UNCHANGED <<picture, images, shown>>
  BY DEF Press, At, Advance, shots, envVars, lockVars, IInv, DesktopTypes, HostTypes
<1>2. /\ DesktopTypes' /\ Positioned' /\ Replies' /\ LastNews' /\ Monitored'
      /\ Looked' /\ Heeded' /\ Ready' /\ PicturesUnlocked'
  BY <1>1, MoveKeeps
<1>3. Noted'
  BY <1>1, NotedMove
<1> QED
  BY <1>2, <1>3 DEF IInv

LEMMA TakePictureKeeps ==
    ASSUME IInv, TakePicture
    PROVE  IInv'
<1>1. /\ Op \in {"capture", "append"}
      /\ UNCHANGED <<truth, wire, answer, locked, known, valid, stopping, lockSeen, monitor, heard, held, shown>>
      /\ lockSeen \in BOOLEAN /\ stopping \in BOOLEAN /\ held \in BOOLEAN
      /\ job' = [job EXCEPT !.ops = Tail(@)]
  BY DEF TakePicture, envVars, lockVars, IInv, DesktopTypes, HostTypes
<1>2. /\ DesktopTypes' /\ Positioned' /\ Replies' /\ LastNews' /\ Monitored'
      /\ Looked' /\ Heeded' /\ Ready' /\ PicturesUnlocked'
  BY <1>1, MoveKeeps
<1>3. Busy' /\ job'.stage = job.stage /\ Ahead' = Ahead - 1 /\ Shoots' = Shoots
  BY <1>1, Moves
<1>4. /\ Op = "capture" => Shoots /\ Ahead = 3
      /\ Op = "append" => Shoots /\ Ahead = 1
  BY <1>1, Places
<1>5. Shoots' /\ Ahead' <= 2 /\ job'.stage # "final"
  BY <1>1, <1>3, <1>4 DEF Shoots, Shooting
<1>6. ASSUME Tainted'
      PROVE  lockSeen \/ \E b \in Buses : News(wire[b])
  <2>1. CASE Tainted
    BY <2>1, TaintedNews
  <2>2. CASE ~Tainted
    <3>1. Op = "capture" /\ truth # Unlocked
      BY <1>1, <1>6, <2>2 DEF TakePicture, At, Tainted
    <3>2. \E b \in Buses : truth[b] = "locked"
      BY <3>1 DEF Unlocked, IInv, DesktopTypes, HostTypes, States
    <3>3. \A b \in Buses : truth[b] = "locked" => Noticed(b)
      BY <1>4, <3>1 DEF IInv, Looked
    <3> QED
      BY <3>2, <3>3 DEF Noticed
  <2> QED
    BY <2>1, <2>2
<1>7. Noted'
  BY <1>1, <1>3, <1>5, <1>6 DEF Noted
<1> QED
  BY <1>2, <1>7 DEF IInv

\* A call asks, whether or not its answer will be lost.
LEMMA AskKeeps ==
    ASSUME IInv, NEW bus \in Buses,
           Op = IF bus = "session" THEN "askSession" ELSE "askLocker",
           NEW r \in {"locked", "unlocked", "error"}, r = "unlocked" => truth[bus] # "locked",
           \/ wire' = wire
           \/ wire' = [wire EXCEPT ![bus] = Append(@, Item("reply", r))],
           job' = [job EXCEPT !.ops = Tail(@)],
           UNCHANGED <<truth, answer, locked, known, valid, stopping, lockSeen, monitor, held, heard,
                       picture, images, shown>>
    PROVE  IInv'
<1> DEFINE x == Item("reply", r)
<1>1. /\ job' \in Jobs /\ Busy' /\ Positioned' /\ Placed(job')
      /\ job'.tool = job.tool /\ job'.stage = job.stage
      /\ Ahead' = Ahead - 1 /\ Shoots' = Shoots /\ InChunks' = InChunks
      /\ Op = "askSession" => Op' = "readSession"
      /\ Op = "askLocker" => Op' = "readLocker"
  BY Moves
<1>2. Busy /\ Ahead \in Nat /\ Ahead > 0 /\ job \in Jobs
  BY Here
<1>3. Quiet
  BY QuietPlaces
<1>4. /\ Op \in {"askSession", "askLocker"}
      /\ bus = "session" => Op = "askSession" /\ Op' = "readSession"
      /\ bus = "locker" => Op = "askLocker" /\ Op' = "readLocker"
      /\ bus \in {"session", "locker"}
  BY <1>1 DEF Buses
<1>5. wire \in [Buses -> Seq(Items)]
  BY DEF IInv, DesktopTypes, HostTypes
<1>6. x \in Items /\ x.type = "reply" /\ x # UnlockItem
      /\ (x = Item("reply", "unlocked") => r = "unlocked")
  BY DEF Items, Item, States, UnlockItem
<1> HIDE DEF x
<1>7. wire'[bus] = wire[bus] \/ wire'[bus] = Append(wire[bus], x)
  BY <1>5 DEF x
<1>8. \A b \in Buses : b # bus => wire'[b] = wire[b]
  BY <1>5
<1>9. \A b \in Buses :
        /\ wire'[b] \in Seq(Items)
        /\ News(wire[b]) => News(wire'[b])
        /\ NewsFirst(wire[b]) => NewsFirst(wire'[b])
        /\ Replying(wire'[b]) => b = bus
        /\ OneReply(wire'[b])
        /\ Denies(wire'[b]) => b = bus /\ r = "unlocked"
        /\ EndsLocked(wire[b]) => EndsLocked(wire'[b])
  <2> TAKE b \in Buses
  <2>1. wire[b] \in Seq(Items) /\ ~Replying(wire[b]) /\ OneReply(wire[b])
    BY <1>3, <1>5 DEF Quiet
  <2>2. ~Denies(wire[b])
    <3>1. Item("reply", "unlocked").type = "reply"
      BY DEF Item
    <3> QED
      BY <2>1, <3>1 DEF Denies, Replying
  <2>3. CASE wire'[b] = wire[b]
    BY <2>1, <2>2, <2>3
  <2>4. CASE b = bus /\ wire'[b] = Append(wire[b], x)
    BY <1>6, <2>1, <2>2, <2>4, AppendWire
  <2> QED
    BY <1>7, <1>8, <2>3, <2>4
<1>10. wire' \in [Buses -> Seq(Items)]
  <2>1. wire' \in [Buses -> Seq(Items)] <=> \A b \in Buses : wire'[b] \in Seq(Items)
    BY <1>5
  <2> QED
    BY <1>9, <2>1
<1>11. DesktopTypes'
  BY <1>1, <1>10 DEF IInv, DesktopTypes, HostTypes
<1>12. Replies'
  <2>1. Reading(bus)'
    BY <1>4 DEF Reading, At
  <2> QED
    BY <1>3, <1>9, <2>1 DEF Replies, Quiet
<1>13. LastNews' /\ PicturesUnlocked' /\ Ready'
  BY <1>4, <1>9 DEF IInv, LastNews, PicturesUnlocked, Ready
<1>14. Monitored'
  <2>1. Ahead # 10 => (Ahead > 9 => Ahead' > 9)
    BY <1>1, <1>2
  <2>2. Ahead # 3 => (Ahead > 2 => Ahead' > 2)
    BY <1>1, <1>2
  <2>3. job.stage = "start" /\ job.tool = "status" => Ahead # 10
    BY <1>2, <1>4, Places DEF Shoots, Shooting
  <2>4. job.stage = "start" /\ job.tool # "status" => Ahead # 3
    BY <1>4, Places
  <2> QED
    BY <1>1, <1>2, <2>1, <2>2, <2>3, <2>4 DEF IInv, Monitored
<1>15. Looked'
  <2>1. Shoots => Ahead \notin {7, 5, 4}
    BY <1>4, Places
  <2>2. Shoots => Ahead' \notin {6, 4, 3}
    BY <1>1, <1>2, <2>1
  <2>3. \A b \in Buses : truth[b] = "locked" => Undenied(b)'
    BY <1>3, <1>9 DEF Undenied, Quiet, NoAnswer
  <2>4. Ahead' = 5 => Ahead = 6
    BY <1>1, <1>2
  <2>5. \A b \in Buses : Noticed(b) => Noticed(b)'
    BY <1>9 DEF Noticed
  <2>6. \A b \in Buses : Shoots /\ truth[b] = "locked" /\ Ahead' = 5 /\ b = "session"
                           => Noticed(b)' \/ locked[b]
    BY <2>4, <2>5 DEF IInv, Looked
  <2> QED
    BY <1>1, <2>2, <2>3, <2>6 DEF Looked
<1>16. Noted'
  <2> SUFFICES ASSUME Tainted' PROVE Noted'
    BY DEF Noted
  <2>1. Tainted
    BY DEF Tainted
  <2>2. CASE job.stage # "final"
    <3>1. Shoots' /\ Ahead' <= 2
      BY <1>1, <1>2, <2>1, <2>2, TaintedNews
    <3>2. lockSeen' \/ \E b \in Buses : News(wire'[b])
      BY <1>9, <2>1, TaintedNews
    <3> QED
      BY <1>1, <2>2, <3>1, <3>2 DEF Noted
  <2>3. CASE job.stage = "final" /\ lockSeen
    BY <1>1, <2>3 DEF Noted
  <2>4. CASE job.stage = "final" /\ ~lockSeen
    <3>1. \A b \in Buses : News(wire[b]) => NewsFirst(wire'[b]) /\ answer'[b] = NoAnswer
      BY <1>3, <1>5, <1>9, FirstNews DEF Quiet
    <3>2. \/ Op = "askSession" /\ \E b \in Buses : News(wire[b])
          \/ Op = "askLocker" /\ News(wire["locker"])
      BY <1>4, <2>1, <2>4 DEF IInv, Noted
    <3>3. \/ /\ Op' = "readSession"
             /\ News(wire'["locker"]) \/ (answer'["session"] = NoAnswer /\ NewsFirst(wire'["session"]))
          \/ Op' = "readLocker" /\ answer'["locker"] = NoAnswer /\ NewsFirst(wire'["locker"])
      BY <1>1, <1>9, <3>1, <3>2 DEF Buses
    <3> QED
      BY <1>1, <2>4, <3>3 DEF Noted
  <2> QED
    BY <2>2, <2>3, <2>4
<1>17. Heeded'
  <2>1. job.stage = "action" =>
          /\ Ahead' <= InChunks + 2 => Ahead <= InChunks + 2
          /\ Ahead' <= InChunks => Ahead <= InChunks
    <3>1. job.stage = "action" => InChunks \in Nat /\ Ahead # InChunks + 3 /\ Ahead # InChunks + 1
      BY <1>4, Places
    <3> QED
      BY <1>1, <1>2, <3>1
  <2> QED
    BY <1>1, <1>2, <2>1 DEF IInv, Heeded
<1> QED
  BY <1>1, <1>11, <1>12, <1>13, <1>14, <1>15, <1>16, <1>17 DEF IInv

LEMMA AskSessionKeeps ==
    ASSUME IInv, AskSession
    PROVE  IInv'
<1> DEFINE r == IF active THEN truth["session"] ELSE "error"
<1>1. Op = "askSession" /\ UNCHANGED <<truth, answer, locked, known, valid, stopping, lockSeen, monitor, heard>>
  BY DEF AskSession, Ask, At, envVars, lockVars
<1>2. "session" \in Buses /\ truth \in [Buses -> States]
  BY DEF Buses, IInv, DesktopTypes, HostTypes
<1>3. CASE valid /\ Ask("askSession", "session", r)
  <2>1. /\ wire' = wire \/ wire' = [wire EXCEPT !["session"] = Append(@, Item("reply", r))]
        /\ job' = [job EXCEPT !.ops = Tail(@)] /\ UNCHANGED <<held, picture, images, shown>>
    BY <1>3 DEF Ask, Tell, Advance, shots
  <2>2. r \in {"locked", "unlocked", "error"} /\ (r = "unlocked" => truth["session"] # "locked")
    BY <1>2 DEF States
  <2> HIDE DEF r
  <2> QED
    BY <1>1, <1>2, <2>1, <2>2, AskKeeps
<1>4. CASE ~valid /\ Fail /\ wire' = wire
  <2>1. held' = FALSE
    BY <1>4 DEF Fail
  <2>2. /\ lockSeen' \in BOOLEAN /\ stopping' \in BOOLEAN /\ held' \in BOOLEAN
    BY <1>1, <2>1 DEF IInv, DesktopTypes, HostTypes
  <2>3. Settled
    BY <1>1, <1>4, <2>2, QuietSettled
  <2> QED
    BY <1>1, <1>4, <2>3, Here, FailKeeps
<1> QED
  BY <1>3, <1>4 DEF AskSession

LEMMA AskLockerKeeps ==
    ASSUME IInv, AskLocker
    PROVE  IInv'
<1> DEFINE r == IF running THEN truth["locker"] ELSE "error"
<1>1. /\ Op = "askLocker"
      /\ UNCHANGED <<truth, answer, locked, known, valid, stopping, lockSeen, monitor, heard, held>>
      /\ wire' = wire \/ wire' = [wire EXCEPT !["locker"] = Append(@, Item("reply", r))]
      /\ job' = [job EXCEPT !.ops = Tail(@)] /\ UNCHANGED <<picture, images, shown>>
  BY DEF AskLocker, Ask, At, Tell, Advance, shots, envVars, lockVars
<1>2. "locker" \in Buses /\ truth \in [Buses -> States]
  BY DEF Buses, IInv, DesktopTypes, HostTypes
<1>3. r \in {"locked", "unlocked", "error"} /\ (r = "unlocked" => truth["locker"] # "locked")
  BY <1>2 DEF States
<1> HIDE DEF r
<1> QED
  BY <1>1, <1>2, <1>3, AskKeeps

\* A call reads the answer it has received.
LEMMA ReadKeeps ==
    ASSUME IInv, NEW bus \in Buses,
           Op = IF bus = "session" THEN "readSession" ELSE "readLocker",
           answer[bus] \in States,
           locked' = [locked EXCEPT ![bus] = answer[bus] = "locked"],
           answer' = [answer EXCEPT ![bus] = NoAnswer],
           job' = [job EXCEPT !.ops = Tail(@)],
           known' \in [Buses -> BOOLEAN], valid' \in BOOLEAN, held' \in BOOLEAN,
           monitor' \in BOOLEAN, monitor => monitor', bus = "locker" => monitor',
           lockSeen' \in BOOLEAN, lockSeen => lockSeen',
           stopping' \in BOOLEAN, stopping => stopping',
           bus = "locker" /\ (\E b \in Buses : locked'[b]) => lockSeen' \/ stopping',
           UNCHANGED <<truth, wire, heard, picture, images, shown>>
    PROVE  IInv'
<1>1. /\ job' \in Jobs /\ Busy' /\ Positioned' /\ Placed(job')
      /\ job'.tool = job.tool /\ job'.stage = job.stage
      /\ Ahead' = Ahead - 1 /\ Shoots' = Shoots /\ InChunks' = InChunks
      /\ Op' = "press" => Op = "allowed"
  BY Moves
<1>2. Busy /\ Ahead \in Nat /\ Ahead > 0 /\ job \in Jobs
  BY Here
<1>3. /\ bus \in {"session", "locker"} /\ Op \in {"readSession", "readLocker"}
      /\ bus = "session" <=> Op = "readSession"
      /\ bus = "locker" <=> Op = "readLocker"
  BY DEF Buses
<1>4. /\ answer \in [Buses -> Answers] /\ locked \in [Buses -> BOOLEAN]
      /\ "session" \in Buses /\ "locker" \in Buses
  BY DEF IInv, DesktopTypes, HostTypes, Buses
<1>5. \A b \in Buses : (b # bus => ~Reading(b)) /\ ~Replying(wire[b]) /\ (b # bus => answer[b] = NoAnswer)
  <2> TAKE b \in Buses
  <2>1. b # bus => ~Reading(b)
    BY DEF Reading, At, Buses
  <2>2. answer[bus] # NoAnswer
    BY DEF States, NoAnswer
  <2> QED
    BY <2>1, <2>2 DEF IInv, Replies
<1>6. Quiet'
  BY <1>4, <1>5 DEF IInv, Replies, Quiet
<1>7. /\ locked'[bus] = (answer[bus] = "locked")
      /\ \A b \in Buses : b # bus => locked'[b] = locked[b]
      /\ locked' \in [Buses -> BOOLEAN]
  BY <1>4
<1>8. DesktopTypes'
  <2>1. answer' \in [Buses -> Answers]
    BY <1>4 DEF Answers
  <2> QED
    BY <1>1, <1>7, <2>1 DEF IInv, DesktopTypes, HostTypes
<1>9. Replies' /\ LastNews' /\ PicturesUnlocked' /\ Ready'
  BY <1>1, <1>3, <1>6 DEF IInv, Replies, Quiet, LastNews, PicturesUnlocked, Ready
<1>10. Monitored'
  <2>1. CASE bus = "locker"
    BY <2>1 DEF Monitored
  <2>2. CASE bus = "session"
    <3>1. Ahead # 10 => (Ahead > 9 => Ahead' > 9)
      BY <1>1, <1>2
    <3>2. Ahead # 3 => (Ahead > 2 => Ahead' > 2)
      BY <1>1, <1>2
    <3>3. job.stage = "start" /\ job.tool = "status" => Ahead # 10
      BY <1>2, <1>3, <2>2, Places DEF Shoots, Shooting
    <3>4. job.stage = "start" /\ job.tool # "status" => Ahead # 3
      BY <1>3, <2>2, Places
    <3> QED
      BY <1>1, <1>2, <3>1, <3>2, <3>3, <3>4 DEF IInv, Monitored
  <2> QED
    BY <1>3, <2>1, <2>2
<1>11. Looked'
  <2> SUFFICES ASSUME NEW b \in Buses, Shoots, truth[b] = "locked"
               PROVE  /\ Ahead' \notin {7, 5, 3}
                      /\ Ahead' = 6 /\ b = "session" => Noticed(b)' \/ locked'[b]
                      /\ Ahead' = 4 => Noticed(b)' \/ stopping'
    BY <1>1 DEF Looked
  <2>1. /\ Ahead \notin {8, 6, 4}
        /\ Ahead = 7 => bus = "session"
        /\ Ahead = 5 => bus = "locker"
    BY <1>3, Places
  <2>2. Ahead' \notin {7, 5, 3} /\ (Ahead' = 6 => Ahead = 7) /\ (Ahead' = 4 => Ahead = 5)
    BY <1>1, <1>2, <2>1
  <2>3. Noticed(b) => Noticed(b)'
    BY DEF Noticed
  <2>4. answer[bus] # "unlocked" => locked'[bus]
    BY <1>7 DEF States
  <2>5. Ahead = 7 /\ b = "session" => Noticed(b)' \/ locked'[b]
    BY <2>1, <2>3, <2>4 DEF IInv, Looked, Undenied
  <2>6. Ahead = 5 => Noticed(b)' \/ stopping'
    <3>1. Ahead = 5 => Noticed(b) \/ locked'[b]
      BY <1>3, <1>7, <2>1, <2>4 DEF IInv, Looked, Undenied, Buses
    <3> QED
      BY <2>1, <2>3, <3>1 DEF Noticed
  <2> QED
    BY <2>2, <2>5, <2>6
<1>12. Noted'
  <2> SUFFICES ASSUME Tainted' PROVE Noted'
    BY DEF Noted
  <2>1. Tainted
    BY DEF Tainted
  <2>2. CASE job.stage # "final"
    <3>1. Shoots' /\ Ahead' <= 2
      BY <1>1, <1>2, <2>1, <2>2, TaintedNews
    <3>2. lockSeen' \/ \E b \in Buses : News(wire'[b])
      BY <2>1, TaintedNews
    <3> QED
      BY <1>1, <2>2, <3>1, <3>2 DEF Noted
  <2>3. CASE job.stage = "final" /\ lockSeen
    BY <1>1, <2>3 DEF Noted
  <2>4. CASE job.stage = "final" /\ ~lockSeen
    <3>1. answer[bus] # NoAnswer
      BY DEF States, NoAnswer
    <3>2. Op = "readSession" /\ News(wire["locker"])
      BY <1>3, <2>1, <2>4, <3>1 DEF IInv, Noted
    <3>3. Op' = "askLocker"
      BY <2>4, <3>2, FinalOps
    <3> QED
      BY <1>1, <2>4, <3>2, <3>3 DEF Noted
  <2> QED
    BY <2>2, <2>3, <2>4
<1>13. Heeded'
  <2>1. \A b \in Buses : ~(answer'[b] = "unlocked")
    BY <1>6 DEF Quiet, NoAnswer
  <2>2. ASSUME job.stage = "action"
        PROVE  /\ Ahead' <= InChunks + 2 /\ heard["session"] => lockSeen' \/ locked'["session"]
               /\ Ahead' <= InChunks /\ heard["locker"] => lockSeen' \/ locked'["locker"]
    <3>1. monitor
      BY <1>2, <2>2, MonitoredLate
    <3>2. heard[bus] => lockSeen' \/ locked'[bus]
      BY <1>7, <3>1 DEF IInv, Heeded, States
    <3>3. /\ InChunks \in Nat
          /\ Ahead = InChunks + 3 => bus = "session"
          /\ Ahead = InChunks + 1 => bus = "locker"
      BY <1>3, <2>2, Places
    <3>4. /\ Ahead' <= InChunks + 2 /\ bus # "session" => Ahead <= InChunks + 2
          /\ Ahead' <= InChunks /\ bus # "locker" => Ahead <= InChunks
      BY <1>1, <1>2, <3>3
    <3> QED
      BY <1>2, <1>3, <1>4, <1>7, <2>2, <3>2, <3>4 DEF IInv, Heeded
  <2> QED
    BY <1>1, <2>1, <2>2 DEF Heeded
<1> QED
  BY <1>1, <1>8, <1>9, <1>10, <1>11, <1>12, <1>13 DEF IInv

LEMMA ReadSessionKeeps ==
    ASSUME IInv, ReadSession
    PROVE  IInv'
<1>1. /\ Op = "readSession" /\ answer["session"] \in States
      /\ locked' = [locked EXCEPT !["session"] = answer["session"] = "locked"]
      /\ known' = [known EXCEPT !["session"] = TRUE] /\ valid' = TRUE
      /\ answer' = [answer EXCEPT !["session"] = NoAnswer]
      /\ job' = [job EXCEPT !.ops = Tail(@)]
      /\ UNCHANGED <<truth, wire, stopping, lockSeen, monitor, held, heard, picture, images, shown>>
  BY DEF ReadSession, At, Advance, shots, envVars
<1>2. /\ "session" \in Buses /\ known \in [Buses -> BOOLEAN] /\ stopping \in BOOLEAN
      /\ lockSeen \in BOOLEAN /\ monitor \in BOOLEAN /\ held \in BOOLEAN
  BY DEF IInv, DesktopTypes, HostTypes, Buses
<1>3. known' \in [Buses -> BOOLEAN]
  BY <1>1, <1>2
<1> QED
  BY <1>1, <1>2, <1>3, ReadKeeps

LEMMA ReadLockerKeeps ==
    ASSUME IInv, ReadLocker
    PROVE  IInv'
<1>1. /\ Op = "readLocker" /\ answer["locker"] \in States
      /\ locked' = [locked EXCEPT !["locker"] = answer["locker"] = "locked"]
      /\ known' = [known EXCEPT !["locker"] = TRUE]
      /\ answer' = [answer EXCEPT !["locker"] = NoAnswer]
      /\ monitor' = TRUE
      /\ job' = [job EXCEPT !.ops = Tail(@)]
      /\ stopping' = (stopping \/ ~valid)
      /\ lockSeen' = (lockSeen \/ (valid /\ \E b \in Buses : locked'[b]))
      /\ held' = (held /\ Clear(locked', known', valid))
      /\ UNCHANGED <<truth, wire, valid, heard, picture, images, shown>>
  BY DEF ReadLocker, At, Advance, shots, envVars, CheckLock, Remember
<1>2. /\ "locker" \in Buses /\ known \in [Buses -> BOOLEAN] /\ stopping \in BOOLEAN
      /\ lockSeen \in BOOLEAN /\ valid \in BOOLEAN /\ held \in BOOLEAN
  BY DEF IInv, DesktopTypes, HostTypes, Buses
<1>3. known' \in [Buses -> BOOLEAN]
  BY <1>1, <1>2
<1>4. /\ lockSeen' \in BOOLEAN /\ (lockSeen => lockSeen')
      /\ stopping' \in BOOLEAN /\ (stopping => stopping') /\ held' \in BOOLEAN
      /\ (\E b \in Buses : locked'[b]) => lockSeen' \/ stopping'
  BY <1>1, <1>2
<1> QED
  BY <1>1, <1>2, <1>3, <1>4, ReadKeeps

\* A call that gets no answer, or an error, ends its stage.
LEMMA UnavailableKeeps ==
    ASSUME IInv, NEW bus \in Buses, Reading(bus), Unavailable(bus),
           \/ wire' = wire /\ answer[bus] # NoAnswer
           \/ wire' = [wire EXCEPT ![bus] = Dropped(@)],
           lockSeen' \in BOOLEAN, lockSeen => lockSeen', stopping' \in BOOLEAN
    PROVE  IInv'
<1>1. /\ known' = IF bus = "locker" THEN [known EXCEPT !["locker"] = FALSE] ELSE known
      /\ answer' = [answer EXCEPT ![bus] = NoAnswer]
      /\ Fail /\ held' = FALSE
      /\ UNCHANGED <<truth, locked, valid, monitor, heard>>
  BY DEF Unavailable, Fail, envVars
<1>2. /\ wire \in [Buses -> Seq(Items)] /\ answer \in [Buses -> Answers]
      /\ known \in [Buses -> BOOLEAN] /\ "locker" \in Buses
  BY DEF IInv, DesktopTypes, HostTypes, Buses
<1>3. Op \in {"readSession", "readLocker"}
  BY DEF Reading, At
<1>4. \A b \in Buses : b # bus => ~Replying(wire[b]) /\ answer[b] = NoAnswer /\ wire'[b] = wire[b]
  <2> SUFFICES ASSUME NEW b \in Buses, b # bus
               PROVE  ~Replying(wire[b]) /\ answer[b] = NoAnswer /\ wire'[b] = wire[b]
    OBVIOUS
  <2>1. ~Reading(b)
    BY DEF Reading, At, Buses
  <2> QED
    BY <1>2, <2>1 DEF IInv, Replies
<1>5. \A b \in Buses :
        /\ wire'[b] \in Seq(Items) /\ ~Replying(wire'[b]) /\ OneReply(wire'[b])
        /\ News(wire[b]) => News(wire'[b])
        /\ EndsLocked(wire[b]) => EndsLocked(wire'[b])
  <2> TAKE b \in Buses
  <2>1. wire[b] \in Seq(Items) /\ OneReply(wire[b])
    BY <1>2 DEF IInv, Replies
  <2>2. CASE wire'[b] = wire[b] /\ ~Replying(wire[b])
    BY <2>1, <2>2
  <2>3. CASE wire'[b] = Dropped(wire[b])
    BY <2>1, <2>3, DroppedWire
  <2>4. b = bus /\ answer[bus] # NoAnswer => ~Replying(wire[b])
    BY DEF IInv, Replies
  <2> QED
    BY <1>2, <1>4, <2>2, <2>3, <2>4
<1>6. wire' \in [Buses -> Seq(Items)]
  <2>1. wire' \in [Buses -> Seq(Items)] <=> \A b \in Buses : wire'[b] \in Seq(Items)
    BY <1>2
  <2> QED
    BY <1>5, <2>1
<1>7. HostTypes'
  <2>1. answer' \in [Buses -> Answers] /\ known' \in [Buses -> BOOLEAN]
    BY <1>1, <1>2 DEF Answers
  <2> QED
    BY <1>1, <1>6, <2>1 DEF IInv, DesktopTypes, HostTypes
<1>8. \A b \in Buses : answer'[b] = NoAnswer
  BY <1>1, <1>2, <1>4
<1>9. Settled
  BY <1>1, <1>5, <1>7, <1>8 DEF Settled, Quiet, LastNews, IInv
<1> QED
  BY <1>1, <1>3, <1>9, Here, FailKeeps

LEMMA CallCancelledKeeps ==
    ASSUME IInv, NEW bus \in Buses, CallCancelled(bus)
    PROVE  IInv'
<1>1. /\ Reading(bus) /\ Unavailable(bus)
      /\ wire' = [wire EXCEPT ![bus] = Dropped(@)]
      /\ stopping' = (stopping \/ ~valid)
      /\ lockSeen' = (lockSeen \/ ((valid /\ \E b \in Buses : locked[b]) /\ monitor))
  BY DEF CallCancelled, CheckLock, Remember
<1>2. lockSeen' \in BOOLEAN /\ (lockSeen => lockSeen') /\ stopping' \in BOOLEAN
  BY <1>1 DEF IInv, DesktopTypes, HostTypes
<1> QED
  BY <1>1, <1>2, UnavailableKeeps

LEMMA CallFailedKeeps ==
    ASSUME IInv, NEW bus \in Buses, CallFailed(bus)
    PROVE  IInv'
<1>1. /\ Reading(bus) /\ Unavailable(bus) /\ answer[bus] # NoAnswer
      /\ wire' = wire /\ stopping' = stopping /\ lockSeen' = lockSeen
  BY DEF CallFailed, NoAnswer
<1>2. lockSeen' \in BOOLEAN /\ (lockSeen => lockSeen') /\ stopping' \in BOOLEAN
  BY <1>1 DEF IInv, DesktopTypes, HostTypes
<1> QED
  BY <1>1, <1>2, UnavailableKeeps

\* The end of a stage; the images of a call that has seen a lock stay behind.
LEMMA FinishKeeps ==
    ASSUME IInv, Finish
    PROVE  IInv'
<1>1. /\ Op = "end" /\ Busy
      /\ UNCHANGED <<truth, wire, answer, locked, known, valid, stopping, lockSeen, monitor, held, heard>>
  BY DEF Finish, At, Busy, envVars, lockVars
<1>2. lockSeen' \in BOOLEAN /\ stopping' \in BOOLEAN /\ held' \in BOOLEAN
  BY <1>1 DEF IInv, DesktopTypes, HostTypes
<1>3. Settled
  BY <1>1, <1>2, QuietSettled
<1>4. CASE job.stage = "final"
  <2> DEFINE what == IF lockSeen \/ \E b \in Buses : locked[b] THEN "none" ELSE images
  <2>1. Respond(what)
    BY <1>4 DEF Finish
  <2>2. images = "locked" => lockSeen
    BY <1>1, <1>4 DEF IInv, Noted, Tainted
  <2>3. what # "locked"
    BY <2>2
  <2> HIDE DEF what
  <2> QED
    BY <1>3, <2>1, <2>3, ResponseKeeps
<1>5. CASE job.stage # "final"
  <2>1. job.ops \in Seq(OpNames)
    BY <1>1 DEF IInv, DesktopTypes, Busy, Jobs
  <2>2. job.ops = <<>>
    <3>1. job.ops # <<>> => Head(job.ops) \in OpNames
      BY <2>1
    <3>2. "end" \notin OpNames
      BY DEF OpNames
    <3> QED
      BY <1>1, <3>1, <3>2 DEF Op
  <2>3. Ahead = 0
    BY <2>2 DEF Ahead, Todo
  <2>4. NextStage
    BY <1>5 DEF Finish
  <2> QED
    BY <1>1, <1>3, <1>5, <2>3, <2>4, StageKeeps
<1> QED
  BY <1>4, <1>5

LEMMA BeginKeeps ==
    ASSUME IInv, NEW tool \in Tools, Begin(tool)
    PROVE  IInv'
<1>1. /\ job = Idle
      /\ job' = [tool |-> tool, stage |-> "start", ops |-> Ops(tool, "start")]
      /\ lockSeen' = FALSE /\ monitor' = FALSE
      /\ picture' = "none" /\ images' = "none" /\ shown' = "none"
      /\ UNCHANGED <<truth, wire, answer, locked, known, valid, stopping, held, heard>>
  BY DEF Begin, envVars
<1>2. Quiet
  <2>1. Op = "end"
    BY <1>1 DEF Op, Idle
  <2> QED
    BY <2>1, QuietPlaces
<1>3. /\ job' \in Jobs /\ Placed(job') /\ job'.stage = "start" /\ job'.tool = tool
      /\ OpOf(job') \in {"tick", "unseen", "askSession"}
      /\ tool = "status" => Ahead' = 14
      /\ tool # "status" => Ahead' = 7
  <2>1. "start" \in Stages
    BY DEF Stages
  <2> QED
    BY <1>1, <2>1, Fresh DEF Ahead
<1>4. Busy' /\ Op' = OpOf(job')
  BY <1>3, NotIdle DEF Busy, Op, OpOf
<1>5. DesktopTypes'
  BY <1>1, <1>3 DEF IInv, DesktopTypes, HostTypes
<1>6. Positioned' /\ Replies' /\ LastNews'
  BY <1>1, <1>2, <1>3 DEF IInv, Positioned, Replies, Quiet, LastNews
<1>7. Monitored'
  BY <1>3 DEF Monitored
<1>8. Looked'
  <2>1. Shoots' => Ahead' = 14
    BY <1>3 DEF Shoots, Shooting
  <2> QED
    BY <2>1 DEF Looked
<1>9. Noted' /\ PicturesUnlocked'
  BY <1>1 DEF Noted, Tainted, PicturesUnlocked
<1>10. Heeded'
  BY <1>1, <1>3 DEF Heeded
<1>11. Ready'
  BY <1>3, <1>4 DEF Ready
<1> QED
  BY <1>5, <1>6, <1>7, <1>8, <1>9, <1>10, <1>11 DEF IInv

-----------------------------------------------------------------------------
(* The theorems.                                                            *)

LEMMA InitKeeps == DesktopInit => IInv
<1> SUFFICES ASSUME DesktopInit PROVE IInv
  OBVIOUS
<1>1. /\ truth \in [Buses -> States] /\ wire = [b \in Buses |-> <<>>]
      /\ answer = [b \in Buses |-> NoAnswer]
      /\ locked = [b \in Buses |-> b = "session" /\ truth[b] = "locked"]
      /\ known = [b \in Buses |-> b = "session"]
      /\ valid = TRUE /\ stopping = FALSE /\ lockSeen = FALSE /\ monitor = FALSE
      /\ held = FALSE /\ job = Idle
      /\ picture = "none" /\ images = "none" /\ shown = "none" /\ heard = locked
  BY DEF DesktopInit
<1>2. ~Busy /\ Op = "end"
  BY <1>1 DEF Busy, Op, Idle
<1>3. DesktopTypes
  <2>1. wire \in [Buses -> Seq(Items)] /\ answer \in [Buses -> Answers]
    BY <1>1 DEF Answers
  <2>2. locked \in [Buses -> BOOLEAN] /\ known \in [Buses -> BOOLEAN] /\ heard \in [Buses -> BOOLEAN]
    BY <1>1
  <2> QED
    BY <1>1, <2>1, <2>2 DEF DesktopTypes, HostTypes
<1>4. \A b \in Buses : wire[b] = <<>> /\ answer[b] = NoAnswer
  BY <1>1
<1>5. \A i \in DOMAIN <<>> : FALSE
  OBVIOUS
<1>6. Replies /\ LastNews
  BY <1>4, <1>5 DEF Replies, LastNews, Replying, OneReply, EndsLocked
<1>7. Positioned /\ Monitored /\ Looked /\ Ready
  BY <1>2 DEF Positioned, Monitored, Looked, Shoots, Ready
<1>8. Noted /\ PicturesUnlocked
  BY <1>1 DEF Noted, Tainted, PicturesUnlocked
<1>9. Heeded
  BY <1>2, <1>4 DEF Heeded, NoAnswer
<1> QED
  BY <1>3, <1>6, <1>7, <1>8, <1>9 DEF IInv

LEMMA StutterKeeps ==
    ASSUME IInv, UNCHANGED desktopVars
    PROVE  IInv'
<1>1. UNCHANGED <<truth, wire, answer, locked, known, valid, stopping, lockSeen, monitor, held, job,
                  picture, images, shown, heard>>
  BY DEF desktopVars, envVars, lockVars, callVars, shots
<1>2. /\ Op' = Op /\ Ahead' = Ahead /\ Busy' = Busy /\ Shoots' = Shoots
      /\ InChunks' = InChunks /\ Positioned'
      /\ \A b \in Buses : Reading(b)' = Reading(b)
  BY <1>1, SameJob DEF IInv
<1>3. DesktopTypes' /\ Replies' /\ LastNews' /\ Monitored'
  BY <1>1, <1>2 DEF IInv, DesktopTypes, HostTypes, Replies, LastNews, Monitored
<1>4. Looked' /\ Noted'
  BY <1>1, <1>2 DEF IInv, Looked, Noted, Noticed, Undenied, Tainted
<1>5. Heeded' /\ Ready' /\ PicturesUnlocked'
  BY <1>1, <1>2 DEF IInv, Heeded, Ready, PicturesUnlocked
<1> QED
  BY <1>2, <1>3, <1>4, <1>5 DEF IInv

\* Every step keeps the invariant.
LEMMA NextKeeps ==
    ASSUME IInv, [DesktopNext]_desktopVars
    PROVE  IInv'
<1>1. CASE UNCHANGED desktopVars
  BY <1>1, StutterKeeps
<1>2. CASE \E b \in Buses : Switch(b) \/ Dispatch(b)
  BY <1>2, EnvironmentKeeps, DispatchKeeps
<1>3. CASE Deactivate \/ LockerRestarts
  BY <1>3, EnvironmentKeeps
<1>4. CASE Timer
  BY <1>4, TimerKeeps
<1>5. CASE \E tool \in {"status", "keys", "drag", "text"} : Begin(tool)
  BY <1>5, BeginKeeps DEF Tools
<1>6. CASE Call
  <2>1. CASE Tick
    BY <2>1, TickKeeps
  <2>2. CASE AskSession \/ AskLocker
    BY <2>2, AskSessionKeeps, AskLockerKeeps
  <2>3. CASE \E b \in Buses : CallCancelled(b) \/ CallFailed(b)
    BY <2>3, CallCancelledKeeps, CallFailedKeeps
  <2>4. CASE ReadSession \/ ReadLocker
    BY <2>4, ReadSessionKeeps, ReadLockerKeeps
  <2>5. CASE Allowed \/ Press
    BY <2>5, AllowedKeeps, PressKeeps
  <2>6. CASE TakePicture \/ Finish
    BY <2>6, TakePictureKeeps, FinishKeeps
  <2> QED
    BY <1>6, <2>1, <2>2, <2>3, <2>4, <2>5, <2>6 DEF Call
<1> QED
  BY <1>1, <1>2, <1>3, <1>4, <1>5, <1>6 DEF DesktopNext

\* No picture that was taken while the desktop was locked is in a response, for
\* any number of chunks and any scenario: the looks at the lock around a picture
\* (kwin_status, run_batch) and lock_seen, which desktop_properties and
\* desktop_locker_changed set, leave no interleaving of signals and answers in
\* which the lock goes unnoticed (scu_host.c:4603, scu_desktop.h:199).
THEOREM PicturesProved == DesktopSpec => []PicturesUnlocked
<1>1. IInv => PicturesUnlocked
  BY DEF IInv
<1> QED
  BY <1>1, InitKeeps, NextKeeps, PTL DEF DesktopSpec

\* Only Press begins to hold a key or a button.
LEMMA OnlyPress ==
    ASSUME IInv, DesktopNext, held', ~held
    PROVE  Op = "press"
<1>1. ~(\E b \in Buses : Switch(b) \/ Dispatch(b))
  <2> SUFFICES ASSUME NEW b \in Buses, Switch(b) \/ Dispatch(b) PROVE FALSE
    OBVIOUS
  <2>1. ~Switch(b)
    BY DEF Switch, HostVars
  <2>2. CASE Dispatch(b)
    <3> DEFINE x == Head(wire[b])
    <3>1. \/ held' = held
          \/ held' = FALSE
          \/ held' = (held /\ Clear(locked', known', valid))
      <4>1. CASE x.type = "reply"
        BY <2>2, <4>1 DEF Dispatch
      <4>2. CASE x.type = "inactive"
        BY <2>2, <4>2 DEF Dispatch
      <4>3. CASE x.type = "owner"
        BY <2>2, <4>3 DEF Dispatch
      <4>4. CASE x.type \notin {"reply", "inactive", "owner"}
        BY <2>2, <4>4 DEF Dispatch
      <4> QED
        BY <4>1, <4>2, <4>3, <4>4
    <3> QED
      BY <3>1
  <2> QED
    BY <2>1, <2>2
<1>2. ~Deactivate /\ ~LockerRestarts
  BY DEF Deactivate, LockerRestarts, HostVars
<1>3. ~Timer /\ \A tool : ~Begin(tool)
  BY DEF Timer, Begin
<1>4. ~Fail
  BY DEF Fail
<1>5. ~Tick /\ ~AskSession /\ ~AskLocker
  BY <1>4 DEF Tick, AskSession, AskLocker, Ask
<1>6. \A b \in Buses : ~CallCancelled(b) /\ ~CallFailed(b)
  BY <1>4 DEF CallCancelled, CallFailed, Unavailable
<1>7. ~ReadSession /\ ~ReadLocker
  BY DEF ReadSession, ReadLocker
<1>8. ~Allowed /\ ~TakePicture /\ ~Finish
  BY <1>4 DEF Allowed, TakePicture, Finish
<1>9. Press
  BY <1>1, <1>2, <1>3, <1>5, <1>6, <1>7, <1>8 DEF DesktopNext, Call
<1> QED
  BY <1>9 DEF Press, At

\* No input is sent after an indicator has told the host of a lock, although an
\* older answer may have overwritten what the signal said: desktop_refresh_lock
\* before the first chunk and desktop_input_allowed before each one are enough,
\* for any number of chunks (scu_desktop.h:199, scu_host.c:4015).
THEOREM InputProved == DesktopSpec => InputUnlocked
<1>1. ASSUME IInv, [DesktopNext]_desktopVars
      PROVE  [held' /\ ~held => \A b \in Buses : ~heard[b]]_desktopVars
  <2>1. CASE UNCHANGED desktopVars
    BY <2>1
  <2>2. CASE DesktopNext
    <3> SUFFICES ASSUME held', ~held PROVE \A b \in Buses : ~heard[b]
      OBVIOUS
    <3>1. Op = "press"
      BY <1>1, <2>2, OnlyPress
    <3> QED
      BY <1>1, <3>1 DEF IInv, Ready
  <2> QED
    BY <1>1, <2>1, <2>2
<1> QED
  BY <1>1, InitKeeps, NextKeeps, PTL DEF DesktopSpec, InputUnlocked
============================================================================
