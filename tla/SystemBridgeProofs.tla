------------------------- MODULE SystemBridgeProofs -------------------------
(***************************************************************************)
(* Proofs about SystemBridge, for any guests, calls and connections, any   *)
(* limits and any scenario: the relay keeps no client for a guest that has *)
(* left beyond the bus's notice, and the bridge implements SystemPort.     *)
(***************************************************************************)
EXTENDS SystemBridge, FiniteSetTheorems, SequenceTheorems, WellFoundedInduction, TLAPS

\* The queued items, by their types.
Sound(x) ==
    /\ x.high <=> x.type \in {"guest", "open", "call", "callback", "reply", "signal", "changed"}
    /\ x.type \in {"guest", "call"} => x.id \in Requests
    /\ x.type = "callback" => x.id \in Callbacks
    /\ x.type \in {"reply", "done"} =>
         x.id \in Calls /\ x.val \in {"none", "return", "error", "big"} /\ (x.id \in Callbacks => x.stamp = 0)
    /\ x.type \in {"open", "call", "callback", "reply", "signal", "changed", "closed", "owner"} => x.conn \in Conns
    /\ x.type = "left" => x.val \in Guests
Items ==
    {x \in [high : BOOLEAN, conn : Conns \cup {None}, id : Calls \cup {None} \cup Nat,
            type : {"guest", "open", "call", "callback", "reply", "done", "signal", "changed",
                    "closed", "owner", "left"},
            val : {"none", "return", "error", "big"} \cup Guests, stamp : Nat] : Sound(x)}

Entries == [id : Calls, delivered : BOOLEAN]
Heard == [call : Calls \cup {None}, conn : Conns, stamp : Nat]

BridgeTypes ==
    /\ queue \in [Roles -> Seq(Items)]
    /\ conn \in [Conns -> [name : Guests \cup {Observer, None},
                           relay : {"none", "opening", "open", "closed"},
                           broker : {"none", "peer", "open", "closed"},
                           watch : BOOLEAN, owner : Nat, agent : BOOLEAN]]
    /\ opening = None \/ opening \in [conn : Conns, call : Requests \cup {None}]
    /\ names \subseteq Guests /\ present \subseteq Guests
    /\ call \in [Calls -> [guest : Guests \cup {Observer, None}, conn : Conns \cup {None},
                           kind : Kinds \cup {"callback"}]]
    /\ pending \in [Roles -> SUBSET Entries]
    /\ waiting \in [Roles -> SUBSET Calls]
    /\ inbox \subseteq Calls
    /\ owner \in Nat /\ started \in Nat
    /\ sent \in Seq(SUBSET Conns)
    /\ agents \subseteq Conns
    /\ answers \in [Calls -> Nat]
    /\ got \in [Guests -> Seq(Heard)]
    /\ budget \in Budget

Ran(s) == {s[i] : i \in DOMAIN s}

\* Clients: an opening client is the one the relay waits for, a guest has one
\* at most, and the notice of a guest that left is still to come.
Alive(c) == conn[c].relay \in {"opening", "open"}
Settled(c) == conn[c].relay \in {"open", "closed"} /\ conn[c].broker \in {"open", "closed"}
Noticed(g) == \E x \in Ran(queue["relay"]) : x.type = "left" /\ x.val = g
Clients ==
    /\ \A c \in Conns :
         /\ conn[c].name = None => conn[c].relay = "none" /\ conn[c].broker = "none"
         /\ conn[c].relay = "opening" <=> (opening # None /\ opening.conn = c)
         /\ conn[c].relay = "open" => Settled(c)
         /\ Alive(c) /\ conn[c].name \in Guests \ present => Noticed(conn[c].name)
    /\ \A c, d \in Conns :
         Alive(c) /\ Alive(d) /\ conn[c].name = conn[d].name /\ conn[c].name \in Guests => c = d
    /\ \A r \in Roles : \A x \in Ran(queue[r]) : x.type = "closed" => conn[x.conn].name # None

\* Calls: who made a call is known, and where it has gone since.
Undone(r, k) == [id |-> k, delivered |-> FALSE] \in pending[r]
Pends(r, k) == \E p \in pending[r] : p.id = k
Placed ==
    /\ \A k \in Calls :
         /\ call[k].guest = None => call[k].conn = None /\ answers[k] = 0
         /\ k \in Requests => call[k].guest # Observer
         /\ call[k].conn # None => Settled(call[k].conn)
         /\ k \in inbox \/ (\E r \in Roles : k \in waiting[r] \/ Pends(r, k)) => call[k].conn # None
    /\ \A c \in agents : Settled(c)

\* An answer is still owed for a call where it waits to be answered.
Unsent(k) == call[k].guest \in Guests /\ call[k].conn = None /\ answers[k] = 0
Owed ==
    /\ opening # None /\ opening.call # None => Unsent(opening.call)
    /\ \A k \in Requests : Undone("relay", k) => answers[k] = 0
    /\ \A k \in Callbacks : Undone("broker", k) => answers[k] = 0

Itemised ==
    \A r \in Roles : \A x \in Ran(queue[r]) :
        /\ x.type \in {"guest", "left", "changed"} => r = "relay"
        /\ x.type \in {"call", "open", "owner"} => r = "broker"
        /\ x.type = "guest" => Unsent(x.id) /\ ~(opening # None /\ opening.call = x.id)
        /\ x.type \in {"call", "callback", "reply"} => call[x.id].conn = x.conn
        /\ x.type = "done" => call[x.id].conn # None /\ (x.stamp > 0 => call[x.id].conn = x.conn)
        /\ x.type = "call" =>
             /\ x.id \notin inbox /\ x.id \notin waiting["broker"] /\ ~Pends("broker", x.id)
             /\ \A y \in Ran(queue["broker"]) : y.type \in {"reply", "done"} => y.id # x.id
        /\ x.type = "callback" /\ r = "broker" =>
             /\ answers[x.id] = 0 /\ ~Pends("broker", x.id)
             /\ \A y \in Ran(queue["relay"]) : y.type = "callback" => y.id # x.id

\* Order: what the service sent goes through both queues in its order; the
\* completion of a call follows its reply.
Stamped(x) == x.type \in {"signal", "reply", "done"} /\ x.stamp > 0
Before(x, y) ==
    /\ ~(x.type = y.type /\ x.type \in {"guest", "call", "callback"} /\ x.id = y.id)
    /\ Stamped(x) /\ Stamped(y) /\ x.conn = y.conn =>
         x.stamp <= y.stamp /\ (y.high \/ ~x.high => x.stamp < y.stamp)
Ordered(s) == \A i, j \in DOMAIN s : i < j => Before(s[i], s[j])

\* What the guests have over connection c is older than n.
Older(c, n) == \A g \in Guests : \A h \in Ran(got[g]) : h.conn = c => h.stamp < n
Announces(y, x) == y.type = "reply" /\ y.id = x.id /\ y.stamp = x.stamp

InOrder ==
    /\ \A r \in Roles : Ordered(queue[r])
    /\ \A r \in Roles : \A x \in Ran(queue[r]) : Stamped(x) => x.stamp <= Len(sent)
    /\ \A g \in Guests : \A h \in Ran(got[g]) : h.stamp <= Len(sent)
    /\ \A r \in Roles : \A x \in Ran(queue[r]) : Stamped(x) /\ x.high => Older(x.conn, x.stamp)
    /\ \A x \in Ran(queue["relay"]), y \in Ran(queue["broker"]) :
         Stamped(x) /\ Stamped(y) /\ y.high /\ x.conn = y.conn => x.stamp < y.stamp
    /\ \A r \in Roles : \A x \in Ran(queue[r]) :
         Stamped(x) /\ x.type = "done" /\ Undone(r, x.id) =>
            \/ \E y \in Ran(queue[r]) : Announces(y, x)
            \/ conn[x.conn][r] = "closed" /\ (r = "relay" => Older(x.conn, x.stamp))

IInv == BridgeTypes /\ Clients /\ Placed /\ Owed /\ Itemised /\ InOrder

-----------------------------------------------------------------------------
(* Queues.                                                                  *)

\* The sequence s without its element m, or whole if m is 0; the other
\* elements of s; and s without m, with e behind it.
Base(s, m) == IF m = 0 THEN s ELSE RemoveAt(s, m)
Others(s, m) == {s[i] : i \in DOMAIN s \ {m}}
Derived(s, m, e) == Base(s, m) \o e

\* Element m of s goes before every other event, and before everything if it
\* is a source.
Leads(s, m) ==
    m \in DOMAIN s /\ \A i \in DOMAIN s : i # m /\ (s[i].high \/ ~s[m].high) => m < i

LEMMA RemovedAt ==
    ASSUME NEW s \in Seq(Items), NEW m \in 1..Len(s)
    PROVE  LET t == RemoveAt(s, m)
           IN /\ t \in Seq(Items) /\ Len(t) = Len(s) - 1
              /\ \A i \in 1..(Len(s) - 1) : t[i] = IF i < m THEN s[i] ELSE s[i + 1]
<1> DEFINE n == Len(s)
           a == SubSeq(s, 1, m - 1)
           b == SubSeq(s, m + 1, n)
<1>1. n \in Nat /\ m \in Nat /\ 1 <= m /\ m <= n
  OBVIOUS
<1>2. a \in Seq(Items) /\ Len(a) = m - 1 /\ \A i \in 1..(m - 1) : a[i] = s[i]
  BY <1>1
<1>3. b \in Seq(Items) /\ Len(b) = n - m /\ \A i \in 1..(n - m) : b[i] = s[m + i]
  BY <1>1
<1>4. RemoveAt(s, m) = a \o b
  BY DEF RemoveAt
<1> HIDE DEF a, b
<1>5. a \o b \in Seq(Items) /\ Len(a \o b) = n - 1
  <2>1. a \in Seq(Items) /\ b \in Seq(Items)
    BY <1>2, <1>3
  <2>3. a \o b \in Seq(Items) /\ Len(a \o b) = Len(a) + Len(b)
    BY <2>1, ConcatProperties
  <2> HIDE DEF n
  <2>2. (m - 1) + (n - m) = n - 1
    BY <1>1
  <2> QED
    BY <1>2, <1>3, <2>3, <2>2
<1>6. ASSUME NEW i \in 1..(n - 1)
      PROVE  (a \o b)[i] = IF i < m THEN s[i] ELSE s[i + 1]
  <2>1. CASE i < m
    BY <1>1, <1>2, <1>3, <1>6, <2>1
  <2>2. CASE ~(i < m)
    <3>1. i - (m - 1) \in 1..(n - m) /\ (a \o b)[i] = b[i - (m - 1)]
      BY <1>1, <1>2, <1>3, <1>6, <2>2
    <3>2. b[i - (m - 1)] = s[m + (i - (m - 1))] /\ m + (i - (m - 1)) = i + 1
      BY <1>1, <1>3, <3>1
    <3> QED
      BY <2>2, <3>1, <3>2
  <2> QED
    BY <2>1, <2>2
<1> QED
  BY <1>4, <1>5, <1>6

LEMMA BaseSeq ==
    ASSUME NEW s \in Seq(Items), NEW m \in 0..Len(s)
    PROVE  LET t == Base(s, m)
           IN /\ t \in Seq(Items) /\ Ran(t) = Others(s, m)
              /\ Ordered(s) => Ordered(t)
<1> DEFINE t == Base(s, m)
           n == Len(s)
<1>1. CASE m = 0
  <2>1. t = s
    BY <1>1 DEF Base
  <2>2. \A i \in DOMAIN s : i # m
    BY <1>1
  <2>3. DOMAIN s \ {m} = DOMAIN s
    BY <2>2
  <2> QED
    BY <2>1, <2>3 DEF Ran, Others
<1>2. CASE m # 0
  <2>1. m \in 1..n /\ n \in Nat /\ DOMAIN s = 1..n
    BY <1>2
  <2>2. t \in Seq(Items) /\ Len(t) = n - 1 /\ \A i \in 1..(n - 1) : t[i] = IF i < m THEN s[i] ELSE s[i + 1]
    BY <1>2, <2>1, RemovedAt DEF Base
  <2> HIDE DEF t
  <2>3. DOMAIN t = 1..(n - 1)
    BY <2>1, <2>2
  <2>4. Ran(t) \subseteq Others(s, m)
    <3> SUFFICES ASSUME NEW i \in 1..(n - 1) PROVE t[i] \in Others(s, m)
      BY <2>3 DEF Ran
    <3>2. (IF i < m THEN i ELSE i + 1) \in DOMAIN s \ {m}
      BY <2>1
    <3>3. t[i] = s[IF i < m THEN i ELSE i + 1]
      BY <2>2
    <3> QED
      BY <3>2, <3>3 DEF Others
  <2>5. Others(s, m) \subseteq Ran(t)
    <3> SUFFICES ASSUME NEW i \in 1..n, i # m PROVE s[i] \in Ran(t)
      BY <2>1 DEF Others
    <3>1. CASE i < m
      <4>1. i \in 1..(n - 1) /\ t[i] = s[i]
        BY <2>1, <2>2, <3>1
      <4> QED
        BY <2>3, <4>1 DEF Ran
    <3>2. CASE i > m
      <4>1. i - 1 \in 1..(n - 1) /\ ~(i - 1 < m) /\ (i - 1) + 1 = i
        BY <2>1, <3>2
      <4>2. t[i - 1] = s[i]
        BY <2>2, <4>1
      <4> QED
        BY <2>3, <4>1, <4>2 DEF Ran
    <3> QED
      BY <2>1, <3>1, <3>2
  <2>6. Ordered(s) => Ordered(t)
    <3> SUFFICES ASSUME Ordered(s), NEW i \in 1..(n - 1), NEW j \in 1..(n - 1), i < j
                 PROVE  Before(t[i], t[j])
      BY <2>3 DEF Ordered
    <3> DEFINE f(x) == IF x < m THEN x ELSE x + 1
    <3>1. f(i) \in DOMAIN s /\ f(j) \in DOMAIN s /\ f(i) < f(j)
      BY <2>1
    <3>2. t[i] = s[f(i)] /\ t[j] = s[f(j)]
      BY <2>2
    <3> HIDE DEF f
    <3> QED
      BY <3>1, <3>2 DEF Ordered
  <2> QED
    BY <2>2, <2>4, <2>5, <2>6 DEF t
<1> QED
  BY <1>1, <1>2

LEMMA JoinSeq ==
    ASSUME NEW s \in Seq(Items), NEW e \in Seq(Items)
    PROVE  LET t == s \o e
           IN /\ t \in Seq(Items) /\ Ran(t) = Ran(s) \cup Ran(e)
              /\ Ordered(s) /\ Ordered(e) /\ (\A x \in Ran(s), y \in Ran(e) : Before(x, y)) => Ordered(t)
<1> DEFINE t == s \o e
           n == Len(s)
           l == Len(e)
<1>1. n \in Nat /\ l \in Nat /\ DOMAIN s = 1..n /\ DOMAIN e = 1..l
  OBVIOUS
<1>2. t \in Seq(Items) /\ DOMAIN t = 1..(n + l)
  BY <1>1
<1>3. \A i \in 1..n : i \in 1..(n + l) /\ t[i] = s[i]
  BY <1>1
<1>4. \A i \in 1..l : n + i \in 1..(n + l) /\ t[n + i] = e[i]
  BY <1>1
<1> HIDE DEF t
<1>5. \A i \in 1..(n + l) :
        \/ i \in 1..n /\ t[i] = s[i]
        \/ i - n \in 1..l /\ i > n /\ t[i] = e[i - n]
  <2> TAKE i \in 1..(n + l)
  <2>1. i \in 1..n \/ (i - n \in 1..l /\ i > n /\ n + (i - n) = i)
    BY <1>1
  <2> QED
    BY <1>3, <1>4, <2>1
<1>6. Ran(t) = Ran(s) \cup Ran(e)
  <2>1. Ran(t) \subseteq Ran(s) \cup Ran(e)
    BY <1>1, <1>2, <1>5 DEF Ran
  <2>2. Ran(s) \subseteq Ran(t)
    BY <1>1, <1>2, <1>3 DEF Ran
  <2>3. Ran(e) \subseteq Ran(t)
    <3> SUFFICES ASSUME NEW i \in 1..l PROVE e[i] \in Ran(t)
      BY <1>1 DEF Ran
    <3>1. n + i \in DOMAIN t /\ t[n + i] = e[i]
      BY <1>2, <1>4
    <3> QED
      BY <3>1 DEF Ran
  <2> QED
    BY <2>1, <2>2, <2>3
<1>7. ASSUME Ordered(s), Ordered(e), \A x \in Ran(s), y \in Ran(e) : Before(x, y)
      PROVE  Ordered(t)
  <2> SUFFICES ASSUME NEW i \in 1..(n + l), NEW j \in 1..(n + l), i < j
               PROVE  Before(t[i], t[j])
    BY <1>2 DEF Ordered
  <2>1. CASE i \in 1..n /\ j \in 1..n
    BY <1>1, <1>3, <1>7, <2>1 DEF Ordered
  <2>2. CASE i \in 1..n /\ j - n \in 1..l /\ j > n
    <3>1. t[i] \in Ran(s) /\ t[j] \in Ran(e)
      BY SMTT(40), <1>1, <1>3, <1>5, <2>2 DEF Ran
    <3> QED
      BY <1>7, <3>1
  <2>3. CASE i - n \in 1..l /\ i > n /\ j - n \in 1..l /\ j > n
    <3>1. t[i] = e[i - n] /\ t[j] = e[j - n] /\ i - n < j - n
      BY <1>1, <1>5, <2>3
    <3> QED
      BY <1>1, <1>7, <2>3, <3>1 DEF Ordered
  <2> QED
    BY <1>1, <1>5, <2>1, <2>2, <2>3
<1> QED
  BY <1>2, <1>6, <1>7 DEF t

LEMMA DerivedSeq ==
    ASSUME NEW s \in Seq(Items), NEW m \in 0..Len(s), NEW e \in Seq(Items)
    PROVE  LET t == Derived(s, m, e)
           IN /\ t \in Seq(Items) /\ Ran(t) = Others(s, m) \cup Ran(e)
              /\ Ordered(s) /\ Ordered(e) /\ (\A x \in Others(s, m), y \in Ran(e) : Before(x, y))
                   => Ordered(t)
BY BaseSeq, JoinSeq DEF Derived

\* What is left when element m is gone.
LEMMA Left ==
    ASSUME NEW s \in Seq(Items), Ordered(s), NEW m \in DOMAIN s
    PROVE  /\ s[m] \in Items /\ s[m] \in Ran(s) /\ Ran(s) = Others(s, m) \cup {s[m]}
           /\ Others(s, 0) = Ran(s)
           /\ \A x \in Others(s, m) : Before(x, s[m]) \/ Before(s[m], x)
           /\ Leads(s, m) => \A x \in Others(s, m) : (x.high \/ ~s[m].high) => Before(s[m], x)
<1>1. \A i \in DOMAIN s : i \in Nat /\ i # 0
  OBVIOUS
<1>2. Others(s, 0) = Ran(s)
  BY <1>1 DEF Others, Ran
<1>3. s[m] \in Items /\ s[m] \in Ran(s) /\ Ran(s) = Others(s, m) \cup {s[m]}
  BY DEF Others, Ran
<1>4. \A i \in DOMAIN s \ {m} : Before(s[i], s[m]) \/ Before(s[m], s[i])
  BY <1>1 DEF Ordered
<1>5. Leads(s, m) => \A i \in DOMAIN s \ {m} : (s[i].high \/ ~s[m].high) => Before(s[m], s[i])
  BY DEF Ordered, Leads
<1> QED
  BY <1>2, <1>3, <1>4, <1>5 DEF Others

\* Short sequences.
LEMMA Short ==
    ASSUME NEW b \in Seq(Items), NEW x \in Items, NEW y \in Items
    PROVE  /\ b \o <<>> = b /\ Append(b, x) = b \o <<x>> /\ Append(Append(b, x), y) = b \o <<x, y>>
           /\ <<>> \in Seq(Items) /\ <<x>> \in Seq(Items) /\ <<x, y>> \in Seq(Items)
           /\ Ran(<<>>) = {} /\ Ran(<<x>>) = {x} /\ Ran(<<x, y>>) = {x, y}
           /\ Ordered(<<>>) /\ Ordered(<<x>>) /\ (Before(x, y) => Ordered(<<x, y>>))
<1>1. b \o <<>> = b /\ Append(b, x) = b \o <<x>> /\ Append(Append(b, x), y) = b \o <<x, y>>
  OBVIOUS
<1>2. <<>> \in Seq(Items) /\ <<x>> \in Seq(Items) /\ <<x, y>> \in Seq(Items)
  OBVIOUS
<1>3. DOMAIN <<>> = {} /\ DOMAIN <<x>> = {1} /\ DOMAIN <<x, y>> = {1, 2}
  OBVIOUS
<1>4. Ran(<<>>) = {} /\ Ran(<<x>>) = {x} /\ Ran(<<x, y>>) = {x, y}
  BY <1>3 DEF Ran
<1>5. Ordered(<<>>) /\ Ordered(<<x>>) /\ (Before(x, y) => Ordered(<<x, y>>))
  BY <1>3 DEF Ordered
<1> QED
  BY <1>1, <1>2, <1>4, <1>5

LEMMA Single ==
    ASSUME NEW x \in Items
    PROVE  <<x>> \in Seq(Items) /\ Ran(<<x>>) = {x} /\ Ordered(<<x>>)
<1>1. <<>> \in Seq(Items)
  OBVIOUS
<1> QED
  BY <1>1, Short

LEMMA FirstEvent ==
    ASSUME NEW r \in Roles, queue[r] \in Seq(Items), NEW type, NextEvent(r, type)
    PROVE  /\ Leads(queue[r], Next1(r)) /\ AnEvent(r) \in Ran(queue[r])
           /\ AnEvent(r).type = type /\ AnEvent(r).high /\ AnEvent(r) = queue[r][Next1(r)]
           /\ Next1(r) \in 1..Len(queue[r])
<1> DEFINE S == Events(queue[r])
           m == Next1(r)
<1>1. S \in SUBSET Nat /\ S # {} /\ S \subseteq DOMAIN queue[r]
  BY DEF NextEvent, Events
<1>2. \E n \in S : \A i \in S : n <= i
  <2>1. \E n \in S : \A i \in S : ~(<<i, n>> \in OpToRel(<, Nat))
    BY <1>1, NatLessThanWellFounded, WFMin
  <2>2. \A i, n \in Nat : i < n => <<i, n>> \in OpToRel(<, Nat)
    BY Zenon DEF OpToRel
  <2>3. \E n \in S : \A i \in S : ~(i < n)
    BY <1>1, <2>1, <2>2, Zenon
  <2> QED
    BY <1>1, <2>3
<1>3. m \in S /\ \A i \in S : m <= i
  BY <1>2 DEF Next1
<1> HIDE DEF m
<1>4. m \in DOMAIN queue[r] /\ queue[r][m].high
  BY <1>3 DEF Events
<1>5. \A i \in DOMAIN queue[r] : i # m /\ queue[r][i].high => m < i
  BY <1>3, <1>4 DEF Events
<1>6. Leads(queue[r], m)
  BY <1>4, <1>5 DEF Leads
<1>7. queue[r][m].type = type
  BY DEF NextEvent, m
<1> QED
  BY <1>4, <1>6, <1>7 DEF AnEvent, m, Ran

LEMMA FirstSource ==
    ASSUME NEW r \in Roles, queue[r] \in Seq(Items), NEW type, NextSource(r, type)
    PROVE  /\ Leads(queue[r], 1) /\ Head(queue[r]) \in Ran(queue[r])
           /\ Head(queue[r]).type = type /\ ~Head(queue[r]).high /\ Head(queue[r]) = queue[r][1]
           /\ 1 \in 1..Len(queue[r]) /\ Tail(queue[r]) = Base(queue[r], 1)
<1> DEFINE s == queue[r]
<1>1. s \in Seq(Items) /\ s # <<>>
  BY DEF NextSource
<1>2. 1 \in DOMAIN s /\ Head(s) = s[1] /\ Len(s) \in Nat /\ DOMAIN s = 1..Len(s)
  BY <1>1
<1>3. Head(s).type = type /\ ~Head(s).high
  BY DEF NextSource
<1>4. Leads(s, 1)
  BY <1>2 DEF Leads
<1>5. Tail(s) = RemoveAt(s, 1)
  <2>1. RemoveAt(s, 1) \in Seq(Items) /\ Len(RemoveAt(s, 1)) = Len(s) - 1
        /\ \A i \in 1..(Len(s) - 1) : RemoveAt(s, 1)[i] = IF i < 1 THEN s[i] ELSE s[i + 1]
    BY <1>1, <1>2, RemovedAt
  <2>2. Tail(s) \in Seq(Items) /\ Len(Tail(s)) = Len(s) - 1
        /\ \A i \in 1..(Len(s) - 1) : Tail(s)[i] = s[i + 1]
    BY <1>1
  <2>3. \A i \in 1..(Len(s) - 1) : RemoveAt(s, 1)[i] = Tail(s)[i]
    BY <2>1, <2>2
  <2> HIDE DEF s
  <2> DEFINE a == RemoveAt(s, 1)
             b == Tail(s)
  <2>4. a \in Seq(Items) /\ b \in Seq(Items) /\ Len(a) = Len(b) /\ \A i \in 1..Len(a) : a[i] = b[i]
    BY <2>1, <2>2, <2>3
  <2> HIDE DEF a, b
  <2>5. a = b
    BY <2>4, SeqEqual
  <2> QED
    BY <2>5 DEF a, b
<1> QED
  BY <1>2, <1>3, <1>4, <1>5 DEF Base, Ran

Queues == [Roles -> Seq(Items)]

LEMMA RoleFacts ==
    /\ Roles = {"relay", "broker"} /\ "relay" # "broker"
    /\ \A r \in Roles : Other(r) \in Roles /\ Other(r) # r /\ (r = "relay" \/ r = "broker")
    /\ Other("relay") = "broker" /\ Other("broker") = "relay"
BY DEF Roles, Other

LEMMA QueuedShape ==
    ASSUME NEW q \in Queues, NEW r \in Roles, NEW x \in Items
    PROVE  LET t == Queued(q, r, x)
           IN /\ t \in Queues
              /\ \A b \in Roles \ {r} : t[b] = q[b]
              /\ t[r] = q[r] \/ t[r] = q[r] \o <<x>>
              /\ ~x.high => t[r] = q[r] \o <<x>>
              /\ t # q => t[r] = q[r] \o <<x>>
              /\ t[r] = q[r] => t = q
<1>1. q[r] \in Seq(Items)
  BY DEF Queues
<1>2. q[r] \o <<x>> = Append(q[r], x) /\ Append(q[r], x) \in Seq(Items)
  BY <1>1
<1>3. CASE x.high /\ Full(q, r)
  BY <1>3 DEF Queued
<1>4. CASE ~(x.high /\ Full(q, r))
  <2>1. Queued(q, r, x) = [q EXCEPT ![r] = Append(@, x)]
    BY <1>4 DEF Queued
  <2>2. Append(q[r], x) # q[r]
    <3>1. Len(Append(q[r], x)) = Len(q[r]) + 1 /\ Len(q[r]) \in Nat
      BY <1>1
    <3> QED
      BY <3>1
  <2> QED
    BY <1>1, <1>2, <2>1, <2>2 DEF Queues
<1> QED
  BY <1>3, <1>4

ReplyItem(k, val, n) == Event("reply", call[k].conn, k, val, n)
DoneItem(k, val, n) == Source("done", call[k].conn, k, val, n)

Vals == {"none", "return", "error", "big"}

LEMMA ReplyItems ==
    ASSUME NEW k \in Calls, call[k].conn \in Conns, NEW val \in Vals, NEW n \in Nat,
           k \in Callbacks => n = 0
    PROVE  /\ ReplyItem(k, val, n) \in Items /\ DoneItem(k, val, n) \in Items /\ DoneItem(k, val, 0) \in Items
           /\ Before(ReplyItem(k, val, n), DoneItem(k, val, n))
BY DEF ReplyItem, DoneItem, Event, Source, Item, Items, Sound, Vals, Before, Stamped

\* What a reply that reaches process r adds to its queue.
Arrivals(w, r, k, val, n) ==
    {<<>>, <<ReplyItem(k, val, n)>>}
      \cup (IF k \in w[r] THEN {<<DoneItem(k, val, 0)>>, <<ReplyItem(k, val, n), DoneItem(k, val, n)>>} ELSE {})

Lengthened(s, t, w, r, k, val, n) == \E e \in Arrivals(w, r, k, val, n) : t = s \o e

LEMMA ArrivedShape ==
    ASSUME NEW q \in Queues, NEW r \in Roles, NEW w, NEW k \in Calls, call[k].conn \in Conns,
           NEW val \in Vals, NEW n \in Nat, k \in Callbacks => n = 0,
           NEW t, t = Arrived(q, w, r, k, val, n)
    PROVE  /\ t \in Queues
           /\ \A b \in Roles \ {r} : t[b] = q[b]
           /\ Lengthened(q[r], t[r], w, r, k, val, n)
<1> DEFINE x == ReplyItem(k, val, n)
           ev == IF r = "relay" /\ Callback(k) THEN q ELSE Queued(q, r, x)
           y == DoneItem(k, val, IF ev = q THEN 0 ELSE n)
<1>1. x \in Items /\ y \in Items /\ DoneItem(k, val, 0) \in Items /\ DoneItem(k, val, n) \in Items
  BY ReplyItems
<1>2. t = IF k \in w[r] THEN Queued(ev, r, y) ELSE ev
  BY DEF Arrived, ReplyItem, DoneItem
<1>3. q[r] \in Seq(Items)
  BY DEF Queues
<1>4. /\ ev \in Queues /\ \A b \in Roles \ {r} : ev[b] = q[b]
      /\ (ev = q /\ ev[r] = q[r] \o <<>>) \/ (ev # q /\ ev[r] = q[r] \o <<x>>)
  <2>1. CASE r = "relay" /\ Callback(k)
    BY <1>3, <2>1
  <2>2. CASE ~(r = "relay" /\ Callback(k))
    <3> HIDE DEF x
    <3>1. ev = Queued(q, r, x) /\ q[r] = q[r] \o <<>>
      BY <1>3, <2>2
    <3> QED
      BY SMTT(40), <1>1, <3>1, QueuedShape
  <2> QED
    BY <2>1, <2>2
<1>5. ~y.high
  BY DEF DoneItem, Source, Item
<1>8. y = DoneItem(k, val, IF ev = q THEN 0 ELSE n)
  OBVIOUS
<1> HIDE DEF ev, x, y
<1>6. CASE k \notin w[r]
  BY <1>2, <1>4, <1>6 DEF Lengthened, Arrivals, x
<1>7. CASE k \in w[r]
  <2>1. /\ t \in Queues /\ \A b \in Roles \ {r} : t[b] = ev[b]
        /\ t[r] = ev[r] \o <<y>>
    <3>1. t = Queued(ev, r, y) /\ ev \in Queues /\ y \in Items
      BY <1>1, <1>2, <1>4, <1>7
    <3>2. LET u == Queued(ev, r, y)
          IN u \in Queues /\ (\A b \in Roles \ {r} : u[b] = ev[b]) /\ u[r] = ev[r] \o <<y>>
      BY <1>5, <3>1, QueuedShape, Zenon
    <3> QED
      BY <3>1, <3>2
  <2>2. CASE ev = q
    <3>1. t[r] = q[r] \o <<DoneItem(k, val, 0)>>
      BY <1>8, <2>1, <2>2
    <3> QED
      BY <1>4, <1>7, <2>1, <3>1 DEF Lengthened, Arrivals
  <2>3. CASE ev # q
    <3>1. t[r] = (q[r] \o <<x>>) \o <<DoneItem(k, val, n)>>
      BY <1>4, <1>8, <2>1, <2>3
    <3>2. t[r] = q[r] \o <<x, DoneItem(k, val, n)>>
      BY SMTT(40), <1>1, <1>3, <3>1
    <3> QED
      BY <1>4, <1>7, <2>1, <3>2 DEF Lengthened, Arrivals, x
  <2> QED
    BY <2>2, <2>3
<1> QED
  BY <1>6, <1>7

-----------------------------------------------------------------------------
(* Steps of the queues.                                                     *)

\* q is the queues with element m of role a taken out, or all of them.
Popped(q, a, m) ==
    /\ q \in Queues /\ a \in Roles /\ m \in 0..Len(queue[a])
    /\ \A r \in Roles : q[r] = Base(queue[r], IF r = a THEN m ELSE 0)
\* A step takes out element m of role a and puts add[r] behind the queue of r.
Moved(a, m, add) ==
    /\ a \in Roles /\ m \in 0..Len(queue[a]) /\ add \in Queues /\ queue' \in Queues
    /\ \A r \in Roles : queue'[r] = Derived(queue[r], IF r = a THEN m ELSE 0, add[r])
Adds(b, e) == [r \in Roles |-> IF r = b THEN e ELSE <<>>]
Rest(a, m, r) == Others(queue[r], IF r = a THEN m ELSE 0)

LEMMA EventPopped ==
    ASSUME BridgeTypes, NEW r \in Roles, NEW type, NextEvent(r, type)
    PROVE  Popped(AfterEvent(r), r, Next1(r))
<1>1. queue \in Queues /\ queue[r] \in Seq(Items)
  BY DEF BridgeTypes, Queues
<1>2. Next1(r) \in 1..Len(queue[r]) /\ Len(queue[r]) \in Nat
  BY <1>1, FirstEvent
<1>3. RemoveAt(queue[r], Next1(r)) \in Seq(Items)
  BY <1>1, <1>2, RemovedAt
<1>4. Next1(r) # 0 /\ Next1(r) \in 0..Len(queue[r])
  BY <1>2
<1> QED
  BY <1>1, <1>3, <1>4 DEF Popped, AfterEvent, Base, Queues

LEMMA SourcePopped ==
    ASSUME BridgeTypes, NEW r \in Roles, NEW type, NextSource(r, type)
    PROVE  Popped(AfterSource(r), r, 1)
<1>1. queue \in Queues /\ queue[r] \in Seq(Items)
  BY DEF BridgeTypes, Queues
<1>2. 1 \in 0..Len(queue[r]) /\ Tail(queue[r]) = Base(queue[r], 1)
  BY <1>1, FirstSource
<1>3. Base(queue[r], 1) \in Seq(Items)
  BY <1>1, <1>2, BaseSeq
<1>4. \A b \in Roles : Base(queue[b], 0) = queue[b]
  BY DEF Base
<1> QED
  BY <1>1, <1>2, <1>3, <1>4 DEF Popped, AfterSource, Queues

LEMMA NotPopped ==
    ASSUME BridgeTypes, NEW r \in Roles
    PROVE  Popped(queue, r, 0)
<1>1. queue \in Queues /\ Len(queue[r]) \in Nat
  BY DEF BridgeTypes, Queues
<1> QED
  BY <1>1 DEF Popped, Base

LEMMA AddsSeq ==
    ASSUME NEW b \in Roles, NEW e \in Seq(Items)
    PROVE  /\ Adds(b, e) \in Queues /\ Adds(b, e)[b] = e
           /\ \A r \in Roles : r # b => Adds(b, e)[r] = <<>>
BY DEF Adds, Queues

LEMMA AddsRan ==
    ASSUME NEW b \in Roles, NEW e \in Seq(Items), NEW r \in Roles, NEW y \in Ran(Adds(b, e)[r])
    PROVE  r = b /\ y \in Ran(e)
<1>1. Ran(<<>>) = {}
  BY DEF Ran
<1> QED
  BY <1>1, AddsSeq

\* A step that puts e behind one queue.
LEMMA PutMoved ==
    ASSUME NEW q, NEW a, NEW m, Popped(q, a, m), NEW b \in Roles, NEW e \in Seq(Items),
           queue' \in Queues, queue'[b] = q[b] \o e, \A r \in Roles \ {b} : queue'[r] = q[r]
    PROVE  Moved(a, m, Adds(b, e))
<1>1. \A r \in Roles : q[r] \in Seq(Items)
  BY DEF Popped, Queues
<1>2. \A r \in Roles : queue'[r] = q[r] \o Adds(b, e)[r]
  <2> TAKE r \in Roles
  <2>1. CASE r = b
    BY <2>1, AddsSeq
  <2>2. CASE r # b
    <3>1. q[r] \o <<>> = q[r]
      BY <1>1
    <3> QED
      BY <2>2, <3>1, AddsSeq
  <2> QED
    BY <2>1, <2>2
<1>3. Adds(b, e) \in Queues
  BY AddsSeq
<1> QED
  BY <1>2, <1>3 DEF Moved, Popped, Derived

LEMMA KeptMoved ==
    ASSUME NEW q, NEW a, NEW m, Popped(q, a, m), NEW b \in Roles, queue' = q
    PROVE  Moved(a, m, Adds(b, <<>>)) /\ <<>> \in Seq(Items) /\ Ran(<<>>) = {}
<1>1. q \in Queues /\ q[b] \in Seq(Items)
  BY DEF Popped, Queues
<1>2. q[b] = q[b] \o <<>> /\ <<>> \in Seq(Items) /\ Ran(<<>>) = {}
  BY <1>1 DEF Ran
<1> QED
  BY <1>1, <1>2, PutMoved

\* A step that queues one item, if there is room for it.
LEMMA QueuedMoved ==
    ASSUME NEW q, NEW a, NEW m, Popped(q, a, m), NEW b \in Roles, NEW x \in Items,
           queue' = Queued(q, b, x)
    PROVE  \E e \in Seq(Items) : Ran(e) \subseteq {x} /\ Ordered(e) /\ Moved(a, m, Adds(b, e))
<1>1. q \in Queues /\ q[b] \in Seq(Items)
  BY DEF Popped, Queues
<1>2. /\ queue' \in Queues /\ \A r \in Roles \ {b} : queue'[r] = q[r]
      /\ queue'[b] = q[b] \/ queue'[b] = q[b] \o <<x>>
  BY ZenonT(60), <1>1, QueuedShape
<1>3. /\ q[b] = q[b] \o <<>> /\ <<>> \in Seq(Items) /\ <<x>> \in Seq(Items)
      /\ Ran(<<>>) = {} /\ Ran(<<x>>) = {x} /\ Ordered(<<>>) /\ Ordered(<<x>>)
  BY <1>1, Short
<1>4. \E e \in {<<>>, <<x>>} : queue'[b] = q[b] \o e
  BY <1>2, <1>3
<1>5. \E e \in {<<>>, <<x>>} : Moved(a, m, Adds(b, e))
  BY <1>2, <1>3, <1>4, PutMoved
<1> QED
  BY <1>3, <1>5

\* What is in the queues after a step.
LEMMA MovedFacts ==
    ASSUME BridgeTypes, NEW a, NEW m, NEW add, Moved(a, m, add)
    PROVE  \A r \in Roles :
             /\ Ran(queue'[r]) = Rest(a, m, r) \cup Ran(add[r])
             /\ Rest(a, m, r) \subseteq Ran(queue[r])
             /\ Ran(queue[r]) \subseteq Rest(a, m, r) \cup {queue[a][m]}
             /\ m = 0 \/ r # a => Rest(a, m, r) = Ran(queue[r])
             /\ Ordered(queue[r]) /\ Ordered(add[r])
                  /\ (\A x \in Rest(a, m, r), y \in Ran(add[r]) : Before(x, y)) => Ordered(queue'[r])
<1> TAKE r \in Roles
<1> DEFINE n == IF r = a THEN m ELSE 0
           s == queue[r]
<1>1. s \in Seq(Items) /\ add[r] \in Seq(Items) /\ n \in 0..Len(s)
  BY DEF BridgeTypes, Moved, Queues
<1>2. queue'[r] = Derived(s, n, add[r])
  BY DEF Moved
<1>3. Rest(a, m, r) = Others(s, n)
  BY DEF Rest
<1>4. Others(s, n) \subseteq Ran(s) /\ Ran(s) \subseteq Others(s, n) \cup {s[n]}
  BY DEF Others, Ran
<1>5. n = 0 => Others(s, n) = Ran(s)
  <2>1. \A i \in DOMAIN s : i # 0
    BY <1>1
  <2> QED
    BY <2>1 DEF Others, Ran
<1>6. r # a => n = 0
  OBVIOUS
<1>7. r = a => n = m
  OBVIOUS
<1>8. LET t == Derived(s, n, add[r])
      IN /\ Ran(t) = Others(s, n) \cup Ran(add[r])
         /\ Ordered(s) /\ Ordered(add[r]) /\ (\A x \in Others(s, n), y \in Ran(add[r]) : Before(x, y)) => Ordered(t)
  <2> HIDE DEF n, s
  <2> QED
    BY <1>1, DerivedSeq
<1>9. m = 0 => n = 0
  OBVIOUS
<1> HIDE DEF n
<1> QED
  BY <1>2, <1>3, <1>4, <1>5, <1>6, <1>7, <1>8, <1>9

-----------------------------------------------------------------------------
(* Preservation of the invariant's parts.                                   *)

\* The parts of InOrder.
Sent1 == \A r \in Roles : \A x \in Ran(queue[r]) : Stamped(x) => x.stamp <= Len(sent)
Sent2 == \A g \in Guests : \A h \in Ran(got[g]) : h.stamp <= Len(sent)
Newer == \A r \in Roles : \A x \in Ran(queue[r]) : Stamped(x) /\ x.high => Older(x.conn, x.stamp)
Across ==
    \A x \in Ran(queue["relay"]), y \in Ran(queue["broker"]) :
        Stamped(x) /\ Stamped(y) /\ y.high /\ x.conn = y.conn => x.stamp < y.stamp
Announced(r, x) ==
    \/ \E y \in Ran(queue[r]) : Announces(y, x)
    \/ conn[x.conn][r] = "closed" /\ (r = "relay" => Older(x.conn, x.stamp))
Ends == \A r \in Roles : \A x \in Ran(queue[r]) :
           Stamped(x) /\ x.type = "done" /\ Undone(r, x.id) => Announced(r, x)

LEMMA OrderParts ==
    InOrder <=> (\A r \in Roles : Ordered(queue[r])) /\ Sent1 /\ Sent2 /\ Newer /\ Across /\ Ends
BY DEF InOrder, Sent1, Sent2, Newer, Across, Ends, Announced

LEMMA OrderStep ==
    ASSUME BridgeTypes, Itemised, InOrder, NEW a, NEW m, NEW add, Moved(a, m, add),
           Len(sent) <= Len(sent'), Len(sent) \in Nat, Len(sent') \in Nat, Sent2',
           \A r \in Roles : \A x \in Rest(a, m, r) :
              /\ Stamped(x) /\ (x.high \/ (r = "relay" /\ x.type = "done" /\ Undone(r, x.id)' /\ conn'[x.conn][r] = "closed"))
              /\ Older(x.conn, x.stamp)
              => Older(x.conn, x.stamp)',
           \A r \in Roles : Ordered(add[r]),
           \A r \in Roles : \A x \in Rest(a, m, r), y \in Ran(add[r]) : Before(x, y),
           \A r \in Roles : \A y \in Ran(add[r]) :
              Stamped(y) => y.stamp <= Len(sent') /\ (y.high => Older(y.conn, y.stamp)'),
           \A x \in Ran(add["relay"]), y \in Ran(queue'["broker"]) :
              Stamped(x) /\ Stamped(y) /\ y.high /\ x.conn = y.conn => x.stamp < y.stamp,
           \A x \in Ran(queue["relay"]), y \in Ran(add["broker"]) :
              Stamped(x) /\ Stamped(y) /\ y.high /\ x.conn = y.conn => x.stamp < y.stamp,
           \A r \in Roles : \A x \in Ran(add[r]) :
              Stamped(x) /\ x.type = "done" /\ Undone(r, x.id)' => \E y \in Ran(add[r]) : Announces(y, x),
           \A r \in Roles : \A x \in Rest(a, m, r) :
              Stamped(x) /\ x.type = "done" /\ Undone(r, x.id)' => Undone(r, x.id),
           \A c \in Conns : \A r \in Roles : conn[c][r] = "closed" => conn'[c][r] = "closed",
           \A y \in Ran(queue[a]) \ Rest(a, m, a) :
              y.type = "reply" /\ y.stamp > 0 /\ Undone(a, y.id)' => conn'[y.conn][a] = "closed" /\ got' = got
    PROVE  InOrder'
<1>1. \A r \in Roles :
             /\ Ran(queue'[r]) = Rest(a, m, r) \cup Ran(add[r])
             /\ Rest(a, m, r) \subseteq Ran(queue[r])
             /\ Ran(queue[r]) \subseteq Rest(a, m, r) \cup {queue[a][m]}
             /\ m = 0 \/ r # a => Rest(a, m, r) = Ran(queue[r])
             /\ Ordered(queue[r]) /\ Ordered(add[r])
                  /\ (\A x \in Rest(a, m, r), y \in Ran(add[r]) : Before(x, y)) => Ordered(queue'[r])
  BY MovedFacts
<1>2. (\A r \in Roles : Ordered(queue[r])) /\ Sent1 /\ Sent2 /\ Newer /\ Across /\ Ends
  BY OrderParts
<1>3. \A r \in Roles : \A x \in Ran(queue[r]) : x \in Items
  BY DEF BridgeTypes, Ran
<1>10. \A x \in Items : x.stamp \in Nat
  BY DEF Items
<1>11. \A r \in Roles : add[r] \in Seq(Items)
  BY DEF Moved, Queues
<1>12. \A r \in Roles : \A x \in Ran(add[r]) : x \in Items
  BY <1>11 DEF Ran
<1>4. (\A r \in Roles : Ordered(queue[r]))'
  BY <1>1, <1>2
<1>5. Sent1'
  <2> SUFFICES ASSUME NEW r \in Roles, NEW x \in Rest(a, m, r) \cup Ran(add[r]), Stamped(x)
               PROVE  x.stamp <= Len(sent')
    BY <1>1 DEF Sent1
  <2>1. CASE x \in Rest(a, m, r)
    <3>1. x.stamp <= Len(sent) /\ x.stamp \in Nat
      BY <1>1, <1>2, <1>3, <1>10, <2>1 DEF Sent1
    <3> QED
      BY <3>1
  <2> QED
    BY <2>1
<1>7. Newer'
  BY <1>1, <1>2 DEF Newer
<1>8. Across'
  <2> SUFFICES ASSUME NEW x \in Ran(queue'["relay"]), NEW y \in Ran(queue'["broker"]),
                      Stamped(x), Stamped(y), y.high, x.conn = y.conn
               PROVE  x.stamp < y.stamp
    BY DEF Across
  <2>1. CASE x \in Ran(add["relay"])
    BY <2>1
  <2>2. CASE x \in Ran(queue["relay"]) /\ y \in Ran(add["broker"])
    BY <2>2
  <2>3. CASE x \in Ran(queue["relay"]) /\ y \in Ran(queue["broker"])
    BY <1>2, <2>3 DEF Across
  <2> QED
    BY <1>1, <2>1, <2>2, <2>3, RoleFacts
<1>9. Ends'
  <2> SUFFICES ASSUME NEW r \in Roles, NEW x \in Ran(queue'[r]),
                      Stamped(x), x.type = "done", Undone(r, x.id)'
               PROVE  Announced(r, x)'
    BY DEF Ends
  <2>1. CASE x \in Ran(add[r])
    <3>1. PICK y \in Ran(add[r]) : Announces(y, x)
      BY <2>1
    <3> QED
      BY <1>1, <3>1 DEF Announced
  <2>2. CASE x \in Rest(a, m, r)
    <3>1. x \in Ran(queue[r]) /\ Undone(r, x.id) /\ x \in Items
      BY <1>1, <1>3, <2>2
    <3>2. Announced(r, x)
      BY <1>2, <3>1 DEF Ends
    <3>6. x.stamp > 0
      BY DEF Stamped
    <3>7. x.id \in Calls /\ call[x.id].conn # None /\ call[x.id].conn = x.conn
      BY <3>1, <3>6 DEF Itemised, Items, Sound
    <3>8. x.conn \in Conns
      BY <3>7 DEF BridgeTypes
    <3>3. CASE conn[x.conn][r] = "closed" /\ (r = "relay" => Older(x.conn, x.stamp))
      <4>1. conn'[x.conn][r] = "closed"
        BY <3>3, <3>8
      <4>2. r = "relay" => Older(x.conn, x.stamp)'
        BY <2>2, <3>3, <4>1
      <4> QED
        BY <4>1, <4>2 DEF Announced
    <3>4. ASSUME NEW y \in Ran(queue[r]), Announces(y, x)
          PROVE  Announced(r, x)'
      <4>1. CASE y \in Rest(a, m, r)
        BY <1>1, <3>4, <4>1 DEF Announced
      <4>2. CASE r = a /\ y \in Ran(queue[a]) \ Rest(a, m, a)
        <5>1. y.type = "reply" /\ y.id = x.id /\ y.stamp = x.stamp /\ y \in Items
          BY <1>3, <3>4 DEF Announces
        <5>2. y.conn = call[y.id].conn
          BY <3>4, <5>1 DEF Itemised
        <5>3. y.conn = x.conn
          BY <3>7, <5>1, <5>2
        <5>4. conn'[x.conn][r] = "closed" /\ got' = got
          <6>1. y.type = "reply" /\ y.stamp > 0 /\ Undone(a, y.id)' => conn'[y.conn][a] = "closed" /\ got' = got
            BY <4>2
          <6>2. Undone(a, y.id)'
            BY <4>2, <5>1 DEF Undone
          <6> QED
            BY <3>6, <4>2, <5>1, <5>3, <6>1, <6>2
        <5>5. Stamped(y) /\ y.high
          BY <3>6, <5>1 DEF Stamped, Items, Sound
        <5>6. Older(x.conn, x.stamp)
          BY <1>2, <5>1, <5>3, <5>5 DEF Newer
        <5>7. Older(x.conn, x.stamp)'
          BY <5>4, <5>6 DEF Older
        <5> QED
          BY <5>4, <5>7 DEF Announced
      <4> QED
        BY <1>1, <4>1, <4>2
    <3> QED
      BY <3>2, <3>3, <3>4 DEF Announced
  <2> QED
    BY <1>1, <2>1, <2>2
<1>13. (InOrder <=> (\A r \in Roles : Ordered(queue[r])) /\ Sent1 /\ Sent2 /\ Newer /\ Across /\ Ends)'
  BY OrderParts, PTL
<1> QED
  BY <1>4, <1>5, <1>7, <1>8, <1>9, <1>13

\* Tokens: the items that stand for one call on its way.
Token(x) == x.type \in {"guest", "call", "callback"}

\* A step that sends and receives nothing of the service.
LEMMA OrderQuiet ==
    ASSUME BridgeTypes, Itemised, InOrder, NEW a, NEW m, NEW add, Moved(a, m, add),
           sent' = sent, got' = got,
           \A r \in Roles : Ordered(add[r]),
           \A r \in Roles : \A y \in Ran(add[r]) : ~Stamped(y),
           \A r \in Roles : \A x \in Rest(a, m, r), y \in Ran(add[r]) :
              Token(y) => x.type # y.type \/ x.id # y.id,
           \A r \in Roles : \A x \in Rest(a, m, r) :
              Stamped(x) /\ x.type = "done" /\ Undone(r, x.id)' => Undone(r, x.id),
           \A c \in Conns : \A r \in Roles : conn[c][r] = "closed" => conn'[c][r] = "closed",
           \A y \in Ran(queue[a]) \ Rest(a, m, a) :
              y.type = "reply" /\ y.stamp > 0 /\ Undone(a, y.id)' => conn'[y.conn][a] = "closed"
    PROVE  InOrder'
<1>1. Len(sent) \in Nat /\ Len(sent') = Len(sent)
  BY DEF BridgeTypes
<1>2. Sent2 /\ Sent2'
  BY <1>1, OrderParts DEF Sent2
<1>3. \A r \in Roles : \A x \in Rest(a, m, r), y \in Ran(add[r]) : Before(x, y)
  BY DEF Before, Token
<1>4. ASSUME NEW c, NEW n, Older(c, n) PROVE Older(c, n)'
  BY <1>4 DEF Older
<1> QED
  BY <1>1, <1>2, <1>3, <1>4, OrderStep, RoleFacts

\* A step leaves call j alone, or takes it off.
Spared(j) ==
    /\ call'[j] = call[j] /\ answers'[j] = answers[j]
    /\ j \in inbox' => j \in inbox
    /\ \A r \in Roles : j \in waiting'[r] => j \in waiting[r]
    /\ \A r \in Roles : Pends(r, j)' => Pends(r, j)
    /\ \A r \in Roles : Undone(r, j)' => Undone(r, j)

CallOk(k) ==
    /\ call[k].guest = None => call[k].conn = None /\ answers[k] = 0
    /\ k \in Requests => call[k].guest # Observer
    /\ call[k].conn # None => Settled(call[k].conn)
    /\ k \in inbox \/ (\E r \in Roles : k \in waiting[r] \/ Pends(r, k)) => call[k].conn # None
    /\ k \in Requests /\ Undone("relay", k) => answers[k] = 0
    /\ k \in Callbacks /\ Undone("broker", k) => answers[k] = 0
OpeningOk == opening # None /\ opening.call # None => Unsent(opening.call)

LEMMA CallParts ==
    Placed /\ Owed <=> (\A k \in Calls : CallOk(k)) /\ (\A c \in agents : Settled(c)) /\ OpeningOk
BY DEF Placed, Owed, CallOk, OpeningOk, Calls

LEMMA CallsStep ==
    ASSUME BridgeTypes, Placed, Owed, NEW K, \A j \in Calls \ K : Spared(j),
           \A k \in Calls \cap K : CallOk(k)',
           \A c \in Conns : Settled(c) => Settled(c)',
           \A c \in agents' : Settled(c)',
           \/ opening' = opening /\ \A k \in K : opening = None \/ opening.call # k
           \/ OpeningOk'
    PROVE  Placed' /\ Owed'
<1>1. (\A k \in Calls : CallOk(k)) /\ OpeningOk
  BY CallParts
<1>2. ASSUME NEW k \in Calls \ K
      PROVE  CallOk(k)'
  <2>1. Spared(k) /\ CallOk(k) /\ k \in Calls
    BY <1>1, <1>2
  <2>2. call[k].conn # None => call[k].conn \in Conns
    BY <2>1 DEF BridgeTypes
  <2>3. call'[k] = call[k] /\ answers'[k] = answers[k]
    BY <2>1 DEF Spared
  <2>4. call[k].conn # None => Settled(call[k].conn)'
    <3> SUFFICES ASSUME call[k].conn # None PROVE Settled(call[k].conn)'
      OBVIOUS
    <3>1. PICK c \in Conns : c = call[k].conn /\ Settled(c)
      BY <2>1, <2>2 DEF CallOk
    <3>2. Settled(c)'
      BY <3>1
    <3> QED
      BY <2>3, <3>1, <3>2 DEF Settled
  <2>5. k \in inbox' \/ (\E r \in Roles : k \in waiting'[r] \/ Pends(r, k)') => call[k].conn # None
    BY <2>1 DEF Spared, CallOk
  <2>6. /\ k \in Requests /\ Undone("relay", k)' => answers[k] = 0
        /\ k \in Callbacks /\ Undone("broker", k)' => answers[k] = 0
    BY <2>1 DEF Spared, CallOk, Roles
  <2>7. call[k].guest = None => call[k].conn = None /\ answers[k] = 0
    BY <2>1 DEF CallOk
  <2>8. k \in Requests => call[k].guest # Observer
    BY <2>1 DEF CallOk
  <2> QED
    BY <2>3, <2>4, <2>5, <2>6, <2>7, <2>8 DEF CallOk
<1>3. OpeningOk'
  <2>1. CASE opening' = opening /\ \A k \in K : opening = None \/ opening.call # k
    <3> SUFFICES ASSUME opening # None, opening.call # None PROVE Unsent(opening.call)'
      BY <2>1 DEF OpeningOk
    <3>1. opening.call \in Calls /\ opening.call \notin K
      BY <2>1 DEF BridgeTypes, Calls
    <3>2. PICK k \in Calls \ K : k = opening.call /\ Unsent(k)
      BY <1>1, <3>1 DEF OpeningOk
    <3>3. Spared(k)
      BY <3>2
    <3> QED
      BY <2>1, <3>2, <3>3 DEF Unsent, Spared
  <2> QED
    BY <2>1
<1>4. (\A k \in Calls : CallOk(k))'
  BY <1>2
<1>5. (Placed /\ Owed <=> (\A k \in Calls : CallOk(k)) /\ (\A c \in agents : Settled(c)) /\ OpeningOk)'
  BY CallParts, PTL
<1> QED
  BY <1>3, <1>4, <1>5

ItemOk(r, x) ==
    /\ x.type \in {"guest", "left", "changed"} => r = "relay"
    /\ x.type \in {"call", "open", "owner"} => r = "broker"
    /\ x.type = "guest" => Unsent(x.id) /\ ~(opening # None /\ opening.call = x.id)
    /\ x.type \in {"call", "callback", "reply"} => call[x.id].conn = x.conn
    /\ x.type = "done" => call[x.id].conn # None /\ (x.stamp > 0 => call[x.id].conn = x.conn)
    /\ x.type = "call" =>
         /\ x.id \notin inbox /\ x.id \notin waiting["broker"] /\ ~Pends("broker", x.id)
         /\ \A y \in Ran(queue["broker"]) : y.type \in {"reply", "done"} => y.id # x.id
    /\ x.type = "callback" /\ r = "broker" =>
         /\ answers[x.id] = 0 /\ ~Pends("broker", x.id)
         /\ \A y \in Ran(queue["relay"]) : y.type = "callback" => y.id # x.id

LEMMA ItemParts ==
    Itemised <=> \A r \in Roles : \A x \in Ran(queue[r]) : ItemOk(r, x)
BY DEF Itemised, ItemOk

LEMMA ItemsStep ==
    ASSUME BridgeTypes, Itemised, NEW a, NEW m, NEW add, Moved(a, m, add),
           NEW K, \A j \in Calls \ K : Spared(j),
           \A j \in Calls \ K : opening' # None /\ opening'.call = j => opening # None /\ opening.call = j,
           \A k \in Calls \cap K : call[k].conn # None => call'[k].conn = call[k].conn,
           \A r \in Roles : \A x \in Rest(a, m, r) : Token(x) /\ x.id \in K => ItemOk(r, x)',
           \A r \in Roles : \A y \in Ran(add[r]) : ItemOk(r, y)',
           \A y \in Ran(add["broker"]) :
              y.type \in {"reply", "done"} => y.id \in Callbacks \cup inbox \cup waiting["broker"] \cup K,
           \A y \in Ran(add["relay"]) : y.type = "callback" => y.id \in K
    PROVE  Itemised'
<1>1. \A r \in Roles : Ran(queue'[r]) = Rest(a, m, r) \cup Ran(add[r]) /\ Rest(a, m, r) \subseteq Ran(queue[r])
  BY MovedFacts
<1>2. \A r \in Roles : \A x \in Ran(queue[r]) : x \in Items /\ ItemOk(r, x)
  BY ItemParts DEF BridgeTypes, Ran
<1>3. ASSUME NEW r \in Roles, NEW x \in Rest(a, m, r), ~(Token(x) /\ x.id \in K)
      PROVE  ItemOk(r, x)'
  <2>1. x \in Items /\ ItemOk(r, x) /\ Sound(x)
    BY <1>1, <1>2, <1>3 DEF Items
  <2>2. \A k \in Calls : call[k].conn # None => call'[k].conn = call[k].conn
    BY DEF Spared
  <2>3. \A k \in Calls : call[k].conn # None => call'[k].conn # None
    BY <2>2
  <2>4. x.type \in {"call", "callback", "reply", "done"} => x.id \in Calls
    BY <2>1 DEF Sound, Calls
  <2>5. x.type \in {"call", "callback", "reply"} => call[x.id].conn = x.conn /\ call[x.id].conn # None
    BY <2>1, ConnAssumption DEF ItemOk, Sound
  <2>6. x.type \in {"call", "callback", "reply"} => call'[x.id].conn = x.conn
    BY <2>2, <2>4, <2>5
  <2>7. x.type = "done" => call'[x.id].conn # None /\ (x.stamp > 0 => call'[x.id].conn = x.conn)
    BY <2>1, <2>2, <2>4 DEF ItemOk
  <2>8. x.type = "guest" => Unsent(x.id)' /\ ~(opening' # None /\ opening'.call = x.id)
    <3> SUFFICES ASSUME x.type = "guest" PROVE Unsent(x.id)' /\ ~(opening' # None /\ opening'.call = x.id)
      OBVIOUS
    <3>1. x.id \in Calls \ K
      BY <1>3, <2>1 DEF Token, Sound, Calls
    <3>2. Spared(x.id) /\ Unsent(x.id) /\ ~(opening # None /\ opening.call = x.id)
      BY <2>1, <3>1 DEF ItemOk
    <3> QED
      BY <3>1, <3>2 DEF Spared, Unsent
  <2>9. x.type = "call" =>
         /\ x.id \notin inbox' /\ x.id \notin waiting'["broker"] /\ ~Pends("broker", x.id)'
         /\ \A y \in Ran(queue'["broker"]) : y.type \in {"reply", "done"} => y.id # x.id
    <3> SUFFICES ASSUME x.type = "call"
                 PROVE  /\ x.id \notin inbox' /\ x.id \notin waiting'["broker"] /\ ~Pends("broker", x.id)'
                        /\ \A y \in Ran(queue'["broker"]) : y.type \in {"reply", "done"} => y.id # x.id
      OBVIOUS
    <3>1. x.id \in Requests \ K /\ x.id \in Calls \ K /\ x.id \notin Callbacks
      BY <1>3, <2>1, CallAssumption DEF Token, Sound, Calls
    <3>2. Spared(x.id)
      BY <3>1
    <3>3. x.id \notin inbox /\ x.id \notin waiting["broker"] /\ ~Pends("broker", x.id)
          /\ \A y \in Ran(queue["broker"]) : y.type \in {"reply", "done"} => y.id # x.id
      BY <2>1 DEF ItemOk
    <3>4. x.id \notin inbox' /\ x.id \notin waiting'["broker"] /\ ~Pends("broker", x.id)'
      BY <3>2, <3>3 DEF Spared, Roles
    <3>5. \A y \in Ran(add["broker"]) : y.type \in {"reply", "done"} => y.id # x.id
      BY <3>1, <3>3
    <3> QED
      BY <1>1, <3>3, <3>4, <3>5, RoleFacts
  <2>10. x.type = "callback" /\ r = "broker" =>
         /\ answers'[x.id] = 0 /\ ~Pends("broker", x.id)'
         /\ \A y \in Ran(queue'["relay"]) : y.type = "callback" => y.id # x.id
    <3> SUFFICES ASSUME x.type = "callback", r = "broker"
                 PROVE  /\ answers'[x.id] = 0 /\ ~Pends("broker", x.id)'
                        /\ \A y \in Ran(queue'["relay"]) : y.type = "callback" => y.id # x.id
      OBVIOUS
    <3>1. x.id \in Calls \ K
      BY <1>3, <2>1 DEF Token, Sound, Calls
    <3>2. Spared(x.id)
      BY <3>1
    <3>3. answers[x.id] = 0 /\ ~Pends("broker", x.id)
          /\ \A y \in Ran(queue["relay"]) : y.type = "callback" => y.id # x.id
      BY <2>1 DEF ItemOk
    <3>4. answers'[x.id] = 0 /\ ~Pends("broker", x.id)'
      BY <3>2, <3>3 DEF Spared, Roles
    <3> QED
      BY <1>1, <3>1, <3>3, <3>4, RoleFacts
  <2>11. /\ x.type \in {"guest", "left", "changed"} => r = "relay"
         /\ x.type \in {"call", "open", "owner"} => r = "broker"
    BY <2>1 DEF ItemOk
  <2> QED
    BY <2>6, <2>7, <2>8, <2>9, <2>10, <2>11 DEF ItemOk
<1>4. (\A r \in Roles : \A x \in Ran(queue[r]) : ItemOk(r, x))'
  BY <1>1, <1>3
<1>5. (Itemised <=> \A r \in Roles : \A x \in Ran(queue[r]) : ItemOk(r, x))'
  BY ItemParts, PTL
<1> QED
  BY <1>4, <1>5

\* No client changes at either end.
SameEnds ==
    \A c \in Conns : conn'[c].name = conn[c].name /\ conn'[c].relay = conn[c].relay
                     /\ conn'[c].broker = conn[c].broker

LEMMA ClientsKeep ==
    ASSUME BridgeTypes, Clients, NEW a, NEW m, NEW add, Moved(a, m, add), SameEnds,
           opening' = opening, present' = present,
           \A r \in Roles : \A y \in Ran(add[r]) : y.type = "closed" => y.conn \in Conns /\ conn[y.conn].name # None,
           a = "relay" => \A y \in Ran(queue[a]) \ Rest(a, m, a) : y.type # "left"
    PROVE  /\ Clients'
           /\ \A c \in Conns : Settled(c) => Settled(c)'
           /\ \A c \in Conns : \A r \in Roles : conn[c][r] = "closed" => conn'[c][r] = "closed"
<1>1. \A r \in Roles : Ran(queue'[r]) = Rest(a, m, r) \cup Ran(add[r])
                       /\ (r # a => Rest(a, m, r) = Ran(queue[r]))
  BY MovedFacts
<1>2. ASSUME NEW x \in Ran(queue["relay"]), x.type = "left"
      PROVE  x \in Ran(queue'["relay"])
  BY <1>1, <1>2, RoleFacts
<1>3. ASSUME NEW g, Noticed(g) PROVE Noticed(g)'
  BY <1>2, <1>3 DEF Noticed
<1>7. \A r \in Roles : \A x \in Ran(queue'[r]) : x.type = "closed" => conn'[x.conn].name # None
  <2> SUFFICES ASSUME NEW r \in Roles, NEW x \in Ran(queue'[r]), x.type = "closed" PROVE conn'[x.conn].name # None
    OBVIOUS
  <2>1. CASE x \in Ran(add[r])
    BY <2>1 DEF SameEnds
  <2>2. CASE x \in Ran(queue[r])
    <3>1. x \in Items /\ conn[x.conn].name # None
      BY SMTT(40), <2>2 DEF Clients, BridgeTypes, Ran
    <3>2. x.conn \in Conns
      BY <3>1 DEF Items, Sound
    <3> QED
      BY <3>1, <3>2 DEF SameEnds
  <2> QED
    BY <1>1, <2>1, <2>2, MovedFacts
<1>4. Clients'
  BY <1>3, <1>7 DEF Clients, SameEnds, Alive, Settled
<1>5. \A c \in Conns : Settled(c) => Settled(c)'
  BY DEF SameEnds, Settled
<1>6. \A c \in Conns : \A r \in Roles : conn[c][r] = "closed" => conn'[c][r] = "closed"
  BY DEF SameEnds, Roles
<1> QED
  BY <1>4, <1>5, <1>6

-----------------------------------------------------------------------------
(* Steps of the port.                                                       *)

PortStep == [Port!PortNext]_(Port!portVars)
AskedCalls == {k \in Calls : call[k].guest # None}

LEMMA PortQuiet ==
    ASSUME \A k \in Calls : call'[k].guest = call[k].guest, answers' = answers, got' = got,
           Len(sent') = Len(sent)
    PROVE  PortStep
<1>1. AskedCalls' = AskedCalls
  BY DEF AskedCalls
<1> QED
  BY <1>1 DEF PortStep, Port!portVars, AskedCalls

LEMMA PortSends ==
    ASSUME call' = call, answers' = answers, got' = got, Len(sent') = Len(sent) + 1
    PROVE  PortStep
BY DEF PortStep, Port!PortNext, Port!portVars

\* An answer, made once, for a call that is not answered.
LEMMA PortSettles ==
    ASSUME NEW k \in Calls, \A j \in Calls : call'[j].guest = call[j].guest,
           call[k].guest # None, answers[k] = 0, answers' = [answers EXCEPT ![k] = @ + 1],
           got' = got, sent' = sent
    PROVE  PortStep
<1>1. AskedCalls' = AskedCalls /\ k \in AskedCalls
  BY DEF AskedCalls
<1>2. answers' = [answers EXCEPT ![k] = 1]
  OBVIOUS
<1>3. Port!Settle(k)
  BY <1>1, <1>2 DEF Port!Settle, Port!Open, AskedCalls
<1> QED
  BY <1>1, <1>3 DEF PortStep, Port!PortNext, AskedCalls

LEMMA PortAsks ==
    ASSUME NEW k \in Calls, \A j \in Calls \ {k} : call'[j].guest = call[j].guest,
           call'[k].guest # None, answers[k] = 0,
           answers' = answers \/ answers' = [answers EXCEPT ![k] = @ + 1],
           got' = got, sent' = sent
    PROVE  PortStep
<1>1. AskedCalls' = AskedCalls \cup {k}
  BY DEF AskedCalls
<1>2. Port!Ask(k)
  BY <1>1 DEF Port!Ask, AskedCalls
<1>3. answers' = answers \/ answers' = [answers EXCEPT ![k] = 1]
  OBVIOUS
<1> QED
  BY <1>2, <1>3 DEF PortStep, Port!PortNext

-----------------------------------------------------------------------------
(* Quiet steps: no call is made, forwarded or answered.                     *)

ConnRecord == [name : Guests \cup {Observer, None}, relay : {"none", "opening", "open", "closed"},
               broker : {"none", "peer", "open", "closed"}, watch : BOOLEAN, owner : Nat, agent : BOOLEAN]
EnvTypes ==
    /\ conn \in [Conns -> ConnRecord]
    /\ opening = None \/ opening \in [conn : Conns, call : Requests \cup {None}]
    /\ names \subseteq Guests /\ present \subseteq Guests
    /\ owner \in Nat /\ started \in Nat /\ agents \subseteq Conns /\ budget \in Budget

LEMMA TypeParts ==
    BridgeTypes <=>
      /\ EnvTypes /\ queue \in Queues
      /\ call \in [Calls -> [guest : Guests \cup {Observer, None}, conn : Conns \cup {None},
                             kind : Kinds \cup {"callback"}]]
      /\ pending \in [Roles -> SUBSET Entries] /\ waiting \in [Roles -> SUBSET Calls]
      /\ inbox \subseteq Calls /\ sent \in Seq(SUBSET Conns)
      /\ answers \in [Calls -> Nat] /\ got \in [Guests -> Seq(Heard)]
BY DEF BridgeTypes, EnvTypes, Queues, ConnRecord

\* An item that a quiet step may add to the queue of r.
QuietItem(r, y) ==
    /\ ~Stamped(y) /\ ~Token(y)
    /\ y.type \in {"left", "changed"} => r = "relay"
    /\ y.type \in {"open", "owner"} => r = "broker"
    /\ y.type = "closed" => conn[y.conn].name # None
    /\ y.type = "reply" => call[y.id].conn = y.conn
    /\ y.type = "done" => call[y.id].conn # None
    /\ y.type \in {"reply", "done"} /\ r = "broker" => y.id \in Callbacks \cup inbox \cup waiting["broker"]

LEMMA QuietOrdered ==
    ASSUME NEW e \in Seq(Items), \A x \in Ran(e) : ~Stamped(x) /\ ~Token(x)
    PROVE  Ordered(e)
<1>1. \A i \in DOMAIN e : e[i] \in Ran(e)
  BY DEF Ran
<1> QED
  BY <1>1 DEF Ordered, Before, Token

LEMMA QuietStep ==
    ASSUME IInv, NEW a, NEW m, NEW add, Moved(a, m, add), EnvTypes', Clients',
           call' = call, answers' = answers, got' = got, sent' = sent,
           inbox' \subseteq inbox, waiting' \in [Roles -> SUBSET Calls],
           pending' \in [Roles -> SUBSET Entries],
           \A r \in Roles : waiting'[r] \subseteq waiting[r] /\ pending'[r] \subseteq pending[r],
           opening' = opening \/ opening' = None \/ opening'.call = None,
           \A c \in Conns : Settled(c) => Settled(c)',
           \A c \in Conns : \A r \in Roles : conn[c][r] = "closed" => conn'[c][r] = "closed",
           \A c \in agents' : c \in agents,
           \A r \in Roles : \A y \in Ran(add[r]) : QuietItem(r, y),
           \A y \in Ran(queue[a]) \ Rest(a, m, a) :
              y.type = "reply" /\ y.stamp > 0 /\ Undone(a, y.id)' => conn'[y.conn][a] = "closed"
    PROVE  IInv' /\ PortStep
<1> USE DEF IInv
<1>1. BridgeTypes'
  <2>1. queue' \in Queues
    BY DEF Moved
  <2>2. (BridgeTypes <=>
      /\ EnvTypes /\ queue \in Queues
      /\ call \in [Calls -> [guest : Guests \cup {Observer, None}, conn : Conns \cup {None},
                             kind : Kinds \cup {"callback"}]]
      /\ pending \in [Roles -> SUBSET Entries] /\ waiting \in [Roles -> SUBSET Calls]
      /\ inbox \subseteq Calls /\ sent \in Seq(SUBSET Conns)
      /\ answers \in [Calls -> Nat] /\ got \in [Guests -> Seq(Heard)])'
    BY TypeParts, PTL
  <2>3. /\ call \in [Calls -> [guest : Guests \cup {Observer, None}, conn : Conns \cup {None},
                             kind : Kinds \cup {"callback"}]]
        /\ inbox \subseteq Calls /\ sent \in Seq(SUBSET Conns)
        /\ answers \in [Calls -> Nat] /\ got \in [Guests -> Seq(Heard)]
    BY DEF BridgeTypes
  <2> QED
    BY <2>1, <2>2, <2>3
<1>2. \A j \in Calls \ {} : Spared(j)
  BY DEF Spared, Pends, Undone
<1>3. Placed' /\ Owed'
  <2>1. \A c \in agents' : Settled(c)'
    BY DEF Placed, BridgeTypes
  <2>2. \/ opening' = opening /\ \A k \in {} : opening = None \/ opening.call # k
        \/ OpeningOk'
    BY DEF OpeningOk
  <2>3. \A k \in Calls \cap {} : CallOk(k)'
    OBVIOUS
  <2> QED
    BY <1>2, <2>1, <2>2, <2>3, CallsStep
<1>4. Itemised'
  <2> DEFINE K == {}
  <2>7. \A j \in Calls \ K : Spared(j)
    BY <1>2
  <2>1. \A j \in Calls \ K : opening' # None /\ opening'.call = j => opening # None /\ opening.call = j
    BY CallAssumption
  <2>2. \A k \in Calls \cap K : call[k].conn # None => call'[k].conn = call[k].conn
    OBVIOUS
  <2>3. \A r \in Roles : \A x \in Rest(a, m, r) : Token(x) /\ x.id \in K => ItemOk(r, x)'
    OBVIOUS
  <2>4. \A r \in Roles : \A y \in Ran(add[r]) : ItemOk(r, y)'
    <3> SUFFICES ASSUME NEW r \in Roles, NEW y \in Ran(add[r]) PROVE ItemOk(r, y)'
      OBVIOUS
    <3>1. QuietItem(r, y)
      OBVIOUS
    <3>2. y \in Items
      BY DEF Moved, Queues, Ran
    <3>3. y.type \notin {"guest", "call", "callback"}
      BY <3>1 DEF QuietItem, Token
    <3>4. y.type = "done" => ~(y.stamp > 0)
      BY <3>1 DEF QuietItem, Stamped
    <3> QED
      BY <3>1, <3>3, <3>4 DEF ItemOk, QuietItem
  <2>5. \A y \in Ran(add["broker"]) :
              y.type \in {"reply", "done"} => y.id \in Callbacks \cup inbox \cup waiting["broker"] \cup K
    BY RoleFacts DEF QuietItem
  <2>6. \A y \in Ran(add["relay"]) : y.type = "callback" => y.id \in K
    BY RoleFacts DEF QuietItem, Token
  <2> HIDE DEF K
  <2> QED
    BY <2>7, <2>1, <2>2, <2>3, <2>4, <2>5, <2>6, ItemsStep
<1>5. InOrder'
  <2>1. \A r \in Roles : \A y \in Ran(add[r]) : ~Stamped(y) /\ ~Token(y)
    BY DEF QuietItem
  <2>2. \A r \in Roles : \A x \in Rest(a, m, r) :
              Stamped(x) /\ x.type = "done" /\ Undone(r, x.id)' => Undone(r, x.id)
    BY DEF Undone
  <2>3. \A r \in Roles : Ordered(add[r])
    BY <2>1, QuietOrdered DEF Moved, Queues
  <2> QED
    BY <2>1, <2>2, <2>3, OrderQuiet
<1>6. PortStep
  BY PortQuiet
<1> QED
  BY <1>1, <1>3, <1>4, <1>5, <1>6

\* A quiet step that adds to one queue and changes no end of a client.
LEMMA QuietSame ==
    ASSUME IInv, NEW a, NEW m, NEW b \in Roles, NEW e \in Seq(Items), Moved(a, m, Adds(b, e)),
           \A y \in Ran(e) : QuietItem(b, y),
           EnvTypes', SameEnds, opening' = opening, present' = present,
           call' = call, answers' = answers, got' = got, sent' = sent,
           inbox' \subseteq inbox, waiting' \in [Roles -> SUBSET Calls],
           pending' \in [Roles -> SUBSET Entries],
           \A r \in Roles : waiting'[r] \subseteq waiting[r] /\ pending'[r] \subseteq pending[r],
           agents' \subseteq agents,
           \A y \in Ran(queue[a]) \ Rest(a, m, a) :
              y.type # "left" /\ (y.type = "reply" /\ Undone(a, y.id)' => conn[y.conn][a] = "closed" /\ y.conn \in Conns)
    PROVE  IInv' /\ PortStep
<1>1. BridgeTypes /\ Clients
  BY DEF IInv
<1>3. \A r \in Roles : \A y \in Ran(Adds(b, e)[r]) : QuietItem(r, y)
  BY AddsSeq, Short DEF Ran
<1>2. /\ Clients'
      /\ \A c \in Conns : Settled(c) => Settled(c)'
      /\ \A c \in Conns : \A r \in Roles : conn[c][r] = "closed" => conn'[c][r] = "closed"
  <2>1. \A r \in Roles : \A y \in Ran(Adds(b, e)[r]) : y.type = "closed" => y.conn \in Conns /\ conn[y.conn].name # None
    <3>1. \A r \in Roles : \A y \in Ran(Adds(b, e)[r]) : y \in Items
      BY DEF Moved, Queues, Ran
    <3> QED
      BY <1>3, <3>1 DEF QuietItem, Items, Sound
  <2> QED
    BY <1>1, <2>1, ClientsKeep
<1>4. \A y \in Ran(queue[a]) \ Rest(a, m, a) :
         y.type = "reply" /\ y.stamp > 0 /\ Undone(a, y.id)' => conn'[y.conn][a] = "closed"
  BY <1>2 DEF Moved
<1>5. \A c \in agents' : c \in agents
  OBVIOUS
<1> QED
  BY <1>2, <1>3, <1>4, <1>5, QuietStep

\* What the event or the source a step handles is.
LEMMA TakenEvent ==
    ASSUME BridgeTypes, NEW r \in Roles, NEW type, NextEvent(r, type), NEW add, Moved(r, Next1(r), add)
    PROVE  /\ \A y \in Ran(queue[r]) \ Rest(r, Next1(r), r) : y = AnEvent(r) /\ y.type = type
           /\ AnEvent(r) \in Ran(queue[r]) /\ AnEvent(r) \in Items /\ AnEvent(r).type = type
<1>1. queue[r] \in Seq(Items)
  BY DEF BridgeTypes
<1>2. /\ AnEvent(r) \in Ran(queue[r]) /\ AnEvent(r).type = type /\ AnEvent(r) = queue[r][Next1(r)]
  BY <1>1, FirstEvent
<1>3. Ran(queue[r]) \subseteq Rest(r, Next1(r), r) \cup {queue[r][Next1(r)]}
  BY MovedFacts
<1>4. Ran(queue[r]) \subseteq Items
  BY <1>1 DEF Ran
<1> QED
  BY <1>2, <1>3, <1>4

LEMMA TakenSource ==
    ASSUME BridgeTypes, NEW r \in Roles, NEW type, NextSource(r, type), NEW add, Moved(r, 1, add)
    PROVE  /\ \A y \in Ran(queue[r]) \ Rest(r, 1, r) : y = Head(queue[r]) /\ y.type = type
           /\ Head(queue[r]) \in Ran(queue[r]) /\ Head(queue[r]) \in Items /\ Head(queue[r]).type = type
<1>1. queue[r] \in Seq(Items)
  BY DEF BridgeTypes
<1>2. /\ Head(queue[r]) \in Ran(queue[r]) /\ Head(queue[r]).type = type /\ Head(queue[r]) = queue[r][1]
  BY <1>1, FirstSource
<1>3. Ran(queue[r]) \subseteq Rest(r, 1, r) \cup {queue[r][1]}
  BY MovedFacts
<1>4. Ran(queue[r]) \subseteq Items
  BY <1>1 DEF Ran
<1> QED
  BY <1>2, <1>3, <1>4

LEMMA TakenNothing ==
    ASSUME BridgeTypes, NEW r, NEW add, Moved(r, 0, add)
    PROVE  Ran(queue[r]) \ Rest(r, 0, r) = {}
<1>1. r \in Roles /\ queue[r] \in Seq(Items)
  BY DEF Moved, BridgeTypes
<1>2. \A i \in DOMAIN queue[r] : i # 0
  BY <1>1
<1>3. Rest(r, 0, r) = Ran(queue[r])
  BY <1>2 DEF Rest, Others, Ran
<1> QED
  BY <1>3

LEMMA ItemFacts ==
    /\ \A k \in Calls, c \in Conns \cup {None}, v \in Vals : Source("done", c, k, v, 0) \in Items
    /\ \A c \in Conns, n \in Nat : Source("owner", c, None, "none", n) \in Items
    /\ \A c \in Conns : Source("closed", c, None, "none", 0) \in Items
    /\ \A c \in Conns : Event("open", c, None, "none", 0) \in Items
    /\ \A c \in Conns : Event("changed", c, None, "none", 0) \in Items
    /\ \A c \in Conns, i \in Nat \cup {None}, n \in Nat : Event("signal", c, i, "none", n) \in Items
    /\ \A g \in Guests : Source("left", None, None, g, 0) \in Items
    /\ \A k \in Requests : Event("guest", None, k, "none", 0) \in Items
    /\ \A k \in Requests, c \in Conns : Event("call", c, k, "none", 0) \in Items
    /\ \A k \in Callbacks, c \in Conns, n \in Nat : Event("callback", c, k, "none", n) \in Items
<1>1. \A k \in Calls, c \in Conns \cup {None}, v \in Vals : Source("done", c, k, v, 0) \in Items
  BY DEF Event, Source, Item, Items, Sound, Vals, Calls
<1>2. \A c \in Conns, n \in Nat : Source("owner", c, None, "none", n) \in Items
  BY DEF Event, Source, Item, Items, Sound, Vals, Calls
<1>3. \A c \in Conns : Source("closed", c, None, "none", 0) \in Items
  BY DEF Event, Source, Item, Items, Sound, Vals, Calls
<1>4. \A c \in Conns : Event("open", c, None, "none", 0) \in Items
  BY DEF Event, Source, Item, Items, Sound, Vals, Calls
<1>5. \A c \in Conns : Event("changed", c, None, "none", 0) \in Items
  BY DEF Event, Source, Item, Items, Sound, Vals, Calls
<1>6. \A c \in Conns, i \in Nat \cup {None}, n \in Nat : Event("signal", c, i, "none", n) \in Items
  BY DEF Event, Source, Item, Items, Sound, Vals, Calls
<1>7. \A g \in Guests : Source("left", None, None, g, 0) \in Items
  BY DEF Event, Source, Item, Items, Sound, Vals, Calls
<1>8. \A k \in Requests : Event("guest", None, k, "none", 0) \in Items
  BY DEF Event, Source, Item, Items, Sound, Vals, Calls
<1>9. \A k \in Requests, c \in Conns : Event("call", c, k, "none", 0) \in Items
  BY DEF Event, Source, Item, Items, Sound, Vals, Calls
<1>10. \A k \in Callbacks, c \in Conns, n \in Nat : Event("callback", c, k, "none", n) \in Items
  BY DEF Event, Source, Item, Items, Sound, Vals, Calls
<1> QED
  BY <1>1, <1>2, <1>3, <1>4, <1>5, <1>6, <1>7, <1>8, <1>9, <1>10

\* A source is always queued.
LEMMA SourceMoved ==
    ASSUME NEW q, NEW a, NEW m, Popped(q, a, m), NEW b \in Roles, NEW x \in Items, ~x.high,
           queue' = Queued(q, b, x)
    PROVE  Moved(a, m, Adds(b, <<x>>))
<1>1. q \in Queues /\ q[b] \in Seq(Items)
  BY DEF Popped, Queues
<1>2. LET t == Queued(q, b, x) IN t \in Queues /\ (\A r \in Roles \ {b} : t[r] = q[r]) /\ t[b] = q[b] \o <<x>>
  BY <1>1, QueuedShape, Zenon
<1>3. <<x>> \in Seq(Items)
  OBVIOUS
<1> QED
  BY <1>2, <1>3, PutMoved

LEMMA SpendTypes ==
    ASSUME BridgeTypes, NEW what \in {"sent", "stops", "observers", "faults"}, Spend(what)
    PROVE  budget' \in Budget
<1>1. budget \in Budget /\ budget[what] \in Nat
  BY DEF BridgeTypes, Budget
<1>2. budget[what] - 1 \in Nat /\ budget' = [budget EXCEPT ![what] = budget[what] - 1]
  BY <1>1 DEF Spend
<1> QED
  BY <1>1, <1>2 DEF Budget

\* A reply reaches process b.
LEMMA ArrivedMoved ==
    ASSUME NEW q, NEW a, NEW m, Popped(q, a, m), NEW b \in Roles, NEW w, NEW k \in Calls,
           call[k].conn \in Conns, NEW val \in Vals, NEW n \in Nat, k \in Callbacks => n = 0,
           queue' = Arrived(q, w, b, k, val, n)
    PROVE  \E e \in Seq(Items) :
             /\ Moved(a, m, Adds(b, e)) /\ Ordered(e)
             /\ Ran(e) \subseteq {ReplyItem(k, val, n), DoneItem(k, val, n), DoneItem(k, val, 0)}
             /\ \A y \in Ran(e) : y.type = "done" => k \in w[b]
             /\ \A y \in Ran(e) : y.type = "done" /\ y.stamp > 0 => ReplyItem(k, val, n) \in Ran(e)
<1> DEFINE x == ReplyItem(k, val, n)
           y == DoneItem(k, val, n)
           z == DoneItem(k, val, 0)
<1>1. q \in Queues /\ q[b] \in Seq(Items)
  BY DEF Popped, Queues
<1>2. queue' \in Queues /\ (\A r \in Roles \ {b} : queue'[r] = q[r])
      /\ \E e \in Arrivals(w, b, k, val, n) : queue'[b] = q[b] \o e
  <2> HIDE DEF x, y, z
  <2>1. queue' \in Queues /\ (\A r \in Roles \ {b} : queue'[r] = q[r])
        /\ Lengthened(q[b], queue'[b], w, b, k, val, n)
    BY <1>1, ArrivedShape
  <2> QED
    BY <2>1 DEF Lengthened
<1>3. x \in Items /\ y \in Items /\ z \in Items /\ Before(x, y)
  BY ReplyItems
<1>4. x.type = "reply" /\ z.stamp = 0
  BY DEF ReplyItem, DoneItem, Event, Source, Item
<1>5. \A e \in Arrivals(w, b, k, val, n) : e \in {<<>>, <<x>>} \/ (k \in w[b] /\ e \in {<<z>>, <<x, y>>})
  BY DEF Arrivals
<1> HIDE DEF x, y, z
<1>6. /\ <<>> \in Seq(Items) /\ Ran(<<>>) = {} /\ Ordered(<<>>)
      /\ <<x>> \in Seq(Items) /\ Ran(<<x>>) = {x} /\ Ordered(<<x>>)
      /\ <<z>> \in Seq(Items) /\ Ran(<<z>>) = {z} /\ Ordered(<<z>>)
      /\ <<x, y>> \in Seq(Items) /\ Ran(<<x, y>>) = {x, y} /\ Ordered(<<x, y>>)
  BY <1>1, <1>3, Short
<1>7. PICK e \in Arrivals(w, b, k, val, n) : queue'[b] = q[b] \o e
  BY <1>2
<1>8. e \in {<<>>, <<x>>} \/ (k \in w[b] /\ e \in {<<z>>, <<x, y>>})
  BY <1>5, <1>7
<1>9. e \in Seq(Items) /\ Ordered(e) /\ Ran(e) \subseteq {x, y, z}
  BY <1>6, <1>8
<1>10. Moved(a, m, Adds(b, e))
  BY <1>2, <1>7, <1>9, PutMoved
<1>11. \A u \in Ran(e) : u.type = "done" => k \in w[b]
  BY <1>4, <1>6, <1>8
<1>12. \A u \in Ran(e) : u.type = "done" /\ u.stamp > 0 => x \in Ran(e)
  <2>1. CASE e = <<z>>
    BY <1>4, <1>6, <2>1
  <2>2. CASE e = <<x, y>>
    BY <1>6, <2>2
  <2>3. CASE e \in {<<>>, <<x>>}
    BY <1>6, <2>3
  <2> QED
    BY <1>8, <2>1, <2>2, <2>3
<1> QED
  BY <1>9, <1>10, <1>11, <1>12 DEF x, y, z

LEMMA EnvSame ==
    ASSUME BridgeTypes, UNCHANGED <<conn, opening, names, present, owner, started, agents, budget>>
    PROVE  EnvTypes'
BY TypeParts DEF EnvTypes

LEMMA TimeoutStep ==
    ASSUME IInv, NEW r \in Roles, NEW k \in Calls, Timeout(r, k)
    PROVE  IInv' /\ PortStep
<1> DEFINE x == Source("done", call[k].conn, k, "none", 0)
<1>1. BridgeTypes /\ Placed
  BY DEF IInv
<1>11. /\ k \in waiting[r] /\ waiting' = [waiting EXCEPT ![r] = @ \ {k}] /\ queue' = Queued(queue, r, x)
       /\ UNCHANGED <<conn, opening, names, present, call, pending, answers, got, budget, inbox,
                      owner, started, sent, agents>>
  BY DEF Timeout, serviceVars
<1>2. call[k].conn \in Conns \cup {None} /\ waiting \in [Roles -> SUBSET Calls] /\ pending \in [Roles -> SUBSET Entries]
  BY <1>1 DEF BridgeTypes
<1>3. x \in Items
  BY <1>2, ItemFacts DEF Vals
<1>4. call[k].conn # None
  BY <1>1, <1>11 DEF Placed
<1>5. QuietItem(r, x)
  BY <1>4, <1>11 DEF QuietItem, Stamped, Token, Source, Item
<1> HIDE DEF x
<1>6. Popped(queue, r, 0) /\ queue' = Queued(queue, r, x)
  BY <1>1, <1>11, NotPopped
<1>7. PICK e \in Seq(Items) : Ran(e) \subseteq {x} /\ Moved(r, 0, Adds(r, e))
  BY ZenonT(60), <1>3, <1>6, QueuedMoved
<1>8. Ran(queue[r]) \ Rest(r, 0, r) = {}
  BY <1>1, <1>7, TakenNothing
<1>9. EnvTypes' /\ SameEnds
  BY <1>1, <1>11, EnvSame DEF SameEnds
<1>10. waiting' \in [Roles -> SUBSET Calls] /\ \A b \in Roles : waiting'[b] \subseteq waiting[b]
  BY <1>2, <1>11
<1>12. /\ call' = call /\ answers' = answers /\ got' = got /\ sent' = sent /\ opening' = opening /\ present' = present
       /\ inbox' = inbox /\ pending' = pending /\ agents' = agents
  BY <1>11
<1>13. \A y \in Ran(e) : QuietItem(r, y)
  BY <1>5, <1>7
<1> HIDE DEF x
<1> QED
  BY <1>2, <1>12, <1>13, <1>7, <1>8, <1>9, <1>10, QuietSame

\* An answer without a place in the order arrives, or is dropped.
LEMMA ArrivesQuiet ==
    ASSUME NEW q, NEW a, NEW m, Popped(q, a, m), NEW b \in Roles, NEW w, NEW k \in Calls,
           call[k].conn \in Conns, None \notin Conns, NEW val \in Vals,
           b = "broker" => k \in Callbacks \cup inbox \cup waiting["broker"],
           queue' = Arrived(q, w, b, k, val, 0) \/ queue' = q
    PROVE  \E e \in Seq(Items) : Moved(a, m, Adds(b, e)) /\ \A y \in Ran(e) : QuietItem(b, y)
<1>1. CASE queue' = q
  <2>1. Moved(a, m, Adds(b, <<>>)) /\ <<>> \in Seq(Items) /\ Ran(<<>>) = {}
    BY <1>1, KeptMoved
  <2> QED
    BY <2>1
<1>2. CASE queue' = Arrived(q, w, b, k, val, 0)
  <2>1. PICK e \in Seq(Items) :
             /\ Moved(a, m, Adds(b, e))
             /\ Ran(e) \subseteq {ReplyItem(k, val, 0), DoneItem(k, val, 0), DoneItem(k, val, 0)}
    BY <1>2, ArrivedMoved
  <2>2. QuietItem(b, ReplyItem(k, val, 0)) /\ QuietItem(b, DoneItem(k, val, 0))
    BY DEF QuietItem, ReplyItem, DoneItem, Event, Source, Item, Stamped, Token
  <2> QED
    BY <2>1, <2>2
<1> QED
  BY <1>1, <1>2

LEMMA AgentAnswersStep ==
    ASSUME IInv, NEW k \in Calls, AgentAnswers(k)
    PROVE  IInv' /\ PortStep
<1>1. BridgeTypes /\ Placed
  BY DEF IInv
<1>2. /\ k \in inbox /\ inbox' = inbox \ {k} /\ queue' = Arrived(queue, waiting, "relay", k, "return", 0)
      /\ waiting' = [waiting EXCEPT !["relay"] = @ \ {k}]
      /\ UNCHANGED <<conn, opening, names, present, call, pending, answers, got, budget, owner, started, sent, agents>>
  BY DEF AgentAnswers, serviceVars
<1>3. waiting \in [Roles -> SUBSET Calls] /\ pending \in [Roles -> SUBSET Entries]
  BY <1>1 DEF BridgeTypes
<1>4. call[k].conn \in Conns /\ "return" \in Vals
  BY <1>1, <1>2 DEF BridgeTypes, Placed, Vals
<1>5. Popped(queue, "relay", 0)
  BY <1>1, NotPopped, RoleFacts
<1>6. PICK e \in Seq(Items) : Moved("relay", 0, Adds("relay", e)) /\ \A y \in Ran(e) : QuietItem("relay", y)
  BY <1>2, <1>4, <1>5, ArrivesQuiet, RoleFacts, ConnAssumption
<1>7. Ran(queue["relay"]) \ Rest("relay", 0, "relay") = {}
  BY <1>1, <1>6, TakenNothing
<1>8. EnvTypes' /\ SameEnds
  BY <1>1, <1>2, EnvSame DEF SameEnds
<1>9. waiting' \in [Roles -> SUBSET Calls] /\ \A b \in Roles : waiting'[b] \subseteq waiting[b]
  BY <1>2, <1>3
<1>10. /\ call' = call /\ answers' = answers /\ got' = got /\ sent' = sent /\ opening' = opening /\ present' = present
       /\ inbox' \subseteq inbox /\ pending' = pending /\ agents' = agents
  BY <1>2
<1> QED
  BY <1>3, <1>6, <1>7, <1>8, <1>9, <1>10, QuietSame, RoleFacts

LEMMA BusAnswersStep ==
    ASSUME IInv, NEW k \in Calls, BusAnswers(k)
    PROVE  IInv' /\ PortStep
<1>1. BridgeTypes /\ Placed
  BY DEF IInv
<1>2. /\ k \in inbox /\ inbox' = inbox \ {k}
      /\ queue' = Arrived(queue, waiting, "broker", k, "error", 0) \/ queue' = queue
      /\ waiting' = [waiting EXCEPT !["broker"] = @ \ {k}]
      /\ UNCHANGED <<conn, opening, names, present, call, pending, answers, got, budget, owner, started, sent, agents>>
  BY DEF BusAnswers, serviceVars, InFlight, HostReplies
<1>3. waiting \in [Roles -> SUBSET Calls] /\ pending \in [Roles -> SUBSET Entries]
  BY <1>1 DEF BridgeTypes
<1>4. call[k].conn \in Conns /\ "error" \in Vals
  BY <1>1, <1>2 DEF BridgeTypes, Placed, Vals
<1>5. Popped(queue, "broker", 0)
  BY <1>1, NotPopped, RoleFacts
<1>6. PICK e \in Seq(Items) : Moved("broker", 0, Adds("broker", e)) /\ \A y \in Ran(e) : QuietItem("broker", y)
  BY <1>2, <1>4, <1>5, ArrivesQuiet, RoleFacts, ConnAssumption
<1>7. Ran(queue["broker"]) \ Rest("broker", 0, "broker") = {}
  BY <1>1, <1>6, TakenNothing
<1>8. EnvTypes' /\ SameEnds
  BY <1>1, <1>2, EnvSame DEF SameEnds
<1>9. waiting' \in [Roles -> SUBSET Calls] /\ \A b \in Roles : waiting'[b] \subseteq waiting[b]
  BY <1>2, <1>3
<1>10. /\ call' = call /\ answers' = answers /\ got' = got /\ sent' = sent /\ opening' = opening /\ present' = present
       /\ inbox' \subseteq inbox /\ pending' = pending /\ agents' = agents
  BY <1>2
<1> QED
  BY <1>3, <1>6, <1>7, <1>8, <1>9, <1>10, QuietSame, RoleFacts

\* Types of what a step leaves alone.
LEMMA TypesOf ==
    ASSUME BridgeTypes
    PROVE  /\ queue \in Queues /\ conn \in [Conns -> ConnRecord]
           /\ waiting \in [Roles -> SUBSET Calls] /\ pending \in [Roles -> SUBSET Entries]
BY DEF BridgeTypes, Queues, ConnRecord

LEMMA WatchAnswersStep ==
    ASSUME IInv, NEW c \in Conns, WatchAnswers(c)
    PROVE  IInv' /\ PortStep
<1> DEFINE x == Source("owner", c, None, "none", owner)
<1>1. BridgeTypes
  BY DEF IInv
<1>2. /\ conn' = [conn EXCEPT ![c].watch = FALSE] /\ queue' = Queued(queue, "broker", x)
      /\ UNCHANGED <<opening, names, present, call, pending, waiting, answers, got, budget, inbox, owner, started, sent, agents>>
  BY DEF WatchAnswers, serviceVars
<1>3. x \in Items /\ QuietItem("broker", x)
  <2>1. owner \in Nat
    BY <1>1 DEF BridgeTypes
  <2> QED
    BY <2>1, ItemFacts DEF QuietItem, Stamped, Token, Source, Item
<1> HIDE DEF x
<1>4. PICK e \in Seq(Items) : Ran(e) \subseteq {x} /\ Moved("broker", 0, Adds("broker", e))
  <2>1. Popped(queue, "broker", 0) /\ queue' = Queued(queue, "broker", x)
    BY <1>1, <1>2, NotPopped, RoleFacts
  <2>2. "broker" \in Roles /\ x \in Items
    BY <1>3, RoleFacts
  <2>3. \E e \in Seq(Items) : Ran(e) \subseteq {x} /\ Ordered(e) /\ Moved("broker", 0, Adds("broker", e))
    BY ZenonT(60), <2>1, <2>2, QueuedMoved
  <2> QED
    BY <2>3
<1>5. Ran(queue["broker"]) \ Rest("broker", 0, "broker") = {}
  BY <1>1, <1>4, TakenNothing
<1>6. EnvTypes' /\ SameEnds
  <2>1. conn' \in [Conns -> ConnRecord] /\ SameEnds
    BY ZenonT(60), <1>1, <1>2, TypesOf DEF ConnRecord, SameEnds
  <2>2. EnvTypes
    BY <1>1, TypeParts
  <2> QED
    BY <1>2, <2>1, <2>2 DEF EnvTypes
<1>7. \A y \in Ran(e) : QuietItem("broker", y)
  BY <1>3, <1>4
<1>8. /\ call' = call /\ answers' = answers /\ got' = got /\ sent' = sent /\ opening' = opening /\ present' = present
      /\ inbox' = inbox /\ pending' = pending /\ agents' = agents /\ waiting' = waiting
  BY <1>2
<1> QED
  BY <1>1, <1>4, <1>5, <1>6, <1>7, <1>8, QuietSame, RoleFacts, TypesOf

LEMMA ReownStep ==
    ASSUME IInv, Reown
    PROVE  IInv' /\ PortStep
<1>1. BridgeTypes
  BY DEF IInv
<1>2. /\ NextEvent("relay", "changed") /\ queue' = AfterEvent("relay")
      /\ UNCHANGED <<conn, opening, names, present, call, pending, waiting, answers, got, budget, inbox, owner, started, sent, agents>>
  BY DEF Reown, serviceVars
<1>3. Popped(AfterEvent("relay"), "relay", Next1("relay"))
  BY <1>1, <1>2, EventPopped, RoleFacts
<1>4. Moved("relay", Next1("relay"), Adds("relay", <<>>)) /\ <<>> \in Seq(Items) /\ Ran(<<>>) = {}
  BY <1>2, <1>3, KeptMoved, RoleFacts
<1>5. \A y \in Ran(queue["relay"]) \ Rest("relay", Next1("relay"), "relay") : y.type = "changed"
  BY <1>1, <1>2, <1>4, TakenEvent, RoleFacts
<1>6. EnvTypes' /\ SameEnds
  BY <1>1, <1>2, EnvSame DEF SameEnds
<1>8. /\ call' = call /\ answers' = answers /\ got' = got /\ sent' = sent /\ opening' = opening /\ present' = present
      /\ inbox' = inbox /\ pending' = pending /\ agents' = agents /\ waiting' = waiting
  BY <1>2
<1> QED
  BY <1>1, <1>4, <1>5, <1>6, <1>8, QuietSame, RoleFacts, TypesOf

LEMMA OwnerChangedStep ==
    ASSUME IInv, OwnerChanged
    PROVE  IInv' /\ PortStep
<1> DEFINE e == Head(queue["broker"])
           c == e.conn
           q == AfterSource("broker")
           x == Event("changed", c, None, "none", 0)
<1>1. BridgeTypes
  BY DEF IInv
<1>2. /\ NextSource("broker", "owner")
      /\ conn' = conn \/ conn' = [conn EXCEPT ![c].owner = e.stamp, ![c].agent = AgentOf(c, e.stamp)]
      /\ queue' = q \/ queue' = Queued(q, "relay", x)
      /\ UNCHANGED <<opening, names, present, call, pending, waiting, answers, got, budget, inbox, owner, started, sent, agents>>
  BY DEF OwnerChanged, serviceVars
<1>3. Popped(q, "broker", 1)
  BY <1>1, <1>2, SourcePopped, RoleFacts
<1>4. e \in Items /\ e.type = "owner"
  <2>1. queue["broker"] \in Seq(Items)
    BY <1>1, RoleFacts DEF BridgeTypes
  <2>2. Head(queue["broker"]) \in Ran(queue["broker"]) /\ Head(queue["broker"]).type = "owner"
    BY <1>2, <2>1, FirstSource, RoleFacts
  <2> QED
    BY <2>1, <2>2 DEF Ran
<1>5. c \in Conns /\ e.stamp \in Nat
  BY <1>4 DEF Items, Sound
<1>6. x \in Items /\ QuietItem("relay", x)
  BY <1>5, ItemFacts DEF QuietItem, Stamped, Token, Event, Item
<1>7. EnvTypes' /\ SameEnds
  <2>1. EnvTypes /\ conn \in [Conns -> ConnRecord]
    BY <1>1, TypeParts, TypesOf
  <2>2. AgentOf(c, e.stamp) \in BOOLEAN
    BY <2>1, <1>5 DEF AgentOf, ConnRecord
  <2>3. conn' \in [Conns -> ConnRecord] /\ SameEnds
    <3>1. CASE conn' = conn
      BY <2>1, <3>1 DEF SameEnds
    <3>2. CASE conn' = [conn EXCEPT ![c].owner = e.stamp, ![c].agent = AgentOf(c, e.stamp)]
      <4> DEFINE o == e.stamp
                 g == AgentOf(c, e.stamp)
      <4>1. o \in Nat /\ g \in BOOLEAN /\ c \in Conns /\ conn' = [conn EXCEPT ![c].owner = o, ![c].agent = g]
        BY <1>5, <2>2, <3>2
      <4> HIDE DEF o, g, c
      <4> QED
        BY ZenonT(60), <2>1, <4>1 DEF SameEnds, ConnRecord
    <3> QED
      BY <1>2, <3>1, <3>2
  <2> QED
    BY <1>2, <2>1, <2>3 DEF EnvTypes
<1> HIDE DEF x, q
<1>8. \E s \in Seq(Items) : Ran(s) \subseteq {x} /\ Moved("broker", 1, Adds("relay", s))
  <2>1. CASE queue' = q
    <3>1. Moved("broker", 1, Adds("relay", <<>>)) /\ <<>> \in Seq(Items) /\ Ran(<<>>) = {}
      BY <1>3, <2>1, KeptMoved, RoleFacts
    <3> QED
      BY <3>1
  <2>2. CASE queue' = Queued(q, "relay", x)
    <3>1. "relay" \in Roles /\ x \in Items
      BY <1>6, RoleFacts
    <3>2. \E s \in Seq(Items) : Ran(s) \subseteq {x} /\ Ordered(s) /\ Moved("broker", 1, Adds("relay", s))
      BY ZenonT(60), <1>3, <2>2, <3>1, QueuedMoved
    <3> QED
      BY <3>2
  <2> QED
    BY <1>2, <2>1, <2>2
<1>9. PICK s \in Seq(Items) : Ran(s) \subseteq {x} /\ Moved("broker", 1, Adds("relay", s))
  BY <1>8
<1>10. \A y \in Ran(queue["broker"]) \ Rest("broker", 1, "broker") : y.type = "owner"
  BY <1>1, <1>2, <1>9, TakenSource, RoleFacts
<1>11. \A y \in Ran(s) : QuietItem("relay", y)
  BY <1>6, <1>9
<1>12. /\ call' = call /\ answers' = answers /\ got' = got /\ sent' = sent /\ opening' = opening /\ present' = present
       /\ inbox' = inbox /\ pending' = pending /\ agents' = agents /\ waiting' = waiting
  BY <1>2
<1> QED
  BY <1>1, <1>7, <1>9, <1>10, <1>11, <1>12, QuietSame, RoleFacts, TypesOf

\* SetToSeq lists a finite set, each member once.
LEMMA Listed ==
    ASSUME NEW S, IsFiniteSet(S)
    PROVE  /\ SetToSeq(S) \in [1..Cardinality(S) -> S] /\ Cardinality(S) \in Nat
           /\ \A i, j \in 1..Cardinality(S) : i # j => SetToSeq(S)[i] # SetToSeq(S)[j]
           /\ SetToSeq(S) \in Seq(S) /\ Len(SetToSeq(S)) = Cardinality(S)
<1> DEFINE n == Cardinality(S)
           f == SetToSeq(S)
<1>1. n \in Nat /\ ExistsBijection(1..n, S)
  BY FS_CardinalityType
<1>2. \E g \in [1..n -> S] : IsInjective(g)
  BY <1>1 DEF ExistsBijection, Bijection, Injection, IsInjective
<1>3. f \in [1..n -> S] /\ IsInjective(f)
  BY <1>2 DEF SetToSeq
<1>4. \A i, j \in 1..n : i # j => f[i] # f[j]
  BY <1>3 DEF IsInjective
<1> HIDE DEF f, n
<1>5. f \in Seq(S) /\ Len(f) = n
  BY <1>1, <1>3
<1> QED
  BY <1>1, <1>3, <1>4, <1>5 DEF f, n

LEMMA CancelledSeq ==
    ASSUME NEW ids \in SUBSET Calls
    PROVE  /\ Cancelled(ids) \in Seq(Items)
           /\ \A y \in Ran(Cancelled(ids)) : \E k \in ids : y = Source("done", None, k, "none", 0)
<1> DEFINE n == Cardinality(ids)
           f == SetToSeq(ids)
<1>1. IsFiniteSet(ids)
  BY BoundAssumption, FS_Subset
<1>2. f \in [1..n -> ids] /\ n \in Nat
  BY <1>1, Listed
<1>3. Cancelled(ids) = [i \in 1..n |-> Source("done", None, f[i], "none", 0)]
  BY DEF Cancelled
<1> HIDE DEF f, n
<1>4. \A i \in 1..n : Source("done", None, f[i], "none", 0) \in Items
  BY <1>2, ItemFacts DEF Vals
<1> HIDE DEF Cancelled
<1>5. Cancelled(ids) \in Seq(Items) /\ DOMAIN Cancelled(ids) = 1..n
  BY <1>2, <1>3, <1>4
<1>6. \A i \in 1..n : f[i] \in ids /\ Cancelled(ids)[i] = Source("done", None, f[i], "none", 0)
  BY <1>2, <1>3
<1> QED
  BY <1>5, <1>6 DEF Ran

LEMMA SourcesMoved ==
    ASSUME NEW q, NEW a, NEW m, Popped(q, a, m), NEW b \in Roles, NEW e \in Seq(Items),
           queue' = QueuedSources(q, b, e)
    PROVE  Moved(a, m, Adds(b, e))
<1>1. q \in Queues /\ q[b] \in Seq(Items)
  BY DEF Popped, Queues
<1>2. q[b] \o e \in Seq(Items) /\ queue' = [q EXCEPT ![b] = q[b] \o e]
  BY <1>1 DEF QueuedSources
<1>3. queue' \in Queues /\ queue'[b] = q[b] \o e /\ \A r \in Roles \ {b} : queue'[r] = q[r]
  BY <1>1, <1>2 DEF Queues
<1> QED
  BY <1>3, PutMoved

\* The name watches that a change of the owner reaches.
LEMMA WatchedMoved ==
    ASSUME BridgeTypes, NEW n \in Nat, queue' = Watched(queue, n)
    PROVE  \E e \in Seq(Items) : Moved("broker", 0, Adds("broker", e)) /\ \A y \in Ran(e) : QuietItem("broker", y)
<1> DEFINE S == {c \in Conns : conn[c].broker = "open" /\ ~conn[c].watch}
           s == SetToSeq(S)
           e == [i \in 1..Len(s) |-> Source("owner", s[i], None, "none", n)]
<1>1. IsFiniteSet(S)
  BY BoundAssumption, FS_Subset
<1>2. S \subseteq Conns
  OBVIOUS
<1> HIDE DEF S
<1>3. s \in Seq(S) /\ Len(s) \in Nat /\ \A i \in 1..Len(s) : s[i] \in Conns
  BY <1>1, <1>2, Listed
<1>4. queue' = QueuedSources(queue, "broker", e)
  BY DEF Watched, S
<1> HIDE DEF s
<1>5. \A i \in 1..Len(s) : Source("owner", s[i], None, "none", n) \in Items
  BY <1>3, ItemFacts
<1>6. e \in Seq(Items) /\ DOMAIN e = 1..Len(s) /\ \A i \in 1..Len(s) : e[i] = Source("owner", s[i], None, "none", n)
  BY <1>3, <1>5
<1> HIDE DEF e
<1>7. \A y \in Ran(e) : QuietItem("broker", y)
  <2>1. \A c : QuietItem("broker", Source("owner", c, None, "none", n))
    BY DEF QuietItem, Stamped, Token, Source, Item
  <2> QED
    BY <1>6, <2>1 DEF Ran
<1>8. Popped(queue, "broker", 0)
  BY NotPopped, RoleFacts
<1> QED
  BY <1>4, <1>6, <1>7, <1>8, SourcesMoved, RoleFacts

LEMMA ServiceStopsStep ==
    ASSUME IInv, ServiceStops
    PROVE  IInv' /\ PortStep
<1>1. BridgeTypes
  BY DEF IInv
<1>2. /\ Spend("stops") /\ queue' = Watched(queue, 0) /\ owner' = 0 /\ agents' = {}
      /\ UNCHANGED <<conn, opening, names, present, call, pending, waiting, inbox, started, sent, answers, got>>
  BY DEF ServiceStops
<1>3. PICK e \in Seq(Items) : Moved("broker", 0, Adds("broker", e)) /\ \A y \in Ran(e) : QuietItem("broker", y)
  BY <1>1, <1>2, WatchedMoved
<1>4. Ran(queue["broker"]) \ Rest("broker", 0, "broker") = {}
  BY <1>1, <1>3, TakenNothing
<1>5. EnvTypes' /\ SameEnds
  <2>1. EnvTypes /\ budget' \in Budget
    BY <1>1, <1>2, TypeParts, SpendTypes
  <2> QED
    BY <1>2, <2>1 DEF EnvTypes, SameEnds
<1>6. /\ call' = call /\ answers' = answers /\ got' = got /\ sent' = sent /\ opening' = opening /\ present' = present
      /\ inbox' = inbox /\ pending' = pending /\ agents' \subseteq agents /\ waiting' = waiting
  BY <1>2
<1> QED
  BY <1>1, <1>3, <1>4, <1>5, <1>6, QuietSame, RoleFacts, TypesOf

LEMMA ServiceStartsStep ==
    ASSUME IInv, ServiceStarts
    PROVE  IInv' /\ PortStep
<1>1. BridgeTypes
  BY DEF IInv
<1>2. /\ queue' = Watched(queue, started + 1) /\ owner' = started + 1 /\ started' = started + 1
      /\ UNCHANGED <<conn, opening, names, present, call, pending, waiting, inbox, agents, sent, answers, got, budget>>
  BY DEF ServiceStarts
<1>7. started + 1 \in Nat
  BY <1>1 DEF BridgeTypes
<1>3. PICK e \in Seq(Items) : Moved("broker", 0, Adds("broker", e)) /\ \A y \in Ran(e) : QuietItem("broker", y)
  BY <1>1, <1>2, <1>7, WatchedMoved
<1>4. Ran(queue["broker"]) \ Rest("broker", 0, "broker") = {}
  BY <1>1, <1>3, TakenNothing
<1>5. EnvTypes' /\ SameEnds
  <2>1. EnvTypes
    BY <1>1, TypeParts
  <2> QED
    BY <1>2, <1>7, <2>1 DEF EnvTypes, SameEnds
<1>6. /\ call' = call /\ answers' = answers /\ got' = got /\ sent' = sent /\ opening' = opening /\ present' = present
      /\ inbox' = inbox /\ pending' = pending /\ agents' = agents /\ waiting' = waiting
  BY <1>2
<1> QED
  BY <1>1, <1>3, <1>4, <1>5, <1>6, QuietSame, RoleFacts, TypesOf

LEMMA AppendSeq ==
    ASSUME NEW s \in Seq(Items), NEW x \in Items
    PROVE  Append(s, x) \in Seq(Items) /\ Ran(Append(s, x)) = Ran(s) \cup {x}
<1>1. Append(s, x) = s \o <<x>> /\ <<x>> \in Seq(Items) /\ Ran(<<x>>) = {x}
  BY Short
<1> QED
  BY <1>1, JoinSeq

\* The calls that end with a connection, and the notice of its end.
LEMMA CancelQuiet ==
    ASSUME Placed, BridgeTypes, NEW b \in Roles, NEW ids \in SUBSET waiting[b],
           NEW c \in Conns, conn[c].name # None
    PROVE  LET e == Append(Cancelled(ids), Source("closed", c, None, "none", 0))
           IN /\ Cancelled(ids) \in Seq(Items) /\ \A y \in Ran(Cancelled(ids)) : QuietItem(b, y)
              /\ e \in Seq(Items) /\ \A y \in Ran(e) : QuietItem(b, y)
<1> DEFINE x == Source("closed", c, None, "none", 0)
<1>1. ids \in SUBSET Calls /\ waiting[b] \subseteq Calls
  BY DEF BridgeTypes
<1>2. Cancelled(ids) \in Seq(Items)
      /\ \A y \in Ran(Cancelled(ids)) : \E k \in ids : y = Source("done", None, k, "none", 0)
  BY <1>1, CancelledSeq
<1>3. \A k \in ids : QuietItem(b, Source("done", None, k, "none", 0))
  <2> TAKE k \in ids
  <2>1. k \in waiting[b] /\ k \in Calls
    BY <1>1
  <2>2. call[k].conn # None
    BY <2>1 DEF Placed
  <2> QED
    BY <2>1, <2>2 DEF QuietItem, Stamped, Token, Source, Item
<1>4. x \in Items /\ QuietItem(b, x)
  BY ItemFacts DEF QuietItem, Stamped, Token, Source, Item
<1> HIDE DEF x
<1>5. \A y \in Ran(Cancelled(ids)) : QuietItem(b, y)
  BY <1>2, <1>3
<1>6. Append(Cancelled(ids), x) \in Seq(Items) /\ Ran(Append(Cancelled(ids), x)) = Ran(Cancelled(ids)) \cup {x}
  BY <1>2, <1>4, AppendSeq
<1> QED
  BY <1>2, <1>4, <1>5, <1>6 DEF x

LEMMA HostDropsStep ==
    ASSUME IInv, NEW c \in Conns, HostDrops(c)
    PROVE  IInv' /\ PortStep
<1> DEFINE ids == {k \in waiting["broker"] : call[k].conn = c /\ ~Callback(k)}
           e == Append(Cancelled(ids), Source("closed", c, None, "none", 0))
<1>1. BridgeTypes /\ Placed /\ Clients
  BY DEF IInv
<1>2. /\ conn[c].broker = "open" /\ Spend("faults")
      /\ waiting' = [waiting EXCEPT !["broker"] = @ \ ids] /\ queue' = QueuedSources(queue, "broker", e)
      /\ UNCHANGED <<conn, opening, names, present, call, pending, answers, got, inbox, owner, started, sent, agents>>
  BY DEF HostDrops, serviceVars
<1>3. conn[c].name # None
  BY <1>1, <1>2 DEF Clients
<1>4. ids \in SUBSET waiting["broker"] /\ "broker" \in Roles
  BY RoleFacts
<1> HIDE DEF ids
<1>5. e \in Seq(Items) /\ \A y \in Ran(e) : QuietItem("broker", y)
  BY <1>1, <1>3, <1>4, CancelQuiet
<1> HIDE DEF e
<1>6. Popped(queue, "broker", 0)
  BY <1>1, <1>4, NotPopped
<1>7. Moved("broker", 0, Adds("broker", e))
  BY <1>2, <1>4, <1>5, <1>6, SourcesMoved
<1>8. Ran(queue["broker"]) \ Rest("broker", 0, "broker") = {}
  BY <1>1, <1>7, TakenNothing
<1>9. EnvTypes' /\ SameEnds
  <2>1. EnvTypes /\ budget' \in Budget
    BY <1>1, <1>2, TypeParts, SpendTypes
  <2> QED
    BY <1>2, <2>1 DEF EnvTypes, SameEnds
<1>10. waiting' \in [Roles -> SUBSET Calls] /\ \A b \in Roles : waiting'[b] \subseteq waiting[b]
  BY <1>1, <1>2, TypesOf
<1>11. /\ call' = call /\ answers' = answers /\ got' = got /\ sent' = sent /\ opening' = opening /\ present' = present
       /\ inbox' = inbox /\ pending' = pending /\ agents' = agents
  BY <1>2
<1> QED
  BY <1>1, <1>4, <1>5, <1>7, <1>8, <1>9, <1>10, <1>11, QuietSame, TypesOf

\* A notice that a guest left stays until it is handled.
LEMMA NoticeKept ==
    ASSUME BridgeTypes, NEW a, NEW m, NEW add, Moved(a, m, add), NEW g, Noticed(g),
           a = "relay" => \A y \in Ran(queue[a]) \ Rest(a, m, a) : y.type # "left" \/ y.val # g
    PROVE  Noticed(g)'
<1>1. \A r \in Roles : Ran(queue'[r]) = Rest(a, m, r) \cup Ran(add[r])
                       /\ (r # a => Rest(a, m, r) = Ran(queue[r]))
  BY MovedFacts
<1>2. PICK x \in Ran(queue["relay"]) : x.type = "left" /\ x.val = g
  BY DEF Noticed
<1>3. x \in Ran(queue'["relay"])
  BY <1>1, <1>2, RoleFacts
<1> QED
  BY <1>2, <1>3 DEF Noticed

\* The notices of closed connections are about connections that were used.
ClosedNamed == \A r \in Roles : \A x \in Ran(queue[r]) : x.type = "closed" => conn[x.conn].name # None
LEMMA ClosedKept ==
    ASSUME BridgeTypes, Clients, NEW a, NEW m, NEW add, Moved(a, m, add),
           \A c \in Conns : conn[c].name # None => conn'[c].name # None,
           \A r \in Roles : \A y \in Ran(add[r]) : y.type = "closed" => y.conn \in Conns /\ conn[y.conn].name # None
    PROVE  ClosedNamed'
<1> SUFFICES ASSUME NEW r \in Roles, NEW x \in Ran(queue'[r]), x.type = "closed" PROVE conn'[x.conn].name # None
  BY DEF ClosedNamed
<1>1. Ran(queue'[r]) = Rest(a, m, r) \cup Ran(add[r]) /\ Rest(a, m, r) \subseteq Ran(queue[r])
  BY MovedFacts
<1>2. CASE x \in Ran(queue[r])
  <2>3. queue[r] \in Seq(Items)
    BY DEF BridgeTypes
  <2>4. x \in Items
    BY <1>2, <2>3 DEF Ran
  <2>1. conn[x.conn].name # None
    BY <1>2 DEF Clients
  <2>2. x.conn \in Conns
    BY <2>4 DEF Items, Sound
  <2> QED
    BY <2>1, <2>2
<1> QED
  BY <1>1, <1>2

LEMMA GuestLeavesStep ==
    ASSUME IInv, NEW g \in Guests, GuestLeaves(g)
    PROVE  IInv' /\ PortStep
<1> DEFINE x == Source("left", None, None, g, 0)
<1>1. BridgeTypes /\ Clients
  BY DEF IInv
<1>2. /\ Spend("faults") /\ present' = present \ {g} /\ queue' = Queued(queue, "relay", x)
      /\ UNCHANGED <<conn, opening, names, call, pending, waiting, answers, got, inbox, owner, started, sent, agents>>
  BY DEF GuestLeaves, serviceVars
<1>3. x \in Items /\ QuietItem("relay", x) /\ ~x.high /\ x.type = "left" /\ x.val = g
  BY ItemFacts DEF QuietItem, Stamped, Token, Source, Item
<1> HIDE DEF x
<1>4. "relay" \in Roles /\ Popped(queue, "relay", 0)
  BY <1>1, NotPopped, RoleFacts
<1>5. Moved("relay", 0, Adds("relay", <<x>>))
  <2>1. queue' = Queued(queue, "relay", x) /\ x \in Items
    BY <1>2, <1>3
  <2> QED
    BY <1>3, <1>4, <2>1, SourceMoved, Zenon
<1>6. <<x>> \in Seq(Items) /\ Ran(<<x>>) = {x}
  BY <1>3, Single
<1>7. \A r \in Roles : \A y \in Ran(Adds("relay", <<x>>)[r]) : QuietItem(r, y) /\ y.type = "left"
  BY <1>3, <1>4, <1>6, AddsRan
<1>8. Ran(queue["relay"]) \ Rest("relay", 0, "relay") = {}
  BY <1>1, <1>5, TakenNothing
<1>9. Noticed(g)'
  <2>1. Ran(queue'["relay"]) = Rest("relay", 0, "relay") \cup Ran(Adds("relay", <<x>>)["relay"])
    BY <1>1, <1>4, <1>5, MovedFacts
  <2>2. x \in Ran(queue'["relay"])
    BY <1>4, <1>6, <2>1, AddsSeq
  <2> QED
    BY <1>3, <2>2 DEF Noticed
<1>10. ASSUME NEW h, Noticed(h) PROVE Noticed(h)'
  BY <1>1, <1>5, <1>8, <1>10, NoticeKept
<1>11. ClosedNamed'
  BY <1>1, <1>2, <1>5, <1>7, ClosedKept
<1>12. Clients'
  BY <1>1, <1>2, <1>9, <1>10, <1>11 DEF Clients, ClosedNamed, Alive, Settled
<1>13. EnvTypes'
  <2>1. EnvTypes /\ budget' \in Budget
    BY <1>1, <1>2, TypeParts, SpendTypes
  <2> QED
    BY <1>2, <2>1 DEF EnvTypes
<1>14. /\ call' = call /\ answers' = answers /\ got' = got /\ sent' = sent /\ opening' = opening /\ conn' = conn
       /\ inbox' = inbox /\ pending' = pending /\ agents' = agents /\ waiting' = waiting
  BY <1>2
<1>15. \A c \in Conns : Settled(c) => Settled(c)'
  BY <1>14 DEF Settled
<1> QED
  BY <1>1, <1>5, <1>7, <1>8, <1>12, <1>13, <1>14, <1>15, QuietStep, TypesOf

LEMMA OpenClientStep ==
    ASSUME IInv, OpenClient
    PROVE  IInv' /\ PortStep
<1> DEFINE c == AnEvent("broker").conn
           m == Next1("broker")
<1>1. BridgeTypes /\ Clients
  BY DEF IInv
<1>2. /\ NextEvent("broker", "open") /\ queue' = AfterEvent("broker")
      /\ \/ conn[c].broker = "peer" /\ conn' = [conn EXCEPT ![c].broker = "open", ![c].watch = TRUE] /\ budget' = budget
         \/ conn[c].broker = "peer" /\ conn' = [conn EXCEPT ![c].broker = "closed"] /\ Spend("faults")
         \/ conn' = conn /\ budget' = budget
      /\ UNCHANGED <<opening, names, present, call, pending, waiting, answers, got, inbox, owner, started, sent, agents>>
  BY DEF OpenClient, serviceVars
<1>3. "broker" \in Roles /\ Popped(AfterEvent("broker"), "broker", m)
  BY <1>1, <1>2, EventPopped, RoleFacts
<1>4. Moved("broker", m, Adds("broker", <<>>)) /\ <<>> \in Seq(Items) /\ Ran(<<>>) = {}
  BY <1>2, <1>3, KeptMoved
<1>5. /\ \A y \in Ran(queue["broker"]) \ Rest("broker", m, "broker") : y.type = "open"
      /\ AnEvent("broker") \in Items /\ AnEvent("broker").type = "open"
  BY <1>1, <1>2, <1>3, <1>4, TakenEvent
<1>6. c \in Conns
  BY <1>5 DEF Items, Sound
<1>7. \A r \in Roles : \A y \in Ran(Adds("broker", <<>>)[r]) : FALSE
  BY ZenonT(60), <1>3, <1>4, AddsSeq DEF Ran
<1> HIDE DEF c, m
<1>8. conn \in [Conns -> ConnRecord]
  BY <1>1, TypesOf
<1>9. /\ conn' \in [Conns -> ConnRecord]
      /\ \A d \in Conns : conn'[d].name = conn[d].name /\ conn'[d].relay = conn[d].relay
      /\ \A d \in Conns : conn'[d].broker = conn[d].broker \/ (conn[d].broker = "peer" /\ conn'[d].broker \in {"open", "closed"})
  BY <1>2, <1>6, <1>8 DEF ConnRecord
<1>10. ASSUME NEW h, Noticed(h) PROVE Noticed(h)'
  BY <1>1, <1>3, <1>4, <1>10, NoticeKept, RoleFacts
<1>11. ClosedNamed'
  BY <1>1, <1>4, <1>7, <1>9, ClosedKept
<1>12. opening' = opening /\ present' = present
  BY <1>2
<1>13. Clients'
  BY <1>1, <1>9, <1>10, <1>11, <1>12 DEF Clients, ClosedNamed, Alive, Settled
<1>14. EnvTypes'
  <2>1. EnvTypes /\ budget \in Budget /\ budget' \in Budget
    BY <1>1, <1>2, TypeParts, SpendTypes DEF EnvTypes
  <2> QED
    BY <1>2, <1>9, <2>1 DEF EnvTypes
<1>15. \A d \in Conns : Settled(d) => Settled(d)'
  BY <1>9 DEF Settled
<1>16. \A d \in Conns : \A r \in Roles : conn[d][r] = "closed" => conn'[d][r] = "closed"
  BY <1>9 DEF Roles
<1>17. /\ call' = call /\ answers' = answers /\ got' = got /\ sent' = sent
       /\ inbox' = inbox /\ pending' = pending /\ agents' = agents /\ waiting' = waiting
  BY <1>2
<1> QED
  BY <1>1, <1>4, <1>5, <1>7, <1>12, <1>13, <1>14, <1>15, <1>16, <1>17, QuietStep, TypesOf

LEMMA ClosedMoved ==
    ASSUME BridgeTypes, Placed, Clients, NEW q, NEW a, NEW m, Popped(q, a, m), NEW r \in Roles,
           NEW c \in Conns, conn[c].name # None, Closed(q, r, c)
    PROVE  /\ \E add : Moved(a, m, add) /\ \A b \in Roles : \A y \in Ran(add[b]) : QuietItem(b, y)
           /\ waiting' \in [Roles -> SUBSET Calls] /\ \A b \in Roles : waiting'[b] \subseteq waiting[b]
<1> DEFINE far == Other(r)
           mine == {k \in waiting[r] : call[k].conn = c /\ (r = "broker" \/ ~Callback(k))}
           theirs == {k \in waiting[far] : call[k].conn = c /\ (Callback(k) = (far = "broker"))}
           farOpen == conn[c][far] \in {"peer", "open"}
           A == Cancelled(mine)
           B == Append(Cancelled(theirs), Source("closed", c, None, "none", 0))
           q1 == QueuedSources(q, r, A)
           add == [b \in Roles |-> IF b = r THEN A ELSE IF farOpen THEN B ELSE <<>>]
<1>1. /\ queue' = IF farOpen THEN QueuedSources(q1, far, B) ELSE q1
      /\ waiting' = [waiting EXCEPT ![r] = @ \ mine, ![far] = IF farOpen THEN @ \ theirs ELSE @]
  BY DEF Closed
<1>2. mine \in SUBSET waiting[r] /\ theirs \in SUBSET waiting[far] /\ far \in Roles /\ far # r /\ Roles = {r, far}
  BY RoleFacts
<1> HIDE DEF mine, theirs, farOpen, far
<1>3. A \in Seq(Items) /\ (\A y \in Ran(A) : QuietItem(r, y)) /\ B \in Seq(Items) /\ \A y \in Ran(B) : QuietItem(far, y)
  BY <1>2, CancelQuiet
<1>4. waiting' \in [Roles -> SUBSET Calls] /\ \A b \in Roles : waiting'[b] \subseteq waiting[b]
  BY <1>1, <1>2, TypesOf
<1> HIDE DEF A, B
<1>5. q \in Queues /\ q[r] \in Seq(Items) /\ q[far] \in Seq(Items)
  BY <1>2 DEF Popped, Queues
<1>6. add \in Queues /\ add[r] = A /\ add[far] = IF farOpen THEN B ELSE <<>>
  BY <1>2, <1>3 DEF Queues
<1>7. \A b \in Roles : \A y \in Ran(add[b]) : QuietItem(b, y)
  <2>1. Ran(<<>>) = {}
    BY DEF Ran
  <2> HIDE DEF add
  <2> QED
    BY <1>2, <1>3, <1>6, <2>1
<1>8. q1 \in Queues /\ q1[r] = q[r] \o A /\ q1[far] = q[far]
  BY <1>2, <1>3, <1>5 DEF QueuedSources, Queues
<1> HIDE DEF q1
<1>9. queue' \in Queues /\ queue'[r] = q[r] \o add[r] /\ queue'[far] = q[far] \o add[far]
  <2> HIDE DEF add
  <2>1. CASE farOpen
    <3>1. queue' = [q1 EXCEPT ![far] = q1[far] \o B]
      BY <1>1, <2>1 DEF QueuedSources
    <3>2. q[far] \o B \in Seq(Items)
      BY <1>3, <1>5
    <3> QED
      BY <1>2, <1>6, <1>8, <2>1, <3>1, <3>2 DEF Queues
  <2>2. CASE ~farOpen
    <3>1. q[far] \o <<>> = q[far]
      BY <1>5
    <3> QED
      BY <1>1, <1>6, <1>8, <2>2, <3>1
  <2> QED
    BY <2>1, <2>2
<1> HIDE DEF add
<1>10. Moved(a, m, add)
  BY <1>2, <1>6, <1>9 DEF Moved, Popped, Derived
<1> QED
  BY <1>4, <1>7, <1>10

LEMMA ClosedConn ==
    ASSUME BridgeTypes, NEW r \in Roles, NEW c \in Conns, conn' = [conn EXCEPT ![c] = [@ EXCEPT ![r] = "closed"]]
    PROVE  /\ conn' \in [Conns -> ConnRecord]
           /\ \A d \in Conns : conn'[d].name = conn[d].name
           /\ \A d \in Conns : d # c => conn'[d] = conn[d]
           /\ \A b \in Roles : b # r => conn'[c][b] = conn[c][b]
           /\ conn'[c][r] = "closed"
           /\ \A d \in Conns : \A b \in Roles : conn[d][b] = "closed" => conn'[d][b] = "closed"
           /\ \A d \in Conns : Settled(d) => Settled(d)'
<1>1. conn \in [Conns -> ConnRecord]
  BY TypesOf
<1>2. CASE r = "relay"
  <2>1. conn' \in [Conns -> ConnRecord]
    BY <1>1, <1>2 DEF ConnRecord
  <2>2. conn'[c].relay = "closed" /\ conn'[c].broker = conn[c].broker /\ conn'[c].name = conn[c].name
        /\ \A d \in Conns : d # c => conn'[d] = conn[d]
    BY <1>1, <1>2 DEF ConnRecord
  <2> QED
    BY <1>2, <2>1, <2>2 DEF Roles, Settled
<1>3. CASE r = "broker"
  <2>1. conn' \in [Conns -> ConnRecord]
    BY <1>1, <1>3 DEF ConnRecord
  <2>2. conn'[c].broker = "closed" /\ conn'[c].relay = conn[c].relay /\ conn'[c].name = conn[c].name
        /\ \A d \in Conns : d # c => conn'[d] = conn[d]
    BY <1>1, <1>3 DEF ConnRecord
  <2> QED
    BY <1>3, <2>1, <2>2 DEF Roles, Settled
<1> QED
  BY <1>2, <1>3, RoleFacts

LEMMA GuestNamesStep ==
    ASSUME IInv, GuestNames
    PROVE  IInv' /\ PortStep
<1> DEFINE g == Head(queue["relay"]).val
           q == AfterSource("relay")
<1>1. BridgeTypes /\ Clients /\ Placed /\ "relay" \in Roles
  BY RoleFacts DEF IInv
<1>2. /\ opening = None /\ NextSource("relay", "left") /\ names' = names \ {g}
      /\ \/ \E c \in ClientsOf(g) : Closed(q, "relay", c)
         \/ ClientsOf(g) = {} /\ queue' = q /\ conn' = conn /\ waiting' = waiting
      /\ UNCHANGED <<opening, present, call, pending, answers, got, budget, inbox, owner, started, sent, agents>>
  BY RoleFacts DEF GuestNames, serviceVars, Runs, LeftClients
<1>3. Popped(q, "relay", 1)
  BY <1>1, <1>2, SourcePopped
<1>4. Head(queue["relay"]) \in Items /\ Head(queue["relay"]).type = "left"
  <2>1. queue["relay"] \in Seq(Items)
    BY <1>1 DEF BridgeTypes
  <2>2. Head(queue["relay"]) \in Ran(queue["relay"]) /\ Head(queue["relay"]).type = "left"
    BY <1>1, <1>2, <2>1, FirstSource
  <2> QED
    BY <2>1, <2>2 DEF Ran
<1>5. g \in Guests
  BY <1>4 DEF Items, Sound
<1> HIDE DEF q
<1>6. ASSUME NEW add, Moved("relay", 1, add), \A b \in Roles : \A y \in Ran(add[b]) : QuietItem(b, y),
             waiting' \in [Roles -> SUBSET Calls], \A b \in Roles : waiting'[b] \subseteq waiting[b],
             conn' \in [Conns -> ConnRecord],
             \A d \in Conns : conn'[d].name = conn[d].name,
             \A d \in Conns : conn'[d] = conn[d] \/ (conn[d].relay = "open" /\ conn'[d].relay = "closed" /\ conn'[d].broker = conn[d].broker),
             \A d \in Conns : conn[d].name = g => conn'[d].relay # "open",
             \A d \in Conns : \A b \in Roles : conn[d][b] = "closed" => conn'[d][b] = "closed",
             \A d \in Conns : Settled(d) => Settled(d)'
      PROVE  IInv' /\ PortStep
  <2>1. \A y \in Ran(queue["relay"]) \ Rest("relay", 1, "relay") : y = Head(queue["relay"]) /\ y.type = "left"
    BY <1>1, <1>2, <1>6, TakenSource
  <2>2. ASSUME NEW h, Noticed(h), h # g PROVE Noticed(h)'
    BY <1>1, <1>6, <2>1, <2>2, NoticeKept
  <2>3. \A r \in Roles : \A y \in Ran(add[r]) : y.type = "closed" => y.conn \in Conns /\ conn[y.conn].name # None
    <3>1. \A r \in Roles : \A y \in Ran(add[r]) : y \in Items
      BY <1>6 DEF Moved, Queues, Ran
    <3> QED
      BY <1>6, <3>1 DEF QuietItem, Items, Sound
  <2>4. ClosedNamed'
    BY <1>1, <1>6, <2>3, ClosedKept
  <2>5. opening' = None /\ present' = present
    BY <1>2
  <2>6. \A d \in Conns : ~(conn[d].relay = "opening") /\ ~(conn'[d].relay = "opening")
    BY <1>1, <1>2, <1>6 DEF Clients
  <2>7. ASSUME NEW d \in Conns
        PROVE  /\ conn'[d].name = None => conn'[d].relay = "none" /\ conn'[d].broker = "none"
               /\ conn'[d].relay = "open" => Settled(d)'
               /\ Alive(d)' => Alive(d) /\ conn[d].name # g
    BY <1>1, <1>6, <2>6 DEF Clients, Alive, Settled
  <2>8. \A d \in Conns : Alive(d)' /\ conn'[d].name \in Guests \ present' => Noticed(conn[d].name)'
    <3> SUFFICES ASSUME NEW d \in Conns, Alive(d)', conn'[d].name \in Guests \ present', NEW h, h = conn'[d].name
                 PROVE  Noticed(h)'
      BY DEF Noticed
    <3>1. Alive(d) /\ h # g /\ h \in Guests \ present
      BY <1>6, <2>5, <2>7
    <3>3. h = conn[d].name
      BY <1>6
    <3>2. Noticed(h)
      <4>1. Noticed(conn[d].name)
        BY <1>1, <3>1, <3>3 DEF Clients
      <4> QED
        BY <3>3, <4>1
    <3> QED
      BY <2>2, <3>1, <3>2
  <2>9. \A d, e \in Conns : Alive(d)' /\ Alive(e)' /\ conn'[d].name = conn'[e].name /\ conn'[d].name \in Guests => d = e
    BY <1>1, <1>6, <2>7 DEF Clients
  <2>10. Clients'
    BY <1>6, <2>4, <2>5, <2>6, <2>7, <2>8, <2>9 DEF Clients, ClosedNamed, Noticed
  <2>11. EnvTypes'
    <3>1. EnvTypes
      BY <1>1, TypeParts
    <3> QED
      BY <1>2, <1>6, <3>1 DEF EnvTypes
  <2>12. /\ call' = call /\ answers' = answers /\ got' = got /\ sent' = sent
         /\ inbox' = inbox /\ pending' = pending /\ agents' = agents
    BY <1>2
  <2> QED
    BY <1>1, <1>6, <2>1, <2>5, <2>10, <2>11, <2>12, QuietStep, TypesOf
<1>7. CASE ClientsOf(g) = {} /\ queue' = q /\ conn' = conn /\ waiting' = waiting
  <2>1. Moved("relay", 1, Adds("relay", <<>>)) /\ <<>> \in Seq(Items) /\ Ran(<<>>) = {}
    BY <1>1, <1>3, <1>7, KeptMoved
  <2>2. \A b \in Roles : \A y \in Ran(Adds("relay", <<>>)[b]) : QuietItem(b, y)
    BY <1>1, <2>1, AddsRan
  <2>3. \A d \in Conns : conn[d].name = g => conn'[d].relay # "open"
    BY <1>7 DEF ClientsOf
  <2>4. \A d \in Conns : Settled(d) => Settled(d)'
    BY <1>7 DEF Settled
  <2>5. conn' = conn /\ waiting' = waiting
    BY <1>7
  <2> QED
    BY <1>1, <1>6, <2>1, <2>2, <2>3, <2>4, <2>5, TypesOf
<1>8. ASSUME NEW c \in ClientsOf(g), Closed(q, "relay", c)
      PROVE  IInv' /\ PortStep
  <2>1. c \in Conns /\ conn[c].name = g /\ conn[c].relay = "open" /\ g # None
    BY <1>5, <1>8, NameAssumption DEF ClientsOf
  <2>2. /\ \E add : Moved("relay", 1, add) /\ \A b \in Roles : \A y \in Ran(add[b]) : QuietItem(b, y)
        /\ waiting' \in [Roles -> SUBSET Calls] /\ \A b \in Roles : waiting'[b] \subseteq waiting[b]
    BY <1>1, <1>3, <1>8, <2>1, ClosedMoved
  <2>3. conn' = [conn EXCEPT ![c] = [@ EXCEPT !["relay"] = "closed"]]
    BY <1>8 DEF Closed
  <2>4. /\ conn' \in [Conns -> ConnRecord]
        /\ \A d \in Conns : conn'[d].name = conn[d].name
        /\ \A d \in Conns : d # c => conn'[d] = conn[d]
        /\ \A b \in Roles : b # "relay" => conn'[c][b] = conn[c][b]
        /\ conn'[c]["relay"] = "closed"
        /\ \A d \in Conns : \A b \in Roles : conn[d][b] = "closed" => conn'[d][b] = "closed"
        /\ \A d \in Conns : Settled(d) => Settled(d)'
    BY <1>1, <2>1, <2>3, ClosedConn
  <2>5. conn'[c].broker = conn[c].broker /\ conn'[c].relay = "closed"
    BY <2>4, RoleFacts
  <2>6. \A d \in Conns : conn[d].name = g => conn'[d].relay # "open"
    <3> SUFFICES ASSUME NEW d \in Conns, conn[d].name = g, conn'[d].relay = "open" PROVE FALSE
      OBVIOUS
    <3>1. d # c /\ conn[d].relay = "open"
      BY <2>4, <2>5
    <3> QED
      BY <1>1, <1>5, <2>1, <3>1 DEF Clients, Alive
  <2>7. \A d \in Conns : conn'[d] = conn[d] \/ (conn[d].relay = "open" /\ conn'[d].relay = "closed" /\ conn'[d].broker = conn[d].broker)
    BY <2>1, <2>4, <2>5
  <2> QED
    BY <1>6, <2>2, <2>4, <2>6, <2>7
<1> QED
  BY <1>2, <1>7, <1>8

LEMMA ConnectionClosedStep ==
    ASSUME IInv, NEW r \in Roles, ConnectionClosed(r)
    PROVE  IInv' /\ PortStep
<1> DEFINE c == Head(queue[r]).conn
           q == AfterSource(r)
<1>1. BridgeTypes /\ Clients /\ Placed
  BY DEF IInv
<1>2. /\ r = "broker" \/ opening = None
      /\ NextSource(r, "closed")
      /\ \/ queue' = q /\ conn' = conn /\ waiting' = waiting
         \/ Closed(q, r, c)
      /\ UNCHANGED <<opening, names, present, call, pending, answers, got, budget, inbox, owner, started, sent, agents>>
  BY DEF ConnectionClosed, serviceVars, Runs
<1>3. Popped(q, r, 1)
  BY <1>1, <1>2, SourcePopped
<1>4. Head(queue[r]) \in Items /\ Head(queue[r]).type = "closed" /\ Head(queue[r]) \in Ran(queue[r])
  <2>1. queue[r] \in Seq(Items)
    BY <1>1 DEF BridgeTypes
  <2>2. Head(queue[r]) \in Ran(queue[r]) /\ Head(queue[r]).type = "closed"
    BY <1>2, <2>1, FirstSource
  <2> QED
    BY <2>1, <2>2 DEF Ran
<1>5. c \in Conns /\ conn[c].name # None
  BY <1>1, <1>4 DEF Items, Sound, Clients
<1> HIDE DEF q, c
<1>6. ASSUME NEW add, Moved(r, 1, add), \A b \in Roles : \A y \in Ran(add[b]) : QuietItem(b, y),
             waiting' \in [Roles -> SUBSET Calls], \A b \in Roles : waiting'[b] \subseteq waiting[b],
             conn' \in [Conns -> ConnRecord],
             \A d \in Conns : conn'[d].name = conn[d].name,
             \A d \in Conns : d # c => conn'[d] = conn[d],
             \A d \in Conns : \A b \in Roles : conn[d][b] = "closed" => conn'[d][b] = "closed",
             \A d \in Conns : Settled(d) => Settled(d)',
             conn' = conn \/ (r = "relay" /\ conn'[c].relay = "closed") \/ (conn'[c].relay = conn[c].relay)
      PROVE  IInv' /\ PortStep
  <2>1. \A y \in Ran(queue[r]) \ Rest(r, 1, r) : y.type = "closed"
    BY <1>1, <1>2, <1>6, TakenSource
  <2>2. ASSUME NEW h, Noticed(h) PROVE Noticed(h)'
    BY <1>1, <1>6, <2>1, <2>2, NoticeKept
  <2>3. \A b \in Roles : \A y \in Ran(add[b]) : y.type = "closed" => y.conn \in Conns /\ conn[y.conn].name # None
    <3>1. \A b \in Roles : \A y \in Ran(add[b]) : y \in Items
      BY <1>6 DEF Moved, Queues, Ran
    <3> QED
      BY <1>6, <3>1 DEF QuietItem, Items, Sound
  <2>4. ClosedNamed'
    BY <1>1, <1>6, <2>3, ClosedKept
  <2>5. opening' = opening /\ present' = present
    BY <1>2
  <2>6. ASSUME NEW d \in Conns
        PROVE  /\ conn'[d].name = None => conn'[d].relay = "none" /\ conn'[d].broker = "none"
               /\ conn'[d].relay = "opening" <=> (opening # None /\ opening.conn = d)
               /\ conn'[d].relay = "open" => Settled(d)'
               /\ Alive(d)' => Alive(d)
    <3>1. CASE d # c
      BY <1>1, <1>6, <3>1 DEF Clients, Alive, Settled
    <3>2. CASE d = c /\ conn'[c].relay = conn[c].relay
      BY <1>1, <1>5, <1>6, <3>2 DEF Clients, Alive
    <3>3. CASE d = c /\ r = "relay" /\ conn'[c].relay = "closed"
      BY <1>1, <1>2, <1>5, <1>6, <3>3, RoleFacts DEF Clients, Alive
    <3> QED
      BY <1>6, <3>1, <3>2, <3>3
  <2>8. \A d \in Conns : Alive(d)' /\ conn'[d].name \in Guests \ present' => Noticed(conn[d].name)'
    <3> SUFFICES ASSUME NEW d \in Conns, Alive(d)', conn'[d].name \in Guests \ present', NEW h, h = conn'[d].name
                 PROVE  Noticed(h)'
      BY DEF Noticed
    <3>1. Alive(d) /\ h \in Guests \ present /\ h = conn[d].name
      BY <1>6, <2>5, <2>6
    <3>2. Noticed(conn[d].name)
      BY <1>1, <3>1 DEF Clients
    <3> QED
      BY <2>2, <3>1, <3>2
  <2>9. \A d, e \in Conns : Alive(d)' /\ Alive(e)' /\ conn'[d].name = conn'[e].name /\ conn'[d].name \in Guests => d = e
    BY <1>1, <1>6, <2>6 DEF Clients
  <2>10. Clients'
    BY <1>6, <2>4, <2>5, <2>6, <2>8, <2>9 DEF Clients, ClosedNamed, Noticed
  <2>11. EnvTypes'
    <3>1. EnvTypes
      BY <1>1, TypeParts
    <3> QED
      BY <1>2, <1>6, <3>1 DEF EnvTypes
  <2>12. /\ call' = call /\ answers' = answers /\ got' = got /\ sent' = sent
         /\ inbox' = inbox /\ pending' = pending /\ agents' = agents
    BY <1>2
  <2> QED
    BY <1>1, <1>6, <2>1, <2>5, <2>10, <2>11, <2>12, QuietStep, TypesOf
<1>7. CASE queue' = q /\ conn' = conn /\ waiting' = waiting
  <2>1. Moved(r, 1, Adds(r, <<>>)) /\ <<>> \in Seq(Items) /\ Ran(<<>>) = {}
    BY <1>3, <1>7, KeptMoved
  <2>2. \A b \in Roles : \A y \in Ran(Adds(r, <<>>)[b]) : QuietItem(b, y)
    BY <2>1, AddsRan
  <2>4. \A d \in Conns : Settled(d) => Settled(d)'
    BY <1>7 DEF Settled
  <2>5. conn' = conn /\ waiting' = waiting
    BY <1>7
  <2> QED
    BY <1>1, <1>6, <2>1, <2>2, <2>4, <2>5, TypesOf
<1>8. CASE Closed(q, r, c)
  <2>2. /\ \E add : Moved(r, 1, add) /\ \A b \in Roles : \A y \in Ran(add[b]) : QuietItem(b, y)
        /\ waiting' \in [Roles -> SUBSET Calls] /\ \A b \in Roles : waiting'[b] \subseteq waiting[b]
    BY <1>1, <1>3, <1>5, <1>8, ClosedMoved
  <2>3. conn' = [conn EXCEPT ![c] = [@ EXCEPT ![r] = "closed"]]
    BY <1>8 DEF Closed
  <2>4. /\ conn' \in [Conns -> ConnRecord]
        /\ \A d \in Conns : conn'[d].name = conn[d].name
        /\ \A d \in Conns : d # c => conn'[d] = conn[d]
        /\ \A b \in Roles : b # r => conn'[c][b] = conn[c][b]
        /\ conn'[c][r] = "closed"
        /\ \A d \in Conns : \A b \in Roles : conn[d][b] = "closed" => conn'[d][b] = "closed"
        /\ \A d \in Conns : Settled(d) => Settled(d)'
    BY <1>1, <1>5, <2>3, ClosedConn
  <2>5. (r = "relay" /\ conn'[c].relay = "closed") \/ conn'[c].relay = conn[c].relay
    BY <2>4, RoleFacts
  <2> QED
    BY <1>6, <2>2, <2>4, <2>5
<1> QED
  BY <1>2, <1>7, <1>8

\* relay_client: a new connection, of a guest without one or of the observer.
LEMMA StartsOpening ==
    ASSUME BridgeTypes, Clients, NEW q, NEW a, NEW m, Popped(q, a, m), NEW name \in Guests \cup {Observer},
           NEW k \in Requests \cup {None}, StartOpening(name, k, q), present' = present, opening = None,
           name \in Guests => name \in present /\ ClientsOf(name) = {},
           a = "relay" => \A y \in Ran(queue[a]) \ Rest(a, m, a) : y.type # "left"
    PROVE  /\ \E e \in Seq(Items) : Moved(a, m, Adds("broker", e)) /\ \A y \in Ran(e) : QuietItem("broker", y) /\ y.type = "open"
           /\ conn' \in [Conns -> ConnRecord]
           /\ opening' \in [conn : Conns, call : Requests \cup {None}] /\ opening' # None /\ opening'.call = k
           /\ Clients'
           /\ \A d \in Conns : Settled(d) => Settled(d)'
           /\ \A d \in Conns : \A b \in Roles : conn[d][b] = "closed" => conn'[d][b] = "closed"
<1>1. PICK c \in Unused :
        /\ conn' = [conn EXCEPT ![c].name = name, ![c].relay = "opening",
                              ![c].broker = IF Full(q, "broker") THEN "closed" ELSE "peer"]
        /\ opening' = [conn |-> c, call |-> k]
        /\ queue' = Queued(q, "broker", Event("open", c, None, "none", 0))
  BY DEF StartOpening
<1>2. c \in Conns /\ conn[c].name = None
  BY DEF Unused
<1> DEFINE x == Event("open", c, None, "none", 0)
           end == IF Full(q, "broker") THEN "closed" ELSE "peer"
<1>3. x \in Items /\ QuietItem("broker", x) /\ x.type = "open"
  BY <1>2, ItemFacts DEF QuietItem, Stamped, Token, Event, Item
<1>4. queue' = Queued(q, "broker", x) /\ "broker" \in Roles
  BY <1>1, RoleFacts
<1>5. end \in {"closed", "peer"} /\ conn' = [conn EXCEPT ![c].name = name, ![c].relay = "opening", ![c].broker = end]
  BY <1>1
<1> HIDE DEF x, end
<1>6. PICK e \in Seq(Items) : Ran(e) \subseteq {x} /\ Ordered(e) /\ Moved(a, m, Adds("broker", e))
  BY <1>3, <1>4, QueuedMoved
<1>7. \A y \in Ran(e) : QuietItem("broker", y) /\ y.type = "open"
  BY <1>3, <1>6
<1>8. conn \in [Conns -> ConnRecord]
  BY TypesOf
<1>9. /\ conn' \in [Conns -> ConnRecord]
      /\ conn'[c].name = name /\ conn'[c].relay = "opening" /\ conn'[c].broker = end
      /\ \A d \in Conns : d # c => conn'[d] = conn[d]
  <2> DEFINE new == [conn[c] EXCEPT !.name = name, !.relay = "opening", !.broker = end]
  <2>1. conn[c] \in ConnRecord
    BY <1>2, <1>8
  <2>2. new \in ConnRecord /\ new.name = name /\ new.relay = "opening" /\ new.broker = end
    BY <1>5, <2>1 DEF ConnRecord
  <2>3. conn' = [conn EXCEPT ![c] = new]
    BY <1>2, <1>5, <1>8
  <2> HIDE DEF new
  <2> QED
    BY <1>2, <1>8, <2>2, <2>3
<1>10. conn[c].relay = "none" /\ conn[c].broker = "none" /\ name # None
  BY <1>2, NameAssumption DEF Clients
<1>11. opening' \in [conn : Conns, call : Requests \cup {None}] /\ opening' # None /\ opening'.call = k /\ opening'.conn = c
  BY <1>1, <1>2, ConnAssumption DEF Calls
<1>12. ASSUME NEW h, Noticed(h) PROVE Noticed(h)'
  BY <1>6, <1>12, NoticeKept
<1>13. ClosedNamed'
  <2>1. \A r \in Roles : \A y \in Ran(Adds("broker", e)[r]) : y.type = "closed" => y.conn \in Conns /\ conn[y.conn].name # None
    BY <1>4, <1>7, AddsRan
  <2>2. \A d \in Conns : conn[d].name # None => conn'[d].name # None
    BY <1>2, <1>9
  <2> QED
    BY <1>6, <2>1, <2>2, ClosedKept
<1>14. \A d \in Conns : conn[d].relay # "opening"
  BY DEF Clients
<1>15. ASSUME NEW d \in Conns
       PROVE  /\ conn'[d].name = None => conn'[d].relay = "none" /\ conn'[d].broker = "none"
              /\ conn'[d].relay = "opening" <=> (opening' # None /\ opening'.conn = d)
              /\ conn'[d].relay = "open" => Settled(d)'
              /\ Alive(d)' => d = c \/ (Alive(d) /\ conn[d].name # name) \/ (Alive(d) /\ name \notin Guests)
  <2>1. CASE d = c
    BY <1>9, <1>10, <1>11, <2>1
  <2>2. CASE d # c
    BY <1>9, <1>11, <1>14, <2>2 DEF Clients, Alive, Settled, ClientsOf
  <2> QED
    BY <2>1, <2>2
<1>16. \A d \in Conns : Alive(d)' /\ conn'[d].name \in Guests \ present' => Noticed(conn[d].name)'
  <2> SUFFICES ASSUME NEW d \in Conns, Alive(d)', conn'[d].name \in Guests \ present', NEW h, h = conn'[d].name
               PROVE  Noticed(h)'
    BY DEF Noticed
  <2>1. d # c
    BY <1>9
  <2>2. Alive(d) /\ h \in Guests \ present /\ h = conn[d].name
    BY <1>9, <1>15, <2>1
  <2>3. Noticed(conn[d].name)
    BY <2>2 DEF Clients
  <2> QED
    BY <1>12, <2>2, <2>3
<1>17. \A d, f \in Conns : Alive(d)' /\ Alive(f)' /\ conn'[d].name = conn'[f].name /\ conn'[d].name \in Guests => d = f
  BY <1>9, <1>15 DEF Clients
<1>18. Clients'
  BY <1>13, <1>15, <1>16, <1>17 DEF Clients, ClosedNamed, Noticed
<1>19. \A d \in Conns : Settled(d) => Settled(d)'
  BY <1>9, <1>10 DEF Settled
<1>20. \A d \in Conns : \A b \in Roles : conn[d][b] = "closed" => conn'[d][b] = "closed"
  BY <1>9, <1>10, RoleFacts
<1> QED
  BY <1>6, <1>7, <1>9, <1>11, <1>18, <1>19, <1>20

LEMMA ObserverTickStep ==
    ASSUME IInv, ObserverTick
    PROVE  IInv' /\ PortStep
<1>1. BridgeTypes /\ Clients /\ "broker" \in Roles
  BY RoleFacts DEF IInv
<1>2. /\ opening = None /\ Spend("observers") /\ StartOpening(Observer, None, queue)
      /\ UNCHANGED <<names, present, call, pending, waiting, answers, got, inbox, owner, started, sent, agents>>
  BY DEF ObserverTick, serviceVars
<1>3. Popped(queue, "broker", 0)
  BY <1>1, NotPopped
<1>4. /\ \E e \in Seq(Items) : Moved("broker", 0, Adds("broker", e)) /\ \A y \in Ran(e) : QuietItem("broker", y) /\ y.type = "open"
      /\ conn' \in [Conns -> ConnRecord]
      /\ opening' \in [conn : Conns, call : Requests \cup {None}] /\ opening' # None /\ opening'.call = None
      /\ Clients'
      /\ \A d \in Conns : Settled(d) => Settled(d)'
      /\ \A d \in Conns : \A b \in Roles : conn[d][b] = "closed" => conn'[d][b] = "closed"
  <2>1. present' = present /\ opening = None /\ (Observer \in Guests => Observer \in present /\ ClientsOf(Observer) = {})
    BY <1>2, NameAssumption
  <2>2. Observer \in Guests \cup {Observer} /\ None \in Requests \cup {None} /\ "broker" # "relay"
    OBVIOUS
  <2>3. StartOpening(Observer, None, queue)
    BY <1>2
  <2> QED
    BY <1>1, <1>3, <2>1, <2>2, <2>3, StartsOpening
<1>5. PICK e \in Seq(Items) : Moved("broker", 0, Adds("broker", e)) /\ \A y \in Ran(e) : QuietItem("broker", y) /\ y.type = "open"
  BY <1>4
<1>6. Ran(queue["broker"]) \ Rest("broker", 0, "broker") = {}
  BY <1>1, <1>5, TakenNothing
<1>7. \A r \in Roles : \A y \in Ran(Adds("broker", e)[r]) : QuietItem(r, y)
  BY <1>1, <1>5, AddsRan
<1>8. EnvTypes'
  <2>1. EnvTypes /\ budget' \in Budget
    BY <1>1, <1>2, TypeParts, SpendTypes
  <2> QED
    BY <1>2, <1>4, <2>1 DEF EnvTypes
<1>9. /\ call' = call /\ answers' = answers /\ got' = got /\ sent' = sent
      /\ inbox' = inbox /\ pending' = pending /\ agents' = agents /\ waiting' = waiting
  BY <1>2
<1> QED
  BY <1>1, <1>4, <1>5, <1>6, <1>7, <1>8, <1>9, QuietStep, TypesOf

\* Open has answered or failed: the relay waits no longer.
LEMMA OpeningEnds ==
    ASSUME BridgeTypes, Clients, NEW m, NEW a, NEW add, Moved(a, m, add), m = 0, opening # None, opening' = None,
           NEW end \in {"open", "closed"}, end = "open" => conn[opening.conn].broker = "open",
           conn' = [conn EXCEPT ![opening.conn].relay = end], present' = present,
           \A r \in Roles : \A y \in Ran(add[r]) : y.type = "closed" => y.conn \in Conns /\ conn[y.conn].name # None
    PROVE  /\ conn' \in [Conns -> ConnRecord] /\ Clients'
           /\ \A d \in Conns : Settled(d) => Settled(d)'
           /\ \A d \in Conns : \A b \in Roles : conn[d][b] = "closed" => conn'[d][b] = "closed"
           /\ opening.conn \in Conns /\ conn[opening.conn].name # None
           /\ conn'[opening.conn].relay = end /\ conn'[opening.conn].broker = conn[opening.conn].broker
<1> DEFINE c == opening.conn
<1>1. c \in Conns
  BY DEF BridgeTypes
<1>2. conn[c].relay = "opening" /\ conn[c].name # None
  BY <1>1 DEF Clients
<1>3. conn \in [Conns -> ConnRecord]
  BY TypesOf
<1>4. conn' = [conn EXCEPT ![c].relay = end]
  OBVIOUS
<1>16. \A d \in Conns : conn[d].relay = "opening" => d = c
  BY DEF Clients
<1>17. end = "open" => conn[c].broker = "open"
  OBVIOUS
<1> HIDE DEF c
<1>5. /\ conn' \in [Conns -> ConnRecord] /\ conn'[c].relay = end /\ conn'[c].broker = conn[c].broker /\ conn'[c].name = conn[c].name
      /\ \A d \in Conns : d # c => conn'[d] = conn[d]
  <2> DEFINE new == [conn[c] EXCEPT !.relay = end]
  <2>1. conn[c] \in ConnRecord
    BY <1>1, <1>3
  <2>2. new \in ConnRecord /\ new.relay = end /\ new.broker = conn[c].broker /\ new.name = conn[c].name
    BY <2>1 DEF ConnRecord
  <2>3. conn' = [conn EXCEPT ![c] = new]
    BY <1>1, <1>3, <1>4
  <2> HIDE DEF new
  <2> QED
    BY <1>1, <1>3, <2>2, <2>3
<1>6. ASSUME NEW h, Noticed(h) PROVE Noticed(h)'
  <2>1. Ran(queue[a]) \ Rest(a, m, a) = {}
    BY TakenNothing
  <2> QED
    BY <1>6, <2>1, NoticeKept
<1>7. ClosedNamed'
  <2>1. \A d \in Conns : conn[d].name # None => conn'[d].name # None
    BY <1>5
  <2> QED
    BY <2>1, ClosedKept
<1>8. ASSUME NEW d \in Conns
      PROVE  /\ conn'[d].name = None => conn'[d].relay = "none" /\ conn'[d].broker = "none"
             /\ conn'[d].relay # "opening"
             /\ conn'[d].relay = "open" => Settled(d)'
             /\ Alive(d)' => Alive(d)
             /\ conn'[d].name = conn[d].name
  <2>1. CASE d = c
    BY <1>1, <1>2, <1>5, <1>17, <2>1 DEF Alive, Settled
  <2>2. CASE d # c
    BY <1>5, <1>16, <2>2 DEF Clients, Alive, Settled
  <2> QED
    BY <2>1, <2>2
<1>9. \A d \in Conns : Alive(d)' /\ conn'[d].name \in Guests \ present' => Noticed(conn[d].name)'
  <2> SUFFICES ASSUME NEW d \in Conns, Alive(d)', conn'[d].name \in Guests \ present', NEW h, h = conn'[d].name
               PROVE  Noticed(h)'
    BY DEF Noticed
  <2>2. Alive(d) /\ h \in Guests \ present /\ h = conn[d].name
    BY <1>8
  <2>3. Noticed(conn[d].name)
    BY <2>2 DEF Clients
  <2> QED
    BY <1>6, <2>2, <2>3
<1>10. \A d, f \in Conns : Alive(d)' /\ Alive(f)' /\ conn'[d].name = conn'[f].name /\ conn'[d].name \in Guests => d = f
  BY <1>8 DEF Clients
<1>11. Clients'
  BY <1>7, <1>8, <1>9, <1>10 DEF Clients, ClosedNamed, Noticed
<1>12. \A d \in Conns : Settled(d) => Settled(d)'
  BY <1>2, <1>5 DEF Settled
<1>13. \A d \in Conns : \A b \in Roles : conn[d][b] = "closed" => conn'[d][b] = "closed"
  BY <1>2, <1>5, RoleFacts
<1> QED
  BY <1>1, <1>2, <1>5, <1>11, <1>12, <1>13 DEF c

\* RelayOpened, when no call waits.
LEMMA OpenedQuiet ==
    ASSUME IInv, RelayOpened, opening.call = None
    PROVE  IInv' /\ PortStep
<1>1. BridgeTypes /\ Clients /\ "broker" \in Roles
  BY RoleFacts DEF IInv
<1>2. /\ opening # None /\ conn[opening.conn].broker = "open"
      /\ conn' = [conn EXCEPT ![opening.conn].relay = "open"] /\ opening' = None
      /\ UNCHANGED <<queue, pending, call, inbox, waiting, answers, names, present, got, budget, owner, started, sent, agents>>
  BY DEF RelayOpened, serviceVars
<1>3. Popped(queue, "broker", 0) /\ queue' = queue
  BY <1>1, <1>2, NotPopped
<1>4. Moved("broker", 0, Adds("broker", <<>>)) /\ <<>> \in Seq(Items) /\ Ran(<<>>) = {}
  BY <1>1, <1>3, KeptMoved
<1>5. \A r \in Roles : \A y \in Ran(Adds("broker", <<>>)[r]) : FALSE
  BY <1>1, <1>4, AddsRan
<1>6. present' = present /\ opening # None /\ opening' = None /\ conn[opening.conn].broker = "open"
      /\ conn' = [conn EXCEPT ![opening.conn].relay = "open"]
  BY <1>2
<1>7. /\ conn' \in [Conns -> ConnRecord] /\ Clients'
      /\ \A d \in Conns : Settled(d) => Settled(d)'
      /\ \A d \in Conns : \A b \in Roles : conn[d][b] = "closed" => conn'[d][b] = "closed"
  BY <1>1, <1>4, <1>5, <1>6, OpeningEnds
<1>8. EnvTypes'
  <2>1. EnvTypes
    BY <1>1, TypeParts
  <2> QED
    BY <1>2, <1>7, <2>1 DEF EnvTypes
<1>9. /\ call' = call /\ answers' = answers /\ got' = got /\ sent' = sent
      /\ inbox' = inbox /\ pending' = pending /\ agents' = agents /\ waiting' = waiting
  BY <1>2
<1>10. Ran(queue["broker"]) \ Rest("broker", 0, "broker") = {}
  BY <1>1, <1>4, TakenNothing
<1> QED
  BY <1>1, <1>4, <1>5, <1>6, <1>7, <1>8, <1>9, <1>10, QuietStep, TypesOf

\* The notice of a handshake that failed.
LEMMA FailureMoved ==
    ASSUME BridgeTypes, NEW c \in Conns, conn[c].name # None,
           queue' = queue \/ queue' = Queued(queue, "broker", Source("closed", c, None, "none", 0))
    PROVE  \E e \in Seq(Items) : Moved("broker", 0, Adds("broker", e)) /\ \A y \in Ran(e) : QuietItem("broker", y)
                                   /\ y.type = "closed" /\ y.conn \in Conns /\ conn[y.conn].name # None
<1> DEFINE x == Source("closed", c, None, "none", 0)
<1>3. x \in Items /\ QuietItem("broker", x) /\ x.type = "closed" /\ x.conn = c
  BY ItemFacts DEF QuietItem, Stamped, Token, Source, Item
<1>4. Popped(queue, "broker", 0) /\ "broker" \in Roles
  BY NotPopped, RoleFacts
<1>5. queue' = queue \/ queue' = Queued(queue, "broker", x)
  OBVIOUS
<1> HIDE DEF x
<1>6. \E e \in Seq(Items) : Ran(e) \subseteq {x} /\ Moved("broker", 0, Adds("broker", e))
  <2>1. CASE queue' = queue
    <3>1. Moved("broker", 0, Adds("broker", <<>>)) /\ <<>> \in Seq(Items) /\ Ran(<<>>) = {}
      BY <1>4, <2>1, KeptMoved
    <3> QED
      BY <3>1
  <2>2. CASE queue' = Queued(queue, "broker", x)
    <3>2. x \in Items
      BY <1>3
    <3>1. \E e \in Seq(Items) : Ran(e) \subseteq {x} /\ Ordered(e) /\ Moved("broker", 0, Adds("broker", e))
      BY ZenonT(60), <1>4, <2>2, <3>2, QueuedMoved
    <3> QED
      BY <3>1
  <2> QED
    BY <1>5, <2>1, <2>2
<1> QED
  BY <1>3, <1>6

LEMMA OpenFailsQuiet ==
    ASSUME IInv, RelayOpenFails, opening.call = None
    PROVE  IInv' /\ PortStep
<1>1. BridgeTypes /\ Clients /\ "broker" \in Roles
  BY RoleFacts DEF IInv
<1>2. /\ opening # None /\ (budget' = budget \/ Spend("faults"))
      /\ conn' = [conn EXCEPT ![opening.conn].relay = "closed"] /\ opening' = None
      /\ queue' = IF conn[opening.conn].broker = "closed" THEN queue
                  ELSE Queued(queue, "broker", Source("closed", opening.conn, None, "none", 0))
      /\ UNCHANGED <<pending, call, inbox, waiting, answers, names, present, got, owner, started, sent, agents>>
  BY DEF RelayOpenFails, serviceVars
<1>3. opening # None /\ opening' = None /\ conn' = [conn EXCEPT ![opening.conn].relay = "closed"] /\ present' = present
  BY <1>2
<1>4. PICK e \in Seq(Items) : Moved("broker", 0, Adds("broker", e)) /\ \A y \in Ran(e) : QuietItem("broker", y)
                                   /\ y.type = "closed" /\ y.conn \in Conns /\ conn[y.conn].name # None
  <2> DEFINE c == opening.conn
  <2>1. c \in Conns
    BY <1>1, <1>2 DEF BridgeTypes
  <2>2. conn[c].name # None
    BY <1>1, <1>2, <2>1 DEF Clients
  <2>3. queue' = queue \/ queue' = Queued(queue, "broker", Source("closed", c, None, "none", 0))
    BY <1>2
  <2> HIDE DEF c
  <2> QED
    BY <1>1, <2>1, <2>2, <2>3, FailureMoved
<1>5. \A r \in Roles : \A y \in Ran(Adds("broker", e)[r]) : QuietItem(r, y) /\ y.conn \in Conns /\ conn[y.conn].name # None
  BY <1>1, <1>4, AddsRan
<1>7. /\ conn' \in [Conns -> ConnRecord] /\ Clients'
      /\ \A d \in Conns : Settled(d) => Settled(d)'
      /\ \A d \in Conns : \A b \in Roles : conn[d][b] = "closed" => conn'[d][b] = "closed"
  BY SMTT(40), <1>1, <1>3, <1>4, <1>5, OpeningEnds
<1>8. EnvTypes'
  <2>1. EnvTypes /\ budget \in Budget /\ budget' \in Budget
    BY <1>1, <1>2, TypeParts, SpendTypes DEF EnvTypes
  <2> QED
    BY <1>2, <1>7, <2>1 DEF EnvTypes
<1>9. /\ call' = call /\ answers' = answers /\ got' = got /\ sent' = sent
      /\ inbox' = inbox /\ pending' = pending /\ agents' = agents /\ waiting' = waiting
  BY <1>2
<1>10. Ran(queue["broker"]) \ Rest("broker", 0, "broker") = {}
  BY <1>1, <1>4, TakenNothing
<1> QED
  BY <1>1, <1>3, <1>4, <1>5, <1>7, <1>8, <1>9, <1>10, QuietStep, TypesOf

-----------------------------------------------------------------------------
(* Steps that make, forward or refuse a call.                               *)

DataTypes ==
    /\ call \in [Calls -> [guest : Guests \cup {Observer, None}, conn : Conns \cup {None},
                           kind : Kinds \cup {"callback"}]]
    /\ pending \in [Roles -> SUBSET Entries] /\ waiting \in [Roles -> SUBSET Calls]
    /\ inbox \subseteq Calls /\ answers \in [Calls -> Nat]

LEMMA CallStep ==
    ASSUME IInv, NEW a, NEW m, NEW add, Moved(a, m, add), EnvTypes', DataTypes', Clients',
           sent' = sent, got' = got, agents' = agents,
           NEW k \in Calls, \A j \in Calls : j # k => Spared(j), CallOk(k)',
           call[k].conn # None => call'[k].conn = call[k].conn,
           \A c \in Conns : Settled(c) => Settled(c)',
           \A c \in Conns : \A r \in Roles : conn[c][r] = "closed" => conn'[c][r] = "closed",
           \/ opening' = opening /\ (opening = None \/ opening.call # k)
           \/ opening' = None
           \/ opening' # None /\ opening'.call = k /\ OpeningOk',
           \A r \in Roles : \A x \in Rest(a, m, r) : Token(x) /\ x.id = k => ItemOk(r, x)',
           \A r \in Roles : \A y \in Ran(add[r]) : (y.id = k \/ y.type = "open") /\ ~Stamped(y) /\ ItemOk(r, y)',
           \A r \in Roles : Ordered(add[r]),
           \A r \in Roles : \A x \in Rest(a, m, r), y \in Ran(add[r]) : Token(y) => x.type # y.type \/ x.id # k,
           \A r \in Roles : \A x \in Rest(a, m, r) :
              Stamped(x) /\ x.type = "done" /\ x.id = k /\ Undone(r, k)' => Undone(r, k),
           \A y \in Ran(queue[a]) \ Rest(a, m, a) : y.type # "reply"
    PROVE  IInv'
<1> DEFINE K == {k}
<1>0. BridgeTypes /\ Clients /\ Placed /\ Owed /\ Itemised /\ InOrder
  BY DEF IInv
<1>1. BridgeTypes'
  <2>1. queue' \in Queues
    BY DEF Moved
  <2>2. (BridgeTypes <=>
      /\ EnvTypes /\ queue \in Queues
      /\ call \in [Calls -> [guest : Guests \cup {Observer, None}, conn : Conns \cup {None},
                             kind : Kinds \cup {"callback"}]]
      /\ pending \in [Roles -> SUBSET Entries] /\ waiting \in [Roles -> SUBSET Calls]
      /\ inbox \subseteq Calls /\ sent \in Seq(SUBSET Conns)
      /\ answers \in [Calls -> Nat] /\ got \in [Guests -> Seq(Heard)])'
    BY TypeParts, PTL
  <2>3. sent \in Seq(SUBSET Conns) /\ got \in [Guests -> Seq(Heard)]
    BY <1>0 DEF BridgeTypes
  <2> QED
    BY <2>1, <2>2, <2>3 DEF DataTypes
<1>2. \A j \in Calls \ K : Spared(j)
  OBVIOUS
<1>3. Placed' /\ Owed'
  <2>1. \A c \in agents' : Settled(c)'
    BY <1>0 DEF Placed, BridgeTypes
  <2>2. \/ opening' = opening /\ \A j \in K : opening = None \/ opening.call # j
        \/ OpeningOk'
    BY DEF OpeningOk
  <2>3. \A j \in Calls \cap K : CallOk(j)'
    OBVIOUS
  <2> HIDE DEF K
  <2> QED
    BY <1>0, <1>2, <2>1, <2>2, <2>3, CallsStep
<1>4. Itemised'
  <2>1. \A j \in Calls \ K : opening' # None /\ opening'.call = j => opening # None /\ opening.call = j
    OBVIOUS
  <2>2. \A j \in Calls \cap K : call[j].conn # None => call'[j].conn = call[j].conn
    OBVIOUS
  <2>3. \A r \in Roles : \A x \in Rest(a, m, r) : Token(x) /\ x.id \in K => ItemOk(r, x)'
    OBVIOUS
  <2>4. \A r \in Roles : \A y \in Ran(add[r]) : ItemOk(r, y)'
    OBVIOUS
  <2>5. \A y \in Ran(add["broker"]) :
              y.type \in {"reply", "done"} => y.id \in Callbacks \cup inbox \cup waiting["broker"] \cup K
    BY RoleFacts
  <2>6. \A y \in Ran(add["relay"]) : y.type = "callback" => y.id \in K
    BY RoleFacts
  <2> HIDE DEF K
  <2> QED
    BY <1>0, <1>2, <2>1, <2>2, <2>3, <2>4, <2>5, <2>6, ItemsStep
<1>5. InOrder'
  <2>1. \A r \in Roles : \A y \in Ran(add[r]) : ~Stamped(y)
    OBVIOUS
  <2>2. ASSUME NEW r \in Roles, NEW x \in Rest(a, m, r), Stamped(x), x.type = "done", Undone(r, x.id)'
        PROVE  Undone(r, x.id)
    <3>1. x \in Items
      <4>1. Rest(a, m, r) \subseteq Ran(queue[r])
        BY <1>0, MovedFacts
      <4> QED
        BY <1>0, <2>2, <4>1 DEF BridgeTypes, Ran
    <3>2. x.id \in Calls
      BY <2>2, <3>1 DEF Items, Sound
    <3>3. CASE x.id = k
      BY <2>2, <3>3 DEF Undone
    <3>4. CASE x.id # k
      BY <2>2, <3>2, <3>4 DEF Spared
    <3> QED
      BY <3>3, <3>4
  <2>3. \A r \in Roles : \A x \in Rest(a, m, r), y \in Ran(add[r]) : Token(y) => x.type # y.type \/ x.id # y.id
    BY DEF Token
  <2> QED
    BY <1>0, <2>1, <2>2, <2>3, OrderQuiet
<1> QED
  BY <1>1, <1>3, <1>4, <1>5 DEF IInv

\* What forward queues: the call for the peer, or the peer's refusal.
FwdItem(r, k, c, b, y) ==
    /\ y.conn = c /\ y.id = k /\ y.stamp = 0
    /\ \/ b = Other(r) /\ y.type = "call" /\ k \in Requests /\ r = "relay"
       \/ b = Other(r) /\ y.type = "callback" /\ k \in Callbacks /\ r = "broker"
       \/ b = r /\ y.type \in {"reply", "done"}

LEMMA QueuedTwice ==
    ASSUME NEW q, NEW a, NEW m, Popped(q, a, m), NEW b \in Roles, NEW x \in Items, NEW y \in Items,
           queue' = Queued(Queued(q, b, x), b, y), x.type # y.type, x.stamp = 0
    PROVE  \E e \in Seq(Items) : Ran(e) \subseteq {x, y} /\ Ordered(e) /\ Moved(a, m, Adds(b, e))
<1> DEFINE p == Queued(q, b, x)
<1>0. Before(x, y)
  BY DEF Before, Stamped
<1>1. q \in Queues /\ q[b] \in Seq(Items)
  BY DEF Popped, Queues
<1>2. p \in Queues /\ (\A r \in Roles \ {b} : p[r] = q[r]) /\ (p[b] = q[b] \/ p[b] = q[b] \o <<x>>)
  BY <1>1, QueuedShape
<1>3. queue' = Queued(p, b, y)
  OBVIOUS
<1> HIDE DEF p
<1>4. queue' \in Queues /\ (\A r \in Roles \ {b} : queue'[r] = p[r]) /\ (queue'[b] = p[b] \/ queue'[b] = p[b] \o <<y>>)
  <2> DEFINE t == Queued(p, b, y)
  <2>1. t \in Queues /\ (\A r \in Roles \ {b} : t[r] = p[r]) /\ (t[b] = p[b] \/ t[b] = p[b] \o <<y>>)
    <3>1. p \in Queues
      BY <1>2
    <3> QED
      BY <3>1, QueuedShape
  <2>2. queue' = t
    BY <1>3
  <2> HIDE DEF t
  <2> QED
    BY <2>1, <2>2
<1>5. /\ <<>> \in Seq(Items) /\ Ran(<<>>) = {} /\ Ordered(<<>>)
      /\ <<x>> \in Seq(Items) /\ Ran(<<x>>) = {x} /\ Ordered(<<x>>)
      /\ <<y>> \in Seq(Items) /\ Ran(<<y>>) = {y} /\ Ordered(<<y>>)
      /\ <<x, y>> \in Seq(Items) /\ Ran(<<x, y>>) = {x, y} /\ Ordered(<<x, y>>)
      /\ q[b] \o <<>> = q[b]
  <2>1. <<x>> \in Seq(Items) /\ Ran(<<x>>) = {x} /\ Ordered(<<x>>)
    BY Single
  <2>2. <<y>> \in Seq(Items) /\ Ran(<<y>>) = {y} /\ Ordered(<<y>>)
    BY Single
  <2>3. /\ q[b] \o <<>> = q[b] /\ <<>> \in Seq(Items) /\ Ran(<<>>) = {} /\ Ordered(<<>>)
        /\ <<x, y>> \in Seq(Items) /\ Ran(<<x, y>>) = {x, y} /\ (Before(x, y) => Ordered(<<x, y>>))
    <3>1. q[b] \in Seq(Items)
      BY <1>1
    <3> QED
      BY <3>1, Short
  <2> QED
    BY <1>0, <2>1, <2>2, <2>3
<1>6. (q[b] \o <<x>>) \o <<y>> = q[b] \o <<x, y>>
  <2>1. Append(q[b], x) = q[b] \o <<x>> /\ Append(Append(q[b], x), y) = q[b] \o <<x, y>>
    BY <1>1, Short
  <2>2. q[b] \o <<x>> \in Seq(Items)
    BY <1>1, <1>5, ConcatProperties
  <2>3. \A s \in Seq(Items) : Append(s, y) = s \o <<y>>
    BY Short
  <2> QED
    BY <2>1, <2>2, <2>3
<1>7. \/ queue'[b] = q[b] \o <<>> \/ queue'[b] = q[b] \o <<x>>
      \/ queue'[b] = q[b] \o <<y>> \/ queue'[b] = q[b] \o <<x, y>>
  <2> DEFINE s == q[b]
             ex == <<x>>
             ey == <<y>>
             en == <<>>
             exy == <<x, y>>
  <2>1. p[b] = s \/ p[b] = s \o ex
    BY <1>2
  <2>2. queue'[b] = p[b] \/ queue'[b] = p[b] \o ey
    BY <1>4
  <2>3. s \o en = s
    BY <1>5
  <2>4. (s \o ex) \o ey = s \o exy
    BY <1>6
  <2> HIDE DEF s, ex, ey, en, exy
  <2>5. queue'[b] = s \o en \/ queue'[b] = s \o ex \/ queue'[b] = s \o ey \/ queue'[b] = s \o exy
    BY <2>1, <2>2, <2>3, <2>4
  <2> QED
    BY <2>5 DEF s, ex, ey, en, exy
<1>8. ASSUME NEW e \in Seq(Items), Ran(e) \subseteq {x, y}, Ordered(e), queue'[b] = q[b] \o e
      PROVE  \E f \in Seq(Items) : Ran(f) \subseteq {x, y} /\ Ordered(f) /\ Moved(a, m, Adds(b, f))
  <2>1. \A r \in Roles \ {b} : queue'[r] = q[r]
    BY <1>2, <1>4
  <2>2. queue' \in Queues
    BY <1>4
  <2>3. Moved(a, m, Adds(b, e))
    BY <1>8, <2>1, <2>2, PutMoved
  <2> QED
    BY <1>8, <2>3
<1>9. CASE queue'[b] = q[b] \o <<>>
  BY <1>5, <1>8, <1>9
<1>10. CASE queue'[b] = q[b] \o <<x>>
  BY <1>5, <1>8, <1>10
<1>11. CASE queue'[b] = q[b] \o <<y>>
  BY <1>5, <1>8, <1>11
<1>12. CASE queue'[b] = q[b] \o <<x, y>>
  BY <1>5, <1>8, <1>12
<1> QED
  BY <1>7, <1>9, <1>10, <1>11, <1>12

LEMMA ForwardMoved ==
    ASSUME NEW q, NEW a, NEW m, Popped(q, a, m), NEW r \in Roles, NEW k \in Calls, NEW c \in Conns,
           Forward(q, r, k, c)
    PROVE  \E b \in Roles : \E e \in Seq(Items) :
              Moved(a, m, Adds(b, e)) /\ Ordered(e) /\ \A y \in Ran(e) : FwdItem(r, k, c, b, y)
<1> DEFINE far == Other(r)
           out == Callback(k) = (r = "relay")
           x == Event(IF Callback(k) THEN "callback" ELSE "call", c, k, "none", 0)
           y == Event("reply", c, k, "error", 0)
           z == Source("done", c, k, "error", 0)
<1>1. \/ queue' = q
      \/ queue' = Queued(q, far, x) /\ ~out
      \/ queue' = Queued(Queued(q, r, y), r, z)
  <2>1. x.high
    BY DEF Event, Item
  <2>2. Full(q, far) => Queued(q, far, x) = q
    BY <2>1 DEF Queued
  <2> HIDE DEF x, y, z, far
  <2> QED
    BY <2>2 DEF Forward, x, y, z, far
<1>2. far \in Roles /\ far # r
  BY RoleFacts
<1>3. x \in Items /\ y \in Items /\ z \in Items
  BY ItemFacts DEF Event, Source, Item, Items, Sound, Calls, Callback, Vals
<1>4. y.type # z.type /\ y.stamp = 0
  BY DEF Event, Source, Item
<1>5. FwdItem(r, k, c, r, y) /\ FwdItem(r, k, c, r, z)
  BY DEF FwdItem, Event, Source, Item
<1>6. ~out => FwdItem(r, k, c, far, x)
  <2>1. CASE r = "relay" /\ ~Callback(k)
    BY <2>1 DEF FwdItem, Event, Item, Callback, Calls
  <2>2. CASE r = "broker" /\ Callback(k)
    BY <2>2 DEF FwdItem, Event, Item, Callback
  <2>3. ~out => (r = "relay" /\ ~Callback(k)) \/ (r = "broker" /\ Callback(k))
    BY RoleFacts DEF Callback
  <2> QED
    BY <2>1, <2>2, <2>3
<1> HIDE DEF x, y, z, far, out
<1>7. CASE queue' = q
  <2>1. Moved(a, m, Adds(r, <<>>)) /\ <<>> \in Seq(Items) /\ Ran(<<>>) = {}
    BY <1>7, KeptMoved
  <2>2. Ordered(<<>>)
    BY DEF Ordered
  <2> QED
    BY <2>1, <2>2
<1>8. CASE queue' = Queued(q, far, x) /\ ~out
  <2>1. \E e \in Seq(Items) : Ran(e) \subseteq {x} /\ Ordered(e) /\ Moved(a, m, Adds(far, e))
    BY ZenonT(60), <1>2, <1>3, <1>8, QueuedMoved
  <2> QED
    BY <1>2, <1>6, <1>8, <2>1
<1>9. CASE queue' = Queued(Queued(q, r, y), r, z)
  <2>2. y \in Items /\ z \in Items
    BY <1>3
  <2>1. \E e \in Seq(Items) : Ran(e) \subseteq {y, z} /\ Ordered(e) /\ Moved(a, m, Adds(r, e))
    BY SMTT(40), <1>4, <1>9, <2>2, QueuedTwice
  <2> QED
    BY <1>5, <2>1
<1> QED
  BY <1>1, <1>7, <1>8, <1>9

\* What forward does to the call it forwards, and that it leaves the others alone.
LEMMA ForwardFacts ==
    ASSUME BridgeTypes, NEW q, NEW r \in Roles, NEW k \in Calls, NEW c \in Conns, Forward(q, r, k, c)
    PROVE  /\ inbox' \subseteq inbox \cup {k}
           /\ waiting' \in [Roles -> SUBSET Calls]
           /\ \A b \in Roles : waiting'[b] \subseteq waiting[b] \cup {k}
           /\ k \in Requests /\ r = "relay" => inbox' = inbox /\ waiting'["broker"] = waiting["broker"]
<1>1. /\ call' = [call EXCEPT ![k].conn = c]
      /\ pending' = [pending EXCEPT ![r] = @ \cup {[id |-> k, delivered |-> FALSE]}]
      /\ (inbox' = inbox \cup {k} /\ Callback(k) = (r = "relay")) \/ inbox' = inbox
      /\ waiting' = waiting \/ waiting' = [waiting EXCEPT ![r] = @ \cup {k}]
  BY DEF Forward
<1>2. waiting \in [Roles -> SUBSET Calls]
  BY DEF BridgeTypes
<1>3. k \in Requests => ~Callback(k)
  BY CallAssumption DEF Callback
<1>4. /\ waiting' \in [Roles -> SUBSET Calls]
      /\ \A b \in Roles : waiting'[b] \subseteq waiting[b] \cup {k}
  BY <1>1, <1>2
<1>5. ASSUME k \in Requests, r = "relay"
      PROVE  inbox' = inbox /\ waiting'["broker"] = waiting["broker"]
  <2>1. "broker" \in Roles /\ r # "broker"
    BY <1>5, RoleFacts
  <2>2. waiting'["broker"] = waiting["broker"]
    BY <1>1, <1>2, <2>1
  <2>3. inbox' = inbox
    BY <1>1, <1>3, <1>5
  <2> QED
    BY <2>2, <2>3
<1>6. inbox' \subseteq inbox \cup {k}
  BY <1>1
<1> QED
  BY <1>1, <1>4, <1>5, <1>6

Forwarded(r, k, c) ==
    /\ DataTypes' /\ \A j \in Calls : j # k => Spared(j)
    /\ call'[k].conn = c /\ \A j \in Calls : call'[j].guest = call[j].guest
    /\ \A b \in Roles : b # r => pending'[b] = pending[b]
    /\ \A p \in pending'[r] : p \in pending[r] \/ p.id = k

LEMMA ForwardSpares ==
    ASSUME BridgeTypes, NEW q, NEW r \in Roles, NEW k \in Calls, NEW c \in Conns, Forward(q, r, k, c),
           answers' = answers
    PROVE  Forwarded(r, k, c)
<1>1. /\ call' = [call EXCEPT ![k].conn = c]
      /\ pending' = [pending EXCEPT ![r] = @ \cup {[id |-> k, delivered |-> FALSE]}]
      /\ inbox' \subseteq inbox \cup {k}
      /\ waiting' \in [Roles -> SUBSET Calls]
      /\ \A b \in Roles : waiting'[b] \subseteq waiting[b] \cup {k}
  <2>1. /\ call' = [call EXCEPT ![k].conn = c]
        /\ pending' = [pending EXCEPT ![r] = @ \cup {[id |-> k, delivered |-> FALSE]}]
    BY DEF Forward
  <2>2. /\ inbox' \subseteq inbox \cup {k}
        /\ waiting' \in [Roles -> SUBSET Calls]
        /\ \A b \in Roles : waiting'[b] \subseteq waiting[b] \cup {k}
    BY ForwardFacts
  <2> QED
    BY <2>1, <2>2
<1>2. /\ call \in [Calls -> [guest : Guests \cup {Observer, None}, conn : Conns \cup {None},
                             kind : Kinds \cup {"callback"}]]
      /\ pending \in [Roles -> SUBSET Entries] /\ inbox \subseteq Calls /\ answers \in [Calls -> Nat]
  BY DEF BridgeTypes
<1>3. /\ call' \in [Calls -> [guest : Guests \cup {Observer, None}, conn : Conns \cup {None},
                             kind : Kinds \cup {"callback"}]]
      /\ call'[k].conn = c /\ \A j \in Calls : call'[j].guest = call[j].guest
      /\ \A j \in Calls : j # k => call'[j] = call[j]
  BY <1>1, <1>2
<1>4. /\ pending' \in [Roles -> SUBSET Entries]
      /\ \A b \in Roles : b # r => pending'[b] = pending[b]
      /\ \A p \in pending'[r] : p \in pending[r] \/ p.id = k
  <2> DEFINE new == [id |-> k, delivered |-> FALSE]
  <2>1. new \in Entries /\ new.id = k
    BY DEF Entries
  <2>2. pending' = [pending EXCEPT ![r] = @ \cup {new}]
    BY <1>1
  <2> HIDE DEF new
  <2> QED
    BY <1>2, <2>1, <2>2
<1>5. DataTypes'
  BY <1>1, <1>2, <1>3, <1>4 DEF DataTypes
<1>6. ASSUME NEW j \in Calls, j # k
      PROVE  Spared(j)
  <2>1. \A b \in Roles : \A p \in pending'[b] : p.id = j => p \in pending[b]
    BY <1>4, <1>6
  <2>2. \A b \in Roles : Pends(b, j)' => Pends(b, j)
    BY <2>1 DEF Pends
  <2>3. \A b \in Roles : Undone(b, j)' => Undone(b, j)
    BY <2>1 DEF Undone
  <2> QED
    BY <1>1, <1>3, <1>6, <2>2, <2>3 DEF Spared
<1> QED
  BY <1>3, <1>4, <1>5, <1>6 DEF Forwarded

LEMMA ForwardStep ==
    ASSUME IInv, NEW q, NEW a, NEW m, NEW r \in Roles, NEW k \in Calls, NEW c \in Conns,
           Forward(q, r, k, c), NEW b \in Roles, NEW e \in Seq(Items), Moved(a, m, Adds(b, e)), Ordered(e),
           \A y \in Ran(e) : FwdItem(r, k, c, b, y),
           EnvTypes', Clients', sent' = sent, got' = got, agents' = agents, answers' = answers,
           \A d \in Conns : Settled(d) => Settled(d)',
           \A d \in Conns : \A p \in Roles : conn[d][p] = "closed" => conn'[d][p] = "closed",
           \/ opening' = opening /\ (opening = None \/ opening.call # k)
           \/ opening' = None,
           Settled(c)', call[k].guest # None, call[k].conn # None => call[k].conn = c,
           \A p \in Roles : \A x \in Rest(a, m, p) : Token(x) => x.id # k,
           \A x \in Rest(a, m, r) : x.type = "done" /\ x.id = k => x.stamp = 0,
           k \in Requests /\ r = "relay" => call[k].conn = None /\ answers[k] = 0,
           k \in Callbacks /\ r = "broker" => answers[k] = 0,
           \A y \in Ran(queue[a]) \ Rest(a, m, a) : y.type # "reply"
    PROVE  IInv' /\ PortStep
<1> DEFINE add == Adds(b, e)
<1>1. BridgeTypes /\ Placed /\ Owed /\ Itemised
  BY DEF IInv
<1>2. /\ DataTypes' /\ \A j \in Calls : j # k => Spared(j)
      /\ call'[k].conn = c /\ \A j \in Calls : call'[j].guest = call[j].guest
      /\ \A p \in Roles : p # r => pending'[p] = pending[p]
      /\ \A p \in pending'[r] : p \in pending[r] \/ p.id = k
  <2>1. Forwarded(r, k, c)
    BY <1>1, ForwardSpares
  <2> QED
    BY <2>1 DEF Forwarded
<1>3. CallOk(k)
  BY <1>1, CallParts
<1>4. c # None /\ "relay" \in Roles /\ "broker" \in Roles /\ "relay" # "broker"
  BY ConnAssumption, RoleFacts
<1>5. CallOk(k)'
  <2>1. k \in Requests => call[k].guest # Observer
    BY <1>3 DEF CallOk
  <2>2. ASSUME k \in Requests, Undone("relay", k)'
        PROVE  answers[k] = 0
    <3>1. CASE r = "relay"
      BY <2>2, <3>1
    <3>2. CASE r # "relay"
      BY <1>2, <1>3, <1>4, <2>2, <3>2 DEF Undone, CallOk
    <3> QED
      BY <3>1, <3>2
  <2>3. ASSUME k \in Callbacks, Undone("broker", k)'
        PROVE  answers[k] = 0
    <3>1. CASE r = "broker"
      BY <2>3, <3>1
    <3>2. CASE r # "broker"
      BY <1>2, <1>3, <1>4, <2>3, <3>2 DEF Undone, CallOk
    <3> QED
      BY <3>1, <3>2
  <2> QED
    BY <1>2, <1>4, <2>1, <2>2, <2>3 DEF CallOk
<1>6. \A p \in Roles : \A y \in Ran(add[p]) : p = b /\ FwdItem(r, k, c, p, y)
  BY AddsRan
<1>7. ASSUME NEW p \in Roles, NEW y \in Ran(add[p])
      PROVE  y.id = k /\ ~Stamped(y) /\ ItemOk(p, y)'
  <2>1. p = b /\ FwdItem(r, k, c, p, y)
    BY <1>6
  <2>2. y.conn = c /\ y.id = k /\ y.stamp = 0 /\ ~Stamped(y)
    BY <2>1 DEF FwdItem, Stamped
  <2>3. CASE p = r /\ y.type \in {"reply", "done"}
    BY <1>2, <1>4, <2>2, <2>3 DEF ItemOk
  <2>4. CASE p = "relay" /\ y.type = "callback"
    BY <1>2, <1>4, <2>2, <2>4 DEF ItemOk
  <2>5. CASE p = "broker" /\ y.type = "call" /\ k \in Requests /\ r = "relay"
    <3>1. call[k].conn = None
      BY <2>5
    <3>2. k \notin inbox /\ k \notin waiting["broker"] /\ ~Pends("broker", k)
      BY <1>3, <1>4, <3>1 DEF CallOk
    <3>3. inbox' = inbox /\ waiting'["broker"] = waiting["broker"]
      BY <1>1, <2>5, ForwardFacts
    <3>4. pending'["broker"] = pending["broker"]
      BY <1>2, <1>4, <2>5
    <3>5. ASSUME NEW z \in Ran(queue'["broker"]), z.type \in {"reply", "done"}
          PROVE  z.id # k
      <4>1. z \in Rest(a, m, "broker") \/ z \in Ran(add["broker"])
        BY <1>1, <1>4, MovedFacts
      <4>2. CASE z \in Ran(add["broker"])
        <5>1. FwdItem(r, k, c, "broker", z)
          BY <1>4, <1>6, <4>2
        <5> QED
          BY <1>4, <2>5, <3>5, <5>1 DEF FwdItem
      <4>3. CASE z \in Rest(a, m, "broker")
        <5>1. z \in Ran(queue["broker"])
          BY <1>1, <1>4, <4>3, MovedFacts
        <5>2. z \in Items
          BY <1>1, <1>4, <5>1 DEF BridgeTypes, Ran
        <5>3. ItemOk("broker", z)
          BY <1>1, <1>4, <5>1, ItemParts
        <5>4. z.type = "reply" => z.conn # None
          BY <5>2, ConnAssumption DEF Items, Sound
        <5> QED
          BY <3>1, <3>5, <5>3, <5>4 DEF ItemOk
      <4> QED
        BY <4>1, <4>2, <4>3
    <3>6. ~Pends("broker", k)'
      BY <3>2, <3>4 DEF Pends
    <3> QED
      BY <1>2, <1>4, <2>2, <2>5, <3>2, <3>3, <3>5, <3>6 DEF ItemOk
  <2>6. (p = r /\ y.type \in {"reply", "done"}) \/ (p = "relay" /\ y.type = "callback")
          \/ (p = "broker" /\ y.type = "call" /\ k \in Requests /\ r = "relay")
    BY <2>1, RoleFacts DEF FwdItem
  <2> QED
    BY <2>2, <2>3, <2>4, <2>5, <2>6 DEF Stamped
<1>8. \A p \in Roles : Ordered(add[p])
  <2>1. Ordered(<<>>)
    BY DEF Ordered
  <2> QED
    BY <2>1, AddsSeq
<1>9. call[k].conn # None => call'[k].conn = call[k].conn
  BY <1>2
<1>10. \A p \in Roles : \A x \in Rest(a, m, p) : Token(x) /\ x.id = k => ItemOk(p, x)'
  OBVIOUS
<1>11. \A p \in Roles : \A x \in Rest(a, m, p), y \in Ran(add[p]) : Token(y) => x.type # y.type \/ x.id # k
  BY DEF Token
<1>12. \A p \in Roles : \A x \in Rest(a, m, p) :
              Stamped(x) /\ x.type = "done" /\ x.id = k /\ Undone(p, k)' => Undone(p, k)
  <2> SUFFICES ASSUME NEW p \in Roles, NEW x \in Rest(a, m, p), Stamped(x), x.type = "done", x.id = k, Undone(p, k)'
               PROVE  Undone(p, k)
    OBVIOUS
  <2>1. CASE p = r
    BY <2>1 DEF Stamped
  <2>2. CASE p # r
    BY <1>2, <2>2 DEF Undone
  <2> QED
    BY <2>1, <2>2
<1>13. Moved(a, m, add)
  OBVIOUS
<1>14. PortStep
  BY <1>2, PortQuiet
<1> HIDE DEF add
<1>15. IInv'
  BY <1>2, <1>5, <1>7, <1>8, <1>9, <1>10, <1>11, <1>12, <1>13, CallStep
<1> QED
  BY <1>14, <1>15

\* Call tokens are unique in a queue.
LEMMA TokenOnce ==
    ASSUME IInv, NEW r \in Roles, NEW type \in {"guest", "call", "callback"}, NextEvent(r, type)
    PROVE  \A x \in Rest(r, Next1(r), r) : x.type = type => x.id # AnEvent(r).id
<1> DEFINE s == queue[r]
           m == Next1(r)
<1>1. s \in Seq(Items) /\ Ordered(s)
  BY DEF IInv, BridgeTypes, InOrder
<1>2. m \in DOMAIN s /\ AnEvent(r) = s[m] /\ AnEvent(r).type = type
  BY <1>1, FirstEvent
<1>3. Rest(r, Next1(r), r) = Others(s, m)
  BY DEF Rest
<1> HIDE DEF s, m
<1>4. \A x \in Others(s, m) : Before(x, s[m]) \/ Before(s[m], x)
  BY <1>1, <1>2, Left
<1> QED
  BY <1>2, <1>3, <1>4 DEF Before

\* An item of a queue, and what the invariant says of it.
LEMMA QueueItem ==
    ASSUME IInv, NEW r \in Roles, NEW x \in Ran(queue[r])
    PROVE  x \in Items /\ Sound(x) /\ ItemOk(r, x)
<1>1. BridgeTypes /\ Itemised
  BY DEF IInv
<1>2. x \in Items
  BY <1>1 DEF BridgeTypes, Ran
<1> QED
  BY <1>1, <1>2, ItemParts DEF Items

LEMMA RestItem ==
    ASSUME IInv, NEW a, NEW m, NEW add, Moved(a, m, add), NEW r \in Roles, NEW x \in Rest(a, m, r)
    PROVE  x \in Ran(queue[r]) /\ x \in Items /\ Sound(x) /\ ItemOk(r, x)
<1>1. BridgeTypes
  BY DEF IInv
<1>2. x \in Ran(queue[r])
  BY <1>1, MovedFacts
<1> QED
  BY <1>2, QueueItem

\* An answer that is passed on to the peer.
Passed(q, r, k, val, n) ==
    /\ queue' = Arrived(q, waiting, Other(r), k, val, n) \/ queue' = q
    /\ waiting' \in [Roles -> SUBSET Calls]
    /\ \A b \in Roles : waiting'[b] \subseteq waiting[b]
    /\ answers' = answers /\ got' = got

LEMMA AnswerPasses ==
    ASSUME BridgeTypes, NEW q, NEW r \in Roles, NEW k \in Calls, NEW val, NEW n,
           r = "relay" <=> k \in Callbacks, Answer(q, waiting, r, k, val, n)
    PROVE  Passed(q, r, k, val, n)
<1> DEFINE far == Other(r)
           d == Open(call[k].conn)
<1>1. ~((r = "relay") # Callback(k))
  BY DEF Callback
<1>2. /\ queue' = IF d THEN Arrived(q, waiting, far, k, val, n) ELSE q
      /\ waiting' = IF d THEN [waiting EXCEPT ![far] = @ \ {k}] ELSE waiting
      /\ answers' = answers /\ got' = got
  BY <1>1 DEF Answer
<1>3. far \in Roles /\ waiting \in [Roles -> SUBSET Calls]
  BY RoleFacts DEF BridgeTypes
<1> HIDE DEF far, d
<1>4. waiting' \in [Roles -> SUBSET Calls] /\ \A b \in Roles : waiting'[b] \subseteq waiting[b]
  BY <1>2, <1>3
<1>5. queue' = Arrived(q, waiting, far, k, val, n) \/ queue' = q
  BY <1>2
<1> QED
  BY <1>2, <1>4, <1>5 DEF Passed, far

LEMMA PassedQuiet ==
    ASSUME NEW q, NEW a, NEW m, Popped(q, a, m), NEW r \in Roles, NEW k \in Calls,
           r = "relay" => k \in Callbacks, NEW val \in Vals, call[k].conn \in Conns, Passed(q, r, k, val, 0)
    PROVE  \E e \in Seq(Items) : Moved(a, m, Adds(Other(r), e)) /\ \A y \in Ran(e) : QuietItem(Other(r), y)
<1> DEFINE b == Other(r)
<1>1. b \in Roles /\ (b = "broker" => k \in Callbacks \cup inbox \cup waiting["broker"])
  BY RoleFacts
<1>2. queue' = Arrived(q, waiting, b, k, val, 0) \/ queue' = q
  BY DEF Passed
<1> HIDE DEF b
<1>4. None \notin Conns
  BY ConnAssumption
<1>3. \E e \in Seq(Items) : Moved(a, m, Adds(b, e)) /\ \A y \in Ran(e) : QuietItem(b, y)
  BY <1>1, <1>2, <1>4, ArrivesQuiet
<1> QED
  BY <1>3 DEF b

LEMMA ConnKept ==
    ASSUME BridgeTypes, conn' = conn
    PROVE  SameEnds
BY DEF SameEnds

\* The connections, the guests and the service do nothing.
Still ==
    /\ conn' = conn /\ opening' = opening /\ names' = names /\ present' = present /\ budget' = budget
    /\ owner' = owner /\ started' = started /\ agents' = agents /\ sent' = sent

LEMMA StillTypes ==
    ASSUME BridgeTypes, Still
    PROVE  EnvTypes' /\ SameEnds
<1>1. EnvTypes
  BY TypeParts
<1> QED
  BY <1>1 DEF Still, EnvTypes, SameEnds

LEMMA EventQuiet ==
    ASSUME IInv, Still, NEW r \in Roles, NEW type, type \notin {"reply", "left"}, NextEvent(r, type),
           NEW b \in Roles, NEW e \in Seq(Items), Moved(r, Next1(r), Adds(b, e)),
           \A y \in Ran(e) : QuietItem(b, y),
           call' = call, answers' = answers, got' = got, inbox' = inbox, pending' = pending,
           waiting' \in [Roles -> SUBSET Calls], \A p \in Roles : waiting'[p] \subseteq waiting[p]
    PROVE  IInv' /\ PortStep
<1>1. BridgeTypes
  BY DEF IInv
<1>2. EnvTypes' /\ SameEnds
  BY <1>1, StillTypes
<1>3. pending \in [Roles -> SUBSET Entries]
  BY <1>1 DEF BridgeTypes
<1>4. opening' = opening /\ present' = present /\ sent' = sent /\ agents' \subseteq agents
  BY DEF Still
<1>5. \A y \in Ran(queue[r]) \ Rest(r, Next1(r), r) : y.type # "left" /\ y.type # "reply"
  BY <1>1, TakenEvent
<1> DEFINE m == Next1(r)
<1>6. Moved(r, m, Adds(b, e)) /\ \A y \in Ran(queue[r]) \ Rest(r, m, r) : y.type # "left" /\ y.type # "reply"
  BY <1>5
<1> HIDE DEF m
<1>7. /\ \A y \in Ran(queue[r]) \ Rest(r, m, r) :
           y.type # "left" /\ (y.type = "reply" /\ Undone(r, y.id)' => conn[y.conn][r] = "closed" /\ y.conn \in Conns)
      /\ inbox' \subseteq inbox /\ pending' \in [Roles -> SUBSET Entries]
      /\ \A p \in Roles : waiting'[p] \subseteq waiting[p] /\ pending'[p] \subseteq pending[p]
  BY <1>3, <1>6
<1> QED
  BY <1>2, <1>4, <1>6, <1>7, QuietSame

\* A call that is forwarded while nothing else happens.
LEMMA StillForward ==
    ASSUME IInv, Still, answers' = answers, got' = got, NEW r \in Roles, NEW type \in {"guest", "call", "callback"},
           NextEvent(r, type), NEW k, NEW c, k = AnEvent(r).id, c = AnEvent(r).conn,
           Forward(AfterEvent(r), r, k, c), type # "guest", type = "call" => r = "broker",
           type = "callback" /\ r = "broker" => answers[k] = 0,
           \A y \in Rest(r, Next1(r), r) : y.type = "done" /\ y.id = k => y.stamp = 0,
           \A p \in Roles : \A y \in Rest(r, Next1(r), p) : Token(y) => y.id # k
    PROVE  IInv' /\ PortStep
<1> DEFINE x == AnEvent(r)
           q == AfterEvent(r)
           m == Next1(r)
<1>1. BridgeTypes /\ Placed /\ Owed /\ Clients
  BY DEF IInv
<1>2. Popped(q, r, m) /\ Forward(q, r, k, c)
  BY <1>1, EventPopped
<1>3. x \in Ran(queue[r]) /\ x.type = type
  BY <1>1, FirstEvent DEF BridgeTypes
<1>4. Sound(x) /\ ItemOk(r, x)
  BY <1>3, QueueItem
<1>5. k \in Calls /\ c \in Conns /\ call[k].conn = c
  BY <1>3, <1>4 DEF Sound, ItemOk, Calls
<1>6. CallOk(k)
  BY <1>1, <1>5, CallParts
<1>7. call[k].guest # None /\ Settled(c) /\ c # None
  BY <1>5, <1>6, ConnAssumption DEF CallOk
<1>8. ~(opening # None /\ opening.call = k)
  BY <1>1, <1>5, <1>7, CallAssumption DEF Owed, Unsent
<1>9. \A y \in Rest(r, m, r) : y.type = "done" /\ y.id = k => y.stamp = 0
  OBVIOUS
<1>10. \A p \in Roles : \A y \in Rest(r, m, p) : Token(y) => y.id # k
  OBVIOUS
<1>11. k \in Callbacks /\ r = "broker" => answers[k] = 0
  BY <1>3, <1>4, CallAssumption DEF Sound
<1>12. ~(k \in Requests /\ r = "relay")
  BY <1>3, <1>4, CallAssumption, RoleFacts DEF Sound
<1>13. EnvTypes' /\ SameEnds
  BY <1>1, StillTypes
<1>14. conn' = conn /\ opening' = opening /\ present' = present /\ sent' = sent /\ agents' = agents
  BY DEF Still
<1>20. \A add : Moved(r, m, add) => \A y \in Ran(queue[r]) \ Rest(r, m, r) : y.type = type
  BY <1>1, TakenEvent
<1> HIDE DEF x, q, m
<1>15. PICK b \in Roles : \E e \in Seq(Items) :
          Moved(r, m, Adds(b, e)) /\ Ordered(e) /\ \A y \in Ran(e) : FwdItem(r, k, c, b, y)
  BY <1>2, <1>5, ForwardMoved
<1>16. PICK e \in Seq(Items) :
          Moved(r, m, Adds(b, e)) /\ Ordered(e) /\ \A y \in Ran(e) : FwdItem(r, k, c, b, y)
  BY <1>15
<1>17. \A p \in Roles : \A y \in Ran(Adds(b, e)[p]) : y.type # "closed"
  BY <1>16, AddsRan DEF FwdItem
<1>18. \A y \in Ran(queue[r]) \ Rest(r, m, r) : y.type # "reply" /\ y.type # "left"
  BY <1>16, <1>20
<1>21. /\ Clients'
       /\ \A d \in Conns : Settled(d) => Settled(d)'
       /\ \A d \in Conns : \A p \in Roles : conn[d][p] = "closed" => conn'[d][p] = "closed"
  BY <1>1, <1>13, <1>14, <1>16, <1>17, <1>18, ClientsKeep
<1>22. Settled(c)'
  BY <1>5, <1>7, <1>21
<1>23. Forward(q, r, k, c) /\ k \in Calls /\ c \in Conns
  BY <1>2, <1>5
<1> QED
  BY <1>5, <1>7, <1>8, <1>9, <1>10, <1>11, <1>12, <1>13, <1>14, <1>16, <1>18, <1>21, <1>22, <1>23, ForwardStep

LEMMA HandleBrokerCallStep ==
    ASSUME IInv, HandleBrokerCall
    PROVE  IInv' /\ PortStep
<1> DEFINE x == AnEvent("broker")
           q == AfterEvent("broker")
           m == Next1("broker")
<1>1. BridgeTypes /\ Itemised /\ "broker" \in Roles /\ "relay" \in Roles /\ Other("broker") = "relay"
  BY RoleFacts DEF IInv
<1>2. NextEvent("broker", "call") /\ Still
  BY DEF HandleBrokerCall, Still, serviceVars
<1>3. Popped(q, "broker", m)
  BY <1>1, <1>2, EventPopped
<1>4. x \in Ran(queue["broker"]) /\ x.type = "call"
  BY <1>1, <1>2, FirstEvent DEF BridgeTypes
<1>5. Sound(x) /\ ItemOk("broker", x)
  BY <1>1, <1>4, QueueItem
<1>6. x.id \in Requests /\ x.id \in Calls /\ x.conn \in Conns /\ call[x.id].conn = x.conn
  BY <1>4, <1>5 DEF Sound, ItemOk, Calls
<1>7. \/ queue' = q /\ UNCHANGED <<pending, call, inbox, waiting, answers, got>>
      \/ Answer(q, waiting, "broker", x.id, "error", 0) /\ UNCHANGED <<pending, call, inbox>>
      \/ Forward(q, "broker", x.id, x.conn) /\ UNCHANGED <<answers, got>>
  BY DEF HandleBrokerCall
<1>8. ASSUME NEW b \in Roles, NEW e \in Seq(Items), Moved("broker", m, Adds(b, e)),
             \A y \in Ran(e) : QuietItem(b, y),
             call' = call, answers' = answers, got' = got, inbox' = inbox, pending' = pending,
             waiting' \in [Roles -> SUBSET Calls], \A p \in Roles : waiting'[p] \subseteq waiting[p]
      PROVE  IInv' /\ PortStep
  <2>1. "call" \notin {"reply", "left"}
    OBVIOUS
  <2> QED
    BY <1>1, <1>2, <1>8, <2>1, EventQuiet
<1>9. CASE queue' = q /\ UNCHANGED <<pending, call, inbox, waiting, answers, got>>
  <2>1. Moved("broker", m, Adds("broker", <<>>)) /\ <<>> \in Seq(Items) /\ Ran(<<>>) = {}
    BY <1>1, <1>3, <1>9, KeptMoved
  <2>2. waiting \in [Roles -> SUBSET Calls]
    BY <1>1 DEF BridgeTypes
  <2>3. /\ call' = call /\ answers' = answers /\ got' = got /\ inbox' = inbox /\ pending' = pending
        /\ waiting' \in [Roles -> SUBSET Calls] /\ \A p \in Roles : waiting'[p] \subseteq waiting[p]
    BY <1>9, <2>2
  <2> QED
    BY <1>1, <1>8, <2>1, <2>3
<1>10. CASE Answer(q, waiting, "broker", x.id, "error", 0) /\ UNCHANGED <<pending, call, inbox>>
  <2> DEFINE k == x.id
  <2>1. k \in Calls /\ "broker" # "relay" /\ k \notin Callbacks /\ call[k].conn \in Conns
    BY <1>6, CallAssumption
  <2>2. Answer(q, waiting, "broker", k, "error", 0)
    BY <1>10
  <2> HIDE DEF k, q, m
  <2>3. Passed(q, "broker", k, "error", 0)
    BY <1>1, <2>1, <2>2, AnswerPasses
  <2>4. "error" \in Vals
    BY DEF Vals
  <2>5. \E e \in Seq(Items) : Moved("broker", m, Adds(Other("broker"), e)) /\ \A y \in Ran(e) : QuietItem(Other("broker"), y)
    BY <1>1, <1>3, <2>1, <2>3, <2>4, PassedQuiet
  <2>6. PICK e \in Seq(Items) : Moved("broker", m, Adds("relay", e)) /\ \A y \in Ran(e) : QuietItem("relay", y)
    BY <1>1, <2>5
  <2>7. /\ call' = call /\ answers' = answers /\ got' = got /\ inbox' = inbox /\ pending' = pending
        /\ waiting' \in [Roles -> SUBSET Calls] /\ \A p \in Roles : waiting'[p] \subseteq waiting[p]
    BY <1>10, <2>3 DEF Passed
  <2> QED
    BY <1>1, <1>8, <2>6, <2>7
<1>11. CASE Forward(q, "broker", x.id, x.conn) /\ UNCHANGED <<answers, got>>
  <2>1. PICK k : k = x.id
    OBVIOUS
  <2>2. PICK c : c = x.conn
    OBVIOUS
  <2>3. k = AnEvent("broker").id /\ c = AnEvent("broker").conn /\ Forward(AfterEvent("broker"), "broker", k, c)
    BY <1>11, <2>1, <2>2
  <2>4. Popped(q, "broker", m) /\ Forward(q, "broker", k, c) /\ k \in Calls /\ c \in Conns
    BY <1>3, <1>6, <2>1, <2>2, <2>3
  <2>5. PICK b \in Roles : \E e \in Seq(Items) :
          Moved("broker", m, Adds(b, e)) /\ Ordered(e) /\ \A y \in Ran(e) : FwdItem("broker", k, c, b, y)
    <3> HIDE DEF x, q, m
    <3> QED
      BY <1>1, <2>4, ForwardMoved
  <2>6. PICK e \in Seq(Items) : Moved("broker", m, Adds(b, e))
    BY <2>5
  <2>7. ASSUME NEW y \in Rest("broker", m, "broker"), y.type = "done", y.id = k
        PROVE  y.stamp = 0
    <3>1. y \in Ran(queue["broker"])
      BY <1>1, <2>6, MovedFacts
    <3> QED
      BY <1>4, <1>5, <2>1, <2>7, <3>1 DEF ItemOk
  <2>8. ASSUME NEW p \in Roles, NEW y \in Rest("broker", m, p), Token(y)
        PROVE  y.id # k
    <3>1. y \in Ran(queue[p]) /\ Sound(y) /\ ItemOk(p, y)
      BY <2>6, RestItem
    <3>2. CASE y.type = "callback"
      BY <1>6, <2>1, <3>1, <3>2, CallAssumption DEF Sound
    <3>3. CASE y.type = "guest"
      BY <1>6, <2>1, <3>1, <3>3, ConnAssumption DEF ItemOk, Unsent
    <3>4. CASE y.type = "call"
      <4>1. p = "broker"
        BY <3>1, <3>4 DEF ItemOk
      <4> QED
        BY <1>1, <1>2, <2>1, <3>4, <4>1, TokenOnce
    <3> QED
      BY <2>8, <3>2, <3>3, <3>4 DEF Token
  <2>9. /\ \A y \in Rest("broker", Next1("broker"), "broker") : y.type = "done" /\ y.id = k => y.stamp = 0
        /\ \A p \in Roles : \A y \in Rest("broker", Next1("broker"), p) : Token(y) => y.id # k
    BY <2>7, <2>8
  <2>10. answers' = answers /\ got' = got /\ "call" \in {"guest", "call", "callback"} /\ "call" # "guest" /\ "call" # "callback"
    BY <1>11
  <2> HIDE DEF x, q, m
  <2> QED
    BY <1>1, <1>2, <2>3, <2>9, <2>10, StillForward
<1> QED
  BY <1>7, <1>9, <1>10, <1>11

\* The callback at the head is the only token of its call.
LEMMA CallbackFacts ==
    ASSUME IInv, NEW r \in Roles, NextEvent(r, "callback"), NEW add, Moved(r, Next1(r), add)
    PROVE  LET x == AnEvent(r)
           IN /\ x.id \in Callbacks /\ x.id \in Calls /\ x.conn \in Conns /\ call[x.id].conn = x.conn
              /\ r = "broker" => answers[x.id] = 0 /\ ~Pends("broker", x.id)
              /\ \A p \in Roles : \A y \in Rest(r, Next1(r), p) : Token(y) => y.id # x.id
              /\ \A p \in Roles : \A y \in Rest(r, Next1(r), p) : y.type = "done" /\ y.id = x.id => y.stamp = 0
<1> DEFINE x == AnEvent(r)
           m == Next1(r)
<1>1. BridgeTypes /\ "broker" \in Roles /\ "relay" \in Roles
  BY RoleFacts DEF IInv
<1>4. x \in Ran(queue[r]) /\ x.type = "callback"
  BY <1>1, FirstEvent DEF BridgeTypes
<1>5. Sound(x) /\ ItemOk(r, x)
  BY <1>1, <1>4, QueueItem
<1>6. x.id \in Callbacks /\ x.id \in Calls /\ x.conn \in Conns /\ call[x.id].conn = x.conn
  BY <1>4, <1>5 DEF Sound, ItemOk, Calls
<1>7. r = "broker" => answers[x.id] = 0 /\ ~Pends("broker", x.id)
  BY <1>4, <1>5 DEF ItemOk
<1>8. ASSUME NEW p \in Roles, NEW y \in Rest(r, m, p), Token(y)
      PROVE  y.id # x.id
  <2>1. y \in Ran(queue[p]) /\ Sound(y) /\ ItemOk(p, y)
    BY RestItem
  <2>2. CASE y.type # "callback"
    BY <1>6, <1>8, <2>1, <2>2, CallAssumption DEF Sound, Token
  <2>3. CASE y.type = "callback" /\ p = r
    BY <2>3, TokenOnce
  <2>4. CASE y.type = "callback" /\ p = "relay" /\ r = "broker"
    BY <1>4, <1>5, <2>1, <2>4 DEF ItemOk
  <2>5. CASE y.type = "callback" /\ p = "broker" /\ r = "relay"
    BY <1>4, <2>1, <2>5 DEF ItemOk
  <2> QED
    BY <2>2, <2>3, <2>4, <2>5, RoleFacts
<1>9. ASSUME NEW p \in Roles, NEW y \in Rest(r, m, p), y.type = "done", y.id = x.id
      PROVE  y.stamp = 0
  <2>1. Sound(y)
    BY RestItem
  <2> QED
    BY <1>6, <1>9, <2>1 DEF Sound
<1> QED
  BY <1>6, <1>7, <1>8, <1>9

\* One more answer to call k.
Counted(k) == [answers EXCEPT ![k] = @ + 1]

\* A refusal of the bridge, to the caller: nothing of the call is left anywhere.
LEMMA RefuseStep ==
    ASSUME IInv, NEW a, NEW m, NEW b \in Roles, NEW e \in Seq(Items), Moved(a, m, Adds(b, e)),
           \A y \in Ran(e) : y.type \in {"closed", "open"} /\ QuietItem(b, y),
           EnvTypes', Clients', sent' = sent, got' = got, agents' = agents, NEW k \in Calls,
           call' = call, pending' = pending, inbox' = inbox, waiting' = waiting,
           answers' = Counted(k), answers[k] = 0, call[k].guest # None,
           ~Undone("relay", k) \/ k \in Callbacks, ~Undone("broker", k) \/ k \in Requests,
           \A c \in Conns : Settled(c) => Settled(c)',
           \A c \in Conns : \A r \in Roles : conn[c][r] = "closed" => conn'[c][r] = "closed",
           (opening' = opening /\ (opening = None \/ opening.call # k)) \/ opening' = None,
           \A r \in Roles : \A x \in Rest(a, m, r) : x.type \in {"guest", "callback"} => x.id # k,
           \A y \in Ran(queue[a]) \ Rest(a, m, a) : y.type # "reply"
    PROVE  IInv' /\ PortStep
<1> DEFINE K == {k}
           add == Adds(b, e)
<1>1. BridgeTypes /\ Placed /\ Owed /\ Itemised /\ InOrder
  BY DEF IInv
<1>2. answers \in [Calls -> Nat] /\ answers' \in [Calls -> Nat] /\ \A j \in Calls : j # k => answers'[j] = answers[j]
  BY <1>1 DEF BridgeTypes, Counted
<1>3. DataTypes'
  BY <1>1, <1>2 DEF DataTypes, BridgeTypes
<1>4. \A j \in Calls \ K : Spared(j)
  BY <1>2 DEF Spared, Pends, Undone
<1>5. CallOk(k)
  BY <1>1, CallParts
<1>6. CallOk(k)'
  <2>1. call[k].conn \in Conns \cup {None}
    BY <1>1 DEF BridgeTypes
  <2>2. call'[k].conn # None => Settled(call[k].conn)'
    BY <1>5, <2>1 DEF CallOk
  <2>4. k \in Requests => ~Undone("relay", k)'
    BY CallAssumption DEF Undone
  <2>5. k \in Callbacks => ~Undone("broker", k)'
    BY CallAssumption DEF Undone
  <2>6. \A r \in Roles : Pends(r, k)' <=> Pends(r, k)
    BY DEF Pends
  <2> QED
    BY <1>5, <2>2, <2>4, <2>5, <2>6 DEF CallOk
<1>7. \A r \in Roles : \A y \in Ran(add[r]) : y.type \in {"closed", "open"} /\ QuietItem(r, y)
  <2>1. \A r \in Roles : \A y \in Ran(add[r]) : r = b /\ y \in Ran(e)
    BY AddsRan
  <2> HIDE DEF add
  <2> QED
    BY <2>1
<1> HIDE DEF add
<1>8. Moved(a, m, add)
  BY DEF add
<1>9. Placed' /\ Owed'
  <2>1. \A c \in agents' : Settled(c)'
    BY <1>1 DEF Placed, BridgeTypes
  <2>2. \/ opening' = opening /\ \A j \in K : opening = None \/ opening.call # j
        \/ OpeningOk'
    BY DEF OpeningOk
  <2>3. \A j \in Calls \cap K : CallOk(j)'
    BY <1>6
  <2> HIDE DEF K
  <2> QED
    BY <1>1, <1>4, <2>1, <2>2, <2>3, CallsStep
<1>10. Itemised'
  <2>1. \A j \in Calls \ K : opening' # None /\ opening'.call = j => opening # None /\ opening.call = j
    OBVIOUS
  <2>2. \A j \in Calls \cap K : call[j].conn # None => call'[j].conn = call[j].conn
    OBVIOUS
  <2>3. \A r \in Roles : \A x \in Rest(a, m, r) : Token(x) /\ x.id \in K => ItemOk(r, x)'
    <3> SUFFICES ASSUME NEW r \in Roles, NEW x \in Rest(a, m, r), Token(x), x.id = k PROVE ItemOk(r, x)'
      OBVIOUS
    <3>1. x.type = "call"
      BY DEF Token
    <3>2. ItemOk(r, x)
      BY <1>8, RestItem
    <3>3. ASSUME NEW y \in Ran(queue'["broker"]), y.type \in {"reply", "done"}
          PROVE  y \in Ran(queue["broker"])
      <4>1. y \in Rest(a, m, "broker") \/ y \in Ran(add["broker"])
        BY <1>1, <1>8, MovedFacts, RoleFacts
      <4>2. y \notin Ran(add["broker"])
        BY <1>7, <3>3, RoleFacts
      <4> QED
        BY <1>1, <1>8, <4>1, <4>2, MovedFacts, RoleFacts
    <3>4. ~Pends("broker", x.id) => ~Pends("broker", x.id)'
      BY DEF Pends
    <3> QED
      BY <3>1, <3>2, <3>3, <3>4 DEF ItemOk
  <2>4. \A r \in Roles : \A y \in Ran(add[r]) : ItemOk(r, y)'
    BY <1>7, RoleFacts DEF ItemOk, QuietItem
  <2>5. \A y \in Ran(add["broker"]) : y.type \in {"closed", "open"}
    BY <1>7, RoleFacts
  <2>6. \A y \in Ran(add["relay"]) : y.type \in {"closed", "open"}
    BY <1>7, RoleFacts
  <2> HIDE DEF K
  <2>7. \A y \in Ran(add["broker"]) :
              y.type \in {"reply", "done"} => y.id \in Callbacks \cup inbox \cup waiting["broker"] \cup K
    BY <2>5
  <2>8. \A y \in Ran(add["relay"]) : y.type = "callback" => y.id \in K
    BY <2>6
  <2> QED
    BY <1>1, <1>4, <1>8, <2>1, <2>2, <2>3, <2>4, <2>7, <2>8, ItemsStep
<1>11. InOrder'
  <2>1. \A r \in Roles : \A y \in Ran(add[r]) : ~Stamped(y) /\ ~Token(y)
    BY <1>7 DEF QuietItem
  <2>2. \A r \in Roles : Ordered(add[r])
    <3>1. \A r \in Roles : add[r] \in Seq(Items)
      BY <1>8 DEF Moved, Queues
    <3> QED
      BY <2>1, <3>1, QuietOrdered
  <2>3. \A r \in Roles : \A x \in Rest(a, m, r) :
              Stamped(x) /\ x.type = "done" /\ Undone(r, x.id)' => Undone(r, x.id)
    BY DEF Undone
  <2>4. \A r \in Roles : \A x \in Rest(a, m, r), y \in Ran(add[r]) : Token(y) => x.type # y.type \/ x.id # y.id
    BY <2>1
  <2>5. \A y \in Ran(queue[a]) \ Rest(a, m, a) :
              y.type = "reply" /\ y.stamp > 0 /\ Undone(a, y.id)' => conn'[y.conn][a] = "closed"
    OBVIOUS
  <2> QED
    BY <1>1, <1>8, <2>1, <2>2, <2>3, <2>4, <2>5, OrderQuiet
<1>12. BridgeTypes'
  <2>1. queue' \in Queues
    BY <1>8 DEF Moved
  <2>2. (BridgeTypes <=>
      /\ EnvTypes /\ queue \in Queues
      /\ call \in [Calls -> [guest : Guests \cup {Observer, None}, conn : Conns \cup {None},
                             kind : Kinds \cup {"callback"}]]
      /\ pending \in [Roles -> SUBSET Entries] /\ waiting \in [Roles -> SUBSET Calls]
      /\ inbox \subseteq Calls /\ sent \in Seq(SUBSET Conns)
      /\ answers \in [Calls -> Nat] /\ got \in [Guests -> Seq(Heard)])'
    BY TypeParts, PTL
  <2>3. sent \in Seq(SUBSET Conns) /\ got \in [Guests -> Seq(Heard)]
    BY <1>1 DEF BridgeTypes
  <2> QED
    BY <1>3, <2>1, <2>2, <2>3 DEF DataTypes
<1>13. PortStep
  BY PortSettles DEF Counted
<1> QED
  BY <1>9, <1>10, <1>11, <1>12, <1>13 DEF IInv

LEMMA HandleAgentCallbackStep ==
    ASSUME IInv, NEW r \in Roles, HandleAgentCallback(r)
    PROVE  IInv' /\ PortStep
<1> DEFINE x == AnEvent(r)
           q == AfterEvent(r)
           m == Next1(r)
<1>1. BridgeTypes /\ Clients /\ Placed /\ Owed /\ Other(r) \in Roles
  BY RoleFacts DEF IInv
<1>2. NextEvent(r, "callback") /\ Still
  BY DEF HandleAgentCallback, Still, serviceVars
<1>3. Popped(q, r, m)
  BY <1>1, <1>2, EventPopped
<1>4. x \in Ran(queue[r]) /\ x.type = "callback"
  BY <1>1, <1>2, FirstEvent DEF BridgeTypes
<1>5. Sound(x) /\ ItemOk(r, x)
  BY <1>1, <1>4, QueueItem
<1>6. x.id \in Callbacks /\ x.id \in Calls /\ x.conn \in Conns /\ call[x.id].conn = x.conn
  BY <1>4, <1>5 DEF Sound, ItemOk, Calls
<1>7. \/ queue' = q /\ UNCHANGED <<pending, call, inbox, waiting, answers, got>>
      \/ Answer(q, waiting, r, x.id, "error", 0) /\ UNCHANGED <<pending, call, inbox>>
      \/ Forward(q, r, x.id, x.conn) /\ UNCHANGED <<answers, got>>
  BY DEF HandleAgentCallback
<1>8. ASSUME NEW b \in Roles, NEW e \in Seq(Items), Moved(r, m, Adds(b, e)),
             \A y \in Ran(e) : QuietItem(b, y),
             call' = call, answers' = answers, got' = got, inbox' = inbox, pending' = pending,
             waiting' \in [Roles -> SUBSET Calls], \A p \in Roles : waiting'[p] \subseteq waiting[p]
      PROVE  IInv' /\ PortStep
  <2>1. "callback" \notin {"reply", "left"}
    OBVIOUS
  <2> QED
    BY <1>1, <1>2, <1>8, <2>1, EventQuiet
<1>9. CASE queue' = q /\ UNCHANGED <<pending, call, inbox, waiting, answers, got>>
  <2>1. Moved(r, m, Adds(r, <<>>)) /\ <<>> \in Seq(Items) /\ Ran(<<>>) = {}
    BY <1>1, <1>3, <1>9, KeptMoved
  <2>2. waiting \in [Roles -> SUBSET Calls]
    BY <1>1 DEF BridgeTypes
  <2>3. /\ call' = call /\ answers' = answers /\ got' = got /\ inbox' = inbox /\ pending' = pending
        /\ waiting' \in [Roles -> SUBSET Calls] /\ \A p \in Roles : waiting'[p] \subseteq waiting[p]
    BY <1>9, <2>2
  <2> QED
    BY <1>1, <1>8, <2>1, <2>3
<1>10. CASE Answer(q, waiting, r, x.id, "error", 0) /\ UNCHANGED <<pending, call, inbox>> /\ r = "relay"
  <2> DEFINE k == x.id
             f == Other(r)
  <2>1. k \in Calls /\ k \in Callbacks /\ call[k].conn \in Conns
    BY <1>6
  <2>2. Answer(q, waiting, r, k, "error", 0)
    BY <1>10
  <2> HIDE DEF k, q, m
  <2>3. Passed(q, r, k, "error", 0)
    BY <1>1, <1>10, <2>1, <2>2, AnswerPasses
  <2>4. "error" \in Vals
    BY DEF Vals
  <2>5. \E e \in Seq(Items) : Moved(r, m, Adds(f, e)) /\ \A y \in Ran(e) : QuietItem(f, y)
    BY <1>1, <1>3, <2>1, <2>3, <2>4, PassedQuiet
  <2> HIDE DEF f
  <2>6. PICK e \in Seq(Items) : Moved(r, m, Adds(f, e)) /\ \A y \in Ran(e) : QuietItem(f, y)
    BY <2>5
  <2>7. /\ call' = call /\ answers' = answers /\ got' = got /\ inbox' = inbox /\ pending' = pending
        /\ waiting' \in [Roles -> SUBSET Calls] /\ \A p \in Roles : waiting'[p] \subseteq waiting[p]
    BY <1>10, <2>3 DEF Passed
  <2>8. f \in Roles
    BY <1>1 DEF f
  <2> QED
    BY <1>8, <2>6, <2>7, <2>8
<1>11. CASE Answer(q, waiting, r, x.id, "error", 0) /\ UNCHANGED <<pending, call, inbox>> /\ r = "broker"
  <2>1. PICK k : k = x.id
    OBVIOUS
  <2>2. (r = "relay") # Callback(k)
    BY <1>6, <1>11, <2>1 DEF Callback
  <2>3. answers' = Counted(k) /\ got' = got /\ queue' = q /\ waiting' = waiting
    BY <1>6, <1>11, <2>1, <2>2 DEF Answer, Callback, Counted
  <2>4. Moved(r, m, Adds(r, <<>>)) /\ <<>> \in Seq(Items) /\ Ran(<<>>) = {}
    BY <1>1, <1>3, <2>3, KeptMoved
  <2>5. /\ k \in Callbacks /\ k \in Calls /\ call[k].conn \in Conns
        /\ answers[k] = 0 /\ ~Pends("broker", k)
        /\ \A p \in Roles : \A y \in Rest(r, m, p) : Token(y) => y.id # k
    BY <1>2, <1>11, <2>1, <2>4, CallbackFacts
  <2>6. CallOk(k)
    BY <1>1, <2>5, CallParts
  <2>7. call[k].guest # None /\ ~Undone("broker", k)
    BY <2>5, <2>6, ConnAssumption DEF CallOk, Pends, Undone
  <2>8. EnvTypes' /\ SameEnds /\ opening' = opening /\ present' = present /\ sent' = sent /\ agents' = agents
    BY <1>1, <1>2, StillTypes DEF Still
  <2>9. \A y \in Ran(queue[r]) \ Rest(r, m, r) : y.type # "reply" /\ y.type # "left"
    BY <1>1, <1>2, <2>4, TakenEvent
  <2>10. \A p \in Roles : \A y \in Ran(Adds(r, <<>>)[p]) : FALSE
    BY <2>4, AddsRan
  <2> HIDE DEF m, q, x
  <2>11. /\ Clients'
         /\ \A d \in Conns : Settled(d) => Settled(d)'
         /\ \A d \in Conns : \A p \in Roles : conn[d][p] = "closed" => conn'[d][p] = "closed"
    BY <1>1, <2>4, <2>8, <2>9, <2>10, ClientsKeep
  <2>12. ~(opening # None /\ opening.call = k)
    BY <1>1, <2>5, CallAssumption, ConnAssumption DEF Owed, Unsent
  <2>13. call' = call /\ pending' = pending /\ inbox' = inbox
    BY <1>11
  <2>14. \A p \in Roles : \A y \in Rest(r, m, p) : y.type \in {"guest", "callback"} => y.id # k
    BY <2>5 DEF Token
  <2>15. PICK e \in Seq(Items) : Moved(r, m, Adds(r, e)) /\ Ran(e) = {}
    BY <2>4
  <2>16. \A y \in Ran(e) : y.type \in {"closed", "open"} /\ QuietItem(r, y)
    BY <2>15
  <2>17. /\ ~Undone("relay", k) \/ k \in Callbacks
         /\ ~Undone("broker", k) \/ k \in Requests
         /\ (opening' = opening /\ (opening = None \/ opening.call # k)) \/ opening' = None
         /\ \A y \in Ran(queue[r]) \ Rest(r, m, r) : y.type # "reply"
    BY <2>5, <2>7, <2>8, <2>9, <2>12
  <2>18. k \in Calls /\ answers[k] = 0
    BY <2>5
  <2> QED
    BY <2>3, <2>18, <2>7, <2>8, <2>11, <2>13, <2>14, <2>15, <2>16, <2>17, RefuseStep
<1>12. CASE Forward(q, r, x.id, x.conn) /\ UNCHANGED <<answers, got>>
  <2>1. PICK k : k = x.id
    OBVIOUS
  <2>2. PICK c : c = x.conn
    OBVIOUS
  <2>3. k = AnEvent(r).id /\ c = AnEvent(r).conn /\ Forward(AfterEvent(r), r, k, c)
    BY <1>12, <2>1, <2>2
  <2>4. Popped(q, r, m) /\ Forward(q, r, k, c) /\ k \in Calls /\ c \in Conns
    BY <1>3, <1>6, <2>1, <2>2, <2>3
  <2>5. PICK b \in Roles : \E e \in Seq(Items) :
          Moved(r, m, Adds(b, e)) /\ Ordered(e) /\ \A y \in Ran(e) : FwdItem(r, k, c, b, y)
    <3> HIDE DEF x, q, m
    <3> QED
      BY <1>1, <2>4, ForwardMoved
  <2>6. PICK e \in Seq(Items) : Moved(r, m, Adds(b, e))
    BY <2>5
  <2>9. /\ \A y \in Rest(r, Next1(r), r) : y.type = "done" /\ y.id = k => y.stamp = 0
        /\ \A p \in Roles : \A y \in Rest(r, Next1(r), p) : Token(y) => y.id # k
        /\ r = "broker" => answers[k] = 0
    BY <1>2, <2>1, <2>6, CallbackFacts
  <2>10. answers' = answers /\ got' = got /\ "callback" \in {"guest", "call", "callback"} /\ "callback" # "guest" /\ "callback" # "call"
    BY <1>12
  <2> HIDE DEF x, q, m
  <2> QED
    BY <1>1, <1>2, <2>3, <2>9, <2>10, StillForward
<1> QED
  BY <1>7, <1>9, <1>10, <1>11, <1>12, RoleFacts

\* Nothing is known yet of a call that nobody has made.
LEMMA Unmade ==
    ASSUME IInv, NEW k \in Calls, call[k].conn = None
    PROVE  /\ k \notin inbox /\ \A r \in Roles : k \notin waiting[r] /\ ~Pends(r, k) /\ ~Undone(r, k)
           /\ \A r \in Roles : \A x \in Ran(queue[r]) :
                x.type \in {"call", "callback", "reply", "done"} => x.id # k
<1>1. CallOk(k)
  BY CallParts DEF IInv
<1>2. k \notin inbox /\ \A r \in Roles : k \notin waiting[r] /\ ~Pends(r, k)
  BY <1>1 DEF CallOk
<1>3. \A r \in Roles : ~Undone(r, k)
  BY <1>2 DEF Pends, Undone
<1>4. ASSUME NEW r \in Roles, NEW x \in Ran(queue[r]), x.type \in {"call", "callback", "reply", "done"}
      PROVE  x.id # k
  <2>1. Sound(x) /\ ItemOk(r, x)
    BY QueueItem
  <2>2. x.type # "done" => x.conn # None
    BY <1>4, <2>1, ConnAssumption DEF Sound
  <2> QED
    BY <1>4, <2>1, <2>2 DEF ItemOk
<1> QED
  BY <1>2, <1>3, <1>4

\* A call is made: it is queued, or refused because the queue is full.
LEMMA AsksStep ==
    ASSUME IInv, NEW k \in Calls, call[k].guest = None, NEW b \in Roles, NEW e \in Seq(Items),
           Moved(b, 0, Adds(b, e)), NEW y \in Items, Ran(e) \subseteq {y}, y.id = k, Ordered(e),
           IF k \in Requests THEN b = "relay" /\ y.type = "guest" ELSE b = "broker" /\ y.type = "callback",
           EnvTypes', conn' = conn, opening' = opening, present' = present,
           call' \in [Calls -> [guest : Guests \cup {Observer, None}, conn : Conns \cup {None},
                             kind : Kinds \cup {"callback"}]],
           \A j \in Calls : j # k => call'[j] = call[j],
           k \in Requests => call'[k].guest \in Guests /\ call'[k].conn = None,
           k \in Callbacks => call'[k].guest # None /\ call'[k].conn = y.conn /\ Settled(y.conn),
           answers' = answers \/ (answers' = Counted(k) /\ Ran(e) = {}),
           pending' = pending, waiting' = waiting, inbox' = inbox, got' = got, sent' = sent, agents' = agents
    PROVE  IInv' /\ PortStep
<1> DEFINE add == Adds(b, e)
<1>1. BridgeTypes /\ Clients /\ Placed /\ Owed /\ Itemised
  BY DEF IInv
<1>2. CallOk(k)
  BY <1>1, CallParts
<1>3. call[k].conn = None /\ answers[k] = 0
  BY <1>2 DEF CallOk
<1>4. /\ k \notin inbox /\ \A r \in Roles : k \notin waiting[r] /\ ~Pends(r, k) /\ ~Undone(r, k)
      /\ \A r \in Roles : \A x \in Ran(queue[r]) : x.type \in {"call", "callback", "reply", "done"} => x.id # k
  BY <1>3, Unmade
<1>5. "relay" \in Roles /\ "broker" \in Roles /\ "relay" # "broker" /\ (k \in Requests <=> k \notin Callbacks)
  BY RoleFacts, CallAssumption DEF Calls
<1>6. \A r \in Roles : (Pends(r, k)' <=> Pends(r, k)) /\ (Undone(r, k)' <=> Undone(r, k))
  BY DEF Pends, Undone
<1>7. answers \in [Calls -> Nat] /\ answers' \in [Calls -> Nat] /\ \A j \in Calls : j # k => answers'[j] = answers[j]
  BY <1>1 DEF BridgeTypes, Counted
<1>8. DataTypes'
  BY <1>1, <1>7 DEF DataTypes, BridgeTypes
<1>9. \A j \in Calls : j # k => Spared(j)
  BY <1>7 DEF Spared, Pends, Undone
<1>10. CallOk(k)'
  <2>1. CASE k \in Requests
    <3>1. call'[k].guest # None /\ call'[k].guest # Observer /\ call'[k].conn = None
      BY <2>1, NameAssumption
    <3> QED
      BY <1>4, <1>5, <1>6, <2>1, <3>1 DEF CallOk
  <2>2. CASE k \in Callbacks
    <3>1. PICK c : c = y.conn
      OBVIOUS
    <3>2. Settled(c) /\ call'[k].conn = c
      BY <2>2, <3>1
    <3>3. Settled(c)'
      BY <3>2 DEF Settled
    <3> QED
      BY <1>4, <1>5, <1>6, <2>2, <3>2, <3>3 DEF CallOk
  <2> QED
    BY <1>5, <2>1, <2>2
<1>11. \A r \in Roles : \A x \in Ran(queue[r]) : Token(x) => x.id # k
  <2> SUFFICES ASSUME NEW r \in Roles, NEW x \in Ran(queue[r]), x.type = "guest" PROVE x.id # k
    BY <1>4 DEF Token
  <2>1. ItemOk(r, x)
    BY QueueItem
  <2> QED
    BY <2>1, NameAssumption DEF ItemOk, Unsent
<1>12. \A r \in Roles : Rest(b, 0, r) = Ran(queue[r])
  BY <1>1, MovedFacts
<1>13. \A r \in Roles : \A z \in Ran(add[r]) : r = b /\ z = y
  <2>1. \A r \in Roles : \A z \in Ran(add[r]) : r = b /\ z \in Ran(e)
    BY AddsRan
  <2> HIDE DEF add
  <2> QED
    BY <2>1
<1>14. ~(opening # None /\ opening.call = k)
  BY <1>1, <1>5, CallAssumption, NameAssumption DEF Owed, Unsent
<1>15. Moved(b, 0, add) /\ \A r \in Roles : Ordered(add[r])
  <2>1. Ordered(<<>>)
    BY DEF Ordered
  <2> QED
    BY <2>1, AddsSeq
<1>16. Ran(e) = {} \/ answers'[k] = 0
  BY <1>3
<1> HIDE DEF add
<1>17. ASSUME NEW r \in Roles, NEW z \in Ran(add[r])
       PROVE  z.id = k /\ ~Stamped(z) /\ ItemOk(r, z)'
  <2>1. r = b /\ z = y
    BY <1>13
  <2>2. answers'[k] = 0
    <3>1. Ran(e) # {}
      <4>1. z \in Ran(e)
        BY <2>1, AddsRan DEF add
      <4> QED
        BY <4>1
    <3> QED
      BY <1>16, <3>1
  <2>3. CASE k \in Requests
    BY <1>14, <2>1, <2>2, <2>3 DEF ItemOk, Unsent, Stamped
  <2>4. CASE k \in Callbacks
    <3>1. b = "broker" /\ y.type = "callback" /\ call'[k].conn = y.conn
      BY <1>5, <2>4
    <3>2. ~Pends("broker", k)'
      BY <1>4, <1>5, <1>6
    <3>3. ASSUME NEW x \in Ran(queue'["relay"]), x.type = "callback"
          PROVE  x.id # k
      <4>1. x \in Rest(b, 0, "relay") \/ x \in Ran(add["relay"])
        BY <1>1, <1>5, <1>15, MovedFacts
      <4>2. x \in Ran(queue["relay"])
        BY <1>5, <1>12, <1>13, <3>1, <4>1
      <4> QED
        BY <1>4, <1>5, <3>3, <4>2
    <3> QED
      BY <1>5, <2>1, <2>2, <3>1, <3>2, <3>3 DEF ItemOk, Stamped
  <2> QED
    BY <1>5, <2>3, <2>4
<1>18. /\ Clients'
       /\ \A d \in Conns : Settled(d) => Settled(d)'
       /\ \A d \in Conns : \A p \in Roles : conn[d][p] = "closed" => conn'[d][p] = "closed"
  <2>1. SameEnds
    BY DEF SameEnds
  <2>2. \A r \in Roles : \A z \in Ran(add[r]) : z.type # "closed"
    BY <1>5, <1>13
  <2>3. Ran(queue[b]) \ Rest(b, 0, b) = {}
    BY <1>12
  <2> QED
    BY <1>1, <1>15, <2>1, <2>2, <2>3, ClientsKeep
<1>19. IInv'
  <2>1. \A y1 \in Ran(queue[b]) \ Rest(b, 0, b) : y1.type # "reply"
    BY <1>12
  <2>2. \A r \in Roles : \A x \in Rest(b, 0, r), z \in Ran(add[r]) : Token(z) => x.type # z.type \/ x.id # k
    BY <1>11, <1>12 DEF Token
  <2>3. \A r \in Roles : \A x \in Rest(b, 0, r) :
              Stamped(x) /\ x.type = "done" /\ x.id = k /\ Undone(r, k)' => Undone(r, k)
    BY <1>6
  <2>4. \A r \in Roles : \A x \in Rest(b, 0, r) : Token(x) /\ x.id = k => ItemOk(r, x)'
    BY <1>11, <1>12
  <2>5. PICK m : m = 0
    OBVIOUS
  <2>6. Moved(b, m, add)
    BY <1>15, <2>5
  <2>7. opening' = opening /\ (opening = None \/ opening.call # k)
    BY <1>14
  <2>8. call[k].conn # None => call'[k].conn = call[k].conn
    BY <1>3
  <2> QED
    BY <1>8, <1>9, <1>10, <1>15, <1>17, <1>18, <2>1, <2>2, <2>3, <2>4, <2>5, <2>6, <2>7, <2>8, CallStep
<1>20. PortStep
  <2>1. call'[k].guest # None
    BY <1>5, NameAssumption
  <2>2. \A j \in Calls \ {k} : call'[j].guest = call[j].guest
    OBVIOUS
  <2> QED
    BY <1>3, <2>1, <2>2, PortAsks DEF Counted
<1> QED
  BY <1>19, <1>20

\* The queue with the item that asks, or as it was.
LEMMA AskMoved ==
    ASSUME BridgeTypes, NEW b \in Roles, NEW y \in Items, NEW full,
           IF full THEN queue' = queue ELSE queue' = Queued(queue, b, y)
    PROVE  \E e \in Seq(Items) : Moved(b, 0, Adds(b, e)) /\ Ran(e) \subseteq {y} /\ Ordered(e) /\ (full => Ran(e) = {})
<1>1. Popped(queue, b, 0)
  BY NotPopped
<1>2. CASE full
  <2>1. Moved(b, 0, Adds(b, <<>>)) /\ <<>> \in Seq(Items) /\ Ran(<<>>) = {}
    BY <1>1, <1>2, KeptMoved
  <2>2. Ordered(<<>>)
    BY DEF Ordered
  <2> QED
    BY <2>1, <2>2
<1>3. CASE ~full
  <2>1. queue' = Queued(queue, b, y)
    BY <1>3
  <2>2. \E e \in Seq(Items) : Ran(e) \subseteq {y} /\ Ordered(e) /\ Moved(b, 0, Adds(b, e))
    BY ZenonT(60), <1>1, <2>1, QueuedMoved
  <2> QED
    BY <1>3, <2>2
<1> QED
  BY <1>2, <1>3

LEMMA GuestCallsStep ==
    ASSUME IInv, NEW g \in Guests, NEW k \in Requests, GuestCalls(g, k)
    PROVE  IInv' /\ PortStep
<1> DEFINE y == Event("guest", None, k, "none", 0)
           full == Full(queue, "relay")
<1>1. BridgeTypes /\ "relay" \in Roles
  BY RoleFacts DEF IInv
<1>2. k \in Calls /\ k \notin Callbacks
  BY CallAssumption DEF Calls
<1>3. /\ call[k].guest = None /\ budget.requests # <<>>
      /\ call' = [call EXCEPT ![k].guest = g, ![k].kind = Head(budget.requests)]
      /\ budget' = [budget EXCEPT !.requests = Tail(@)]
      /\ IF full THEN answers' = [answers EXCEPT ![k] = @ + 1] /\ queue' = queue
         ELSE queue' = Queued(queue, "relay", y) /\ answers' = answers
      /\ conn' = conn /\ opening' = opening /\ names' = names /\ present' = present /\ pending' = pending
      /\ waiting' = waiting /\ got' = got /\ inbox' = inbox /\ owner' = owner /\ started' = started
      /\ sent' = sent /\ agents' = agents
  BY DEF GuestCalls, serviceVars
<1>4. y \in Items /\ y.id = k /\ y.type = "guest"
  BY ItemFacts DEF Event, Item
<1>5. budget \in Budget /\ Head(budget.requests) \in Kinds /\ budget' \in Budget
  <2>1. budget \in Budget
    BY <1>1 DEF BridgeTypes
  <2>2. budget.requests \in Seq(Kinds) /\ budget.requests # <<>>
    BY <1>3, <2>1 DEF Budget
  <2>3. Head(budget.requests) \in Kinds /\ Tail(budget.requests) \in Seq(Kinds)
    BY <2>2
  <2> QED
    BY <1>3, <2>1, <2>3 DEF Budget
<1>6. /\ call' \in [Calls -> [guest : Guests \cup {Observer, None}, conn : Conns \cup {None},
                             kind : Kinds \cup {"callback"}]]
      /\ call'[k].guest = g /\ call'[k].conn = call[k].conn
      /\ \A j \in Calls : j # k => call'[j] = call[j]
  <2>1. call \in [Calls -> [guest : Guests \cup {Observer, None}, conn : Conns \cup {None},
                             kind : Kinds \cup {"callback"}]]
    BY <1>1 DEF BridgeTypes
  <2>2. PICK h \in Kinds : h = Head(budget.requests)
    BY <1>5
  <2>3. call' = [call EXCEPT ![k].guest = g, ![k].kind = h]
    BY <1>3, <2>2
  <2> QED
    BY <1>2, <2>1, <2>3
<1>7. call[k].conn = None
  BY <1>2, <1>3, CallParts DEF IInv, CallOk
<1>8. EnvTypes'
  <2>1. EnvTypes
    BY <1>1, TypeParts
  <2> QED
    BY <1>3, <1>5, <2>1 DEF EnvTypes
<1>9. IF full THEN queue' = queue ELSE queue' = Queued(queue, "relay", y)
  BY <1>3
<1>10. (answers' = Counted(k) /\ full) \/ answers' = answers
  BY <1>3 DEF Counted
<1>16. conn' = conn /\ opening' = opening /\ present' = present /\ pending' = pending /\ call[k].guest = None
       /\ waiting' = waiting /\ got' = got /\ inbox' = inbox /\ sent' = sent /\ agents' = agents
  BY <1>3
<1> HIDE DEF y, full
<1>11. y \in Items
  BY <1>4
<1>12. \E e \in Seq(Items) : Moved("relay", 0, Adds("relay", e)) /\ Ran(e) \subseteq {y} /\ Ordered(e) /\ (full => Ran(e) = {})
  BY <1>1, <1>9, <1>11, AskMoved
<1>13. PICK e \in Seq(Items) : Moved("relay", 0, Adds("relay", e)) /\ Ran(e) \subseteq {y} /\ Ordered(e) /\ (full => Ran(e) = {})
  BY <1>12
<1>14. answers' = answers \/ (answers' = Counted(k) /\ Ran(e) = {})
  BY <1>10, <1>13
<1>15. /\ IF k \in Requests THEN "relay" = "relay" /\ y.type = "guest" ELSE "relay" = "broker" /\ y.type = "callback"
       /\ k \in Requests => call'[k].guest \in Guests /\ call'[k].conn = None
       /\ k \in Callbacks => call'[k].guest # None /\ call'[k].conn = y.conn /\ Settled(y.conn)
  BY <1>2, <1>4, <1>6, <1>7
<1> QED
  BY <1>1, <1>2, <1>4, <1>6, <1>8, <1>13, <1>14, <1>15, <1>16, AsksStep

LEMMA ServiceCallsBackStep ==
    ASSUME IInv, NEW k \in Calls, NEW c \in Conns, ServiceCallsBack(k, c)
    PROVE  IInv' /\ PortStep
<1> DEFINE y == Event("callback", c, k, "none", owner)
           full == Full(queue, "broker")
<1>1. BridgeTypes /\ Clients /\ Placed /\ "broker" \in Roles
  BY RoleFacts DEF IInv
<1>2. k \in Callbacks /\ k \notin Requests
  BY CallAssumption DEF ServiceCallsBack, Callback
<1>3. /\ call[k].guest = None /\ c \in agents /\ conn[c].broker = "open"
      /\ call' = [call EXCEPT ![k].guest = conn[c].name, ![k].conn = c]
      /\ IF full THEN answers' = [answers EXCEPT ![k] = @ + 1] /\ queue' = queue
         ELSE queue' = Queued(queue, "broker", y) /\ answers' = answers
      /\ conn' = conn /\ opening' = opening /\ names' = names /\ present' = present /\ pending' = pending
      /\ waiting' = waiting /\ got' = got /\ inbox' = inbox /\ owner' = owner /\ started' = started
      /\ sent' = sent /\ agents' = agents /\ budget' = budget
  BY DEF ServiceCallsBack, serviceVars
<1>4. y \in Items /\ y.id = k /\ y.type = "callback" /\ y.conn = c
  BY <1>1, <1>2, ItemFacts DEF Event, Item, BridgeTypes
<1>5. Settled(c) /\ conn[c].name # None
  BY <1>1, <1>3 DEF Placed, Clients
<1>6. /\ call' \in [Calls -> [guest : Guests \cup {Observer, None}, conn : Conns \cup {None},
                             kind : Kinds \cup {"callback"}]]
      /\ call'[k].guest = conn[c].name /\ call'[k].conn = c
      /\ \A j \in Calls : j # k => call'[j] = call[j]
  <2>1. call \in [Calls -> [guest : Guests \cup {Observer, None}, conn : Conns \cup {None},
                             kind : Kinds \cup {"callback"}]]
    BY <1>1 DEF BridgeTypes
  <2>2. PICK h \in Guests \cup {Observer, None} : h = conn[c].name
    BY <1>1 DEF BridgeTypes
  <2>3. call' = [call EXCEPT ![k].guest = h, ![k].conn = c]
    BY <1>3, <2>2
  <2> QED
    BY <2>1, <2>2, <2>3
<1>8. EnvTypes'
  <2>1. EnvTypes
    BY <1>1, TypeParts
  <2> QED
    BY <1>3, <2>1 DEF EnvTypes
<1>9. IF full THEN queue' = queue ELSE queue' = Queued(queue, "broker", y)
  BY <1>3
<1>10. (answers' = Counted(k) /\ full) \/ answers' = answers
  BY <1>3 DEF Counted
<1>16. conn' = conn /\ opening' = opening /\ present' = present /\ pending' = pending /\ call[k].guest = None
       /\ waiting' = waiting /\ got' = got /\ inbox' = inbox /\ sent' = sent /\ agents' = agents
  BY <1>3
<1> HIDE DEF y, full
<1>11. y \in Items
  BY <1>4
<1>12. \E e \in Seq(Items) : Moved("broker", 0, Adds("broker", e)) /\ Ran(e) \subseteq {y} /\ Ordered(e) /\ (full => Ran(e) = {})
  BY <1>1, <1>9, <1>11, AskMoved
<1>13. PICK e \in Seq(Items) : Moved("broker", 0, Adds("broker", e)) /\ Ran(e) \subseteq {y} /\ Ordered(e) /\ (full => Ran(e) = {})
  BY <1>12
<1>14. answers' = answers \/ (answers' = Counted(k) /\ Ran(e) = {})
  BY <1>10, <1>13
<1>15. /\ IF k \in Requests THEN "broker" = "relay" /\ y.type = "guest" ELSE "broker" = "broker" /\ y.type = "callback"
       /\ k \in Requests => call'[k].guest \in Guests /\ call'[k].conn = None
       /\ k \in Callbacks => call'[k].guest # None /\ call'[k].conn = y.conn /\ Settled(y.conn)
  BY <1>2, <1>4, <1>5, <1>6
<1> QED
  BY <1>1, <1>4, <1>6, <1>8, <1>13, <1>14, <1>15, <1>16, AsksStep

\* The clients stay in order whatever the step queues, if it closes none.
Orderly(a, m) ==
    \A add : Moved(a, m, add) /\ (\A r \in Roles : \A y \in Ran(add[r]) : y.type # "closed") =>
        /\ Clients'
        /\ \A d \in Conns : Settled(d) => Settled(d)'
        /\ \A d \in Conns : \A r \in Roles : conn[d][r] = "closed" => conn'[d][r] = "closed"

\* A call whose turn it is in the relay: nothing else of it is queued.
Turn(a, m, k) ==
    /\ Unsent(k) /\ ((opening' = opening /\ (opening = None \/ opening.call # k)) \/ opening' = None)
    /\ \A p \in Roles : \A y \in Rest(a, m, p) : y.type = "guest" => y.id # k
    /\ \A y \in Ran(queue[a]) \ Rest(a, m, a) : y.type # "reply"

LEMMA TurnFacts ==
    ASSUME IInv, NEW a, NEW m, NEW add, Moved(a, m, add), NEW k \in Requests, Turn(a, m, k)
    PROVE  /\ k \in Calls /\ call[k].guest # None /\ call[k].conn = None /\ answers[k] = 0
           /\ \A r \in Roles : ~Undone(r, k)
           /\ \A p \in Roles : \A y \in Rest(a, m, p) : Token(y) \/ y.type = "done" => y.id # k
<1>1. k \in Calls
  BY DEF Calls
<1>2. call[k].guest # None /\ call[k].conn = None /\ answers[k] = 0
  BY NameAssumption DEF Turn, Unsent
<1>3. /\ \A r \in Roles : ~Undone(r, k)
      /\ \A r \in Roles : \A x \in Ran(queue[r]) : x.type \in {"call", "callback", "reply", "done"} => x.id # k
  BY <1>1, <1>2, Unmade
<1>4. ASSUME NEW p \in Roles, NEW y \in Rest(a, m, p), Token(y) \/ y.type = "done"
      PROVE  y.id # k
  <2>1. y \in Ran(queue[p])
    BY RestItem
  <2>2. CASE y.type = "guest"
    BY <2>2 DEF Turn
  <2>3. CASE y.type \in {"call", "callback", "done"}
    BY <1>3, <2>1, <2>3
  <2> QED
    BY <1>4, <2>2, <2>3 DEF Token
<1> QED
  BY <1>1, <1>2, <1>3, <1>4

\* What the relay's own steps leave alone.
Calm == EnvTypes' /\ sent' = sent /\ got' = got /\ agents' = agents

LEMMA RefusedStep ==
    ASSUME IInv, NEW q, NEW a, NEW m, Popped(q, a, m), NEW k \in Requests, Turn(a, m, k), Orderly(a, m), Calm,
           Refuse(q, k)
    PROVE  IInv' /\ PortStep
<1>1. queue' = q /\ call' = call /\ pending' = pending /\ inbox' = inbox /\ waiting' = waiting /\ answers' = Counted(k)
  BY DEF Refuse, Counted
<1>2. a \in Roles
  BY DEF Popped
<1>3. Moved(a, m, Adds(a, <<>>)) /\ <<>> \in Seq(Items) /\ Ran(<<>>) = {}
  BY <1>1, <1>2, KeptMoved
<1>4. PICK e \in Seq(Items) : Moved(a, m, Adds(a, e)) /\ Ran(e) = {}
  BY <1>3
<1>5. \A r \in Roles : \A y \in Ran(Adds(a, e)[r]) : FALSE
  BY <1>2, <1>4, AddsRan
<1>6. /\ Clients'
      /\ \A d \in Conns : Settled(d) => Settled(d)'
      /\ \A d \in Conns : \A r \in Roles : conn[d][r] = "closed" => conn'[d][r] = "closed"
  BY <1>4, <1>5 DEF Orderly
<1>7. /\ k \in Calls /\ call[k].guest # None /\ call[k].conn = None /\ answers[k] = 0
      /\ \A r \in Roles : ~Undone(r, k)
      /\ \A p \in Roles : \A y \in Rest(a, m, p) : Token(y) \/ y.type = "done" => y.id # k
  BY <1>4, TurnFacts
<1>8. /\ ~Undone("relay", k) \/ k \in Callbacks
      /\ ~Undone("broker", k) \/ k \in Requests
      /\ \A p \in Roles : \A y \in Rest(a, m, p) : y.type \in {"guest", "callback"} => y.id # k
      /\ (opening' = opening /\ (opening = None \/ opening.call # k)) \/ opening' = None
      /\ \A y \in Ran(queue[a]) \ Rest(a, m, a) : y.type # "reply"
      /\ \A y \in Ran(e) : y.type \in {"closed", "open"} /\ QuietItem(a, y)
  BY <1>4, <1>7, RoleFacts DEF Turn, Token
<1>9. EnvTypes' /\ sent' = sent /\ got' = got /\ agents' = agents
  BY DEF Calm
<1>10. k \in Calls /\ call[k].guest # None /\ answers[k] = 0
  BY <1>7
<1> QED
  BY SMTT(40), <1>1, <1>2, <1>4, <1>6, <1>8, <1>9, <1>10, RefuseStep

LEMMA RelayCallStep ==
    ASSUME IInv, NEW q, NEW a, NEW m, Popped(q, a, m), NEW k \in Requests, Turn(a, m, k), Orderly(a, m), Calm,
           NEW c \in Conns, Settled(c)', RelayCall(q, k, c)
    PROVE  IInv' /\ PortStep
<1>1. CASE Refuse(q, k)
  BY <1>1, RefusedStep
<1>2. CASE Forward(q, "relay", k, c) /\ answers' = answers
  <2>1. k \in Calls /\ "relay" \in Roles /\ k \notin Callbacks /\ "relay" # "broker"
    BY RoleFacts, CallAssumption DEF Calls
  <2>2. PICK b \in Roles : \E e \in Seq(Items) :
          Moved(a, m, Adds(b, e)) /\ Ordered(e) /\ \A y \in Ran(e) : FwdItem("relay", k, c, b, y)
    BY <1>2, <2>1, ForwardMoved
  <2>3. PICK e \in Seq(Items) :
          Moved(a, m, Adds(b, e)) /\ Ordered(e) /\ \A y \in Ran(e) : FwdItem("relay", k, c, b, y)
    BY <2>2
  <2>4. \A r \in Roles : \A y \in Ran(Adds(b, e)[r]) : y.type # "closed"
    BY <2>3, AddsRan DEF FwdItem
  <2>5. /\ Clients'
        /\ \A d \in Conns : Settled(d) => Settled(d)'
        /\ \A d \in Conns : \A r \in Roles : conn[d][r] = "closed" => conn'[d][r] = "closed"
    BY <2>3, <2>4 DEF Orderly
  <2>6. /\ k \in Calls /\ call[k].guest # None /\ call[k].conn = None /\ answers[k] = 0
        /\ \A r \in Roles : ~Undone(r, k)
        /\ \A p \in Roles : \A y \in Rest(a, m, p) : Token(y) \/ y.type = "done" => y.id # k
    BY <2>3, TurnFacts
  <2>7. /\ \A p \in Roles : \A y \in Rest(a, m, p) : Token(y) => y.id # k
        /\ \A y \in Rest(a, m, "relay") : y.type = "done" /\ y.id = k => y.stamp = 0
        /\ (opening' = opening /\ (opening = None \/ opening.call # k)) \/ opening' = None
        /\ \A y \in Ran(queue[a]) \ Rest(a, m, a) : y.type # "reply"
    BY <2>1, <2>6 DEF Turn
  <2>8. EnvTypes' /\ sent' = sent /\ got' = got /\ agents' = agents
    BY DEF Calm
  <2>9. call[k].guest # None /\ call[k].conn = None /\ answers[k] = 0
    BY <2>6
  <2> QED
    BY <1>2, <2>1, <2>3, <2>5, <2>7, <2>8, <2>9, ForwardStep
<1> QED
  BY <1>1, <1>2 DEF RelayCall

\* The clients while the relay handles an event.
LEMMA OrderlyEvent ==
    ASSUME IInv, NEW r \in Roles, NEW type, type # "left", NextEvent(r, type),
           conn' = conn, opening' = opening, present' = present
    PROVE  Orderly(r, Next1(r))
<1> DEFINE m == Next1(r)
<1>1. BridgeTypes /\ Clients
  BY DEF IInv
<1>2. SameEnds
  BY DEF SameEnds
<1>3. \A add : Moved(r, m, add) => \A y \in Ran(queue[r]) \ Rest(r, m, r) : y.type = type
  BY <1>1, TakenEvent
<1> HIDE DEF m
<1>4. ASSUME NEW add, Moved(r, m, add), \A p \in Roles : \A y \in Ran(add[p]) : y.type # "closed"
      PROVE  /\ Clients'
             /\ \A d \in Conns : Settled(d) => Settled(d)'
             /\ \A d \in Conns : \A p \in Roles : conn[d][p] = "closed" => conn'[d][p] = "closed"
  <2>1. \A y \in Ran(queue[r]) \ Rest(r, m, r) : y.type # "left"
    BY <1>3, <1>4
  <2> QED
    BY <1>1, <1>2, <1>4, <2>1, ClientsKeep
<1>5. Orderly(r, m)
  BY <1>4 DEF Orderly
<1> QED
  BY <1>5 DEF m

LEMMA GuestTurn ==
    ASSUME IInv, NextEvent("relay", "guest"), NEW k, k = AnEvent("relay").id
    PROVE  /\ k \in Requests /\ Unsent(k) /\ ~(opening # None /\ opening.call = k)
           /\ opening' = opening => Turn("relay", Next1("relay"), k)
           /\ \A p \in Roles : \A y \in Rest("relay", Next1("relay"), p) : y.type = "guest" => y.id # k
           /\ \A y \in Ran(queue["relay"]) \ Rest("relay", Next1("relay"), "relay") : y.type = "guest"
<1> DEFINE x == AnEvent("relay")
           m == Next1("relay")
<1>1. BridgeTypes /\ "relay" \in Roles /\ "broker" \in Roles
  BY RoleFacts DEF IInv
<1>2. x \in Ran(queue["relay"]) /\ x.type = "guest"
  BY <1>1, FirstEvent DEF BridgeTypes
<1>3. Sound(x) /\ ItemOk("relay", x)
  BY <1>1, <1>2, QueueItem
<1>4. k \in Requests /\ Unsent(k) /\ ~(opening # None /\ opening.call = k)
  BY <1>2, <1>3 DEF Sound, ItemOk
<1>5. \A y \in Rest("relay", m, "relay") : y.type = "guest" => y.id # k
  BY <1>1, TokenOnce
<1>6. \A y \in Rest("relay", m, "broker") : y.type # "guest"
  <2> SUFFICES ASSUME NEW y \in Rest("relay", m, "broker") PROVE y.type # "guest"
    OBVIOUS
  <2>1. Rest("relay", m, "broker") = Others(queue["broker"], 0)
    BY DEF Rest
  <2>2. y \in Ran(queue["broker"])
    BY <2>1 DEF Others, Ran
  <2>3. ItemOk("broker", y)
    BY <1>1, <2>2, QueueItem
  <2> QED
    BY <2>3 DEF ItemOk
<1>7. \A p \in Roles : \A y \in Rest("relay", m, p) : y.type = "guest" => y.id # k
  BY <1>5, <1>6, RoleFacts
<1>8. \A y \in Ran(queue["relay"]) \ Rest("relay", m, "relay") : y.type = "guest"
  <2>1. Rest("relay", m, "relay") = Others(queue["relay"], m)
    BY DEF Rest
  <2>2. queue["relay"] \in Seq(Items) /\ m \in DOMAIN queue["relay"] /\ x = queue["relay"][m]
    BY <1>1, FirstEvent DEF BridgeTypes
  <2> HIDE DEF m, x
  <2> QED
    BY <1>2, <2>1, <2>2 DEF Others, Ran
<1>9. opening' = opening => Turn("relay", m, k)
  BY <1>4, <1>7, <1>8 DEF Turn
<1> QED
  BY <1>4, <1>7, <1>8, <1>9

\* A call for which the relay first opens a client.
LEMMA OpensForCall ==
    ASSUME IInv, NEW q, NEW a, NEW m, Popped(q, a, m), NEW g \in Guests, NEW k \in Requests,
           StartOpening(g, k, q), Unsent(k), opening = None, present' = present, g \in present,
           ClientsOf(g) = {}, names' = names, owner' = owner, started' = started, agents' = agents,
           budget' = budget, sent' = sent, got' = got,
           pending' = pending, call' = call, inbox' = inbox, waiting' = waiting, answers' = answers,
           \A p \in Roles : \A y \in Rest(a, m, p) : y.type = "guest" => y.id # k,
           \A y \in Ran(queue[a]) \ Rest(a, m, a) : y.type = "guest"
    PROVE  IInv' /\ PortStep
<1>1. BridgeTypes /\ Clients /\ Placed /\ Owed /\ "broker" \in Roles
  BY RoleFacts DEF IInv
<1>2. /\ \E e \in Seq(Items) : Moved(a, m, Adds("broker", e)) /\ \A y \in Ran(e) : QuietItem("broker", y) /\ y.type = "open"
      /\ conn' \in [Conns -> ConnRecord]
      /\ opening' \in [conn : Conns, call : Requests \cup {None}] /\ opening' # None /\ opening'.call = k
      /\ Clients'
      /\ \A d \in Conns : Settled(d) => Settled(d)'
      /\ \A d \in Conns : \A b \in Roles : conn[d][b] = "closed" => conn'[d][b] = "closed"
  <2>1. /\ g \in Guests \cup {Observer} /\ k \in Requests \cup {None}
        /\ g \in Guests => g \in present /\ ClientsOf(g) = {}
        /\ a = "relay" => \A y \in Ran(queue[a]) \ Rest(a, m, a) : y.type # "left"
    OBVIOUS
  <2> QED
    BY <1>1, <2>1, StartsOpening
<1>3. PICK e \in Seq(Items) : Moved(a, m, Adds("broker", e)) /\ \A y \in Ran(e) : QuietItem("broker", y) /\ y.type = "open"
  BY <1>2
<1> DEFINE add == Adds("broker", e)
<1>4. \A p \in Roles : \A y \in Ran(add[p]) : p = "broker" /\ y.type = "open" /\ QuietItem(p, y)
  <2>1. \A p \in Roles : \A y \in Ran(add[p]) : p = "broker" /\ y \in Ran(e)
    BY <1>1, AddsRan
  <2> HIDE DEF add
  <2> QED
    BY <1>3, <2>1
<1> HIDE DEF add
<1>5. Moved(a, m, add)
  BY <1>3 DEF add
<1>6. k \in Calls /\ call[k].conn = None
  BY DEF Calls, Unsent
<1>7. /\ k \notin inbox /\ \A r \in Roles : k \notin waiting[r] /\ ~Pends(r, k) /\ ~Undone(r, k)
      /\ \A r \in Roles : \A x \in Ran(queue[r]) : x.type \in {"call", "callback", "reply", "done"} => x.id # k
  BY <1>6, Unmade
<1>8. \A r \in Roles : \A x \in Rest(a, m, r) : Token(x) => x.id # k
  <2> SUFFICES ASSUME NEW r \in Roles, NEW x \in Rest(a, m, r), Token(x) PROVE x.id # k
    OBVIOUS
  <2>1. x \in Ran(queue[r])
    BY <1>5, RestItem
  <2> QED
    BY <1>7, <2>1 DEF Token
<1>9. EnvTypes'
  <2>1. EnvTypes
    BY <1>1, TypeParts
  <2> QED
    BY <1>2, <2>1 DEF EnvTypes
<1>10. DataTypes'
  BY <1>1 DEF DataTypes, BridgeTypes
<1>11. \A j \in Calls : j # k => Spared(j)
  BY DEF Spared, Pends, Undone
<1>12. CallOk(k) /\ CallOk(k)'
  <2>1. CallOk(k)
    BY <1>1, <1>6, CallParts
  <2>2. \A r \in Roles : (Pends(r, k)' <=> Pends(r, k)) /\ (Undone(r, k)' <=> Undone(r, k))
    BY DEF Pends, Undone
  <2>3. ~Undone("relay", k)' /\ ~Undone("broker", k)'
    BY <1>7, <2>2, RoleFacts
  <2> QED
    BY <1>6, <1>7, <2>1, <2>2, <2>3 DEF CallOk
<1>13. OpeningOk'
  BY <1>2 DEF OpeningOk, Unsent
<1>14. \A r \in Roles : \A y \in Ran(add[r]) : (y.id = k \/ y.type = "open") /\ ~Stamped(y) /\ ItemOk(r, y)'
  BY <1>4 DEF QuietItem, ItemOk
<1>15. \A r \in Roles : Ordered(add[r])
  <2>1. \A r \in Roles : add[r] \in Seq(Items)
    BY <1>5 DEF Moved, Queues
  <2>2. \A r \in Roles : \A y \in Ran(add[r]) : ~Stamped(y) /\ ~Token(y)
    BY <1>4 DEF QuietItem
  <2> QED
    BY <2>1, <2>2, QuietOrdered
<1>16. /\ \A r \in Roles : \A x \in Rest(a, m, r) : Token(x) /\ x.id = k => ItemOk(r, x)'
       /\ \A r \in Roles : \A x \in Rest(a, m, r), y \in Ran(add[r]) : Token(y) => x.type # y.type \/ x.id # k
       /\ \A r \in Roles : \A x \in Rest(a, m, r) :
              Stamped(x) /\ x.type = "done" /\ x.id = k /\ Undone(r, k)' => Undone(r, k)
       /\ \A y \in Ran(queue[a]) \ Rest(a, m, a) : y.type # "reply"
       /\ call[k].conn # None => call'[k].conn = call[k].conn
  BY <1>4, <1>8 DEF Token, Undone
<1>17. IInv'
  BY <1>2, <1>5, <1>6, <1>9, <1>10, <1>11, <1>12, <1>13, <1>14, <1>15, <1>16, CallStep
<1>18. PortStep
  BY PortQuiet
<1> QED
  BY <1>17, <1>18

LEMMA HandleGuestCallStep ==
    ASSUME IInv, HandleGuestCall
    PROVE  IInv' /\ PortStep
<1> DEFINE q == AfterEvent("relay")
           m == Next1("relay")
<1>1. BridgeTypes /\ Clients /\ "relay" \in Roles
  BY RoleFacts DEF IInv
<1>2. PICK k : k = AnEvent("relay").id
  OBVIOUS
<1>3. PICK g : g = call[k].guest
  OBVIOUS
<1>4. /\ NextEvent("relay", "guest") /\ opening = None
      /\ names' = names /\ present' = present /\ got' = got /\ budget' = budget
      /\ owner' = owner /\ started' = started /\ sent' = sent /\ agents' = agents
  BY DEF HandleGuestCall, serviceVars, Runs
<1>5. \/ Refuse(q, k) /\ conn' = conn /\ opening' = opening
      \/ \E c \in ClientsOf(g) : RelayCall(q, k, c) /\ conn' = conn /\ opening' = opening
      \/ /\ ClientsOf(g) = {} /\ g \in present /\ StartOpening(g, k, q)
         /\ pending' = pending /\ call' = call /\ inbox' = inbox /\ waiting' = waiting /\ answers' = answers
  BY <1>2, <1>3 DEF HandleGuestCall
<1>6. Popped(q, "relay", m)
  BY <1>1, <1>4, EventPopped
<1>7. /\ k \in Requests /\ Unsent(k)
      /\ opening' = opening => Turn("relay", m, k)
      /\ \A p \in Roles : \A y \in Rest("relay", m, p) : y.type = "guest" => y.id # k
      /\ \A y \in Ran(queue["relay"]) \ Rest("relay", m, "relay") : y.type = "guest"
  BY <1>2, <1>4, GuestTurn
<1>8. g \in Guests
  BY <1>3, <1>7 DEF Unsent
<1>9. conn' = conn /\ opening' = opening => Orderly("relay", m) /\ Calm
  <2>1. ASSUME conn' = conn, opening' = opening
        PROVE  Orderly("relay", m)
    <3>1. "guest" # "left"
      OBVIOUS
    <3> QED
      BY <1>1, <1>4, <2>1, <3>1, OrderlyEvent
  <2>2. ASSUME conn' = conn, opening' = opening
        PROVE  Calm
    <3>1. EnvTypes
      BY <1>1, TypeParts
    <3> QED
      BY <1>4, <2>2, <3>1 DEF Calm, EnvTypes
  <2> QED
    BY <2>1, <2>2
<1> HIDE DEF q, m
<1>10. CASE Refuse(q, k) /\ conn' = conn /\ opening' = opening
  BY <1>6, <1>7, <1>9, <1>10, RefusedStep
<1>11. CASE \E c \in ClientsOf(g) : RelayCall(q, k, c) /\ conn' = conn /\ opening' = opening
  <2>1. PICK c \in ClientsOf(g) : RelayCall(q, k, c) /\ conn' = conn /\ opening' = opening
    BY <1>11
  <2>2. c \in Conns /\ Settled(c)
    BY <1>1 DEF ClientsOf, Clients
  <2>3. Settled(c)'
    BY <2>1, <2>2 DEF Settled
  <2> QED
    BY <1>6, <1>7, <1>9, <2>1, <2>2, <2>3, RelayCallStep
<1>12. CASE /\ ClientsOf(g) = {} /\ g \in present /\ StartOpening(g, k, q)
            /\ pending' = pending /\ call' = call /\ inbox' = inbox /\ waiting' = waiting /\ answers' = answers
  BY <1>4, <1>6, <1>7, <1>8, <1>12, OpensForCall
<1> QED
  BY <1>5, <1>10, <1>11, <1>12

\* The call behind an opening client: nothing else of it is queued.
LEMMA OpeningTurn ==
    ASSUME IInv, opening # None, opening' = None, NEW k, k = opening.call, k # None, NEW b \in Roles
    PROVE  k \in Requests /\ Turn(b, 0, k)
<1>1. BridgeTypes /\ Owed /\ Itemised
  BY DEF IInv
<1>2. k \in Requests /\ Unsent(k)
  BY <1>1 DEF BridgeTypes, Owed
<1>3. \A p \in Roles : Rest(b, 0, p) = Ran(queue[p])
  <2> TAKE p \in Roles
  <2>1. Rest(b, 0, p) = Others(queue[p], 0)
    BY DEF Rest
  <2>2. queue[p] \in Seq(Items)
    BY <1>1 DEF BridgeTypes
  <2>3. 0 \notin DOMAIN queue[p]
    BY <2>2
  <2> QED
    BY <2>1, <2>3 DEF Others, Ran
<1>4. \A p \in Roles : \A y \in Ran(queue[p]) : y.type = "guest" => y.id # k
  BY <1>1 DEF Itemised
<1> QED
  BY <1>2, <1>3, <1>4 DEF Turn

LEMMA RelayOpenedStep ==
    ASSUME IInv, RelayOpened
    PROVE  IInv' /\ PortStep
<1>1. BridgeTypes /\ Clients /\ "broker" \in Roles
  BY RoleFacts DEF IInv
<1>2. CASE opening.call = None
  BY <1>2, OpenedQuiet
<1>3. CASE opening.call # None
  <2>1. PICK k : k = opening.call
    OBVIOUS
  <2>2. PICK c : c = opening.conn
    OBVIOUS
  <2>3. /\ opening # None /\ conn[opening.conn].broker = "open"
        /\ conn' = [conn EXCEPT ![opening.conn].relay = "open"] /\ opening' = None
        /\ RelayCall(queue, k, c)
        /\ names' = names /\ present' = present /\ got' = got /\ budget' = budget
        /\ owner' = owner /\ started' = started /\ sent' = sent /\ agents' = agents
    BY <1>3, <2>1, <2>2 DEF RelayOpened, serviceVars
  <2>4. k \in Requests /\ Turn("broker", 0, k)
    BY <1>1, <1>3, <2>1, <2>3, OpeningTurn
  <2>5. ASSUME NEW add, Moved("broker", 0, add), \A p \in Roles : \A y \in Ran(add[p]) : y.type # "closed"
        PROVE  /\ conn' \in [Conns -> ConnRecord] /\ Clients'
               /\ \A d \in Conns : Settled(d) => Settled(d)'
               /\ \A d \in Conns : \A b \in Roles : conn[d][b] = "closed" => conn'[d][b] = "closed"
               /\ opening.conn \in Conns
               /\ conn'[opening.conn].relay = "open" /\ conn'[opening.conn].broker = conn[opening.conn].broker
    <3>1. conn' = [conn EXCEPT ![opening.conn].relay = "open"] /\ opening # None /\ opening' = None
          /\ present' = present /\ conn[opening.conn].broker = "open"
      BY <2>3
    <3> QED
      BY <1>1, <2>5, <3>1, OpeningEnds
  <2>6. Orderly("broker", 0)
    BY <2>5 DEF Orderly
  <2>7. c \in Conns /\ conn' \in [Conns -> ConnRecord] /\ Settled(c)'
    <3>1. opening.conn \in Conns
      BY <1>1, <2>3 DEF BridgeTypes
    <3>2. conn \in [Conns -> ConnRecord]
      BY <1>1, TypesOf
    <3>3. conn' = [conn EXCEPT ![c].relay = "open"] /\ c \in Conns /\ conn[c].broker = "open"
      BY <2>2, <2>3, <3>1
    <3>4. conn' \in [Conns -> ConnRecord] /\ conn'[c].relay = "open" /\ conn'[c].broker = "open"
      BY <3>2, <3>3 DEF ConnRecord
    <3> QED
      BY <3>3, <3>4 DEF Settled
  <2>8. Calm
    <3>1. EnvTypes
      BY <1>1, TypeParts
    <3> QED
      BY <2>3, <2>7, <3>1 DEF Calm, EnvTypes
  <2>9. Popped(queue, "broker", 0)
    BY <1>1, NotPopped
  <2>10. PICK m : m = 0
    OBVIOUS
  <2>11. Popped(queue, "broker", m) /\ Turn("broker", m, k) /\ Orderly("broker", m)
    BY <2>4, <2>6, <2>9, <2>10
  <2>12. RelayCall(queue, k, c)
    BY <2>3
  <2> QED
    BY <2>4, <2>7, <2>8, <2>11, <2>12, RelayCallStep
<1> QED
  BY <1>2, <1>3

LEMMA RelayOpenFailsStep ==
    ASSUME IInv, RelayOpenFails
    PROVE  IInv' /\ PortStep
<1>1. BridgeTypes /\ Clients /\ "broker" \in Roles
  BY RoleFacts DEF IInv
<1>2. CASE opening.call = None
  BY <1>2, OpenFailsQuiet
<1>3. CASE opening.call # None
  <2>1. PICK k : k = opening.call
    OBVIOUS
  <2>3. /\ opening # None /\ (budget' = budget \/ Spend("faults"))
        /\ conn' = [conn EXCEPT ![opening.conn].relay = "closed"] /\ opening' = None
        /\ queue' = IF conn[opening.conn].broker = "closed" THEN queue
                    ELSE Queued(queue, "broker", Source("closed", opening.conn, None, "none", 0))
        /\ pending' = pending /\ call' = call /\ inbox' = inbox /\ waiting' = waiting
        /\ answers' = Counted(k)
        /\ names' = names /\ present' = present /\ got' = got
        /\ owner' = owner /\ started' = started /\ sent' = sent /\ agents' = agents
    BY <1>3, <2>1 DEF RelayOpenFails, serviceVars, Refuse, Counted
  <2>4. k \in Requests /\ Turn("broker", 0, k)
    BY <1>1, <1>3, <2>1, <2>3, OpeningTurn
  <2>5. PICK e \in Seq(Items) : Moved("broker", 0, Adds("broker", e)) /\ \A y \in Ran(e) : QuietItem("broker", y)
                                   /\ y.type = "closed" /\ y.conn \in Conns /\ conn[y.conn].name # None
    <3> DEFINE c == opening.conn
    <3>1. c \in Conns
      BY <1>1, <2>3 DEF BridgeTypes
    <3>2. conn[c].name # None
      BY <1>1, <2>3, <3>1 DEF Clients
    <3>3. queue' = queue \/ queue' = Queued(queue, "broker", Source("closed", c, None, "none", 0))
      BY <2>3
    <3> HIDE DEF c
    <3> QED
      BY <1>1, <3>1, <3>2, <3>3, FailureMoved
  <2>6. \A r \in Roles : \A y \in Ran(Adds("broker", e)[r]) : QuietItem(r, y) /\ y.conn \in Conns /\ conn[y.conn].name # None
    BY <1>1, <2>5, AddsRan
  <2>7. /\ conn' \in [Conns -> ConnRecord] /\ Clients'
        /\ \A d \in Conns : Settled(d) => Settled(d)'
        /\ \A d \in Conns : \A b \in Roles : conn[d][b] = "closed" => conn'[d][b] = "closed"
    <3>1. conn' = [conn EXCEPT ![opening.conn].relay = "closed"] /\ opening # None /\ opening' = None /\ present' = present
      BY <2>3
    <3> QED
      BY <1>1, <2>5, <2>6, <3>1, OpeningEnds
  <2>8. EnvTypes'
    <3>1. EnvTypes /\ budget \in Budget /\ budget' \in Budget
      BY <1>1, <2>3, TypeParts, SpendTypes DEF EnvTypes
    <3> QED
      BY <2>3, <2>7, <3>1 DEF EnvTypes
  <2>9. /\ k \in Calls /\ call[k].guest # None /\ call[k].conn = None /\ answers[k] = 0
        /\ \A r \in Roles : ~Undone(r, k)
        /\ \A p \in Roles : \A y \in Rest("broker", 0, p) : Token(y) \/ y.type = "done" => y.id # k
    BY <2>4, <2>5, TurnFacts
  <2>10. PICK m : m = 0
    OBVIOUS
  <2>11. Moved("broker", m, Adds("broker", e))
    BY <2>5, <2>10
  <2>12. /\ ~Undone("relay", k) \/ k \in Callbacks
         /\ ~Undone("broker", k) \/ k \in Requests
         /\ \A p \in Roles : \A y \in Rest("broker", m, p) : y.type \in {"guest", "callback"} => y.id # k
         /\ (opening' = opening /\ (opening = None \/ opening.call # k)) \/ opening' = None
         /\ \A y \in Ran(queue["broker"]) \ Rest("broker", m, "broker") : y.type # "reply"
         /\ \A y \in Ran(e) : y.type \in {"closed", "open"} /\ QuietItem("broker", y)
    BY <2>3, <2>4, <2>5, <2>9, <2>10, RoleFacts DEF Turn, Token
  <2>13. k \in Calls /\ call[k].guest # None /\ answers[k] = 0
    BY <2>9
  <2>14. call' = call /\ pending' = pending /\ inbox' = inbox /\ waiting' = waiting /\ answers' = Counted(k)
         /\ sent' = sent /\ got' = got /\ agents' = agents
    BY <2>3
  <2> QED
    BY <1>1, <2>7, <2>8, <2>11, <2>12, <2>13, <2>14, RefuseStep
<1> QED
  BY <1>2, <1>3

-----------------------------------------------------------------------------
(* Steps that carry answers and signals of the service.                     *)

\* Calls only come to their end.
Shrinks ==
    /\ inbox' \subseteq inbox
    /\ \A r \in Roles : waiting'[r] \subseteq waiting[r]
    /\ \A r \in Roles : \A j \in Calls : (Pends(r, j)' => Pends(r, j)) /\ (Undone(r, j)' => Undone(r, j))

\* What such a step may queue.
LoudItem(r, y) ==
    /\ y.type \in {"reply", "done", "signal"}
    /\ y.type = "reply" => call[y.id].conn = y.conn
    /\ y.type = "done" => call[y.id].conn # None /\ (y.stamp > 0 => call[y.id].conn = y.conn)
    /\ y.type \in {"reply", "done"} /\ r = "broker" => y.id \in Callbacks \cup inbox \cup waiting["broker"]

\* A call that was answered where it was pending.
Finished(a, m, k) ==
    /\ call[k].conn # None
    /\ \/ k \in Requests /\ ~Undone("relay", k)'
       \/ k \in Callbacks /\ ~Undone("broker", k)'
          /\ \A x \in Rest(a, m, "broker") : x.type = "callback" => x.id # k

LoudTypes ==
    /\ EnvTypes /\ sent \in Seq(SUBSET Conns) /\ got \in [Guests -> Seq(Heard)] /\ DataTypes

LEMMA LoudStep ==
    ASSUME IInv, NEW a, NEW m, NEW add, Moved(a, m, add), InOrder', LoudTypes', SameEnds,
           opening' = opening, present' = present, call' = call, Shrinks,
           \A c \in agents' : Settled(c),
           NEW K, \A j \in Calls \ K : answers'[j] = answers[j], \A k \in Calls \cap K : Finished(a, m, k),
           \A r \in Roles : \A y \in Ran(add[r]) : LoudItem(r, y),
           a = "relay" => \A y \in Ran(queue[a]) \ Rest(a, m, a) : y.type # "left"
    PROVE  IInv'
<1>1. BridgeTypes /\ Clients /\ Placed /\ Owed /\ Itemised /\ InOrder /\ "relay" \in Roles /\ "broker" \in Roles
  BY RoleFacts DEF IInv
<1>2. BridgeTypes'
  <2>1. queue' \in Queues
    BY DEF Moved
  <2>2. (BridgeTypes <=>
      /\ EnvTypes /\ queue \in Queues
      /\ call \in [Calls -> [guest : Guests \cup {Observer, None}, conn : Conns \cup {None},
                             kind : Kinds \cup {"callback"}]]
      /\ pending \in [Roles -> SUBSET Entries] /\ waiting \in [Roles -> SUBSET Calls]
      /\ inbox \subseteq Calls /\ sent \in Seq(SUBSET Conns)
      /\ answers \in [Calls -> Nat] /\ got \in [Guests -> Seq(Heard)])'
    BY TypeParts, PTL
  <2> QED
    BY <2>1, <2>2 DEF LoudTypes, DataTypes
<1>3. /\ Clients'
      /\ \A d \in Conns : Settled(d) => Settled(d)'
  <2>1. \A r \in Roles : \A y \in Ran(add[r]) : y.type # "closed"
    BY DEF LoudItem
  <2> QED
    BY <1>1, <2>1, ClientsKeep
<1>4. \A j \in Calls \ K : Spared(j)
  BY DEF Spared, Shrinks
<1>5. ASSUME NEW k \in Calls \cap K
      PROVE  CallOk(k)'
  <2>1. CallOk(k) /\ Finished(a, m, k)
    BY <1>1, <1>5, CallParts
  <2>2. call[k].conn \in Conns \cup {None}
    BY <1>1, <1>5 DEF BridgeTypes
  <2>3. call'[k].conn # None => Settled(call[k].conn)'
    BY <1>3, <2>1, <2>2 DEF CallOk
  <2>4. k \in Requests => ~Undone("relay", k)'
    BY <2>1, CallAssumption DEF Finished
  <2>5. k \in Callbacks => ~Undone("broker", k)'
    BY <2>1, CallAssumption DEF Finished
  <2>6. call'[k].guest # None /\ (k \in Requests => call'[k].guest # Observer) /\ call'[k].conn # None
    BY <2>1 DEF CallOk, Finished
  <2> QED
    BY <2>3, <2>4, <2>5, <2>6 DEF CallOk
<1>6. Placed' /\ Owed'
  <2>1. \A c \in agents' : Settled(c)'
    <3>1. agents' \subseteq Conns
      BY DEF LoudTypes, EnvTypes
    <3> QED
      BY <1>3, <3>1
  <2>2. \A k \in K : k \in Calls => opening = None \/ opening.call # k
    <3> SUFFICES ASSUME NEW k \in K, k \in Calls, opening # None, opening.call = k PROVE FALSE
      OBVIOUS
    <3>1. call[k].conn # None
      BY DEF Finished
    <3>2. Unsent(k)
      BY <1>1, CallAssumption DEF Owed
    <3> QED
      BY <3>1, <3>2 DEF Unsent
  <2>3. \A k \in Calls \cap K : CallOk(k)'
    BY <1>5
  <2>4. PICK L : L = Calls \cap K
    OBVIOUS
  <2>5. /\ \A j \in Calls \ L : Spared(j)
        /\ \A k \in Calls \cap L : CallOk(k)'
        /\ opening' = opening /\ \A k \in L : opening = None \/ opening.call # k
    BY <1>4, <2>2, <2>3, <2>4
  <2> QED
    BY <1>1, <1>3, <2>1, <2>5, CallsStep
<1>7. Itemised'
  <2>1. ASSUME NEW r \in Roles, NEW x \in Rest(a, m, r), Token(x), x.id \in K
        PROVE  ItemOk(r, x)'
    <3>1. x \in Ran(queue[r]) /\ Sound(x) /\ ItemOk(r, x)
      BY RestItem
    <3>2. x.id \in Calls /\ Finished(a, m, x.id)
      BY <2>1, <3>1 DEF Token, Sound, Calls
    <3>3. x.type # "guest"
      BY <3>1, <3>2 DEF ItemOk, Finished, Unsent
    <3>4. CASE x.type = "call"
      <4>1. /\ x.id \notin inbox' /\ x.id \notin waiting'["broker"] /\ ~Pends("broker", x.id)'
        BY <1>1, <3>1, <3>2, <3>4 DEF ItemOk, Shrinks
      <4>2. ASSUME NEW y \in Ran(queue'["broker"]), y.type \in {"reply", "done"}
            PROVE  y.id # x.id
        <5>1. y \in Rest(a, m, "broker") \/ y \in Ran(add["broker"])
          BY <1>1, MovedFacts
        <5>2. CASE y \in Rest(a, m, "broker")
          <6>1. y \in Ran(queue["broker"])
            BY <1>1, <5>2, RestItem
          <6> QED
            BY <3>1, <3>4, <4>2, <6>1 DEF ItemOk
        <5>3. CASE y \in Ran(add["broker"])
          <6>1. y.id \in Callbacks \cup inbox \cup waiting["broker"]
            BY <1>1, <4>2, <5>3 DEF LoudItem
          <6>2. x.id \notin Callbacks
            BY <3>1, <3>4, CallAssumption DEF Sound
          <6> QED
            BY <3>1, <3>4, <6>1, <6>2 DEF ItemOk
        <5> QED
          BY <5>1, <5>2, <5>3
      <4> QED
        BY <3>1, <3>4, <4>1, <4>2 DEF ItemOk
    <3>5. CASE x.type = "callback"
      <4>1. r = "broker" => FALSE
        BY <3>1, <3>2, <3>5, <2>1, CallAssumption DEF Finished, Sound
      <4> QED
        BY <3>1, <3>5, <4>1 DEF ItemOk
    <3> QED
      BY <2>1, <3>3, <3>4, <3>5 DEF Token
  <2>2. \A r \in Roles : \A y \in Ran(add[r]) : ItemOk(r, y)'
    BY DEF LoudItem, ItemOk
  <2>3. \A y \in Ran(add["broker"]) :
              y.type \in {"reply", "done"} => y.id \in Callbacks \cup inbox \cup waiting["broker"] \cup K
    BY <1>1 DEF LoudItem
  <2>4. \A y \in Ran(add["relay"]) : y.type = "callback" => y.id \in K
    BY <1>1 DEF LoudItem
  <2>5. /\ \A j \in Calls \ K : opening' # None /\ opening'.call = j => opening # None /\ opening.call = j
        /\ \A k \in Calls \cap K : call[k].conn # None => call'[k].conn = call[k].conn
    OBVIOUS
  <2> QED
    BY <1>1, <1>4, <2>1, <2>2, <2>3, <2>4, <2>5, ItemsStep
<1> QED
  BY <1>2, <1>3, <1>6, <1>7 DEF IInv

LEMMA SameLoud ==
    ASSUME BridgeTypes, Still, call' = call, pending' = pending, waiting' = waiting, inbox' = inbox,
           answers' = answers
    PROVE  /\ Shrinks /\ DataTypes' /\ EnvTypes' /\ SameEnds
           /\ opening' = opening /\ present' = present /\ sent' = sent /\ agents' = agents
<1>1. EnvTypes' /\ SameEnds
  BY StillTypes
<1>2. DataTypes'
  BY DEF DataTypes, BridgeTypes
<1>3. Shrinks
  BY DEF Shrinks, Pends, Undone
<1> QED
  BY <1>1, <1>2, <1>3 DEF Still

\* The first event of the order comes before the events behind it.
LEMMA LeadsEvents ==
    ASSUME IInv, NEW r \in Roles, NEW type, NextEvent(r, type)
    PROVE  \A x \in Rest(r, Next1(r), r) : x.high => Before(AnEvent(r), x)
<1> DEFINE s == queue[r]
           m == Next1(r)
<1>1. s \in Seq(Items) /\ Ordered(s)
  BY DEF IInv, BridgeTypes, InOrder
<1>2. m \in DOMAIN s /\ AnEvent(r) = s[m] /\ Leads(s, m)
  BY <1>1, FirstEvent
<1>3. Rest(r, Next1(r), r) = Others(s, m)
  BY DEF Rest
<1> HIDE DEF s, m
<1>4. \A x \in Others(s, m) : x.high => Before(s[m], x)
  BY <1>1, <1>2, Left
<1> QED
  BY <1>2, <1>3, <1>4

\* And the first source before everything.
LEMMA LeadsSources ==
    ASSUME IInv, NEW r \in Roles, NEW type, NextSource(r, type)
    PROVE  \A x \in Rest(r, 1, r) : Before(Head(queue[r]), x)
<1> DEFINE s == queue[r]
<1>1. s \in Seq(Items) /\ Ordered(s)
  BY DEF IInv, BridgeTypes, InOrder
<1>2. 1 \in DOMAIN s /\ Head(s) = s[1] /\ Leads(s, 1) /\ ~Head(s).high
  BY <1>1, FirstSource
<1>3. Rest(r, 1, r) = Others(s, 1)
  BY DEF Rest
<1> HIDE DEF s
<1>5. PICK m : m = 1
  OBVIOUS
<1>6. m \in DOMAIN s /\ Head(s) = s[m] /\ Leads(s, m) /\ ~s[m].high
  BY <1>2, <1>5
<1>4. \A x \in Others(s, m) : (x.high \/ ~s[m].high) => Before(s[m], x)
  BY <1>1, <1>6, Left
<1> QED
  BY <1>3, <1>4, <1>5, <1>6 DEF s

\* The parts of the order, for an item.
LEMMA OrderFacts ==
    ASSUME IInv, NEW r \in Roles, NEW x \in Ran(queue[r]), Stamped(x)
    PROVE  /\ x \in Items /\ x.stamp \in Nat /\ x.stamp > 0 /\ x.stamp <= Len(sent)
           /\ x.high => Older(x.conn, x.stamp)
           /\ r = "relay" => \A y \in Ran(queue["broker"]) : Stamped(y) /\ y.high /\ y.conn = x.conn => x.stamp < y.stamp
           /\ r = "broker" /\ x.high => \A y \in Ran(queue["relay"]) : Stamped(y) /\ y.conn = x.conn => y.stamp < x.stamp
<1>1. x \in Items
  BY QueueItem
<1>2. Sent1 /\ Newer /\ Across
  BY OrderParts DEF IInv
<1> QED
  BY <1>1, <1>2 DEF Sent1, Newer, Across, Items, Stamped

LEMMA ForwardHostSignalStep ==
    ASSUME IInv, ForwardHostSignal
    PROVE  IInv' /\ PortStep
<1> DEFINE x == AnEvent("broker")
           y == Event("signal", x.conn, None, "none", x.stamp)
           q == AfterEvent("broker")
           m == Next1("broker")
<1>1. BridgeTypes /\ Itemised /\ InOrder /\ Placed /\ "broker" \in Roles /\ "relay" \in Roles /\ "relay" # "broker"
  BY RoleFacts DEF IInv
<1>2. /\ NextEvent("broker", "signal") /\ Still
      /\ call' = call /\ pending' = pending /\ waiting' = waiting /\ answers' = answers /\ got' = got /\ inbox' = inbox
      /\ queue' = q \/ queue' = Queued(q, "relay", y)
  BY DEF ForwardHostSignal, Still, serviceVars
<1>3. Popped(q, "broker", m)
  BY <1>1, <1>2, EventPopped
<1>4. x \in Ran(queue["broker"]) /\ x.type = "signal" /\ x.high
  BY <1>1, <1>2, FirstEvent DEF BridgeTypes
<1>5. x \in Items /\ Sound(x) /\ x.conn \in Conns /\ x.stamp \in Nat
  BY <1>1, <1>4, QueueItem DEF Items, Sound
<1>6. y \in Items
  BY <1>5, ItemFacts
<1>7. y.type = "signal" /\ y.conn = x.conn /\ y.stamp = x.stamp /\ y.high /\ (Stamped(y) <=> Stamped(x))
  BY <1>4 DEF Event, Item, Stamped
<1>8. /\ \A z \in Rest("broker", m, "broker") : z.high => Before(x, z)
      /\ \A add : Moved("broker", m, add) => \A z \in Ran(queue["broker"]) \ Rest("broker", m, "broker") : z.type = "signal"
  BY <1>1, <1>2, LeadsEvents, TakenEvent
<1> HIDE DEF x, y, q, m
<1>9. \E e \in Seq(Items) : Ran(e) \subseteq {y} /\ Ordered(e) /\ Moved("broker", m, Adds("relay", e))
  <2>1. CASE queue' = q
    <3>1. Moved("broker", m, Adds("relay", <<>>)) /\ <<>> \in Seq(Items) /\ Ran(<<>>) = {}
      BY <1>1, <1>3, <2>1, KeptMoved
    <3>2. Ordered(<<>>)
      BY DEF Ordered
    <3> QED
      BY <3>1, <3>2
  <2>2. CASE queue' = Queued(q, "relay", y)
    <3>1. y \in Items /\ "relay" \in Roles
      BY <1>1, <1>6
    <3> QED
      BY ZenonT(60), <1>3, <2>2, <3>1, QueuedMoved
  <2> QED
    BY <1>2, <2>1, <2>2
<1>10. PICK e \in Seq(Items) : Ran(e) \subseteq {y} /\ Ordered(e) /\ Moved("broker", m, Adds("relay", e))
  BY <1>9
<1> DEFINE add == Adds("relay", e)
<1>11. Moved("broker", m, add) /\ \A r \in Roles : \A z \in Ran(add[r]) : r = "relay" /\ z = y
  <2>1. \A r \in Roles : \A z \in Ran(add[r]) : r = "relay" /\ z \in Ran(e)
    BY <1>1, AddsRan
  <2> HIDE DEF add
  <2> QED
    BY <1>10, <2>1 DEF add
<1>12. \A r \in Roles : Ordered(add[r])
  <2>1. Ordered(<<>>)
    BY DEF Ordered
  <2> QED
    BY <1>1, <1>10, <2>1, AddsSeq
<1> HIDE DEF add
<1>13. /\ Shrinks /\ DataTypes' /\ EnvTypes' /\ SameEnds
       /\ opening' = opening /\ present' = present /\ sent' = sent /\ agents' = agents
  BY <1>1, <1>2, SameLoud
<1>14. Stamped(x) =>
         /\ x.stamp <= Len(sent) /\ Older(x.conn, x.stamp)
         /\ \A z \in Ran(queue["relay"]) : Stamped(z) /\ z.conn = x.conn => z.stamp < x.stamp
  BY <1>1, <1>4, OrderFacts
<1>15. \A c, n : Older(c, n)' <=> Older(c, n)
  BY <1>2 DEF Older
<1>16. InOrder'
  <2>1. Sent2' /\ Len(sent) \in Nat
    <3>1. Sent2
      BY <1>1, OrderParts
    <3>2. Len(sent) \in Nat
      BY <1>1 DEF BridgeTypes
    <3> QED
      BY <1>2, <1>13, <3>1, <3>2 DEF Sent2
  <2>2. ASSUME NEW r \in Roles, NEW z \in Rest("broker", m, r), NEW w \in Ran(add[r])
        PROVE  Before(z, w)
    <3>1. r = "relay" /\ w = y
      BY <1>11
    <3>2. z \in Ran(queue["relay"]) /\ z \in Items
      BY <1>11, <2>2, <3>1, RestItem
    <3>3. Stamped(z) /\ Stamped(y) /\ z.conn = y.conn => z.stamp < y.stamp
      BY <1>7, <1>14, <3>2
    <3>4. z.stamp \in Nat /\ y.stamp \in Nat
      BY <1>6, <3>2 DEF Items
    <3> QED
      BY <1>7, <3>1, <3>3, <3>4 DEF Before
  <2>3. \A r \in Roles : \A w \in Ran(add[r]) :
              Stamped(w) => w.stamp <= Len(sent') /\ (w.high => Older(w.conn, w.stamp)')
    BY <1>7, <1>11, <1>13, <1>14, <1>15
  <2>4. ASSUME NEW w \in Ran(add["relay"]), NEW z \in Ran(queue'["broker"]),
               Stamped(w), Stamped(z), z.high, w.conn = z.conn
        PROVE  w.stamp < z.stamp
    <3>1. w = y
      BY <1>1, <1>11
    <3>2. z \in Rest("broker", m, "broker") \/ z \in Ran(add["broker"])
      BY <1>1, <1>11, MovedFacts
    <3>3. z \in Rest("broker", m, "broker")
      BY <1>1, <1>11, <3>2
    <3>4. Before(x, z)
      BY <1>8, <2>4, <3>3
    <3> QED
      BY <1>7, <2>4, <3>1, <3>4 DEF Before
  <2>5. \A z \in Ran(queue["relay"]), w \in Ran(add["broker"]) :
              Stamped(z) /\ Stamped(w) /\ w.high /\ z.conn = w.conn => z.stamp < w.stamp
    BY <1>1, <1>11
  <2>6. \A r \in Roles : \A z \in Ran(add[r]) :
              Stamped(z) /\ z.type = "done" /\ Undone(r, z.id)' => \E w \in Ran(add[r]) : Announces(w, z)
    BY <1>7, <1>11
  <2>7. \A r \in Roles : \A z \in Rest("broker", m, r) :
              Stamped(z) /\ z.type = "done" /\ Undone(r, z.id)' => Undone(r, z.id)
    BY <1>2 DEF Undone
  <2>8. \A c \in Conns : \A r \in Roles : conn[c][r] = "closed" => conn'[c][r] = "closed"
    BY <1>2 DEF Still
  <2>9. \A z \in Ran(queue["broker"]) \ Rest("broker", m, "broker") : z.type # "reply"
    BY <1>8, <1>11
  <2>10. Len(sent) <= Len(sent') /\ Len(sent') \in Nat
    BY <1>13, <2>1
  <2>11. \A r \in Roles : \A z \in Rest("broker", m, r) :
              /\ Stamped(z) /\ (z.high \/ (r = "relay" /\ z.type = "done" /\ Undone(r, z.id)' /\ conn'[z.conn][r] = "closed"))
              /\ Older(z.conn, z.stamp)
              => Older(z.conn, z.stamp)'
    BY <1>15
  <2> QED
    BY ZenonT(60), <1>1, <1>11, <1>12, <2>1, <2>2, <2>3, <2>4, <2>5, <2>6, <2>7, <2>8, <2>9, <2>10, <2>11, OrderStep
<1>17. IInv'
  <2>1. LoudTypes'
    BY <1>1, <1>2, <1>13 DEF LoudTypes, BridgeTypes
  <2>2. \A c \in agents' : Settled(c)
    BY <1>1, <1>13 DEF Placed
  <2>3. PICK K : K = {}
    OBVIOUS
  <2>4. (\A j \in Calls \ K : answers'[j] = answers[j]) /\ (\A k \in Calls \cap K : Finished("broker", m, k))
    BY <1>2, <2>3
  <2>5. \A r \in Roles : \A w \in Ran(add[r]) : LoudItem(r, w)
    BY <1>7, <1>11 DEF LoudItem
  <2> QED
    BY <1>1, <1>2, <1>11, <1>13, <1>16, <2>1, <2>2, <2>4, <2>5, LoudStep
<1>18. PortStep
  BY <1>2, <1>13, PortQuiet
<1> QED
  BY <1>17, <1>18

\* What the guests have once those of a set have received one more message.
Given(to, k, c, n) ==
    [g \in Guests |-> IF g \in to THEN Append(got[g], [call |-> k, conn |-> c, stamp |-> n]) ELSE got[g]]

LEMMA PortReceives ==
    ASSUME NEW to \in SUBSET Guests, NEW k \in Calls \cup {None}, NEW c \in Conns, NEW n \in Nat,
           n <= Len(sent), Len(sent) \in Nat, n > 0 => Older(c, n), got' = Given(to, k, c, n),
           \A j \in Calls : call'[j].guest = call[j].guest, sent' = sent,
           IF k = None THEN answers' = answers
           ELSE call[k].guest # None /\ answers[k] = 0 /\ answers' = Counted(k)
    PROVE  PortStep
<1>1. AskedCalls' = AskedCalls
  BY DEF AskedCalls
<1>2. \A g \in to : Port!InOrder(g, c, n)
  <2> SUFFICES ASSUME NEW g \in to, n # 0
               PROVE  \A i \in DOMAIN got[g] : got[g][i].conn = c => got[g][i].stamp < n
    BY DEF Port!InOrder
  <2>1. Older(c, n)
    OBVIOUS
  <2> QED
    BY <2>1 DEF Older, Ran
<1>3. IF k = None THEN answers' = answers
      ELSE Port!Open(k) /\ answers' = [answers EXCEPT ![k] = 1]
  <2>1. CASE k = None
    BY <2>1
  <2>2. CASE k # None
    <3>1. k \in Calls /\ call[k].guest # None /\ answers[k] = 0 /\ answers' = [answers EXCEPT ![k] = answers[k] + 1]
      BY <2>2 DEF Counted
    <3>2. answers' = [answers EXCEPT ![k] = 1]
      BY <3>1
    <3> QED
      BY <2>2, <3>1, <3>2 DEF Port!Open
  <2> QED
    BY <2>1, <2>2
<1>4. Port!Receive(to, k, c, n)
  BY <1>2, <1>3 DEF Port!Receive, Given
<1>5. n \in 0..Len(sent) /\ c \in Conns \cup {None}
  OBVIOUS
<1>6. UNCHANGED <<AskedCalls, Len(sent)>>
  BY <1>1
<1>7. Port!PortNext
  BY <1>4, <1>5, <1>6 DEF Port!PortNext, AskedCalls
<1> QED
  BY <1>7 DEF PortStep

Hears(to, c, n) ==
    /\ got' \in [Guests -> Seq(Heard)]
    /\ \A g \in Guests : \A h \in Ran(got'[g]) : h \in Ran(got[g]) \/ (g \in to /\ h.conn = c /\ h.stamp = n)

LEMMA GivenFacts ==
    ASSUME BridgeTypes, NEW to \in SUBSET Guests, NEW k \in Calls \cup {None}, NEW c \in Conns, NEW n \in Nat,
           got' = Given(to, k, c, n)
    PROVE  Hears(to, c, n)
<1> DEFINE new == [call |-> k, conn |-> c, stamp |-> n]
<1>1. new \in Heard /\ new.conn = c /\ new.stamp = n
  BY DEF Heard
<1>2. got' = [g \in Guests |-> IF g \in to THEN Append(got[g], new) ELSE got[g]]
  BY DEF Given
<1>3. got \in [Guests -> Seq(Heard)]
  BY DEF BridgeTypes
<1> HIDE DEF new
<1>4. \A g \in Guests : Append(got[g], new) \in Seq(Heard)
  BY <1>1, <1>3
<1>5. got' \in [Guests -> Seq(Heard)]
  BY <1>2, <1>3, <1>4
<1>6. ASSUME NEW g \in Guests, NEW h \in Ran(got'[g])
      PROVE  h \in Ran(got[g]) \/ (g \in to /\ h.conn = c /\ h.stamp = n)
  <2>1. CASE g \notin to
    BY <1>2, <1>6, <2>1
  <2>2. CASE g \in to
    <3>1. got'[g] = Append(got[g], new) /\ got[g] \in Seq(Heard)
      BY <1>2, <1>3, <2>2
    <3>2. PICK i \in DOMAIN got'[g] : h = got'[g][i]
      BY <1>6 DEF Ran
    <3>3. i \in 1..(Len(got[g]) + 1) /\ (i = Len(got[g]) + 1 => h = new) /\ (i <= Len(got[g]) => h = got[g][i])
      BY <3>1, <3>2
    <3>4. CASE i = Len(got[g]) + 1
      BY <1>1, <2>2, <3>3, <3>4
    <3>5. CASE i # Len(got[g]) + 1
      <4>1. i \in DOMAIN got[g] /\ h = got[g][i]
        BY <3>1, <3>3, <3>5
      <4> QED
        BY <4>1 DEF Ran
    <3> QED
      BY <3>4, <3>5
  <2> QED
    BY <2>1, <2>2
<1> QED
  BY <1>5, <1>6 DEF Hears
\* The messages that stay in the queues over connection c are newer than n; the
\* replies that are taken out are matched.
Behind(m, to, c, n) ==
    /\ \A r \in Roles : \A x \in Rest("relay", m, r) :
          /\ Stamped(x) /\ x.conn = c /\ to # {}
          /\ x.high \/ (r = "relay" /\ x.type = "done" /\ Undone(r, x.id)' /\ conn'[x.conn][r] = "closed")
          => n < x.stamp
    /\ \A y \in Ran(queue["relay"]) \ Rest("relay", m, "relay") : y.type = "reply" => ~Undone("relay", y.id)'
StaysClosed == \A d \in Conns : \A r \in Roles : conn[d][r] = "closed" => conn'[d][r] = "closed"

\* A message that is received: the messages still to come over its connection
\* are newer.
LEMMA HeardOrder ==
    ASSUME IInv, NEW m, NEW add, Moved("relay", m, add), \A r \in Roles : add[r] = <<>>,
           NEW to \in SUBSET Guests, NEW k \in Calls \cup {None}, NEW c \in Conns, NEW n \in Nat, n <= Len(sent),
           got' = Given(to, k, c, n), sent' = sent, Shrinks, StaysClosed, Behind(m, to, c, n)
    PROVE  InOrder' /\ got' \in [Guests -> Seq(Heard)]
<1>0. /\ \A r \in Roles : Ran(add[r]) = {} /\ Ordered(add[r])
      /\ \A d \in Conns : \A r \in Roles : conn[d][r] = "closed" => conn'[d][r] = "closed"
  BY DEF Ran, Ordered, StaysClosed
<1>1. BridgeTypes /\ Itemised /\ InOrder
  BY DEF IInv
<1>2. /\ got' \in [Guests -> Seq(Heard)]
      /\ \A g \in Guests : \A h \in Ran(got'[g]) : h \in Ran(got[g]) \/ (g \in to /\ h.conn = c /\ h.stamp = n)
  <2>1. n \in Nat
    OBVIOUS
  <2>2. Hears(to, c, n)
    BY <1>1, <2>1, GivenFacts
  <2> QED
    BY <2>2 DEF Hears
<1>3. Sent2' /\ Len(sent) \in Nat /\ Len(sent') \in Nat /\ Len(sent) <= Len(sent')
  <2>1. Sent2
    BY <1>1, OrderParts
  <2>2. Len(sent) \in Nat
    BY <1>1 DEF BridgeTypes
  <2> QED
    BY <1>2, <2>1, <2>2 DEF Sent2
<1>4. ASSUME NEW r \in Roles, NEW x \in Rest("relay", m, r),
             Stamped(x), x.high \/ (r = "relay" /\ x.type = "done" /\ Undone(r, x.id)' /\ conn'[x.conn][r] = "closed"),
             Older(x.conn, x.stamp)
      PROVE  Older(x.conn, x.stamp)'
  <2> SUFFICES ASSUME NEW g \in Guests, NEW h \in Ran(got'[g]), h.conn = x.conn
               PROVE  h.stamp < x.stamp
    BY DEF Older
  <2>1. CASE h \in Ran(got[g])
    BY <1>4, <2>1 DEF Older
  <2>2. CASE g \in to /\ h.conn = c /\ h.stamp = n
    BY <1>4, <2>2 DEF Behind
  <2> QED
    BY <1>2, <2>1, <2>2
<1>5. \A r \in Roles : \A x \in Rest("relay", m, r) :
              Stamped(x) /\ x.type = "done" /\ Undone(r, x.id)' => Undone(r, x.id)
  <2> SUFFICES ASSUME NEW r \in Roles, NEW x \in Rest("relay", m, r), x.type = "done", Undone(r, x.id)'
               PROVE  Undone(r, x.id)
    OBVIOUS
  <2>1. x.id \in Calls
    BY RestItem DEF Sound
  <2> QED
    BY <2>1 DEF Shrinks
<1>6. "relay" \in Roles /\ "broker" \in Roles
  BY RoleFacts
<1>7. /\ \A r \in Roles : \A x \in Rest("relay", m, r), y \in Ran(add[r]) : Before(x, y)
      /\ \A r \in Roles : \A y \in Ran(add[r]) :
              Stamped(y) => y.stamp <= Len(sent') /\ (y.high => Older(y.conn, y.stamp)')
      /\ \A x \in Ran(add["relay"]), y \in Ran(queue'["broker"]) :
              Stamped(x) /\ Stamped(y) /\ y.high /\ x.conn = y.conn => x.stamp < y.stamp
      /\ \A x \in Ran(queue["relay"]), y \in Ran(add["broker"]) :
              Stamped(x) /\ Stamped(y) /\ y.high /\ x.conn = y.conn => x.stamp < y.stamp
      /\ \A r \in Roles : \A x \in Ran(add[r]) :
              Stamped(x) /\ x.type = "done" /\ Undone(r, x.id)' => \E y \in Ran(add[r]) : Announces(y, x)
  BY <1>0, <1>6
<1>8. \A y \in Ran(queue["relay"]) \ Rest("relay", m, "relay") :
              y.type = "reply" /\ y.stamp > 0 /\ Undone("relay", y.id)' => conn'[y.conn]["relay"] = "closed" /\ got' = got
  BY DEF Behind
<1>9. \A r \in Roles : \A x \in Rest("relay", m, r) :
              /\ Stamped(x) /\ (x.high \/ (r = "relay" /\ x.type = "done" /\ Undone(r, x.id)' /\ conn'[x.conn][r] = "closed"))
              /\ Older(x.conn, x.stamp)
              => Older(x.conn, x.stamp)'
  BY <1>4
<1>10. InOrder'
  BY <1>0, <1>1, <1>3, <1>5, <1>7, <1>8, <1>9, OrderStep
<1> QED
  BY <1>2, <1>10
LEMMA ForwardPeerSignalStep ==
    ASSUME IInv, ForwardPeerSignal
    PROVE  IInv' /\ PortStep
<1> DEFINE x == AnEvent("relay")
           q == AfterEvent("relay")
           m == Next1("relay")
           c == x.conn
           n == x.stamp
           name == conn[c].name
           to == IF conn[c].relay # "open" THEN {}
                 ELSE IF name # Observer THEN {name} ELSE {g \in names : ClientsOf(g) = {}}
<1>1. BridgeTypes /\ Clients /\ Itemised /\ InOrder /\ Placed /\ "broker" \in Roles /\ "relay" \in Roles /\ "relay" # "broker"
  BY RoleFacts DEF IInv
<1>2. /\ NextEvent("relay", "signal") /\ Still
      /\ call' = call /\ pending' = pending /\ waiting' = waiting /\ answers' = answers /\ inbox' = inbox
      /\ queue' = q
  BY DEF ForwardPeerSignal, Still, serviceVars
<1>3. got' = Given(to, None, c, n)
  BY DEF ForwardPeerSignal, Given, Received
<1>4. Popped(q, "relay", m)
  BY <1>1, <1>2, EventPopped
<1>5. x \in Ran(queue["relay"]) /\ x.type = "signal" /\ x.high
  BY <1>1, <1>2, FirstEvent DEF BridgeTypes
<1>6. x \in Items /\ Sound(x) /\ c \in Conns /\ n \in Nat /\ (n > 0 => Stamped(x))
  BY <1>1, <1>5, QueueItem DEF Items, Sound, Stamped
<1>7. to \in SUBSET Guests /\ (to # {} => conn[c].relay = "open")
  <2>1. names \subseteq Guests /\ name \in Guests \cup {Observer, None}
    BY <1>1, <1>6 DEF BridgeTypes
  <2>2. conn[c].relay = "open" => name # None
    BY <1>1, <1>6 DEF Clients
  <2> QED
    BY <2>1, <2>2
<1>8. /\ \A z \in Rest("relay", m, "relay") : z.high => Before(x, z)
      /\ \A add : Moved("relay", m, add) => \A z \in Ran(queue["relay"]) \ Rest("relay", m, "relay") : z.type = "signal"
  BY <1>1, <1>2, LeadsEvents, TakenEvent
<1> HIDE DEF x, q, m, c, n, to
<1>9. Moved("relay", m, Adds("broker", <<>>)) /\ <<>> \in Seq(Items) /\ Ran(<<>>) = {}
  BY <1>1, <1>2, <1>4, KeptMoved
<1> DEFINE add == Adds("broker", <<>>)
<1>10. \A r \in Roles : add[r] = <<>> /\ Ran(add[r]) = {}
  <2>1. Ran(<<>>) = {}
    BY DEF Ran
  <2>2. \A r \in Roles : add[r] = <<>>
    BY ZenonT(60), <1>1, <1>9, AddsSeq
  <2> QED
    BY <2>1, <2>2
<1>11. Moved("relay", m, add)
  BY <1>9
<1> HIDE DEF add
<1>13. /\ Shrinks /\ DataTypes' /\ EnvTypes' /\ SameEnds
       /\ opening' = opening /\ present' = present /\ sent' = sent /\ agents' = agents
  BY <1>1, <1>2, SameLoud
<1>14. Stamped(x) =>
         /\ n <= Len(sent) /\ Older(c, n)
         /\ \A z \in Ran(queue["broker"]) : Stamped(z) /\ z.high /\ z.conn = c => n < z.stamp
  BY <1>1, <1>5, OrderFacts DEF c, n
<1>15. n <= Len(sent) /\ Len(sent) \in Nat
  <2>1. Len(sent) \in Nat
    BY <1>1 DEF BridgeTypes
  <2> QED
    BY <1>6, <1>14, <2>1
<1>16. InOrder' /\ got' \in [Guests -> Seq(Heard)]
  <2>1. StaysClosed
    BY <1>2 DEF Still, StaysClosed
  <2>2. ASSUME NEW r \in Roles, NEW z \in Rest("relay", m, r),
               Stamped(z), z.conn = c, to # {},
               z.high \/ (r = "relay" /\ z.type = "done" /\ Undone(r, z.id)' /\ conn'[z.conn][r] = "closed")
        PROVE  n < z.stamp
    <3>1. z \in Ran(queue[r]) /\ z \in Items
      BY <1>11, RestItem
    <3>2. z.stamp \in Nat /\ z.stamp > 0
      BY <2>2, <3>1 DEF Items, Stamped
    <3>3. z.high
      BY <1>2, <1>7, <2>2 DEF Still
    <3>4. CASE n = 0
      BY <3>2, <3>4
    <3>5. CASE n > 0 /\ r = "broker"
      BY <1>6, <1>14, <2>2, <3>1, <3>3, <3>5
    <3>6. CASE n > 0 /\ r = "relay"
      <4>1. Before(x, z) /\ Stamped(x)
        BY <1>6, <1>8, <2>2, <3>3, <3>6
      <4> QED
        BY <2>2, <3>3, <4>1 DEF Before, c, n
    <3> QED
      BY <1>6, <3>4, <3>5, <3>6, RoleFacts
  <2>3. \A z \in Ran(queue["relay"]) \ Rest("relay", m, "relay") : z.type = "reply" => ~Undone("relay", z.id)'
    BY <1>8, <1>11
  <2>4. Behind(m, to, c, n)
    BY <2>2, <2>3 DEF Behind
  <2>5. PICK k \in Calls \cup {None} : k = None
    OBVIOUS
  <2>6. got' = Given(to, k, c, n)
    BY <1>3, <2>5
  <2>7. \A r \in Roles : add[r] = <<>>
    BY <1>10
  <2> QED
    BY <1>6, <1>7, <1>11, <1>13, <1>15, <2>1, <2>4, <2>6, <2>7, HeardOrder
<1>17. IInv'
  <2>1. LoudTypes'
    BY <1>1, <1>13, <1>16 DEF LoudTypes, BridgeTypes
  <2>2. \A d \in agents' : Settled(d)
    BY <1>1, <1>13 DEF Placed
  <2>3. PICK K : K = {}
    OBVIOUS
  <2>4. (\A j \in Calls \ K : answers'[j] = answers[j]) /\ (\A k \in Calls \cap K : Finished("relay", m, k))
    BY <1>2, <2>3
  <2>5. \A r \in Roles : \A w \in Ran(add[r]) : LoudItem(r, w)
    BY <1>10
  <2>6. \A y \in Ran(queue["relay"]) \ Rest("relay", m, "relay") : y.type # "left"
    BY <1>8, <1>11
  <2> QED
    BY <1>1, <1>2, <1>11, <1>13, <1>16, <2>1, <2>2, <2>4, <2>5, <2>6, LoudStep
<1>18. PortStep
  <2>1. PICK k \in Calls \cup {None} : k = None
    OBVIOUS
  <2>2. got' = Given(to, k, c, n)
    BY <1>3, <2>1
  <2>3. n > 0 => Older(c, n)
    BY <1>6, <1>14
  <2>4. IF k = None THEN answers' = answers
        ELSE call[k].guest # None /\ answers[k] = 0 /\ answers' = Counted(k)
    BY <1>2, <2>1
  <2>5. \A j \in Calls : call'[j].guest = call[j].guest
    BY <1>2
  <2> QED
    BY <1>6, <1>7, <1>13, <1>15, <2>2, <2>3, <2>4, <2>5, PortReceives
<1> QED
  BY <1>17, <1>18
\* A message of the service that reaches the broker is the newest one.
LEMMA SentOrder ==
    ASSUME IInv, NEW e \in Seq(Items), Moved("broker", 0, Adds("broker", e)), Ordered(e),
           Len(sent') = Len(sent) + 1, got' = got, Shrinks, StaysClosed,
           \A y \in Ran(e) :
              /\ ~Token(y) /\ (Stamped(y) => y.stamp = Len(sent) + 1)
              /\ Stamped(y) /\ y.type = "done" => \E z \in Ran(e) : Announces(z, y)
    PROVE  InOrder'
<1> DEFINE add == Adds("broker", e)
<1>1. BridgeTypes /\ Itemised /\ InOrder /\ "relay" \in Roles /\ "broker" \in Roles /\ "relay" # "broker"
  BY RoleFacts DEF IInv
<1>2. /\ Moved("broker", 0, add) /\ add["broker"] = e /\ add["relay"] = <<>> /\ Ran(add["relay"]) = {}
      /\ \A r \in Roles : r = "relay" \/ r = "broker"
  BY <1>1, AddsSeq, RoleFacts DEF Ran
<1> HIDE DEF add
<1>3. Len(sent) \in Nat /\ Len(sent') \in Nat /\ Sent1 /\ Sent2
  BY <1>1, OrderParts DEF BridgeTypes
<1>4. Sent2' /\ Len(sent) <= Len(sent')
  <2> SUFFICES ASSUME NEW g \in Guests, NEW h \in Ran(got[g]) PROVE h.stamp <= Len(sent')
    BY <1>3 DEF Sent2
  <2>1. h.stamp \in Nat /\ h.stamp <= Len(sent)
    <3>1. got[g] \in Seq(Heard) /\ h \in Heard
      BY <1>1 DEF BridgeTypes, Ran
    <3> QED
      BY <1>3, <3>1 DEF Heard, Sent2
  <2> QED
    BY <1>3, <2>1
<1>5. \A c, n : Older(c, n)' <=> Older(c, n)
  BY DEF Older
<1>6. ASSUME NEW c, NEW n, n = Len(sent) + 1 PROVE Older(c, n)
  <2> SUFFICES ASSUME NEW g \in Guests, NEW h \in Ran(got[g]) PROVE h.stamp < n
    BY DEF Older
  <2>1. h.stamp \in Nat /\ h.stamp <= Len(sent)
    <3>1. got[g] \in Seq(Heard) /\ h \in Heard
      BY <1>1 DEF BridgeTypes, Ran
    <3> QED
      BY <1>3, <3>1 DEF Heard, Sent2
  <2> QED
    BY <1>3, <1>6, <2>1
<1>7. \A r \in Roles : Ordered(add[r])
  <2>1. Ordered(<<>>)
    BY DEF Ordered
  <2> QED
    BY <1>2, <2>1
<1>8. \A r \in Roles : \A x \in Ran(queue[r]) : x \in Items /\ x.stamp \in Nat /\ (Stamped(x) => x.stamp <= Len(sent))
  <2>1. \A r \in Roles : \A x \in Ran(queue[r]) : x \in Items
    BY <1>1 DEF BridgeTypes, Ran
  <2> QED
    BY <1>3, <2>1 DEF Sent1, Items
<1>9. ASSUME NEW r \in Roles, NEW x \in Rest("broker", 0, r), NEW y \in Ran(add[r])
      PROVE  Before(x, y)
  <2>1. x \in Ran(queue[r]) /\ y \in Ran(e)
    BY <1>1, <1>2, <1>9, RestItem
  <2>2. ~Token(y) /\ (Stamped(y) => y.stamp = Len(sent) + 1)
    BY <2>1
  <2>3. x.stamp \in Nat /\ (Stamped(x) => x.stamp <= Len(sent))
    BY <1>8, <2>1
  <2>4. Stamped(x) /\ Stamped(y) => x.stamp < y.stamp /\ x.stamp <= y.stamp
    BY <1>3, <2>2, <2>3
  <2>5. ~(x.type = y.type /\ x.type \in {"guest", "call", "callback"} /\ x.id = y.id)
    BY <2>2 DEF Token
  <2> QED
    BY <2>4, <2>5 DEF Before
<1>10. \A r \in Roles : \A y \in Ran(add[r]) :
              Stamped(y) => y.stamp <= Len(sent') /\ (y.high => Older(y.conn, y.stamp)')
  <2>1. \A y \in Ran(e) : Stamped(y) => y.stamp = Len(sent')
    OBVIOUS
  <2>2. \A y \in Ran(e) : Stamped(y) => y.stamp <= Len(sent') /\ Older(y.conn, y.stamp)'
    BY <1>3, <1>5, <1>6, <2>1
  <2> QED
    BY <1>2, <2>2
<1>11. \A x \in Ran(queue["relay"]), y \in Ran(add["broker"]) :
              Stamped(x) /\ Stamped(y) /\ y.high /\ x.conn = y.conn => x.stamp < y.stamp
  BY <1>1, <1>2, <1>3, <1>8
<1>12. \A r \in Roles : \A x \in Ran(add[r]) :
              Stamped(x) /\ x.type = "done" /\ Undone(r, x.id)' => \E y \in Ran(add[r]) : Announces(y, x)
  BY <1>2
<1>13. \A r \in Roles : \A x \in Rest("broker", 0, r) :
              Stamped(x) /\ x.type = "done" /\ Undone(r, x.id)' => Undone(r, x.id)
  <2> SUFFICES ASSUME NEW r \in Roles, NEW x \in Rest("broker", 0, r), x.type = "done", Undone(r, x.id)'
               PROVE  Undone(r, x.id)
    OBVIOUS
  <2>1. x.id \in Calls
    BY <1>2, RestItem DEF Sound
  <2> QED
    BY <2>1 DEF Shrinks
<1>14. /\ \A d \in Conns : \A r \in Roles : conn[d][r] = "closed" => conn'[d][r] = "closed"
       /\ Ran(queue["broker"]) \ Rest("broker", 0, "broker") = {}
       /\ \A x \in Ran(add["relay"]), y \in Ran(queue'["broker"]) :
              Stamped(x) /\ Stamped(y) /\ y.high /\ x.conn = y.conn => x.stamp < y.stamp
  BY <1>1, <1>2, TakenNothing DEF StaysClosed
<1>15. /\ \A r \in Roles : \A x \in Rest("broker", 0, r), y \in Ran(add[r]) : Before(x, y)
       /\ \A r \in Roles : \A x \in Rest("broker", 0, r) :
              /\ Stamped(x) /\ (x.high \/ (r = "relay" /\ x.type = "done" /\ Undone(r, x.id)' /\ conn'[x.conn][r] = "closed"))
              /\ Older(x.conn, x.stamp)
              => Older(x.conn, x.stamp)'
  BY <1>5, <1>9
<1>16. \A y \in Ran(queue["broker"]) \ Rest("broker", 0, "broker") :
              y.type = "reply" /\ y.stamp > 0 /\ Undone("broker", y.id)' => conn'[y.conn]["broker"] = "closed" /\ got' = got
  BY <1>14
<1>17. PICK m : m = 0
  OBVIOUS
<1> QED
  BY <1>1, <1>2, <1>3, <1>4, <1>7, <1>10, <1>11, <1>12, <1>13, <1>14, <1>15, <1>16, OrderStep

\* As many signals are queued as there is room for.
LEMMA SignalsMoved ==
    ASSUME BridgeTypes, NEW to \in SUBSET Conns, NEW n \in Nat,
           queue' = QueuedEvents(queue, "broker",
                       [i \in 1..Len(SetToSeq(to)) |-> Event("signal", SetToSeq(to)[i], owner, "none", n)])
    PROVE  \E e \in Seq(Items) :
             /\ Moved("broker", 0, Adds("broker", e)) /\ Ordered(e)
             /\ \A y \in Ran(e) : y.type = "signal" /\ y.stamp = n
<1> DEFINE s == SetToSeq(to)
           l == Cardinality(to)
           f == [i \in 1..Len(s) |-> Event("signal", s[i], owner, "none", n)]
           room == Room(queue, "broker")
           j == IF Len(f) < room THEN Len(f) ELSE room
           e == SubSeq(f, 1, j)
<1>1. "broker" \in Roles /\ queue["broker"] \in Seq(Items) /\ owner \in Nat
  BY RoleFacts DEF BridgeTypes
<1>2. IsFiniteSet(to)
  BY BoundAssumption, FS_Subset
<1>3. s \in Seq(to) /\ Len(s) = l /\ l \in Nat /\ \A i, p \in 1..l : i # p => s[i] # s[p]
  BY <1>2, Listed
<1> HIDE DEF s, l
<1>4. \A i \in 1..l : s[i] \in Conns
  BY <1>3
<1>5. /\ f \in Seq(Items) /\ Len(f) = l
      /\ \A i \in 1..l : f[i] \in Items /\ f[i].type = "signal" /\ f[i].conn = s[i] /\ f[i].stamp = n
  <2>1. \A i \in 1..l : Event("signal", s[i], owner, "none", n) \in Items
    BY <1>1, <1>4, ItemFacts
  <2>2. \A i \in 1..l : f[i] = Event("signal", s[i], owner, "none", n)
    BY <1>3
  <2>3. f \in Seq(Items) /\ Len(f) = l
    BY <1>3, <2>1
  <2> QED
    BY <2>1, <2>2, <2>3 DEF Event, Item
<1>6. room \in Nat
  <2>1. IsFiniteSet(Events(queue["broker"]))
    <3>1. Len(queue["broker"]) \in Nat /\ DOMAIN queue["broker"] = 1..Len(queue["broker"])
      BY <1>1
    <3>2. IsFiniteSet(1..Len(queue["broker"]))
      BY <3>1, FS_Interval
    <3>3. Events(queue["broker"]) \subseteq 1..Len(queue["broker"])
      BY <3>1 DEF Events
    <3> QED
      BY <3>2, <3>3, FS_Subset
  <2>2. Cardinality(Events(queue["broker"])) \in Nat
    BY <2>1, FS_CardinalityType
  <2> QED
    BY <2>2, BoundAssumption DEF Room, Full
<1>7. queue' = [queue EXCEPT !["broker"] = @ \o e]
  BY DEF QueuedEvents, s
<1> HIDE DEF f, room
<1>8. j \in Nat /\ j <= l
  BY <1>3, <1>5, <1>6
<1> HIDE DEF j
<1>9. e \in Seq(Items) /\ DOMAIN e = 1..j /\ \A i \in 1..j : e[i] = f[i] /\ i \in 1..l
  BY <1>3, <1>5, <1>8
<1> HIDE DEF e
<1>10. \A y \in Ran(e) : y.type = "signal" /\ y.stamp = n
  BY <1>5, <1>9 DEF Ran
<1>11. Ordered(e)
  <2> SUFFICES ASSUME NEW i \in 1..j, NEW p \in 1..j, i < p PROVE Before(e[i], e[p])
    BY <1>9 DEF Ordered
  <2>1. e[i].type = "signal" /\ e[i].conn # e[p].conn
    BY <1>3, <1>5, <1>8, <1>9
  <2> QED
    BY <2>1 DEF Before
<1>12. Moved("broker", 0, Adds("broker", e))
  <2>1. Popped(queue, "broker", 0)
    BY <1>1, NotPopped
  <2>2. queue \in Queues
    BY DEF BridgeTypes, Queues
  <2>3. queue["broker"] \o e \in Seq(Items)
    BY <1>1, <1>9
  <2>4. queue' \in Queues /\ queue'["broker"] = queue["broker"] \o e /\ \A r \in Roles \ {"broker"} : queue'[r] = queue[r]
    BY <1>1, <1>7, <2>2, <2>3 DEF Queues
  <2> QED
    BY <1>1, <1>9, <2>1, <2>4, PutMoved
<1> QED
  BY <1>9, <1>10, <1>11, <1>12

LEMMA ServiceSignalsStep ==
    ASSUME IInv, ServiceSignals
    PROVE  IInv' /\ PortStep
<1> DEFINE n == Len(sent) + 1
<1>1. BridgeTypes /\ Placed /\ "broker" \in Roles /\ "relay" \in Roles /\ "relay" # "broker"
  BY RoleFacts DEF IInv
<1>2. /\ conn' = conn /\ opening' = opening /\ names' = names /\ present' = present /\ call' = call
      /\ pending' = pending /\ waiting' = waiting /\ inbox' = inbox /\ owner' = owner /\ started' = started
      /\ agents' = agents /\ answers' = answers /\ got' = got /\ Spend("sent")
  BY DEF ServiceSignals
<1>3. PICK to \in SUBSET Conns :
         /\ sent' = Append(sent, to)
         /\ queue' = QueuedEvents(queue, "broker",
                       [i \in 1..Len(SetToSeq(to)) |-> Event("signal", SetToSeq(to)[i], owner, "none", Len(sent) + 1)])
  BY DEF ServiceSignals
<1>4. sent \in Seq(SUBSET Conns) /\ Len(sent) \in Nat /\ n \in Nat
  BY <1>1 DEF BridgeTypes
<1>5. sent' \in Seq(SUBSET Conns) /\ Len(sent') = Len(sent) + 1
  BY <1>3, <1>4
<1>6. PICK e \in Seq(Items) :
         /\ Moved("broker", 0, Adds("broker", e)) /\ Ordered(e)
         /\ \A y \in Ran(e) : y.type = "signal" /\ y.stamp = n
  BY <1>1, <1>3, <1>4, SignalsMoved
<1>7. Shrinks /\ StaysClosed /\ SameEnds
  BY <1>2 DEF Shrinks, StaysClosed, SameEnds, Pends, Undone
<1>8. InOrder'
  <2>1. \A y \in Ran(e) :
              /\ ~Token(y) /\ (Stamped(y) => y.stamp = Len(sent) + 1)
              /\ Stamped(y) /\ y.type = "done" => \E z \in Ran(e) : Announces(z, y)
    BY <1>6 DEF Token
  <2> QED
    BY <1>2, <1>5, <1>6, <1>7, <2>1, SentOrder
<1>9. LoudTypes'
  <2>1. budget' \in Budget
    BY <1>1, <1>2, SpendTypes
  <2> QED
    BY <1>1, <1>2, <1>5, <2>1, TypeParts DEF LoudTypes, EnvTypes, DataTypes
<1>10. IInv'
  <2>1. PICK K : K = {}
    OBVIOUS
  <2>2. PICK m : m = 0
    OBVIOUS
  <2>3. (\A j \in Calls \ K : answers'[j] = answers[j]) /\ (\A k \in Calls \cap K : Finished("broker", m, k))
    BY <1>2, <2>1
  <2>4. PICK add : add = Adds("broker", e)
    OBVIOUS
  <2>5. \A r \in Roles : \A y \in Ran(add[r]) : LoudItem(r, y)
    <3>1. \A r \in Roles : \A y \in Ran(add[r]) : y \in Ran(e)
      BY <1>1, <2>4, AddsRan
    <3> QED
      BY <1>6, <3>1 DEF LoudItem
  <2>6. \A c \in agents' : Settled(c)
    BY <1>1, <1>2 DEF Placed
  <2>7. Moved("broker", m, add)
    BY <1>6, <2>2, <2>4
  <2> QED
    BY <1>1, <1>2, <1>7, <1>8, <1>9, <2>3, <2>5, <2>6, <2>7, LoudStep
<1>11. PortStep
  BY <1>2, <1>5, PortSends
<1> QED
  BY <1>10, <1>11
\* What an answer that reaches a process may queue.
LEMMA ReplyFacts ==
    ASSUME NEW k \in Calls, call[k].conn \in Conns, NEW val \in Vals, NEW n \in Nat,
           NEW y \in {ReplyItem(k, val, n), DoneItem(k, val, n), DoneItem(k, val, 0)}
    PROVE  /\ y.type \in {"reply", "done"} /\ ~Token(y) /\ y.id = k /\ y.conn = call[k].conn
           /\ (y.type = "reply" <=> y.high) /\ (Stamped(y) => y.stamp = n)
           /\ y = ReplyItem(k, val, n) \/ y.type = "done"
           /\ ReplyItem(k, val, n).type = "reply" /\ ReplyItem(k, val, n).id = k /\ ReplyItem(k, val, n).stamp = n
BY DEF ReplyItem, DoneItem, Event, Source, Item, Token, Stamped

LEMMA ServiceAnswersStep ==
    ASSUME IInv, NEW k \in Calls, ServiceAnswers(k)
    PROVE  IInv' /\ PortStep
<1> DEFINE n == Len(sent) + 1
<1>1. BridgeTypes /\ Placed /\ Owed /\ "broker" \in Roles /\ "relay" \in Roles /\ "relay" # "broker"
  BY RoleFacts DEF IInv
<1>2. /\ conn' = conn /\ opening' = opening /\ names' = names /\ present' = present /\ call' = call
      /\ pending' = pending /\ owner' = owner /\ started' = started
      /\ answers' = answers /\ got' = got /\ Spend("sent") /\ inbox' = inbox \ {k}
      /\ waiting' = [waiting EXCEPT !["broker"] = @ \ {k}]
  BY DEF ServiceAnswers
<1>3. /\ sent' = Append(sent, {call[k].conn}) /\ k \in inbox /\ k \notin Callbacks
      /\ \E val \in {"return", "error", "big"} : queue' = HostReplies(queue, k, val, Len(sent'))
      /\ agents' \subseteq agents \cup {call[k].conn}
  BY DEF ServiceAnswers, InFlight, Callback
<1>4. sent \in Seq(SUBSET Conns) /\ Len(sent) \in Nat /\ n \in Nat
  BY <1>1 DEF BridgeTypes
<1>5. call[k].conn \in Conns /\ Settled(call[k].conn)
  <2>1. CallOk(k)
    BY <1>1, CallParts
  <2>2. call[k].conn # None /\ call[k].conn \in Conns \cup {None}
    BY <1>1, <1>3, <2>1 DEF CallOk, BridgeTypes
  <2> QED
    BY <2>1, <2>2 DEF CallOk
<1>6. sent' \in Seq(SUBSET Conns) /\ Len(sent') = Len(sent) + 1 /\ Len(sent') = n
  BY <1>3, <1>4, <1>5
<1>7. PICK val \in Vals : queue' = HostReplies(queue, k, val, n)
  BY <1>3, <1>6 DEF Vals
<1> HIDE DEF n
<1>8. \E e \in Seq(Items) :
         /\ Moved("broker", 0, Adds("broker", e)) /\ Ordered(e)
         /\ Ran(e) \subseteq {ReplyItem(k, val, n), DoneItem(k, val, n), DoneItem(k, val, 0)}
         /\ \A y \in Ran(e) : y.type = "done" /\ y.stamp > 0 => ReplyItem(k, val, n) \in Ran(e)
  <2>1. PICK m : m = 0
    OBVIOUS
  <2>2. Popped(queue, "broker", m)
    BY <1>1, <2>1, NotPopped
  <2>3. CASE queue' = queue
    <3>1. Moved("broker", m, Adds("broker", <<>>)) /\ <<>> \in Seq(Items) /\ Ran(<<>>) = {}
      BY <1>1, <2>2, <2>3, KeptMoved
    <3>2. Ordered(<<>>)
      BY DEF Ordered
    <3> QED
      BY <2>1, <3>1, <3>2
  <2>4. CASE queue' = Arrived(queue, waiting, "broker", k, val, n)
    <3>1. k \in Callbacks => n = 0
      BY <1>3
    <3>2. PICK w : w = waiting
      OBVIOUS
    <3>3. PICK b : b = "broker" /\ b \in Roles
      BY <1>1
    <3>4. queue' = Arrived(queue, w, b, k, val, n) /\ Popped(queue, b, m)
      BY <2>2, <2>4, <3>2, <3>3
    <3>5. \E e \in Seq(Items) :
         /\ Moved(b, m, Adds(b, e)) /\ Ordered(e)
         /\ Ran(e) \subseteq {ReplyItem(k, val, n), DoneItem(k, val, n), DoneItem(k, val, 0)}
         /\ \A y \in Ran(e) : y.type = "done" => k \in w[b]
         /\ \A y \in Ran(e) : y.type = "done" /\ y.stamp > 0 => ReplyItem(k, val, n) \in Ran(e)
      BY ZenonT(60), <1>4, <1>5, <3>1, <3>3, <3>4, ArrivedMoved
    <3> QED
      BY <2>1, <3>3, <3>5
  <2> QED
    BY <1>7, <2>3, <2>4 DEF HostReplies
<1>9. PICK e \in Seq(Items) :
         /\ Moved("broker", 0, Adds("broker", e)) /\ Ordered(e)
         /\ Ran(e) \subseteq {ReplyItem(k, val, n), DoneItem(k, val, n), DoneItem(k, val, 0)}
         /\ \A y \in Ran(e) : y.type = "done" /\ y.stamp > 0 => ReplyItem(k, val, n) \in Ran(e)
  BY <1>8
<1>10. \A y \in Ran(e) :
           /\ y.type \in {"reply", "done"} /\ ~Token(y) /\ y.id = k /\ y.conn = call[k].conn
           /\ (Stamped(y) => y.stamp = n)
           /\ Stamped(y) /\ y.type = "done" => \E z \in Ran(e) : Announces(z, y)
  <2> SUFFICES ASSUME NEW y \in Ran(e)
               PROVE  /\ y.type \in {"reply", "done"} /\ ~Token(y) /\ y.id = k /\ y.conn = call[k].conn
                      /\ (Stamped(y) => y.stamp = n)
                      /\ Stamped(y) /\ y.type = "done" => \E z \in Ran(e) : Announces(z, y)
    OBVIOUS
  <2>1. y \in {ReplyItem(k, val, n), DoneItem(k, val, n), DoneItem(k, val, 0)}
    BY <1>9
  <2>2. /\ y.type \in {"reply", "done"} /\ ~Token(y) /\ y.id = k /\ y.conn = call[k].conn
        /\ (Stamped(y) => y.stamp = n)
        /\ ReplyItem(k, val, n).type = "reply" /\ ReplyItem(k, val, n).id = k /\ ReplyItem(k, val, n).stamp = n
    BY <1>4, <1>5, <2>1, ReplyFacts
  <2>3. Stamped(y) /\ y.type = "done" => ReplyItem(k, val, n) \in Ran(e)
    BY <1>9 DEF Stamped
  <2> QED
    BY <2>2, <2>3 DEF Announces
<1>11. Shrinks /\ StaysClosed /\ SameEnds
  <2>1. waiting \in [Roles -> SUBSET Calls]
    BY <1>1 DEF BridgeTypes
  <2> QED
    BY <1>2, <2>1 DEF Shrinks, StaysClosed, SameEnds, Pends, Undone
<1>12. InOrder'
  <2>1. \A y \in Ran(e) :
              /\ ~Token(y) /\ (Stamped(y) => y.stamp = Len(sent) + 1)
              /\ Stamped(y) /\ y.type = "done" => \E z \in Ran(e) : Announces(z, y)
    BY <1>10 DEF n
  <2> QED
    BY <1>2, <1>6, <1>9, <1>11, <2>1, SentOrder
<1>13. LoudTypes'
  <2>1. budget' \in Budget
    BY <1>1, <1>2, SpendTypes
  <2>2. waiting' \in [Roles -> SUBSET Calls] /\ agents' \subseteq Conns /\ inbox' \subseteq Calls
    BY <1>1, <1>2, <1>3, <1>5 DEF BridgeTypes
  <2> QED
    BY <1>1, <1>2, <1>6, <2>1, <2>2, TypeParts DEF LoudTypes, EnvTypes, DataTypes
<1>14. IInv'
  <2>1. PICK K : K = {}
    OBVIOUS
  <2>2. PICK m : m = 0
    OBVIOUS
  <2>3. (\A j \in Calls \ K : answers'[j] = answers[j]) /\ (\A i \in Calls \cap K : Finished("broker", m, i))
    BY <1>2, <2>1
  <2>4. PICK add : add = Adds("broker", e)
    OBVIOUS
  <2>5. \A r \in Roles : \A y \in Ran(add[r]) : LoudItem(r, y)
    <3>1. \A r \in Roles : \A y \in Ran(add[r]) : y \in Ran(e)
      BY <1>1, <2>4, AddsRan
    <3> QED
      BY <1>3, <1>5, <1>10, <3>1, ConnAssumption DEF LoudItem
  <2>6. \A c \in agents' : Settled(c)
    BY <1>1, <1>3, <1>5 DEF Placed
  <2>7. Moved("broker", m, add)
    BY <1>9, <2>2, <2>4
  <2> QED
    BY <1>1, <1>2, <1>11, <1>12, <1>13, <2>3, <2>5, <2>6, <2>7, LoudStep
<1>15. PortStep
  BY <1>2, <1>6, PortSends
<1> QED
  BY <1>14, <1>15
\* The answer of a call: it is no longer owed at process r, and the item that
\* brought it is taken out.
Ended(r, k) ==
    /\ pending' \in [Roles -> SUBSET Entries] /\ ~Undone(r, k)'
    /\ \A p \in Roles : \A j \in Calls : (Pends(p, j)' => Pends(p, j)) /\ (Undone(p, j)' => Undone(p, j))
Concluding(r, m, q, k) ==
    /\ Popped(q, r, m) /\ Undone(r, k) /\ Ended(r, k) /\ call[k].conn \in Conns
    /\ conn' \in [Conns -> ConnRecord] /\ SameEnds
    /\ opening' = opening /\ names' = names /\ present' = present /\ budget' = budget
    /\ owner' = owner /\ started' = started /\ agents' = agents /\ sent' = sent
    /\ call' = call /\ inbox' = inbox
    /\ \A y \in Ran(queue[r]) \ Rest(r, m, r) : y.type \in {"reply", "done"} /\ y.id = k

LEMMA DeliverEnds ==
    ASSUME BridgeTypes, NEW r \in Roles, NEW k \in Calls, pending' = [pending EXCEPT ![r] = DeliverReply(r, k)]
    PROVE  Ended(r, k)
<1>1. pending \in [Roles -> SUBSET Entries]
  BY DEF BridgeTypes
<1>2. ASSUME NEW p \in Entries
      PROVE  LET d == [p EXCEPT !.delivered = TRUE] IN d \in Entries /\ d.id = p.id /\ d.delivered
  <2>1. [p EXCEPT !.delivered = TRUE] \in Entries
    BY Zenon DEF Entries
  <2>2. [p EXCEPT !.delivered = TRUE].id = p.id
    BY DEF Entries
  <2>3. [p EXCEPT !.delivered = TRUE].delivered
    BY DEF Entries
  <2> QED
    BY <2>1, <2>2, <2>3
<1>3. /\ pending'[r] = {IF p.id = k THEN [p EXCEPT !.delivered = TRUE] ELSE p : p \in pending[r]}
      /\ \A b \in Roles \ {r} : pending'[b] = pending[b]
  BY <1>1 DEF DeliverReply
<1>4. ASSUME NEW x \in pending'[r]
      PROVE  /\ x \in Entries /\ (x.id = k => x.delivered) /\ (x.id # k => x \in pending[r])
             /\ \E p \in pending[r] : p.id = x.id
  <2>1. PICK p \in pending[r] : x = IF p.id = k THEN [p EXCEPT !.delivered = TRUE] ELSE p
    BY <1>3
  <2>2. p \in Entries
    BY <1>1
  <2>3. CASE p.id = k
    <3>1. x \in Entries /\ x.id = p.id /\ x.delivered
      BY <1>2, <2>1, <2>2, <2>3
    <3> QED
      BY <2>3, <3>1
  <2>4. CASE p.id # k
    BY <2>1, <2>2, <2>4
  <2> QED
    BY <2>3, <2>4
<1>5. pending' \in [Roles -> SUBSET Entries]
  BY <1>1, <1>3, <1>4
<1>6. ~Undone(r, k)'
  BY <1>4 DEF Undone
<1>7. ASSUME NEW j \in Calls PROVE (Pends(r, j)' => Pends(r, j)) /\ (Undone(r, j)' => Undone(r, j))
  BY <1>4 DEF Undone, Pends
<1>8. \A p \in Roles : \A j \in Calls : (Pends(p, j)' => Pends(p, j)) /\ (Undone(p, j)' => Undone(p, j))
  <2> TAKE p \in Roles
  <2>1. CASE p = r
    BY <1>7, <2>1
  <2>2. CASE p # r
    BY <1>3, <2>2 DEF Undone, Pends
  <2> QED
    BY <2>1, <2>2
<1> QED
  BY <1>5, <1>6, <1>8 DEF Ended

LEMMA FreeEnds ==
    ASSUME BridgeTypes, NEW r \in Roles, NEW k \in Calls, pending' = [pending EXCEPT ![r] = {p \in @ : p.id # k}]
    PROVE  Ended(r, k) /\ \A p \in Roles : pending'[p] \subseteq pending[p]
<1>1. pending \in [Roles -> SUBSET Entries]
  BY DEF BridgeTypes
<1>2. pending'[r] = {p \in pending[r] : p.id # k} /\ \A b \in Roles \ {r} : pending'[b] = pending[b]
  BY <1>1
<1>3. \A p \in Roles : pending'[p] \subseteq pending[p]
  BY <1>2
<1>4. pending' \in [Roles -> SUBSET Entries]
  BY <1>1, <1>3
<1>5. ~Undone(r, k)'
  BY <1>2 DEF Undone
<1>6. \A p \in Roles : \A j \in Calls : (Pends(p, j)' => Pends(p, j)) /\ (Undone(p, j)' => Undone(p, j))
  BY <1>3 DEF Undone, Pends
<1> QED
  BY <1>3, <1>4, <1>5, <1>6 DEF Ended

\* An answer that registers or unregisters an agent changes no end.
LEMMA AgentEnds ==
    ASSUME BridgeTypes, NEW r, NEW k, call[k].conn \in Conns, NEW val, conn' = AgentAfter(r, k, val)
    PROVE  conn' \in [Conns -> ConnRecord] /\ SameEnds
<1>1. conn \in [Conns -> ConnRecord]
  BY DEF BridgeTypes, ConnRecord
<1> DEFINE c == call[k].conn
           b == (call[k].kind = "register")
<1>2. b \in BOOLEAN
  OBVIOUS
<1>3. conn' = conn \/ conn' = [conn EXCEPT ![c].agent = b]
  BY DEF AgentAfter
<1> HIDE DEF b
<1>4. c \in Conns
  OBVIOUS
<1> HIDE DEF c
<1>5. CASE conn' = conn
  BY <1>1, <1>5 DEF SameEnds
<1>6. CASE conn' = [conn EXCEPT ![c].agent = b]
  <2>1. \A d \in Conns \ {c} : conn'[d] = conn[d]
    BY <1>1, <1>6
  <2>2. conn'[c] = [conn[c] EXCEPT !.agent = b] /\ conn[c] \in ConnRecord
    BY <1>1, <1>4, <1>6
  <2>3. conn'[c] \in ConnRecord /\ conn'[c].name = conn[c].name /\ conn'[c].relay = conn[c].relay
        /\ conn'[c].broker = conn[c].broker
    BY <1>2, <2>2 DEF ConnRecord
  <2>4. conn' \in [Conns -> ConnRecord]
    BY <1>1, <1>6, <2>1, <2>3
  <2> QED
    BY <2>1, <2>3, <2>4 DEF SameEnds
<1> QED
  BY <1>3, <1>5, <1>6

LEMMA ConcludingFacts ==
    ASSUME IInv, NEW r \in Roles, NEW m, NEW q, NEW k \in Calls, Concluding(r, m, q, k),
           waiting' \in [Roles -> SUBSET Calls], \A b \in Roles : waiting'[b] \subseteq waiting[b],
           answers' \in [Calls -> Nat], got' \in [Guests -> Seq(Heard)]
    PROVE  /\ Shrinks /\ LoudTypes' /\ SameEnds /\ StaysClosed /\ \A c \in agents' : Settled(c)
           /\ opening' = opening /\ present' = present /\ call' = call /\ sent' = sent
           /\ r = "relay" => \A y \in Ran(queue[r]) \ Rest(r, m, r) : y.type # "left"
<1>1. BridgeTypes /\ Placed
  BY DEF IInv
<1>2. Shrinks
  BY DEF Shrinks, Concluding, Ended
<1>3. LoudTypes'
  <2>1. EnvTypes
    BY <1>1, TypeParts
  <2>2. /\ call' = call /\ inbox' = inbox /\ sent' = sent /\ pending' \in [Roles -> SUBSET Entries]
        /\ conn' \in [Conns -> ConnRecord] /\ opening' = opening /\ names' = names /\ present' = present
        /\ budget' = budget /\ owner' = owner /\ started' = started /\ agents' = agents
    BY DEF Concluding, Ended
  <2>3. EnvTypes'
    BY <2>1, <2>2 DEF EnvTypes
  <2> QED
    BY <1>1, <2>2, <2>3, TypeParts DEF LoudTypes, DataTypes
<1>4. SameEnds /\ StaysClosed
  BY DEF Concluding, SameEnds, StaysClosed, Roles
<1>5. \A c \in agents' : Settled(c)
  BY <1>1 DEF Concluding, Placed
<1> QED
  BY <1>2, <1>3, <1>4, <1>5 DEF Concluding
LEMMA NoAdds ==
    ASSUME NEW b \in Roles
    PROVE  \A p \in Roles : Adds(b, <<>>)[p] = <<>>
BY DEF Adds

\* A callback that the broker answers to the service.
LEMMA CallbackAnswered ==
    ASSUME IInv, NEW m, NEW q, NEW k \in Callbacks, Concluding("broker", m, q, k),
           answers' = Counted(k), got' = got, queue' = q, waiting' = waiting
    PROVE  IInv' /\ PortStep
<1>1. BridgeTypes /\ Placed /\ Owed /\ Itemised /\ InOrder /\ "broker" \in Roles /\ "relay" \in Roles
  BY RoleFacts DEF IInv
<1>2. k \in Calls /\ answers \in [Calls -> Nat] /\ waiting \in [Roles -> SUBSET Calls] /\ got \in [Guests -> Seq(Heard)]
  BY <1>1 DEF BridgeTypes, Calls
<1>3. answers' \in [Calls -> Nat] /\ \A j \in Calls \ {k} : answers'[j] = answers[j]
  BY <1>2 DEF Counted
<1>4. PICK r \in Roles : r = "broker"
  BY <1>1
<1>5. /\ Shrinks /\ LoudTypes' /\ SameEnds /\ StaysClosed /\ \A c \in agents' : Settled(c)
      /\ opening' = opening /\ present' = present /\ call' = call /\ sent' = sent
  <2>1. Concluding(r, m, q, k)
    BY <1>4
  <2>2. waiting' \in [Roles -> SUBSET Calls] /\ (\A b \in Roles : waiting'[b] \subseteq waiting[b])
        /\ got' \in [Guests -> Seq(Heard)]
    BY <1>2
  <2> QED
    BY <1>2, <1>3, <1>4, <2>1, <2>2, ConcludingFacts
<1>6. Popped(q, "broker", m) /\ Undone("broker", k) /\ ~Undone("broker", k)' /\ call[k].conn \in Conns
      /\ \A y \in Ran(queue["broker"]) \ Rest("broker", m, "broker") : y.type \in {"reply", "done"} /\ y.id = k
  BY DEF Concluding, Ended
<1>7. Moved("broker", m, Adds("broker", <<>>)) /\ <<>> \in Seq(Items) /\ Ran(<<>>) = {}
  BY <1>1, <1>6, KeptMoved
<1> DEFINE add == Adds("broker", <<>>)
<1>8. Moved("broker", m, add) /\ \A p \in Roles : add[p] = <<>> /\ Ran(add[p]) = {} /\ Ordered(add[p])
  <2>1. \A p \in Roles : add[p] = <<>>
    BY <1>1, NoAdds
  <2>2. Ran(<<>>) = {} /\ Ordered(<<>>)
    BY DEF Ran, Ordered
  <2> QED
    BY <1>7, <2>1, <2>2
<1> HIDE DEF add
<1>9. InOrder'
  <2>1. \A p \in Roles : \A x \in Rest("broker", m, p) :
              Stamped(x) /\ x.type = "done" /\ Undone(p, x.id)' => Undone(p, x.id)
    <3> SUFFICES ASSUME NEW p \in Roles, NEW x \in Rest("broker", m, p), x.type = "done", Undone(p, x.id)'
                 PROVE  Undone(p, x.id)
      OBVIOUS
    <3>1. x.id \in Calls
      BY <1>8, RestItem DEF Sound
    <3> QED
      BY <1>5, <3>1 DEF Shrinks
  <2>2. /\ \A p \in Roles : Ordered(add[p])
        /\ \A p \in Roles : \A y \in Ran(add[p]) : ~Stamped(y)
        /\ \A p \in Roles : \A x \in Rest("broker", m, p), y \in Ran(add[p]) :
              Token(y) => x.type # y.type \/ x.id # y.id
    BY <1>8
  <2>3. \A d \in Conns : \A p \in Roles : conn[d][p] = "closed" => conn'[d][p] = "closed"
    BY <1>5 DEF StaysClosed
  <2>4. \A y \in Ran(queue["broker"]) \ Rest("broker", m, "broker") :
              y.type = "reply" /\ y.stamp > 0 /\ Undone("broker", y.id)' => conn'[y.conn]["broker"] = "closed"
    BY <1>6
  <2> QED
    BY <1>1, <1>5, <1>8, <2>1, <2>2, <2>3, <2>4, OrderQuiet
<1>10. IInv'
  <2>1. PICK K : K = {k}
    OBVIOUS
  <2>2. \A j \in Calls \ K : answers'[j] = answers[j]
    BY <1>3, <2>1
  <2>3. Finished("broker", m, k)
    <3>1. \A x \in Rest("broker", m, "broker") : x.type = "callback" => x.id # k
      <4> SUFFICES ASSUME NEW x \in Rest("broker", m, "broker"), x.type = "callback", x.id = k PROVE FALSE
        OBVIOUS
      <4>1. ~Pends("broker", k)
        BY <1>1, <1>8, RestItem DEF ItemOk
      <4> QED
        BY <1>6, <4>1 DEF Undone, Pends
    <3> QED
      BY <1>6, <3>1, ConnAssumption DEF Finished
  <2>4. \A j \in Calls \cap K : Finished("broker", m, j)
    BY <2>1, <2>3
  <2>5. \A p \in Roles : \A y \in Ran(add[p]) : LoudItem(p, y)
    BY <1>8
  <2>6. "broker" = "relay" => \A y \in Ran(queue["broker"]) \ Rest("broker", m, "broker") : y.type # "left"
    BY RoleFacts
  <2>7. Moved("broker", m, add)
    BY <1>8
  <2> QED
    BY <1>1, <1>5, <1>9, <2>2, <2>4, <2>5, <2>6, <2>7, LoudStep
<1>11. PortStep
  <2>1. CallOk(k)
    BY <1>1, <1>2, CallParts
  <2>2. call[k].guest # None /\ answers[k] = 0
    BY <1>6, <2>1, ConnAssumption DEF CallOk
  <2> QED
    BY <1>2, <1>5, <2>2, PortSettles DEF Counted
<1> QED
  BY <1>10, <1>11

\* A call that the relay answers to its guest.
LEMMA RequestAnswered ==
    ASSUME IInv, NEW m, NEW q, NEW k \in Requests, Concluding("relay", m, q, k), NEW n \in Nat,
           answers' = Counted(k), got' = Given({call[k].guest}, k, call[k].conn, n), queue' = q, waiting' = waiting,
           n > 0 => n <= Len(sent) /\ Older(call[k].conn, n),
           Behind(m, {call[k].guest}, call[k].conn, n)
    PROVE  IInv' /\ PortStep
<1> DEFINE c == call[k].conn
           to == {call[k].guest}
<1>1. BridgeTypes /\ Placed /\ Owed /\ "broker" \in Roles /\ "relay" \in Roles
  BY RoleFacts DEF IInv
<1>2. k \in Calls /\ answers \in [Calls -> Nat] /\ waiting \in [Roles -> SUBSET Calls] /\ Len(sent) \in Nat
  BY <1>1 DEF BridgeTypes, Calls
<1>3. answers' \in [Calls -> Nat] /\ \A j \in Calls \ {k} : answers'[j] = answers[j]
  BY <1>2 DEF Counted
<1>4. Popped(q, "relay", m) /\ Undone("relay", k) /\ ~Undone("relay", k)' /\ c \in Conns
  BY DEF Concluding, Ended
<1>5. call[k].guest \in Guests /\ answers[k] = 0 /\ to \in SUBSET Guests
  <2>1. CallOk(k) /\ call[k].guest \in Guests \cup {Observer, None}
    BY <1>1, <1>2, CallParts DEF BridgeTypes
  <2> QED
    BY <1>4, <2>1, ConnAssumption DEF CallOk
<1>6. got' = Given(to, k, c, n) /\ Behind(m, to, c, n) /\ (n > 0 => Older(c, n)) /\ n <= Len(sent) /\ k \in Calls \cup {None}
  BY <1>2
<1> HIDE DEF c, to
<1>7. got' \in [Guests -> Seq(Heard)]
  <2>1. Hears(to, c, n)
    BY <1>1, <1>4, <1>5, <1>6, GivenFacts
  <2> QED
    BY <2>1 DEF Hears
<1>8. PICK r \in Roles : r = "relay"
  BY <1>1
<1>9. /\ Shrinks /\ LoudTypes' /\ SameEnds /\ StaysClosed /\ \A d \in agents' : Settled(d)
      /\ opening' = opening /\ present' = present /\ call' = call /\ sent' = sent
      /\ \A y \in Ran(queue["relay"]) \ Rest("relay", m, "relay") : y.type # "left"
  <2>1. Concluding(r, m, q, k)
    BY <1>8
  <2>2. waiting' \in [Roles -> SUBSET Calls] /\ (\A b \in Roles : waiting'[b] \subseteq waiting[b])
    BY <1>2
  <2> QED
    BY <1>2, <1>3, <1>7, <1>8, <2>1, <2>2, ConcludingFacts
<1>10. Moved("relay", m, Adds("broker", <<>>)) /\ <<>> \in Seq(Items) /\ Ran(<<>>) = {}
  BY <1>1, <1>4, KeptMoved
<1> DEFINE add == Adds("broker", <<>>)
<1>11. Moved("relay", m, add) /\ \A p \in Roles : add[p] = <<>>
  BY <1>1, <1>10, NoAdds
<1> HIDE DEF add
<1>12. InOrder'
  BY <1>4, <1>5, <1>6, <1>9, <1>11, HeardOrder
<1>13. IInv'
  <2>1. PICK K : K = {k}
    OBVIOUS
  <2>2. \A j \in Calls \ K : answers'[j] = answers[j]
    BY <1>3, <2>1
  <2>3. Finished("relay", m, k)
    BY <1>4, ConnAssumption DEF Finished, c
  <2>4. \A j \in Calls \cap K : Finished("relay", m, j)
    BY <2>1, <2>3
  <2>5. \A p \in Roles : \A y \in Ran(add[p]) : LoudItem(p, y)
    BY <1>11 DEF Ran
  <2> QED
    BY <1>1, <1>9, <1>11, <1>12, <2>2, <2>4, <2>5, LoudStep
<1>14. PortStep
  <2>1. IF k = None THEN answers' = answers
        ELSE call[k].guest # None /\ answers[k] = 0 /\ answers' = Counted(k)
    BY <1>2, <1>5, CallAssumption, NameAssumption
  <2>2. \A j \in Calls : call'[j].guest = call[j].guest
    BY <1>9
  <2> QED
    BY <1>2, <1>4, <1>5, <1>6, <1>9, <2>1, <2>2, PortReceives
<1> QED
  BY <1>13, <1>14
\* What a passed on answer adds to the peer's queue.
PassedItems(k, val, n, e) ==
    /\ Ordered(e) /\ Ran(e) \subseteq {ReplyItem(k, val, n), DoneItem(k, val, n), DoneItem(k, val, 0)}
    /\ \A y \in Ran(e) : y.type = "done" /\ y.stamp > 0 => ReplyItem(k, val, n) \in Ran(e)

LEMMA PassedMoved ==
    ASSUME NEW q, NEW a, NEW m, Popped(q, a, m), NEW r \in Roles, NEW k \in Calls, call[k].conn \in Conns,
           NEW val \in Vals, NEW n, n \in Nat, k \in Callbacks => n = 0, Passed(q, r, k, val, n)
    PROVE  \E e \in Seq(Items) :
             Moved(a, m, Adds(Other(r), e)) /\ PassedItems(k, val, n, e) /\ (queue' = q => e = <<>>)
<1>1. PICK b \in Roles : b = Other(r)
  BY RoleFacts
<1>2. CASE queue' = q
  <2>1. Moved(a, m, Adds(b, <<>>)) /\ <<>> \in Seq(Items) /\ Ran(<<>>) = {}
    BY <1>2, KeptMoved
  <2>2. PassedItems(k, val, n, <<>>)
    BY <2>1 DEF PassedItems, Ordered
  <2> QED
    BY <1>1, <2>1, <2>2
<1>3. CASE queue' # q
  <2>1. PICK w : w = waiting
    OBVIOUS
  <2>2. queue' = Arrived(q, w, b, k, val, n)
    BY <1>1, <1>3, <2>1 DEF Passed
  <2>4. PICK e \in Seq(Items) :
         /\ Moved(a, m, Adds(b, e)) /\ Ordered(e)
         /\ Ran(e) \subseteq {ReplyItem(k, val, n), DoneItem(k, val, n), DoneItem(k, val, 0)}
         /\ \A y \in Ran(e) : y.type = "done" /\ y.stamp > 0 => ReplyItem(k, val, n) \in Ran(e)
    BY <2>2, ArrivedMoved
  <2>5. PassedItems(k, val, n, e)
    BY <2>4 DEF PassedItems
  <2> QED
    BY <1>1, <1>3, <2>4, <2>5
<1> QED
  BY <1>2, <1>3

\* Those items are replies and completions of the call.
LEMMA PassedFacts ==
    ASSUME NEW k \in Calls, call[k].conn \in Conns, NEW val \in Vals, NEW n \in Nat, NEW e \in Seq(Items),
           PassedItems(k, val, n, e), NEW y \in Ran(e)
    PROVE  /\ y.type \in {"reply", "done"} /\ ~Token(y) /\ y.id = k /\ y.conn = call[k].conn
           /\ (Stamped(y) => y.stamp = n)
           /\ Stamped(y) /\ y.type = "done" => \E z \in Ran(e) : Announces(z, y)
<1>1. y \in {ReplyItem(k, val, n), DoneItem(k, val, n), DoneItem(k, val, 0)}
  BY DEF PassedItems
<1>2. /\ y.type \in {"reply", "done"} /\ ~Token(y) /\ y.id = k /\ y.conn = call[k].conn
      /\ (Stamped(y) => y.stamp = n)
      /\ ReplyItem(k, val, n).type = "reply" /\ ReplyItem(k, val, n).id = k /\ ReplyItem(k, val, n).stamp = n
  BY <1>1, ReplyFacts
<1>3. Stamped(y) /\ y.type = "done" => ReplyItem(k, val, n) \in Ran(e)
  BY DEF Stamped, PassedItems
<1> QED
  BY <1>2, <1>3 DEF Announces

\* A step that passes an answer on keeps the invariant if it keeps the order.
LEMMA PassedStep ==
    ASSUME IInv, NEW r \in Roles, NEW m, NEW q, NEW k \in Calls, Concluding(r, m, q, k),
           r = "relay" <=> k \in Callbacks, NEW val \in Vals, NEW n \in Nat, Passed(q, r, k, val, n),
           NEW e \in Seq(Items), Moved(r, m, Adds(Other(r), e)), PassedItems(k, val, n, e), InOrder'
    PROVE  IInv' /\ PortStep
<1>1. BridgeTypes /\ \A p \in Roles : p = "relay" \/ p = "broker"
  BY RoleFacts DEF IInv
<1>2. PICK b \in Roles : b = Other(r) /\ b # r
  BY RoleFacts
<1>3. /\ answers' = answers /\ got' = got /\ waiting' \in [Roles -> SUBSET Calls]
      /\ \A p \in Roles : waiting'[p] \subseteq waiting[p]
  BY DEF Passed
<1>4. answers' \in [Calls -> Nat] /\ got' \in [Guests -> Seq(Heard)]
  BY <1>1, <1>3 DEF BridgeTypes
<1>5. /\ Shrinks /\ LoudTypes' /\ SameEnds /\ StaysClosed /\ \A c \in agents' : Settled(c)
      /\ opening' = opening /\ present' = present /\ call' = call /\ sent' = sent
      /\ r = "relay" => \A y \in Ran(queue[r]) \ Rest(r, m, r) : y.type # "left"
  BY <1>3, <1>4, ConcludingFacts
<1>6. call[k].conn \in Conns
  BY DEF Concluding
<1> DEFINE add == Adds(b, e)
<1>7. Moved(r, m, add) /\ \A p \in Roles : \A y \in Ran(add[p]) : p = b /\ y \in Ran(e)
  BY <1>2, AddsRan
<1> HIDE DEF add
<1>8. \A p \in Roles : \A y \in Ran(add[p]) : LoudItem(p, y)
  <2> SUFFICES ASSUME NEW p \in Roles, NEW y \in Ran(add[p]) PROVE LoudItem(p, y)
    OBVIOUS
  <2>1. y \in Ran(e) /\ p = b
    BY <1>7
  <2>2. y.type \in {"reply", "done"} /\ y.id = k /\ y.conn = call[k].conn
    BY <1>6, <2>1, PassedFacts
  <2>3. p = "broker" => k \in Callbacks
    BY <1>1, <1>2, <2>1
  <2> QED
    BY <1>6, <2>2, <2>3, ConnAssumption DEF LoudItem
<1>9. PICK K : K = {}
  OBVIOUS
<1>10. (\A j \in Calls \ K : answers'[j] = answers[j]) /\ (\A j \in Calls \cap K : Finished(r, m, j))
  BY <1>3, <1>9
<1>11. IInv'
  BY <1>5, <1>7, <1>8, <1>10, LoudStep
<1>12. PortStep
  BY <1>3, <1>5, PortQuiet
<1> QED
  BY <1>11, <1>12

\* An answer without a place, or one that does not reach the peer.
LEMMA AnswerUnplaced ==
    ASSUME IInv, NEW r \in Roles, NEW m, NEW q, NEW k \in Calls, Concluding(r, m, q, k),
           r = "relay" <=> k \in Callbacks, NEW val \in Vals, NEW n \in Nat, Passed(q, r, k, val, n),
           k \in Callbacks => n = 0, n = 0 \/ queue' = q
    PROVE  IInv' /\ PortStep
<1>1. BridgeTypes /\ Itemised /\ InOrder
  BY DEF IInv
<1>2. PICK b \in Roles : b = Other(r)
  BY RoleFacts
<1>3. Popped(q, r, m) /\ call[k].conn \in Conns /\ Ended(r, k) /\ StaysClosed /\ sent' = sent
      /\ \A y \in Ran(queue[r]) \ Rest(r, m, r) : y.type \in {"reply", "done"} /\ y.id = k
  BY DEF Concluding, SameEnds, StaysClosed, Roles
<1>4. PICK e \in Seq(Items) : Moved(r, m, Adds(Other(r), e)) /\ PassedItems(k, val, n, e) /\ (queue' = q => e = <<>>)
  BY <1>3, PassedMoved
<1> DEFINE add == Adds(b, e)
<1>5. Moved(r, m, add) /\ \A p \in Roles : \A y \in Ran(add[p]) : p = b /\ y \in Ran(e)
  BY <1>2, <1>4, AddsRan
<1>6. \A p \in Roles : Ordered(add[p])
  <2>1. Ordered(<<>>) /\ Ordered(e)
    BY <1>4 DEF Ordered, PassedItems
  <2> QED
    BY <2>1, AddsSeq
<1> HIDE DEF add
<1>7. \A p \in Roles : \A y \in Ran(add[p]) : ~Stamped(y) /\ ~Token(y)
  <2> SUFFICES ASSUME NEW y \in Ran(e) PROVE ~Stamped(y) /\ ~Token(y)
    BY <1>5
  <2>1. ~Token(y) /\ (Stamped(y) => y.stamp = n)
    BY <1>3, <1>4, PassedFacts
  <2>2. e # <<>>
    BY DEF Ran
  <2>3. n = 0
    BY <1>4, <2>2
  <2> QED
    BY <2>1, <2>3 DEF Stamped
<1>8. InOrder'
  <2>1. \A p \in Roles : \A x \in Rest(r, m, p) :
              Stamped(x) /\ x.type = "done" /\ Undone(p, x.id)' => Undone(p, x.id)
    <3> SUFFICES ASSUME NEW p \in Roles, NEW x \in Rest(r, m, p), x.type = "done", Undone(p, x.id)'
                 PROVE  Undone(p, x.id)
      OBVIOUS
    <3>1. x.id \in Calls
      BY <1>5, RestItem DEF Sound
    <3> QED
      BY <1>3, <3>1 DEF Ended
  <2>2. /\ \A p \in Roles : \A y \in Ran(add[p]) : ~Stamped(y)
        /\ \A p \in Roles : \A x \in Rest(r, m, p), y \in Ran(add[p]) :
              Token(y) => x.type # y.type \/ x.id # y.id
    BY <1>7
  <2>3. \A d \in Conns : \A p \in Roles : conn[d][p] = "closed" => conn'[d][p] = "closed"
    BY <1>3 DEF StaysClosed
  <2>4. \A y \in Ran(queue[r]) \ Rest(r, m, r) :
              y.type = "reply" /\ y.stamp > 0 /\ Undone(r, y.id)' => conn'[y.conn][r] = "closed"
    BY <1>3 DEF Ended
  <2>5. got' = got
    BY DEF Passed
  <2> QED
    BY <1>1, <1>3, <1>5, <1>6, <2>1, <2>2, <2>3, <2>4, <2>5, OrderQuiet
<1> QED
  BY <1>4, <1>8, PassedStep
\* A reply of the service that the broker passes on keeps its place.
LEMMA ReplyPassed ==
    ASSUME IInv, NextEvent("broker", "reply"), NEW k \in Requests, AnEvent("broker").id = k,
           AnEvent("broker").conn = call[k].conn, NEW n \in Nat, AnEvent("broker").stamp = n, n > 0,
           Concluding("broker", Next1("broker"), AfterEvent("broker"), k),
           NEW val \in Vals, Passed(AfterEvent("broker"), "broker", k, val, n)
    PROVE  IInv' /\ PortStep
<1> DEFINE x == AnEvent("broker")
           q == AfterEvent("broker")
           m == Next1("broker")
           c == call[k].conn
<1>1. BridgeTypes /\ Itemised /\ InOrder /\ "broker" \in Roles /\ "relay" \in Roles /\ "relay" # "broker" /\ Other("broker") = "relay"
  BY RoleFacts DEF IInv
<1>2. Popped(q, "broker", m) /\ c \in Conns /\ Ended("broker", k) /\ StaysClosed /\ sent' = sent
      /\ \A y \in Ran(queue["broker"]) \ Rest("broker", m, "broker") : y.type \in {"reply", "done"} /\ y.id = k
  BY DEF Concluding, SameEnds, StaysClosed, Roles
<1>3. x \in Ran(queue["broker"]) /\ x.type = "reply" /\ x.high
  BY <1>1, FirstEvent DEF BridgeTypes
<1>4. Stamped(x) /\ x.conn = c /\ x.stamp = n
  BY <1>3 DEF Stamped
<1>5. /\ n \in Nat /\ n <= Len(sent) /\ Older(c, n)
      /\ \A z \in Ran(queue["relay"]) : Stamped(z) /\ z.conn = c => z.stamp < n
  BY <1>1, <1>3, <1>4, OrderFacts
<1>6. \A z \in Rest("broker", m, "broker") : z.high => Before(x, z)
  BY <1>1, LeadsEvents
<1>7. /\ Passed(q, "broker", k, val, n) /\ Concluding("broker", m, q, k) /\ got' = got /\ k \in Calls
      /\ k \notin Callbacks
  BY CallAssumption DEF Passed, Calls
<1> HIDE DEF x, q, m, c
<1>8. \E e \in Seq(Items) :
          Moved("broker", m, Adds(Other("broker"), e)) /\ PassedItems(k, val, n, e) /\ (queue' = q => e = <<>>)
  BY <1>1, <1>2, <1>7, PassedMoved DEF c
<1>9. PICK e \in Seq(Items) : Moved("broker", m, Adds(Other("broker"), e)) /\ PassedItems(k, val, n, e)
  BY <1>8
<1> DEFINE add == Adds("relay", e)
<1>10. /\ Moved("broker", m, add) /\ add["relay"] = e /\ Ran(add["broker"]) = {}
       /\ \A p \in Roles : \A y \in Ran(add[p]) : p = "relay" /\ y \in Ran(e)
  <2>1. Moved("broker", m, add)
    BY <1>1, <1>9
  <2>2. \A p \in Roles : \A y \in Ran(add[p]) : p = "relay" /\ y \in Ran(e)
    BY <1>1, AddsRan
  <2>3. add["relay"] = e
    BY <1>1, AddsSeq
  <2> HIDE DEF add
  <2> QED
    BY <1>1, <2>1, <2>2, <2>3
<1>11. \A p \in Roles : Ordered(add[p])
  <2>1. Ordered(<<>>) /\ Ordered(e)
    BY <1>9 DEF Ordered, PassedItems
  <2> QED
    BY <1>1, <2>1, AddsSeq
<1> HIDE DEF add
<1>12. \A y \in Ran(e) :
           /\ ~Token(y) /\ y.id = k /\ y.conn = c /\ (Stamped(y) => y.stamp = n)
           /\ Stamped(y) /\ y.type = "done" => \E z \in Ran(e) : Announces(z, y)
  <2>1. call[k].conn \in Conns
    BY <1>2 DEF c
  <2> QED
    BY <1>7, <1>9, <2>1, PassedFacts DEF c
<1>13. InOrder'
  <2>1. Sent2' /\ Len(sent) \in Nat /\ Len(sent') = Len(sent)
    <3>1. Sent2 /\ Len(sent) \in Nat
      BY <1>1, OrderParts DEF BridgeTypes
    <3> QED
      BY <1>2, <1>7, <3>1 DEF Sent2
  <2>2. \A d, i : Older(d, i)' <=> Older(d, i)
    BY <1>7 DEF Older
  <2>3. ASSUME NEW p \in Roles, NEW z \in Rest("broker", m, p), NEW y \in Ran(add[p])
        PROVE  Before(z, y)
    <3>1. p = "relay" /\ y \in Ran(e)
      BY <1>10
    <3>2. z \in Ran(queue["relay"]) /\ z \in Items
      BY <1>10, <2>3, <3>1, RestItem
    <3>3. ~Token(y) /\ y.conn = c /\ (Stamped(y) => y.stamp = n)
      BY <1>12, <3>1
    <3>4. Stamped(z) /\ Stamped(y) /\ z.conn = y.conn => z.stamp < y.stamp
      BY <1>5, <3>2, <3>3
    <3>5. z.stamp \in Nat /\ (Stamped(y) => y.stamp \in Nat)
      BY <3>2, <3>3 DEF Items
    <3>6. Stamped(z) /\ Stamped(y) /\ z.conn = y.conn => z.stamp < y.stamp /\ z.stamp <= y.stamp
      BY <3>4, <3>5
    <3>7. ~(z.type = y.type /\ z.type \in {"guest", "call", "callback"} /\ z.id = y.id)
      BY <3>3 DEF Token
    <3> QED
      BY <3>6, <3>7 DEF Before
  <2>4. \A p \in Roles : \A y \in Ran(add[p]) :
              Stamped(y) => y.stamp <= Len(sent') /\ (y.high => Older(y.conn, y.stamp)')
    BY <1>5, <1>10, <1>12, <2>1, <2>2
  <2>5. ASSUME NEW y \in Ran(add["relay"]), NEW z \in Ran(queue'["broker"]),
               Stamped(y), Stamped(z), z.high, y.conn = z.conn
        PROVE  y.stamp < z.stamp
    <3>1. y.stamp = n /\ y.conn = c
      BY <1>10, <1>12, <2>5
    <3>2. z \in Rest("broker", m, "broker") \/ z \in Ran(add["broker"])
      BY <1>1, <1>10, MovedFacts
    <3>3. Before(x, z)
      BY <1>6, <1>10, <2>5, <3>2
    <3> QED
      BY <1>4, <2>5, <3>1, <3>3 DEF Before
  <2>6. \A z \in Ran(queue["relay"]), y \in Ran(add["broker"]) :
              Stamped(z) /\ Stamped(y) /\ y.high /\ z.conn = y.conn => z.stamp < y.stamp
    BY <1>10
  <2>7. \A p \in Roles : \A z \in Ran(add[p]) :
              Stamped(z) /\ z.type = "done" /\ Undone(p, z.id)' => \E y \in Ran(add[p]) : Announces(y, z)
    BY <1>10, <1>12
  <2>8. \A p \in Roles : \A z \in Rest("broker", m, p) :
              Stamped(z) /\ z.type = "done" /\ Undone(p, z.id)' => Undone(p, z.id)
    <3> SUFFICES ASSUME NEW p \in Roles, NEW z \in Rest("broker", m, p), z.type = "done", Undone(p, z.id)'
                 PROVE  Undone(p, z.id)
      OBVIOUS
    <3>1. z.id \in Calls
      BY <1>10, RestItem DEF Sound
    <3> QED
      BY <1>2, <3>1 DEF Ended
  <2>9. /\ \A d \in Conns : \A p \in Roles : conn[d][p] = "closed" => conn'[d][p] = "closed"
        /\ \A y \in Ran(queue["broker"]) \ Rest("broker", m, "broker") :
              y.type = "reply" /\ y.stamp > 0 /\ Undone("broker", y.id)' => conn'[y.conn]["broker"] = "closed" /\ got' = got
    BY <1>2 DEF StaysClosed, Ended
  <2>10. \A p \in Roles : \A z \in Rest("broker", m, p) :
              /\ Stamped(z) /\ (z.high \/ (p = "relay" /\ z.type = "done" /\ Undone(p, z.id)' /\ conn'[z.conn][p] = "closed"))
              /\ Older(z.conn, z.stamp)
              => Older(z.conn, z.stamp)'
    BY <2>2
  <2>11. Len(sent) <= Len(sent') /\ Len(sent') \in Nat
    BY <2>1
  <2>12. \A p \in Roles : \A z \in Rest("broker", m, p), y \in Ran(add[p]) : Before(z, y)
    BY <2>3
  <2>13. \A y \in Ran(add["relay"]), z \in Ran(queue'["broker"]) :
              Stamped(y) /\ Stamped(z) /\ z.high /\ y.conn = z.conn => y.stamp < z.stamp
    BY <2>5
  <2> QED
    BY <1>1, <1>10, <1>11, <2>1, <2>4, <2>6, <2>7, <2>8, <2>9, <2>10, <2>11, <2>12, <2>13, OrderStep
<1>14. PICK r \in Roles : r = "broker"
  BY <1>1
<1>15. /\ Concluding(r, m, q, k) /\ (r = "relay" <=> k \in Callbacks) /\ Passed(q, r, k, val, n)
       /\ Moved(r, m, Adds(Other(r), e))
  BY <1>1, <1>7, <1>9, <1>14
<1> QED
  BY <1>7, <1>9, <1>13, <1>15, PassedStep
\* An answer that goes to the bus of process r.
LEMMA AnswerMade ==
    ASSUME BridgeTypes, NEW q, NEW r \in Roles, NEW k \in Calls, NEW val, NEW n,
           ~(r = "relay" <=> k \in Callbacks), Answer(q, waiting, r, k, val, n)
    PROVE  /\ answers' = Counted(k) /\ queue' = q /\ waiting' = waiting
           /\ k \in Callbacks => got' = got
           /\ k \notin Callbacks /\ call[k].guest \in Guests => got' = Given({call[k].guest}, k, call[k].conn, n)
<1> DEFINE g == call[k].guest
           h == [call |-> k, conn |-> call[k].conn, stamp |-> n]
<1>1. (r = "relay") # Callback(k)
  BY DEF Callback
<1>2. /\ answers' = Counted(k) /\ queue' = q /\ waiting' = waiting
      /\ got' = IF Callback(k) THEN got ELSE [got EXCEPT ![g] = Append(@, h)]
  BY <1>1 DEF Answer, Counted
<1> HIDE DEF h
<1>3. got \in [Guests -> Seq(Heard)]
  BY DEF BridgeTypes
<1>4. g \in Guests => [got EXCEPT ![g] = Append(@, h)] = [i \in Guests |-> IF i \in {g} THEN Append(got[i], h) ELSE got[i]]
  BY <1>3
<1>5. g \in Guests => [got EXCEPT ![g] = Append(@, h)] = Given({g}, k, call[k].conn, n)
  BY <1>4 DEF Given, h
<1> QED
  BY <1>2, <1>5 DEF Callback

\* An answer, where it goes: to the bus or to the peer.
LEMMA AnswerStep ==
    ASSUME IInv, NEW r \in Roles, NEW m, NEW q, NEW k \in Calls, Concluding(r, m, q, k),
           NEW val \in Vals, NEW n \in Nat, Answer(q, waiting, r, k, val, n), k \in Callbacks => n = 0,
           r = "relay" /\ k \in Requests =>
              (n > 0 => n <= Len(sent) /\ Older(call[k].conn, n)) /\ Behind(m, {call[k].guest}, call[k].conn, n),
           r = "broker" /\ k \in Requests /\ n > 0 /\ Passed(q, r, k, val, n) => queue' = q \/ (IInv' /\ PortStep)
    PROVE  IInv' /\ PortStep
<1>1. BridgeTypes /\ Placed /\ Owed /\ (r = "relay" \/ r = "broker") /\ call[k].conn \in Conns
  BY RoleFacts DEF IInv, Concluding
<1>2. (k \in Requests \/ k \in Callbacks) /\ (k \in Requests <=> k \notin Callbacks)
  BY CallAssumption DEF Calls
<1>3. CASE r = "relay" <=> k \in Callbacks
  <2>1. Passed(q, r, k, val, n)
    BY <1>1, <1>3, AnswerPasses
  <2>2. CASE n = 0 \/ queue' = q
    BY <1>3, <2>1, <2>2, AnswerUnplaced
  <2>3. CASE ~(n = 0 \/ queue' = q)
    <3>1. n > 0 /\ r = "broker" /\ k \in Requests
      BY <1>1, <1>2, <1>3, <2>3
    <3> QED
      BY <2>1, <2>3, <3>1
  <2> QED
    BY <2>2, <2>3
<1>4. CASE ~(r = "relay" <=> k \in Callbacks)
  <2>1. /\ answers' = Counted(k) /\ queue' = q /\ waiting' = waiting
        /\ k \in Callbacks => got' = got
        /\ k \notin Callbacks /\ call[k].guest \in Guests => got' = Given({call[k].guest}, k, call[k].conn, n)
    BY <1>1, <1>4, AnswerMade
  <2>2. CASE k \in Callbacks
    <3>1. Concluding("broker", m, q, k) /\ got' = got
      BY <1>1, <1>4, <2>1, <2>2
    <3> QED
      BY <2>1, <2>2, <3>1, CallbackAnswered
  <2>3. CASE k \in Requests
    <3>1. Concluding("relay", m, q, k) /\ k \notin Callbacks
      BY <1>1, <1>2, <1>4, <2>3
    <3>2. call[k].guest \in Guests
      <4>1. CallOk(k) /\ call[k].guest \in Guests \cup {Observer, None}
        BY <1>1, CallParts DEF BridgeTypes
      <4> QED
        BY <1>1, <2>3, <4>1, ConnAssumption DEF CallOk
    <3>3. got' = Given({call[k].guest}, k, call[k].conn, n)
      BY <2>1, <3>1, <3>2
    <3>4. (n > 0 => n <= Len(sent) /\ Older(call[k].conn, n)) /\ Behind(m, {call[k].guest}, call[k].conn, n)
      BY <1>1, <1>2, <1>4, <2>3
    <3> QED
      BY <2>1, <2>3, <3>1, <3>3, <3>4, RequestAnswered
  <2> QED
    BY <1>2, <2>2, <2>3
<1> QED
  BY <1>3, <1>4

LEMMA ReplyVals ==
    ASSUME NEW val \in Vals
    PROVE  Reply(val) \in Vals
BY DEF Reply, Vals

\* A reply that matches no pending call.
LEMMA ReplyUnmatched ==
    ASSUME IInv, NEW r \in Roles, NextEvent(r, "reply"), Still, queue' = AfterEvent(r),
           call' = call, answers' = answers, got' = got, inbox' = inbox, pending' = pending, waiting' = waiting,
           ~(Undone(r, AnEvent(r).id) /\ conn[AnEvent(r).conn][r] = "open")
    PROVE  IInv' /\ PortStep
<1>0. PICK x : x = AnEvent(r)
  OBVIOUS
<1> DEFINE q == AfterEvent(r)
           m == Next1(r)
<1>1. BridgeTypes /\ Placed /\ Owed /\ (r = "relay" \/ r = "broker")
  BY RoleFacts DEF IInv
<1>2. Popped(q, r, m)
  BY <1>1, EventPopped
<1>3. x \in Ran(queue[r]) /\ x.type = "reply"
  BY <1>0, <1>1, FirstEvent DEF BridgeTypes
<1>4. x.id \in Calls /\ x.conn \in Conns /\ call[x.id].conn = x.conn
  BY <1>3, QueueItem DEF Sound, ItemOk
<1>5. Settled(x.conn)
  <2>1. CallOk(x.id)
    BY <1>1, <1>4, CallParts
  <2> QED
    BY <1>4, <2>1, ConnAssumption DEF CallOk
<1>6. Undone(r, x.id)' => conn[x.conn][r] = "closed" /\ x.conn \in Conns
  <2>1. Undone(r, x.id)' <=> Undone(r, x.id)
    BY DEF Undone
  <2>2. conn[x.conn][r] = "open" \/ conn[x.conn][r] = "closed"
    BY <1>1, <1>5 DEF Settled
  <2> QED
    BY <1>0, <1>4, <2>1, <2>2
<1>7. \A add : Moved(r, m, add) => \A y \in Ran(queue[r]) \ Rest(r, m, r) : y = x
  BY <1>0, <1>1, TakenEvent
<1>8. EnvTypes' /\ SameEnds /\ opening' = opening /\ present' = present /\ sent' = sent /\ agents' \subseteq agents
  BY <1>1, StillTypes DEF Still
<1>9. waiting' \in [Roles -> SUBSET Calls] /\ pending' \in [Roles -> SUBSET Entries]
      /\ (\A p \in Roles : waiting'[p] \subseteq waiting[p] /\ pending'[p] \subseteq pending[p]) /\ inbox' \subseteq inbox
  BY <1>1 DEF BridgeTypes
<1> HIDE DEF q, m
<1>10. Moved(r, m, Adds(r, <<>>)) /\ <<>> \in Seq(Items) /\ \A y \in Ran(<<>>) : QuietItem(r, y)
  BY <1>2, KeptMoved DEF q
<1>11. \A y \in Ran(queue[r]) \ Rest(r, m, r) :
          y.type # "left" /\ (y.type = "reply" /\ Undone(r, y.id)' => conn[y.conn][r] = "closed" /\ y.conn \in Conns)
  BY <1>3, <1>6, <1>7, <1>10
<1> QED
  BY <1>8, <1>9, <1>10, <1>11, QuietSame
\* The step of a process that answers a call.
LEMMA Concludes ==
    ASSUME BridgeTypes, NEW r \in Roles, NEW m, NEW q, Popped(q, r, m), NEW k \in Calls, Undone(r, k), Ended(r, k),
           call[k].conn \in Conns, NEW val, conn' = AgentAfter(r, k, val),
           opening' = opening, names' = names, present' = present, budget' = budget,
           owner' = owner, started' = started, agents' = agents, sent' = sent, call' = call, inbox' = inbox,
           \A y \in Ran(queue[r]) \ Rest(r, m, r) : y.type \in {"reply", "done"} /\ y.id = k
    PROVE  Concluding(r, m, q, k)
BY AgentEnds DEF Concluding

\* What a step takes out.
LEMMA TakenItem ==
    ASSUME IInv, NEW r \in Roles
    PROVE  /\ \A type : NextEvent(r, type) =>
                \A y \in Ran(queue[r]) \ Rest(r, Next1(r), r) : y = AnEvent(r)
           /\ \A type : NextSource(r, type) =>
                \A y \in Ran(queue[r]) \ Rest(r, 1, r) : y = Head(queue[r])
<1> DEFINE s == queue[r]
<1>1. s \in Seq(Items) /\ Ordered(s)
  BY DEF IInv, BridgeTypes, InOrder
<1>2. \A m : m \in DOMAIN s => Ran(s) = Others(s, m) \cup {s[m]}
  BY <1>1, Left
<1>3. \A m : Rest(r, m, r) = Others(s, m)
  BY DEF Rest
<1>4. ASSUME NEW type, NextEvent(r, type) PROVE \A y \in Ran(s) \ Rest(r, Next1(r), r) : y = AnEvent(r)
  <2>1. Next1(r) \in DOMAIN s /\ AnEvent(r) = s[Next1(r)]
    BY <1>1, <1>4, FirstEvent
  <2> QED
    BY <1>2, <1>3, <2>1
<1>5. ASSUME NEW type, NextSource(r, type) PROVE \A y \in Ran(s) \ Rest(r, 1, r) : y = Head(s)
  <2>1. 1 \in DOMAIN s /\ Head(s) = s[1]
    BY <1>1, <1>5, FirstSource
  <2> QED
    BY <1>2, <1>3, <2>1
<1> QED
  BY <1>4, <1>5

LEMMA ReplyEventStep ==
    ASSUME IInv, NEW r \in Roles, ReplyEvent(r)
    PROVE  IInv' /\ PortStep
<1>0. PICK x : x = AnEvent(r)
  OBVIOUS
<1> DEFINE q == AfterEvent(r)
           m == Next1(r)
<1>1. BridgeTypes /\ Placed /\ Owed /\ (r = "relay" \/ r = "broker") /\ "relay" \in Roles /\ "broker" \in Roles
  BY RoleFacts DEF IInv
<1>2. /\ NextEvent(r, "reply") /\ call' = call /\ inbox' = inbox
      /\ opening' = opening /\ names' = names /\ present' = present /\ budget' = budget
      /\ owner' = owner /\ started' = started /\ agents' = agents /\ sent' = sent
  BY DEF ReplyEvent, serviceVars
<1>3. CASE ~(Undone(r, x.id) /\ conn[x.conn][r] = "open")
  <2>1. queue' = q /\ pending' = pending /\ conn' = conn /\ waiting' = waiting /\ answers' = answers /\ got' = got
    BY <1>0, <1>3 DEF ReplyEvent, Undone
  <2>2. Still
    BY <1>2, <2>1 DEF Still
  <2> QED
    BY <1>0, <1>2, <1>3, <2>1, <2>2, ReplyUnmatched
<1>4. CASE Undone(r, x.id) /\ conn[x.conn][r] = "open"
  <2>1. /\ pending' = [pending EXCEPT ![r] = DeliverReply(r, x.id)]
        /\ conn' = AgentAfter(r, x.id, x.val)
        /\ Answer(q, waiting, r, x.id, Reply(x.val), x.stamp)
    BY <1>0, <1>4 DEF ReplyEvent, Undone
  <2>2. x \in Ran(queue[r]) /\ x.type = "reply" /\ x.high
    BY <1>0, <1>1, <1>2, FirstEvent DEF BridgeTypes
  <2>3. Sound(x) /\ ItemOk(r, x) /\ x \in Items
    BY <2>2, QueueItem
  <2>4. PICK k \in Calls, n \in Nat, val \in Vals, c \in Conns : k = x.id /\ n = x.stamp /\ val = Reply(x.val) /\ c = x.conn
    <3>1. Reply(x.val) \in Vals
      BY <2>2, <2>3, ReplyVals DEF Sound, Vals
    <3> QED
      BY <2>2, <2>3, <3>1 DEF Sound, Items
  <2>5. call[k].conn = c /\ (k \in Callbacks => n = 0)
    BY <2>2, <2>3, <2>4 DEF Sound, ItemOk
  <2>6. \A y \in Ran(queue[r]) \ Rest(r, m, r) : y = x
    BY <1>0, <1>2, TakenItem
  <2>7. Popped(q, r, m)
    BY <1>1, <1>2, EventPopped
  <2>8. \A z \in Rest(r, m, r) : z.high => Before(x, z)
    BY <1>0, <1>2, LeadsEvents
  <2>9. n > 0 =>
         /\ Stamped(x) /\ n <= Len(sent) /\ Older(c, n)
         /\ r = "relay" => \A z \in Ran(queue["broker"]) : Stamped(z) /\ z.high /\ z.conn = c => n < z.stamp
    <3>1. n > 0 => Stamped(x)
      BY <2>2, <2>4 DEF Stamped
    <3> QED
      BY <2>2, <2>4, <3>1, OrderFacts
  <2>15. q = AfterEvent(r) /\ m = Next1(r)
    OBVIOUS
  <2> HIDE DEF q, m
  <2>10. Ended(r, k)
    BY <1>1, <2>1, <2>4, DeliverEnds
  <2>11. Concluding(r, m, q, k)
    <3>1. \A y \in Ran(queue[r]) \ Rest(r, m, r) : y.type \in {"reply", "done"} /\ y.id = k
      BY <2>2, <2>4, <2>6
    <3>2. Undone(r, k) /\ conn' = AgentAfter(r, k, x.val) /\ call[k].conn \in Conns
      BY <1>4, <2>1, <2>4, <2>5
    <3> QED
      BY <1>1, <1>2, <2>7, <2>10, <3>1, <3>2, Concludes
  <2>12. r = "relay" /\ k \in Requests =>
           (n > 0 => n <= Len(sent) /\ Older(call[k].conn, n)) /\ Behind(m, {call[k].guest}, call[k].conn, n)
    <3> SUFFICES ASSUME r = "relay", k \in Requests PROVE Behind(m, {call[k].guest}, c, n)
      BY <2>5, <2>9
    <3>1. ASSUME NEW p \in Roles, NEW z \in Rest("relay", m, p), Stamped(z), z.conn = c,
                 z.high \/ (p = "relay" /\ z.type = "done" /\ Undone(p, z.id)' /\ conn'[z.conn][p] = "closed")
          PROVE  n < z.stamp
      <4>1. z \in Ran(queue[p]) /\ z \in Items
        <5>1. p = "broker" => z \in Ran(queue[p])
          BY <3>1 DEF Rest, Others, Ran
        <5>2. p = "relay" => z \in Ran(queue[p])
          BY <3>1 DEF Rest, Others, Ran
        <5>3. z \in Ran(queue[p])
          BY <5>1, <5>2, RoleFacts
        <5> QED
          BY <5>3, QueueItem
      <4>2. z.stamp \in Nat /\ z.stamp > 0
        BY <3>1, <4>1 DEF Items, Stamped
      <4>3. z.high
        <5>1. SameEnds
          BY <2>11 DEF Concluding
        <5>2. conn'[c].relay = "open"
          BY <1>4, <2>4, <5>1 DEF SameEnds
        <5> QED
          BY <3>1, <5>2
      <4>4. CASE n = 0
        BY <4>2, <4>4
      <4>5. CASE n > 0 /\ p = "broker"
        BY <2>9, <3>1, <4>1, <4>3, <4>5
      <4>6. CASE n > 0 /\ p = "relay"
        <5>1. Before(x, z) /\ Stamped(x)
          BY <2>8, <2>9, <3>1, <4>3, <4>6
        <5> QED
          BY <2>4, <3>1, <4>3, <5>1 DEF Before
      <4> QED
        BY <4>4, <4>5, <4>6, RoleFacts
    <3>2. \A y \in Ran(queue["relay"]) \ Rest("relay", m, "relay") : y.type = "reply" => ~Undone("relay", y.id)'
      BY <2>4, <2>6, <2>10 DEF Ended
    <3> QED
      BY <3>1, <3>2 DEF Behind
  <2>13. r = "broker" /\ k \in Requests /\ n > 0 /\ Passed(q, r, k, val, n) => queue' = q \/ (IInv' /\ PortStep)
    <3> SUFFICES ASSUME r = "broker", k \in Requests, n > 0, Passed(q, r, k, val, n) PROVE IInv' /\ PortStep
      OBVIOUS
    <3>1. /\ NextEvent("broker", "reply") /\ AnEvent("broker").id = k /\ AnEvent("broker").conn = call[k].conn
          /\ AnEvent("broker").stamp = n
      BY <1>0, <1>2, <2>4, <2>5
    <3>2. Concluding("broker", Next1("broker"), AfterEvent("broker"), k) /\ Passed(AfterEvent("broker"), "broker", k, val, n)
      BY <2>11, <2>15
    <3> QED
      BY <3>1, <3>2, ReplyPassed
  <2>14. Answer(q, waiting, r, k, val, n)
    BY <2>1, <2>4
  <2> QED
    BY <2>5, <2>11, <2>12, <2>13, <2>14, AnswerStep
<1> QED
  BY <1>3, <1>4
\* A completion with a place that no reply announces: the connection is closed.
LEMMA Unannounced ==
    ASSUME IInv, NEW r \in Roles, NEW type, NextSource(r, type), NEW x, x = Head(queue[r]), x.type = "done",
           x.stamp > 0, Undone(r, x.id)
    PROVE  conn[x.conn][r] = "closed" /\ (r = "relay" => Older(x.conn, x.stamp))
<1>1. BridgeTypes /\ Ends
  BY OrderParts DEF IInv
<1>2. x \in Ran(queue[r]) /\ ~x.high /\ Stamped(x)
  BY <1>1, FirstSource DEF BridgeTypes, Stamped
<1>3. ItemOk(r, x) /\ Sound(x)
  BY <1>2, QueueItem
<1>4. ASSUME NEW y \in Ran(queue[r]), Announces(y, x)
      PROVE  FALSE
  <2>1. y.type = "reply" /\ y.id = x.id /\ y.stamp = x.stamp /\ Stamped(y)
    BY <1>2, <1>4 DEF Announces, Stamped
  <2>2. ItemOk(r, y) /\ Sound(y) /\ y.stamp \in Nat
    BY QueueItem DEF Items
  <2>3. y.conn = x.conn /\ y.high
    BY <1>2, <1>3, <2>1, <2>2 DEF ItemOk, Sound
  <2>4. y \in Rest(r, 1, r)
    BY <2>1, TakenItem
  <2>5. Before(x, y)
    BY <2>4, LeadsSources
  <2>6. x.stamp < y.stamp
    BY <1>2, <2>1, <2>3, <2>5 DEF Before
  <2> QED
    BY <2>1, <2>2, <2>6
<1>5. Announced(r, x)
  BY <1>1, <1>2 DEF Ends
<1> QED
  BY <1>4, <1>5 DEF Announced

LEMMA ForwardFinishedStep ==
    ASSUME IInv, NEW r \in Roles, ForwardFinished(r)
    PROVE  IInv' /\ PortStep
<1>0. PICK x : x = Head(queue[r])
  OBVIOUS
<1> DEFINE q == AfterSource(r)
<1>1. BridgeTypes /\ Placed /\ Owed /\ (r = "relay" \/ r = "broker") /\ "relay" \in Roles /\ "broker" \in Roles
  BY RoleFacts DEF IInv
<1>2. /\ NextSource(r, "done") /\ call' = call /\ inbox' = inbox
      /\ opening' = opening /\ names' = names /\ present' = present /\ budget' = budget
      /\ owner' = owner /\ started' = started /\ agents' = agents /\ sent' = sent
  BY DEF ForwardFinished, serviceVars
<1>3. x \in Ran(queue[r]) /\ x.type = "done" /\ ~x.high
  BY <1>0, <1>1, <1>2, FirstSource DEF BridgeTypes
<1>4. Sound(x) /\ ItemOk(r, x) /\ x \in Items
  BY <1>3, QueueItem
<1>5. PICK k \in Calls, n \in Nat, val \in Vals : k = x.id /\ n = x.stamp /\ val = Reply(x.val)
  <2>1. Reply(x.val) \in Vals
    BY <1>3, <1>4, ReplyVals DEF Sound, Vals
  <2> QED
    BY <1>3, <1>4, <2>1 DEF Sound, Items
<1>6. call[k].conn \in Conns /\ (n > 0 => call[k].conn = x.conn) /\ (k \in Callbacks => n = 0)
  <2>1. call[k].conn # None /\ (n > 0 => call[k].conn = x.conn)
    BY <1>3, <1>4, <1>5 DEF ItemOk
  <2>2. call[k].conn \in Conns \cup {None}
    BY <1>1 DEF BridgeTypes
  <2>3. k \in Callbacks => n = 0
    BY <1>3, <1>4, <1>5 DEF Sound
  <2> QED
    BY <2>1, <2>2, <2>3
<1>7. pending' = [pending EXCEPT ![r] = {p \in @ : p.id # k}]
  BY <1>0, <1>5 DEF ForwardFinished
<1>8. Ended(r, k) /\ \A p \in Roles : pending'[p] \subseteq pending[p]
  BY <1>1, <1>7, FreeEnds
<1>9. PICK m : m = 1
  OBVIOUS
<1>10. Popped(q, r, m)
  BY <1>1, <1>2, <1>9, SourcePopped
<1>11. \A y \in Ran(queue[r]) \ Rest(r, m, r) : y = x
  BY <1>0, <1>2, <1>9, TakenItem
<1>12. \A z \in Rest(r, m, r) : Before(x, z)
  BY <1>0, <1>2, <1>9, LeadsSources
<1>13. CASE ~Undone(r, k)
  <2>1. queue' = q /\ conn' = conn /\ waiting' = waiting /\ answers' = answers /\ got' = got
    BY <1>0, <1>5, <1>13 DEF ForwardFinished, Undelivered, Undone
  <2>2. Still
    BY <1>2, <2>1 DEF Still
  <2>3. EnvTypes' /\ SameEnds /\ opening' = opening /\ present' = present /\ sent' = sent /\ agents' \subseteq agents
    BY <1>1, <2>2, StillTypes DEF Still
  <2>4. waiting' \in [Roles -> SUBSET Calls] /\ pending' \in [Roles -> SUBSET Entries]
        /\ (\A p \in Roles : waiting'[p] \subseteq waiting[p] /\ pending'[p] \subseteq pending[p]) /\ inbox' \subseteq inbox
    BY <1>1, <1>2, <1>8, <2>1 DEF BridgeTypes, Ended
  <2> HIDE DEF q
  <2>5. Moved(r, m, Adds(r, <<>>)) /\ <<>> \in Seq(Items) /\ \A y \in Ran(<<>>) : QuietItem(r, y)
    BY <1>10, <2>1, KeptMoved
  <2>6. \A y \in Ran(queue[r]) \ Rest(r, m, r) :
          y.type # "left" /\ (y.type = "reply" /\ Undone(r, y.id)' => conn[y.conn][r] = "closed" /\ y.conn \in Conns)
    BY <1>3, <1>11
  <2> QED
    BY <1>2, <2>1, <2>3, <2>4, <2>5, <2>6, QuietSame
<1>14. CASE Undone(r, k)
  <2>1. conn' = AgentAfter(r, k, x.val) /\ Answer(q, waiting, r, k, val, n)
    BY <1>0, <1>5, <1>14 DEF ForwardFinished, Undelivered, Undone
  <2>2. n > 0 =>
         /\ Stamped(x) /\ n <= Len(sent) /\ conn[x.conn][r] = "closed"
         /\ r = "relay" => Older(x.conn, n) /\ \A z \in Ran(queue["broker"]) : Stamped(z) /\ z.high /\ z.conn = x.conn => n < z.stamp
    <3> SUFFICES ASSUME n > 0
                 PROVE  /\ Stamped(x) /\ n <= Len(sent) /\ conn[x.conn][r] = "closed"
                        /\ r = "relay" => Older(x.conn, n) /\ \A z \in Ran(queue["broker"]) : Stamped(z) /\ z.high /\ z.conn = x.conn => n < z.stamp
      OBVIOUS
    <3>1. Stamped(x) /\ x.stamp > 0
      BY <1>3, <1>5 DEF Stamped
    <3>2. conn[x.conn][r] = "closed" /\ (r = "relay" => Older(x.conn, x.stamp))
      BY <1>0, <1>2, <1>3, <1>5, <1>14, <3>1, Unannounced
    <3>3. /\ x.stamp <= Len(sent)
          /\ r = "relay" => \A z \in Ran(queue["broker"]) : Stamped(z) /\ z.high /\ z.conn = x.conn => x.stamp < z.stamp
      BY <1>3, <3>1, OrderFacts
    <3> QED
      BY <1>5, <3>1, <3>2, <3>3
  <2> HIDE DEF q
  <2>3. Concluding(r, m, q, k)
    <3>1. \A y \in Ran(queue[r]) \ Rest(r, m, r) : y.type \in {"reply", "done"} /\ y.id = k
      BY <1>3, <1>5, <1>11
    <3> QED
      BY <1>1, <1>2, <1>6, <1>8, <1>10, <1>14, <2>1, <3>1, Concludes
  <2>4. r = "relay" /\ k \in Requests =>
           (n > 0 => n <= Len(sent) /\ Older(call[k].conn, n)) /\ Behind(m, {call[k].guest}, call[k].conn, n)
    <3> SUFFICES ASSUME r = "relay", k \in Requests PROVE Behind(m, {call[k].guest}, call[k].conn, n)
      BY <1>6, <2>2
    <3>1. ASSUME NEW p \in Roles, NEW z \in Rest("relay", m, p), Stamped(z), z.conn = call[k].conn
          PROVE  z.high \/ p = "relay" => n < z.stamp
      <4> SUFFICES ASSUME z.high \/ p = "relay" PROVE n < z.stamp
        OBVIOUS
      <4>1. z \in Ran(queue[p]) /\ z \in Items
        <5>1. p = "broker" => z \in Ran(queue[p])
          BY <3>1 DEF Rest, Others, Ran
        <5>2. p = "relay" => z \in Ran(queue[p])
          BY <3>1 DEF Rest, Others, Ran
        <5>3. z \in Ran(queue[p])
          BY <5>1, <5>2, RoleFacts
        <5> QED
          BY <5>3, QueueItem
      <4>2. z.stamp \in Nat /\ z.stamp > 0
        BY <3>1, <4>1 DEF Items, Stamped
      <4>4. CASE n = 0
        BY <4>2, <4>4
      <4>5. CASE n > 0 /\ p = "broker"
        BY <1>6, <2>2, <3>1, <4>1, <4>5
      <4>6. CASE n > 0 /\ p = "relay"
        <5>1. Before(x, z) /\ Stamped(x) /\ x.conn = z.conn
          BY <1>6, <1>12, <2>2, <3>1, <4>6
        <5> QED
          BY <1>3, <1>5, <3>1, <5>1 DEF Before
      <4> QED
        BY <4>4, <4>5, <4>6, RoleFacts
    <3>2. \A y \in Ran(queue["relay"]) \ Rest("relay", m, "relay") : y.type = "reply" => ~Undone("relay", y.id)'
      BY <1>3, <1>11
    <3> QED
      BY <3>1, <3>2 DEF Behind
  <2>5. r = "broker" /\ k \in Requests /\ n > 0 => queue' = q
    <3> SUFFICES ASSUME r = "broker", k \in Requests, n > 0 PROVE queue' = q
      OBVIOUS
    <3>1. ~((r = "relay") # Callback(k))
      BY CallAssumption DEF Callback
    <3>2. ~Open(call[k].conn)
      <4>1. conn[call[k].conn].broker = "closed"
        BY <1>6, <2>2
      <4> QED
        BY <4>1 DEF Open
    <3> QED
      BY <2>1, <3>1, <3>2 DEF Answer
  <2>6. r = "broker" /\ k \in Requests /\ n > 0 /\ Passed(q, r, k, val, n) => queue' = q \/ (IInv' /\ PortStep)
    BY <2>5
  <2> QED
    BY <1>6, <2>1, <2>3, <2>4, <2>6, AnswerStep
<1> QED
  BY <1>13, <1>14
-----------------------------------------------------------------------------
(* The theorems.                                                            *)

LEMMA InitInv == Init => IInv /\ Port!PortInit
<1> SUFFICES ASSUME Init PROVE IInv /\ Port!PortInit
  OBVIOUS
<1>1. \A r \in Roles : queue[r] = <<>> /\ Ran(queue[r]) = {} /\ pending[r] = {} /\ waiting[r] = {}
  BY DEF Init, Ran
<1>2. BridgeTypes
  <2>1. NoClient \in [name : Guests \cup {Observer, None}, relay : {"none", "opening", "open", "closed"},
                      broker : {"none", "peer", "open", "closed"}, watch : BOOLEAN, owner : Nat, agent : BOOLEAN]
    BY DEF NoClient
  <2>2. budget \in Budget
    BY BudgetAssumption DEF Init
  <2>3. [guest |-> None, conn |-> None, kind |-> "callback"] \in
           [guest : Guests \cup {Observer, None}, conn : Conns \cup {None}, kind : Kinds \cup {"callback"}]
    OBVIOUS
  <2>4. <<>> \in Seq(Items) /\ <<>> \in Seq(SUBSET Conns) /\ <<>> \in Seq(Heard)
    OBVIOUS
  <2> QED
    BY <2>1, <2>2, <2>3, <2>4 DEF BridgeTypes, Init
<1>3. Clients
  BY <1>1 DEF Clients, Init, NoClient, Alive, Settled
<1>4. Placed /\ Owed
  <2>1. \A k \in Calls : call[k].guest = None /\ call[k].conn = None /\ answers[k] = 0
    BY DEF Init
  <2>2. inbox = {} /\ agents = {} /\ opening = None
    BY DEF Init
  <2>3. \A r \in Roles, k \in Calls : k \notin waiting[r] /\ ~Pends(r, k) /\ ~Undone(r, k)
    BY <1>1 DEF Pends, Undone
  <2>4. \A k \in Requests : call[k].guest # Observer
    BY <2>1, NameAssumption DEF Calls
  <2>5. Placed
    BY <2>1, <2>2, <2>3, <2>4 DEF Placed
  <2>6. Owed
    BY <2>1, <2>2 DEF Owed, Calls
  <2> QED
    BY <2>5, <2>6
<1>5. Itemised
  BY <1>1 DEF Itemised
<1>6. InOrder
  <2>1. Ordered(<<>>) /\ Ran(<<>>) = {}
    BY DEF Ordered, Ran
  <2>2. \A g \in Guests : Ran(got[g]) = {}
    BY <2>1 DEF Init
  <2>3. Ran(queue["relay"]) = {}
    BY <1>1, RoleFacts
  <2> QED
    BY <1>1, <2>1, <2>2, <2>3 DEF InOrder
<1>7. Port!PortInit
  <2>1. {k \in Calls : call[k].guest # None} = {}
    BY DEF Init
  <2>2. Len(sent) = 0
    BY DEF Init
  <2> QED
    BY <2>1, <2>2 DEF Port!PortInit, Init
<1> QED
  BY <1>2, <1>3, <1>4, <1>5, <1>6, <1>7 DEF IInv

LEMMA StillInv ==
    ASSUME IInv, UNCHANGED vars
    PROVE  IInv' /\ PortStep
<1>1. /\ queue' = queue /\ conn' = conn /\ opening' = opening /\ names' = names /\ present' = present /\ call' = call
      /\ pending' = pending /\ waiting' = waiting /\ inbox' = inbox /\ owner' = owner /\ started' = started
      /\ sent' = sent /\ agents' = agents /\ answers' = answers /\ got' = got /\ budget' = budget
  BY DEF vars
<1>2. BridgeTypes' /\ Clients' /\ Placed' /\ Owed'
  BY <1>1 DEF IInv, BridgeTypes, Clients, Alive, Settled, Noticed, Placed, Owed, Unsent, Undone, Pends
<1>3. Itemised'
  BY <1>1 DEF IInv, Itemised, Unsent, Pends
<1>4. InOrder'
  BY <1>1 DEF IInv, InOrder, Older, Undone
<1>5. PortStep
  BY <1>1, PortQuiet
<1> QED
  BY <1>2, <1>3, <1>4, <1>5 DEF IInv

LEMMA StepInv ==
    ASSUME IInv, [Next]_vars
    PROVE  IInv' /\ PortStep
<1>1. CASE Relay
  BY <1>1, HandleGuestCallStep, RelayOpenedStep, GuestNamesStep, ForwardPeerSignalStep, ReownStep DEF Relay
<1>2. CASE Broker
  BY <1>2, OpenClientStep, HandleBrokerCallStep, OwnerChangedStep, ForwardHostSignalStep DEF Broker
<1>3. CASE Bus
  BY <1>3, WatchAnswersStep, BusAnswersStep, ServiceStartsStep DEF Bus
<1>4. CASE Environment
  <2>1. CASE \E g \in Guests, k \in Requests : GuestCalls(g, k)
    BY <2>1, GuestCallsStep
  <2>2. CASE \E g \in Guests : GuestLeaves(g)
    BY <2>2, GuestLeavesStep
  <2>3. CASE \E c \in Conns : HostDrops(c)
    BY <2>3, HostDropsStep
  <2>4. CASE \E k \in Calls : ServiceAnswers(k) \/ AgentAnswers(k)
    BY <2>4, ServiceAnswersStep, AgentAnswersStep
  <2>5. CASE \E k \in Calls, c \in Conns : ServiceCallsBack(k, c)
    BY <2>5, ServiceCallsBackStep
  <2>6. CASE ServiceSignals \/ ServiceStops
    BY <2>6, ServiceSignalsStep, ServiceStopsStep
  <2> QED
    BY <1>4, <2>1, <2>2, <2>3, <2>4, <2>5, <2>6 DEF Environment
<1>5. CASE RelayOpenFails \/ ObserverTick
  BY <1>5, RelayOpenFailsStep, ObserverTickStep
<1>6. ASSUME NEW r \in Roles, Loop(r)
      PROVE  IInv' /\ PortStep
  BY <1>6, ReplyEventStep, ForwardFinishedStep, ConnectionClosedStep, HandleAgentCallbackStep DEF Loop
<1>7. CASE \E r \in Roles, k \in Calls : Timeout(r, k)
  BY <1>7, TimeoutStep
<1>8. CASE UNCHANGED vars
  BY <1>8, StillInv
<1> QED
  BY <1>1, <1>2, <1>3, <1>4, <1>5, <1>6, <1>7, <1>8 DEF Next

LEMMA Bridged == Spec => []IInv /\ [][PortStep]_vars
<1>1. Init => IInv
  BY InitInv
<1>2. IInv /\ [Next]_vars => IInv'
  BY StepInv
<1>3. IInv /\ [Next]_vars => PortStep
  BY StepInv
<1> QED
  BY <1>1, <1>2, <1>3, PTL DEF Spec

\* A client that the relay still keeps for a guest that has left is about to be
\* closed: the bus's notice of the departure is in the relay's queue
\* (spaces_system_broker.c:670, guest_names).
THEOREM LeftClientsClosed == Spec => []NoClientOutlivesGuest
<1>1. IInv => NoClientOutlivesGuest
  <2> SUFFICES ASSUME IInv, NEW g \in Guests \ present, NEW c \in ClientsOf(g)
               PROVE  \E i \in DOMAIN queue["relay"] : queue["relay"][i].val = g
    BY DEF NoClientOutlivesGuest
  <2>1. c \in Conns /\ conn[c].name = g /\ Alive(c)
    BY DEF ClientsOf, Alive
  <2>2. Noticed(g)
    BY <2>1 DEF IInv, Clients
  <2> QED
    BY <2>2 DEF Noticed, Ran
<1> QED
  BY <1>1, Bridged, PTL

\* The bridge implements SystemPort: a call is answered at most once, whichever
\* of its reply, its timeout, a refusal, a full queue or the end of the
\* connection comes first (spaces_system_broker.c:564, deliver_reply), and what
\* a guest hears over a connection keeps the service's order
\* (spaces_system_broker.c:632, queue_message).
THEOREM BridgeIsPort == Spec => ImplementsPort
<1>1. Init => Port!PortInit
  BY InitInv
<1>2. IInv /\ [Next]_vars => [Port!PortNext]_(Port!portVars)
  BY StepInv DEF PortStep
<1>3. Spec => []IInv
  BY Bridged, PTL
<1>4. Spec => Init /\ [][Next]_vars
  BY PTL DEF Spec
<1> QED
  BY <1>1, <1>2, <1>3, <1>4, PTL DEF ImplementsPort, Port!PortSpec
=============================================================================
