------------------------- MODULE PortalRouterProofs --------------------------
(***************************************************************************)
(* Proofs about PortalMirrors and PortalRequests, the two halves of the    *)
(* portal router of a space, for any finite bus, any applications, tokens, *)
(* tries and scenarios: mirrors follow the owners of their names, staged   *)
(* files are accounted for, the tables of requests and sessions agree, an  *)
(* application hears one answer at most, and what was opened at the host is*)
(* within the router's reach.                                              *)
(***************************************************************************)
EXTENDS PortalMirrors, PortalRequests, FiniteSetTheorems, SequenceTheorems, TLAPS

-----------------------------------------------------------------------------
(* Mirrored services.                                                       *)

-----------------------------------------------------------------------------
(* The inductive invariant.                                                 *)

Keys == {PlayerKey(n) : n \in Players}
        \cup {ItemKey(n, q) : n \in Items \cup Connections, q \in {"default", "own"}}

Mirror == [owner : Connections, paths : SUBSET {"player", "default", "own", MenuPath},
           artwork : SUBSET Nat]

Change == [type : {"changed"}, name : Names, old : Connections \cup {NoOwner},
           new : Connections \cup {NoOwner}]
Registration == [type : {"register"}, sender : Connections, service : Items \cup Connections,
                 path : {"default", "own"}]

StatusItems == [owner : Connections, key : Keys]
Timers == [name : Players, remaining : Nat]

BusTypeOK ==
    /\ owner \in [Names -> Connections \cup {NoOwner}]
    /\ inbox \in Seq(Change \cup Registration)
    /\ phase \in {"starting", "subscribed", "running"}
    /\ left \in [names : SUBSET (Players \cup Items), changes : Nat, registers : Nat,
                 staged : Nat, mishaps : Nat]

LoopTypeOK ==
    /\ creating \in {Idle}
                    \cup [step : {"created"}, key : Keys, remaining : Nat]
                    \cup [step : {"owned"}, key : Keys, remaining : Nat, owner : Connections]
    /\ pending \in Seq(StatusItems)
    /\ retries \in Seq(Timers)

TableTypeOK ==
    /\ DOMAIN mirrors \subseteq Keys
    /\ mirrors \in [DOMAIN mirrors -> Mirror]

\* Before main has subscribed it has made nothing.
StartsEmpty == phase = "starting" => mirrors = <<>> /\ creating = Idle

\* The names and connections of which the portal may believe that the one is
\* owned by the other: it is, or the signal that it no longer is is queued.
Standing ==
    {p \in Names \X Connections :
        \/ owner[p[1]] = p[2]
        \/ \E i \in DOMAIN inbox :
              inbox[i].type = "changed" /\ inbox[i].name = p[1] /\ inbox[i].old = p[2]}

\* This includes the owner that create_mirror has read: nothing is taken from
\* the queue until the mirror is in the table.
CreatingStands ==
    creating.step = "owned" => <<creating.key.service, creating.owner>> \in Standing

\* Only an object that has no mirror gets one.
CreatingIsNew == creating # Idle => creating.key \notin DOMAIN mirrors

\* Files are numbered downwards, so the next one is new.
FilesAreOld == files \in SUBSET Nat /\ \A f \in files : f > left.staged

\* A file is the artwork of one mirror, and a file of a call that timed out is
\* never asked to be removed.
ArtworkIsOwn ==
    /\ \A j, k \in DOMAIN mirrors : j # k => mirrors[j].artwork \cap mirrors[k].artwork = {}
    /\ removals \cap lost = {}

MirrorTypes == BusTypeOK /\ LoopTypeOK /\ TableTypeOK
BusInv == StartsEmpty /\ CreatingStands /\ CreatingIsNew /\ MirrorsOwned
ArtInv == FilesAreOld /\ ArtworkIsOwn /\ StagedAccounted

MirrorInv == MirrorTypes /\ BusInv /\ ArtInv

-----------------------------------------------------------------------------
(* Facts about the operators.                                               *)

\* SetToSeq lists a finite set.
LEMMA Listed ==
    ASSUME NEW S, IsFiniteSet(S)
    PROVE  /\ SetToSeq(S) \in Seq(S)
           /\ \A x \in S : \E i \in DOMAIN SetToSeq(S) : SetToSeq(S)[i] = x
<1>. DEFINE n == Cardinality(S)
            f == SetToSeq(S)
<1>1. n \in Nat /\ ExistsBijection(1..n, S)
  BY FS_CardinalityType
<1>2. \E g \in [1..n -> S] : IsInjective(g)
  BY <1>1 DEF ExistsBijection, Bijection, Injection, IsInjective
<1>3. f \in [1..n -> S] /\ IsInjective(f)
  BY <1>2 DEF SetToSeq
<1>4. f \in Injection(1..n, S)
  BY <1>3 DEF Injection, IsInjective
<1>5. Cardinality(1..n) = n
  BY <1>1, FS_Interval
<1>6. f \in Surjection(1..n, S)
  BY <1>4, <1>5, FS_Injection
<1>. QED
  BY <1>1, <1>3, <1>6 DEF Surjection

LEMMA KeyFacts ==
    /\ \A n \in Players : PlayerKey(n) \in Keys
    /\ \A n \in Items \cup Connections, q \in {"default", "own"} : ItemKey(n, q) \in Keys
    /\ \A k \in Keys : k.service \in Names /\ k.path \in {"player", "default", "own"}
<1>1. \A n \in Players : PlayerKey(n) \in Keys
  BY DEF Keys
<1>2. \A n \in Items \cup Connections, q \in {"default", "own"} : ItemKey(n, q) \in Keys
  BY DEF Keys
<1>3. ASSUME NEW k \in Keys
      PROVE  k.service \in Names /\ k.path \in {"player", "default", "own"}
  <2>1. CASE \E n \in Players : k = PlayerKey(n)
    BY <2>1 DEF PlayerKey, Names
  <2>2. CASE \E n \in Items \cup Connections, q \in {"default", "own"} : k = ItemKey(n, q)
    BY <2>2 DEF ItemKey, Names
  <2>. QED
    BY <2>1, <2>2 DEF Keys
<1>. QED
  BY <1>1, <1>2, <1>3

\* What a scenario pays for leaves the names it is about alone.
LEMMA Spends ==
    ASSUME BusTypeOK, NEW kind \in {"changes", "registers", "staged", "mishaps"}, Spend(kind)
    PROVE  /\ left' \in [names : SUBSET (Players \cup Items), changes : Nat, registers : Nat,
                         staged : Nat, mishaps : Nat]
           /\ kind # "staged" => left'.staged = left.staged
           /\ kind = "staged" => left'.staged = left.staged - 1 /\ left.staged > 0
BY DEF BusTypeOK, Spend

LEMMA OwnedIsStanding ==
    ASSUME NEW k \in Keys, NEW c \in Connections, owner[k.service] = c
    PROVE  <<k.service, c>> \in Standing
BY KeyFacts DEF Standing

LEMMA MirrorsStand ==
    ASSUME TableTypeOK
    PROVE  MirrorsOwned <=> \A k \in DOMAIN mirrors : <<k.service, mirrors[k].owner>> \in Standing
<1>1. \A k \in DOMAIN mirrors : k.service \in Names /\ mirrors[k].owner \in Connections
  BY KeyFacts DEF TableTypeOK, Mirror
<1>. QED
  BY <1>1 DEF MirrorsOwned, Standing

LEMMA MirrorInitInv == MirrorInit => MirrorInv
<1>. SUFFICES ASSUME MirrorInit PROVE MirrorInv
  OBVIOUS
<1>1. MirrorTypes
  BY BudgetAssumption, EmptySeq
  DEF MirrorInit, MirrorTypes, BusTypeOK, LoopTypeOK, TableTypeOK, Idle
<1>2. DOMAIN mirrors = {}
  BY DEF MirrorInit
<1>3. BusInv
  BY <1>2 DEF MirrorInit, BusInv, StartsEmpty, CreatingStands, CreatingIsNew, MirrorsOwned, Idle
<1>4. ArtInv
  BY <1>2 DEF MirrorInit, ArtInv, FilesAreOld, ArtworkIsOwn, StagedAccounted, Artwork
<1>. QED
  BY <1>1, <1>3, <1>4 DEF MirrorInv

-----------------------------------------------------------------------------
(* Staged files.                                                            *)

\* Steps that leave the files and the mirrors alone.
LEMMA StillStaged ==
    ASSUME ArtInv, UNCHANGED artVars, mirrors' = mirrors, left'.staged = left.staged
    PROVE  ArtInv'
BY DEF ArtInv, FilesAreOld, ArtworkIsOwn, StagedAccounted, Artwork, artVars

\* mirror_free, for any mirrors.
LEMMA FreeStaged ==
    ASSUME TableTypeOK, ArtInv, NEW keys \in SUBSET DOMAIN mirrors, FreeMirrors(keys),
           left'.staged = left.staged
    PROVE  ArtInv' /\ TableTypeOK' /\ DOMAIN mirrors' = DOMAIN mirrors \ keys
           /\ \A k \in DOMAIN mirrors' : mirrors'[k] = mirrors[k]
<1>1. /\ DOMAIN mirrors' = DOMAIN mirrors \ keys
      /\ \A k \in DOMAIN mirrors' : mirrors'[k] = mirrors[k]
      /\ files' = files /\ lost' = lost /\ removals' = removals \cup Artwork(keys)
  BY DEF FreeMirrors, Removed
<1>2. TableTypeOK'
  BY <1>1 DEF TableTypeOK, FreeMirrors
<1>3. Artwork(DOMAIN mirrors) = Artwork(keys) \cup Artwork(DOMAIN mirrors)'
  BY <1>1 DEF Artwork
<1>4. Artwork(keys) \cap Artwork(DOMAIN mirrors)' = {}
  BY <1>1 DEF Artwork, ArtInv, ArtworkIsOwn
<1>5. StagedAccounted'
  <2>1. files' = Artwork(DOMAIN mirrors)' \cup removals' \cup lost'
    BY <1>1, <1>3 DEF ArtInv, StagedAccounted
  <2>2. Artwork(DOMAIN mirrors)' \cap (removals' \cup lost') = {}
    BY <1>1, <1>3, <1>4 DEF ArtInv, StagedAccounted
  <2>. QED
    BY <2>1, <2>2 DEF StagedAccounted
<1>6. removals' \cap lost' = {}
  BY <1>1, <1>3 DEF ArtInv, StagedAccounted, ArtworkIsOwn
<1>7. ArtworkIsOwn'
  BY <1>1, <1>6 DEF ArtInv, ArtworkIsOwn
<1>8. FilesAreOld'
  BY <1>1 DEF ArtInv, FilesAreOld
<1>. QED
  BY <1>1, <1>2, <1>5, <1>7, <1>8 DEF ArtInv

LEMMA StageStaged ==
    ASSUME MirrorTypes, ArtInv, NEW k \in DOMAIN mirrors, Stage(k)
    PROVE  ArtInv' /\ TableTypeOK' /\ DOMAIN mirrors' = DOMAIN mirrors
           /\ \A j \in DOMAIN mirrors : mirrors'[j].owner = mirrors[j].owner
<1>. DEFINE file == left.staged
<1>1. file \in Nat /\ left'.staged = file - 1 /\ file > 0
  BY Spends DEF MirrorTypes, BusTypeOK, Stage
<1>2. file \notin files /\ files' = files \cup {file}
  BY <1>1 DEF ArtInv, FilesAreOld, Stage
<1>3. FilesAreOld'
  <2>1. \A f \in files' : f \in Nat /\ f >= file
    BY <1>1, <1>2 DEF ArtInv, FilesAreOld
  <2>2. \A f \in files' : f > left'.staged
    BY <1>1, <2>1
  <2>. QED
    BY <2>1, <2>2 DEF FilesAreOld
<1>4. CASE /\ removals' = removals \cup mirrors[k].artwork
           /\ mirrors' = [mirrors EXCEPT ![k].artwork = {file}]
           /\ lost' = lost
  <2>1. /\ DOMAIN mirrors' = DOMAIN mirrors
        /\ \A j \in DOMAIN mirrors : mirrors'[j].owner = mirrors[j].owner
        /\ \A j \in DOMAIN mirrors : j # k => mirrors'[j] = mirrors[j]
        /\ mirrors'[k].artwork = {file}
        /\ mirrors' \in [DOMAIN mirrors -> Mirror]
    BY <1>1, <1>4 DEF MirrorTypes, TableTypeOK, Mirror
  <2>2. Artwork(DOMAIN mirrors)' = {file} \cup Artwork(DOMAIN mirrors \ {k})
    BY <2>1 DEF Artwork
  <2>3. /\ Artwork(DOMAIN mirrors) = mirrors[k].artwork \cup Artwork(DOMAIN mirrors \ {k})
        /\ mirrors[k].artwork \cap Artwork(DOMAIN mirrors \ {k}) = {}
    BY DEF Artwork, ArtInv, ArtworkIsOwn
  <2>4. StagedAccounted'
    BY <1>2, <1>4, <2>2, <2>3 DEF ArtInv, StagedAccounted
  <2>5. file \notin Artwork(DOMAIN mirrors)
    BY <1>2 DEF ArtInv, StagedAccounted
  <2>6. \A i, j \in DOMAIN mirrors' : i # j => mirrors'[i].artwork \cap mirrors'[j].artwork = {}
    BY <2>1, <2>5 DEF ArtInv, ArtworkIsOwn, Artwork
  <2>7. removals' \cap lost' = {}
    BY <1>4, <2>3 DEF ArtInv, ArtworkIsOwn, StagedAccounted
  <2>. QED
    BY <1>3, <2>1, <2>4, <2>6, <2>7 DEF ArtInv, ArtworkIsOwn, MirrorTypes, TableTypeOK
<1>5. CASE /\ lost' = lost \cup {file}
           /\ UNCHANGED <<removals, mirrors>>
  <2>1. StagedAccounted'
    BY <1>2, <1>5 DEF ArtInv, StagedAccounted, Artwork
  <2>2. ArtworkIsOwn'
    BY <1>2, <1>5 DEF ArtInv, StagedAccounted, ArtworkIsOwn
  <2>. QED
    BY <1>3, <1>5, <2>1, <2>2 DEF ArtInv, MirrorTypes, TableTypeOK
<1>. QED
  BY <1>4, <1>5 DEF Stage, Replaced

LEMMA RemoveStaged ==
    ASSUME ArtInv, NEW f, RemoveStagedFile(f)
    PROVE  ArtInv'
<1>1. /\ f \in removals /\ removals' = removals \ {f} /\ files' = files \ {f}
      /\ lost' = lost /\ mirrors' = mirrors /\ left' = left
  BY DEF RemoveStagedFile
<1>2. Artwork(DOMAIN mirrors)' = Artwork(DOMAIN mirrors)
  BY <1>1 DEF Artwork
<1>3. StagedAccounted'
  BY <1>1, <1>2 DEF ArtInv, StagedAccounted, ArtworkIsOwn
<1>. QED
  BY <1>1, <1>3 DEF ArtInv, FilesAreOld, ArtworkIsOwn

LEMMA PublishStaged ==
    ASSUME MirrorTypes, ArtInv, CreatingIsNew, Publish
    PROVE  /\ ArtInv' /\ TableTypeOK'
           /\ DOMAIN mirrors' = DOMAIN mirrors \cup {creating.key}
           /\ \A k \in DOMAIN mirrors : mirrors'[k] = mirrors[k]
           /\ mirrors'[creating.key].owner = creating.owner
<1>1. creating.key \in Keys /\ creating.owner \in Connections /\ creating.key \notin DOMAIN mirrors
  BY DEF MirrorTypes, LoopTypeOK, CreatingIsNew, Publish, Idle
<1>2. PICK menu \in {{}, {MenuPath}} :
        mirrors' = [k \in DOMAIN mirrors \cup {creating.key} |->
                IF k = creating.key
                THEN [owner |-> creating.owner, paths |-> menu \cup {k.path}, artwork |-> {}]
                ELSE mirrors[k]]
  BY DEF Publish
<1>3. /\ DOMAIN mirrors' = DOMAIN mirrors \cup {creating.key}
      /\ \A k \in DOMAIN mirrors : mirrors'[k] = mirrors[k]
      /\ mirrors'[creating.key] =
           [owner |-> creating.owner, paths |-> menu \cup {creating.key.path}, artwork |-> {}]
  BY <1>1, <1>2
<1>4. mirrors'[creating.key] \in Mirror
  <2>1. creating.key.path \in {"player", "default", "own"}
    BY <1>1, KeyFacts
  <2>. QED
    BY <1>1, <1>3, <2>1 DEF Mirror
<1>5. TableTypeOK'
  BY <1>1, <1>2, <1>3, <1>4 DEF MirrorTypes, TableTypeOK
<1>6. Artwork(DOMAIN mirrors)' = Artwork(DOMAIN mirrors)
  BY <1>1, <1>3 DEF Artwork
<1>7. ArtworkIsOwn'
  BY <1>1, <1>3 DEF ArtInv, ArtworkIsOwn, Publish, artVars
<1>8. StagedAccounted'
  BY <1>6 DEF ArtInv, StagedAccounted, Publish, artVars
<1>9. FilesAreOld'
  BY DEF ArtInv, FilesAreOld, Publish, artVars
<1>. QED
  BY <1>3, <1>5, <1>7, <1>8, <1>9 DEF ArtInv

-----------------------------------------------------------------------------
(* Owners and the signals about them.                                       *)

\* Steps that leave the bus and the table alone.
LEMMA StillStanding ==
    ASSUME UNCHANGED <<owner, inbox>>
    PROVE  Standing' = Standing
BY DEF Standing

LEMMA Delivered ==
    ASSUME BusTypeOK, NEW messages \in Seq(Change \cup Registration), Deliver(messages)
    PROVE  inbox' \in Seq(Change \cup Registration)
<1>1. inbox \in Seq(Change \cup Registration)
  BY DEF BusTypeOK
<1>2. inbox \o messages \in Seq(Change \cup Registration)
  BY <1>1, ConcatProperties
<1>. QED
  BY <1>1, <1>2 DEF Deliver

\* What is put into the queue stays behind what is there.
LEMMA DeliverStands ==
    ASSUME BusTypeOK, NEW messages \in Seq(Change), phase # "starting", Deliver(messages),
           owner' \in [Names -> Connections \cup {NoOwner}],
           \A n \in Names : \/ owner'[n] = owner[n]
                            \/ \E i \in DOMAIN messages :
                                 messages[i].name = n /\ messages[i].old = owner[n]
    PROVE  Standing \subseteq Standing'
<1>1. /\ inbox' = inbox \o messages
      /\ inbox \in Seq(Change \cup Registration) /\ messages \in Seq(Change \cup Registration)
  BY DEF Deliver, BusTypeOK
<1>2. /\ Len(inbox') = Len(inbox) + Len(messages)
      /\ \A i \in DOMAIN inbox : i \in DOMAIN inbox' /\ inbox'[i] = inbox[i]
      /\ \A i \in DOMAIN messages : /\ Len(inbox) + i \in DOMAIN inbox'
                                    /\ inbox'[Len(inbox) + i] = messages[i]
  BY <1>1
<1>. SUFFICES ASSUME NEW p \in Standing PROVE p \in Standing'
  OBVIOUS
<1>3. p \in Names \X Connections
  BY DEF Standing
<1>4. CASE \E i \in DOMAIN inbox :
              inbox[i].type = "changed" /\ inbox[i].name = p[1] /\ inbox[i].old = p[2]
  BY <1>2, <1>3, <1>4 DEF Standing
<1>5. CASE owner[p[1]] = p[2]
  <2>1. CASE owner'[p[1]] = owner[p[1]]
    BY <1>3, <1>5, <2>1 DEF Standing
  <2>2. CASE \E i \in DOMAIN messages : messages[i].name = p[1] /\ messages[i].old = owner[p[1]]
    <3>1. PICK i \in DOMAIN messages : messages[i].name = p[1] /\ messages[i].old = owner[p[1]]
      BY <2>2
    <3>2. messages[i] \in Change
      BY <3>1, ElementOfSeq
    <3>3. messages[i].type = "changed"
      BY <3>2 DEF Change
    <3>. QED
      BY <1>2, <1>3, <1>5, <3>1, <3>3 DEF Standing
  <2>. QED
    BY <1>3, <2>1, <2>2
<1>. QED
  BY <1>4, <1>5 DEF Standing

\* Handling a message takes away only what it says of its owner.
LEMMA HandledStands ==
    ASSUME BusTypeOK, inbox # <<>>, inbox' = Tail(inbox), owner' = owner,
           NEW p \in Standing,
           ~(Head(inbox).type = "changed" /\ Head(inbox).name = p[1] /\ Head(inbox).old = p[2])
    PROVE  p \in Standing'
<1>1. /\ Len(inbox) > 0 /\ Head(inbox) = inbox[1]
      /\ Len(inbox') = Len(inbox) - 1
      /\ \A i \in DOMAIN inbox : i # 1 => i - 1 \in DOMAIN inbox' /\ inbox'[i - 1] = inbox[i]
  BY DEF BusTypeOK
<1>2. CASE \E i \in DOMAIN inbox :
              inbox[i].type = "changed" /\ inbox[i].name = p[1] /\ inbox[i].old = p[2]
  <2>1. PICK i \in DOMAIN inbox :
              inbox[i].type = "changed" /\ inbox[i].name = p[1] /\ inbox[i].old = p[2]
    BY <1>2
  <2>2. i - 1 \in DOMAIN inbox' /\ inbox'[i - 1] = inbox[i]
    BY <1>1, <2>1
  <2>. QED
    BY <2>1, <2>2 DEF Standing
<1>. QED
  BY <1>2 DEF Standing

\* Both kinds of beliefs are kept by steps that keep what they rest on.
LEMMA StillOwned ==
    ASSUME MirrorTypes, MirrorTypes', BusInv, Standing \subseteq Standing',
           creating' = creating, mirrors' = mirrors, phase' = "starting" => phase = "starting"
    PROVE  BusInv'
<1>1. MirrorsOwned'
  <2>1. \A k \in DOMAIN mirrors' : <<k.service, mirrors'[k].owner>> \in Standing'
    BY MirrorsStand DEF MirrorTypes, BusInv
  <2>. QED
    BY <2>1 DEF MirrorsOwned, Standing
<1>. QED
  BY <1>1 DEF BusInv, StartsEmpty, CreatingStands, CreatingIsNew

-----------------------------------------------------------------------------
(* The steps of the bus.                                                    *)

LEMMA ChangeOwnerStep ==
    ASSUME MirrorInv, NEW name \in Players \cup Items, NEW new \in Connections \cup {NoOwner},
           ChangeOwner(name, new)
    PROVE  MirrorInv'
<1>. DEFINE m == Changed(name, owner[name], new)
<1>1. /\ left'.staged = left.staged
      /\ left' \in [names : SUBSET (Players \cup Items), changes : Nat, registers : Nat,
                    staged : Nat, mishaps : Nat]
  BY Spends DEF ChangeOwner, MirrorInv, MirrorTypes
<1>2. name \in Names /\ m \in Change
  BY DEF Names, Change, Changed, MirrorInv, MirrorTypes, BusTypeOK
<1>3. owner' \in [Names -> Connections \cup {NoOwner}]
  BY DEF ChangeOwner, MirrorInv, MirrorTypes, BusTypeOK
<1>4. inbox' \in Seq(Change \cup Registration)
  <2>1. <<m>> \in Seq(Change \cup Registration) /\ Deliver(<<m>>)
    BY <1>2 DEF ChangeOwner
  <2>. QED
    BY <2>1, Delivered DEF MirrorInv, MirrorTypes
<1>5. MirrorTypes'
  BY <1>1, <1>3, <1>4 DEF ChangeOwner, MirrorInv, MirrorTypes, BusTypeOK, LoopTypeOK, TableTypeOK, loopVars
<1>6. ArtInv'
  BY <1>1, StillStaged DEF ChangeOwner, MirrorInv
<1>7. BusInv'
  <2>1. CASE phase = "starting"
    BY <2>1 DEF ChangeOwner, MirrorInv, BusInv, StartsEmpty, CreatingStands, CreatingIsNew, MirrorsOwned,
                Idle, loopVars
  <2>2. CASE phase # "starting"
    <3>1. <<m>> \in Seq(Change) /\ DOMAIN <<m>> = {1} /\ <<m>>[1] = m
      BY <1>2
    <3>2. \A n \in Names : \/ owner'[n] = owner[n]
                           \/ \E i \in DOMAIN <<m>> : <<m>>[i].name = n /\ <<m>>[i].old = owner[n]
      BY <1>2, <3>1 DEF ChangeOwner, MirrorInv, MirrorTypes, BusTypeOK, Changed
    <3>3. Standing \subseteq Standing'
      BY <1>3, <2>2, <3>1, <3>2, DeliverStands DEF ChangeOwner, MirrorInv, MirrorTypes
    <3>. QED
      BY <1>5, <3>3, StillOwned DEF ChangeOwner, MirrorInv, loopVars
  <2>. QED
    BY <2>1, <2>2
<1>. QED
  BY <1>5, <1>6, <1>7 DEF MirrorInv

LEMMA DisconnectStep ==
    ASSUME MirrorInv, NEW c \in Connections, Disconnect(c)
    PROVE  MirrorInv'
<1>. DEFINE names == {n \in Names : owner[n] = c}
            first == SetToSeq(names \ {c})
            order == first \o <<c>>
            messages == [i \in DOMAIN order |-> Changed(order[i], c, NoOwner)]
<1>1. /\ left'.staged = left.staged
      /\ left' \in [names : SUBSET (Players \cup Items), changes : Nat, registers : Nat,
                    staged : Nat, mishaps : Nat]
  BY Spends DEF Disconnect, MirrorInv, MirrorTypes
<1>2. IsFiniteSet(names \ {c})
  BY NamesAssumption, FS_Subset DEF Names
<1>3. /\ first \in Seq(Names)
      /\ \A n \in names \ {c} : \E i \in DOMAIN first : first[i] = n
  <2>1. /\ first \in Seq(names \ {c})
        /\ \A n \in names \ {c} : \E i \in DOMAIN first : first[i] = n
    <3>. HIDE DEF names
    <3>. QED
      BY <1>2, Listed
  <2>2. \A i \in 1..Len(first) : first[i] \in Names
    <3>. HIDE DEF first
    <3>. QED
      BY <2>1, ElementOfSeq
  <2>. HIDE DEF first
  <2>. QED
    BY <2>1, <2>2
<1>4. c \in Names
  BY DEF Names
<1>5. /\ order \in Seq(Names) /\ Len(order) = Len(first) + 1
      /\ order[Len(first) + 1] = c
      /\ \A i \in DOMAIN first : i \in DOMAIN order /\ order[i] = first[i]
  <2>. HIDE DEF first
  <2>. QED
    BY <1>3, <1>4
<1>6. \A n \in names : \E i \in DOMAIN order : order[i] = n
  <2>. SUFFICES ASSUME NEW n \in names PROVE \E i \in DOMAIN order : order[i] = n
    OBVIOUS
  <2>1. CASE n = c
    <3>1. Len(first) + 1 \in DOMAIN order
      BY <1>3, <1>5
    <3>. QED
      BY <1>5, <2>1, <3>1
  <2>2. CASE n # c
    BY <1>3, <1>5, <2>2
  <2>. QED
    BY <2>1, <2>2
<1>7. messages \in Seq(Change) /\ DOMAIN messages = DOMAIN order
  <2>1. \A i \in 1..Len(order) : Changed(order[i], c, NoOwner) \in Change
    BY <1>5, ElementOfSeq DEF Change, Changed
  <2>. QED
    BY <1>5, <2>1
<1>8. owner' \in [Names -> Connections \cup {NoOwner}]
  BY DEF Disconnect, MirrorInv, MirrorTypes, BusTypeOK
<1>9. Deliver(messages)
  BY DEF Disconnect
<1>10. inbox' \in Seq(Change \cup Registration)
  <2>1. messages \in Seq(Change \cup Registration)
    BY <1>7
  <2>. QED
    BY <1>9, <2>1, Delivered DEF MirrorInv, MirrorTypes
<1>11. MirrorTypes'
  BY <1>1, <1>8, <1>10 DEF Disconnect, MirrorInv, MirrorTypes, BusTypeOK, LoopTypeOK, TableTypeOK, loopVars
<1>12. ArtInv'
  BY <1>1, StillStaged DEF Disconnect, MirrorInv
<1>13. BusInv'
  <2>1. CASE phase = "starting"
    BY <2>1 DEF Disconnect, MirrorInv, BusInv, StartsEmpty, CreatingStands, CreatingIsNew, MirrorsOwned,
                Idle, loopVars
  <2>2. CASE phase # "starting"
    <3>1. \A n \in Names : \/ owner'[n] = owner[n]
                           \/ \E i \in DOMAIN messages :
                                messages[i].name = n /\ messages[i].old = owner[n]
      <4>. SUFFICES ASSUME NEW n \in Names, owner'[n] # owner[n]
                    PROVE  \E i \in DOMAIN messages :
                              messages[i].name = n /\ messages[i].old = owner[n]
        OBVIOUS
      <4>1. n \in names
        BY DEF Disconnect
      <4>2. PICK i \in DOMAIN order : order[i] = n
        BY <1>6, <4>1
      <4>3. messages[i] = Changed(n, c, NoOwner)
        BY <4>2
      <4>. QED
        BY <1>7, <4>1, <4>2, <4>3 DEF Changed
    <3>2. Standing \subseteq Standing'
      <4>. HIDE DEF messages
      <4>. QED
        BY <1>7, <1>8, <1>9, <2>2, <3>1, DeliverStands DEF MirrorInv, MirrorTypes
    <3>. QED
      BY <1>11, <3>2, StillOwned DEF Disconnect, MirrorInv, loopVars
  <2>. QED
    BY <2>1, <2>2
<1>. QED
  BY <1>11, <1>12, <1>13 DEF MirrorInv

LEMMA RegisterStep ==
    ASSUME MirrorInv, NEW c \in Connections, NEW service \in Items \cup Connections,
           NEW path \in {"default", "own"}, Register(c, service, path)
    PROVE  MirrorInv'
<1>. DEFINE m == [type |-> "register", sender |-> c, service |-> service, path |-> path]
<1>1. /\ left'.staged = left.staged
      /\ left' \in [names : SUBSET (Players \cup Items), changes : Nat, registers : Nat,
                    staged : Nat, mishaps : Nat]
  BY Spends DEF Register, MirrorInv, MirrorTypes
<1>2. m \in Registration
  BY DEF Registration
<1>3. inbox' = Append(inbox, m) /\ inbox \in Seq(Change \cup Registration)
  BY DEF Register, MirrorInv, MirrorTypes, BusTypeOK
<1>4. inbox' \in Seq(Change \cup Registration)
  BY <1>2, <1>3
<1>5. MirrorTypes'
  BY <1>1, <1>4 DEF Register, MirrorInv, MirrorTypes, BusTypeOK, LoopTypeOK, TableTypeOK, loopVars
<1>6. ArtInv'
  BY <1>1, StillStaged DEF Register, MirrorInv
<1>7. Standing \subseteq Standing'
  <2>1. \A i \in DOMAIN inbox : i \in DOMAIN inbox' /\ inbox'[i] = inbox[i]
    BY <1>3
  <2>. QED
    BY <2>1 DEF Standing, Register
<1>8. BusInv'
  BY <1>5, <1>7, StillOwned DEF Register, MirrorInv, loopVars
<1>. QED
  BY <1>5, <1>6, <1>8 DEF MirrorInv

-----------------------------------------------------------------------------
(* The steps of the main loop.                                              *)

\* guest_name_changed: the mirrors of the old owner go with the signal.
LEMMA NameChangedStep ==
    ASSUME MirrorInv, NameChanged
    PROVE  MirrorInv'
<1>. DEFINE m == Head(inbox)
            keys == Orphaned(m)
<1>1. /\ creating = Idle /\ phase = "running" /\ inbox # <<>> /\ m.type = "changed"
      /\ inbox' = Tail(inbox)
      /\ owner' = owner /\ creating' = creating /\ phase' = phase /\ left' = left
      /\ pending' = pending
      /\ FreeMirrors(keys)
      /\ retries' = IF Rediscovers(m) THEN retries \o Retry(m.name) ELSE retries
  BY DEF NameChanged, Free
<1>2. keys \in SUBSET DOMAIN mirrors
  BY DEF Orphaned
<1>3. /\ ArtInv' /\ TableTypeOK' /\ DOMAIN mirrors' = DOMAIN mirrors \ keys
      /\ \A k \in DOMAIN mirrors' : mirrors'[k] = mirrors[k]
  <2>. HIDE DEF keys
  <2>. QED
    BY <1>1, <1>2, FreeStaged DEF MirrorInv, MirrorTypes
<1>4. inbox' \in Seq(Change \cup Registration) /\ m \in Change \cup Registration
  BY <1>1 DEF MirrorInv, MirrorTypes, BusTypeOK
<1>5. retries' \in Seq(Timers)
  <2>1. Retry(m.name) \in Seq(Timers)
    <3>1. m.name \in Players => Timer(m.name) \in Timers
      BY MirrorAssumption DEF Timer, Timers
    <3>. QED
      BY <3>1, EmptySeq DEF Retry
  <2>2. retries \in Seq(Timers)
    BY DEF MirrorInv, MirrorTypes, LoopTypeOK
  <2>3. retries \o Retry(m.name) \in Seq(Timers)
    BY <2>1, <2>2, ConcatProperties
  <2>. QED
    BY <1>1, <2>2, <2>3
<1>6. MirrorTypes'
  BY <1>1, <1>3, <1>4, <1>5 DEF MirrorInv, MirrorTypes, BusTypeOK, LoopTypeOK
<1>7. \A p \in Standing : p[2] # m.old => p \in Standing'
  BY <1>1, HandledStands DEF MirrorInv, MirrorTypes
<1>8. MirrorsOwned'
  <2>. SUFFICES ASSUME NEW k \in DOMAIN mirrors'
                PROVE  <<k.service, mirrors'[k].owner>> \in Standing'
    BY DEF MirrorsOwned, Standing
  <2>1. k \in DOMAIN mirrors /\ mirrors'[k] = mirrors[k] /\ mirrors[k].owner # m.old
    BY <1>3 DEF Orphaned
  <2>2. <<k.service, mirrors[k].owner>> \in Standing
    BY <2>1, MirrorsStand DEF MirrorInv, MirrorTypes, BusInv
  <2>. QED
    BY <1>7, <2>1, <2>2
<1>9. BusInv'
  BY <1>1, <1>8 DEF BusInv, StartsEmpty, CreatingStands, CreatingIsNew, Idle
<1>. QED
  BY <1>3, <1>6, <1>9 DEF MirrorInv

LEMMA ItemRegisteredStep ==
    ASSUME MirrorInv, ItemRegistered
    PROVE  MirrorInv'
<1>. DEFINE m == Head(inbox)
<1>1. /\ inbox # <<>> /\ m.type = "register" /\ inbox' = Tail(inbox)
      /\ UNCHANGED <<owner, creating, phase, mirrors, left, retries, artVars>>
      /\ \/ pending' = pending
         \/ pending' = Append(pending, [owner |-> m.sender, key |-> ItemKey(m.service, m.path)])
  BY DEF ItemRegistered
<1>2. inbox' \in Seq(Change \cup Registration) /\ m \in Change \cup Registration
  BY <1>1 DEF MirrorInv, MirrorTypes, BusTypeOK
<1>3. m \in Registration
  BY <1>1, <1>2 DEF Change
<1>4. [owner |-> m.sender, key |-> ItemKey(m.service, m.path)] \in StatusItems
  BY <1>3, KeyFacts DEF Registration, StatusItems
<1>5. pending' \in Seq(StatusItems)
  <2>1. pending \in Seq(StatusItems)
    BY DEF MirrorInv, MirrorTypes, LoopTypeOK
  <2>2. CASE pending' = pending
    BY <2>1, <2>2
  <2>3. CASE pending' = Append(pending, [owner |-> m.sender, key |-> ItemKey(m.service, m.path)])
    <3>1. PICK item \in StatusItems : pending' = Append(pending, item)
      BY <1>4, <2>3
    <3>. QED
      BY <2>1, <3>1
  <2>. QED
    BY <1>1, <2>2, <2>3
<1>6. MirrorTypes'
  <2>1. BusTypeOK'
    BY <1>1, <1>2 DEF MirrorInv, MirrorTypes, BusTypeOK
  <2>2. LoopTypeOK'
    BY <1>1, <1>5 DEF MirrorInv, MirrorTypes, LoopTypeOK
  <2>3. TableTypeOK'
    BY <1>1 DEF MirrorInv, MirrorTypes, TableTypeOK
  <2>. QED
    BY <2>1, <2>2, <2>3 DEF MirrorTypes
<1>7. Standing \subseteq Standing'
  BY <1>1, HandledStands DEF MirrorInv, MirrorTypes
<1>8. BusInv'
  BY <1>1, <1>6, <1>7, StillOwned DEF MirrorInv
<1>9. ArtInv'
  BY <1>1, StillStaged DEF MirrorInv
<1>. QED
  BY <1>6, <1>8, <1>9 DEF MirrorInv

\* Steps that begin an attempt, go on with it or give it up.
LEMMA Attempting ==
    ASSUME MirrorInv, LoopTypeOK', UNCHANGED <<owner, inbox, phase, mirrors, artVars>>,
           left' = left \/ Spend("mishaps"), phase # "starting",
           creating' # Idle => creating'.key \notin DOMAIN mirrors,
           creating'.step = "owned" => <<creating'.key.service, creating'.owner>> \in Standing
    PROVE  MirrorInv'
<1>1. /\ left'.staged = left.staged
      /\ left' \in [names : SUBSET (Players \cup Items), changes : Nat, registers : Nat,
                    staged : Nat, mishaps : Nat]
  BY Spends DEF MirrorInv, MirrorTypes, BusTypeOK
<1>2. MirrorTypes'
  BY <1>1 DEF MirrorInv, MirrorTypes, BusTypeOK, TableTypeOK
<1>3. ArtInv'
  BY <1>1, StillStaged DEF MirrorInv
<1>4. Standing' = Standing
  BY StillStanding
<1>5. MirrorsOwned'
  BY DEF MirrorInv, BusInv, MirrorsOwned
<1>. QED
  BY <1>2, <1>3, <1>4, <1>5 DEF MirrorInv, BusInv, StartsEmpty, CreatingStands, CreatingIsNew

LEMMA PublishItemStep ==
    ASSUME MirrorInv, PublishItem
    PROVE  MirrorInv'
<1>. DEFINE item == Head(pending)
<1>1. /\ pending # <<>> /\ pending' = Tail(pending) /\ phase = "running"
      /\ UNCHANGED <<owner, inbox, phase, mirrors, left, retries, artVars>>
      /\ \/ creating' = Idle
         \/ /\ creating' = [step |-> "created", key |-> item.key, remaining |-> 0]
            /\ item.key \notin DOMAIN mirrors
  BY DEF PublishItem, Free, busVars
<1>2. item \in StatusItems /\ pending' \in Seq(StatusItems)
  BY <1>1 DEF MirrorInv, MirrorTypes, LoopTypeOK
<1>3. LoopTypeOK'
  BY <1>1, <1>2 DEF MirrorInv, MirrorTypes, LoopTypeOK, StatusItems
<1>4. creating'.step # "owned" /\ (creating' # Idle => creating'.key \notin DOMAIN mirrors)
  BY <1>1 DEF Idle
<1>. QED
  BY <1>1, <1>3, <1>4, Attempting

LEMMA RetryPlayerStep ==
    ASSUME MirrorInv, NEW i \in DOMAIN retries, RetryPlayer(i)
    PROVE  MirrorInv'
<1>. DEFINE retry == retries[i]
<1>1. /\ retries' = RemoveAt(retries, i) /\ phase = "running"
      /\ UNCHANGED <<owner, inbox, phase, mirrors, left, pending, artVars>>
      /\ \/ creating' = Idle
         \/ /\ creating' = [step |-> "created", key |-> PlayerKey(retry.name),
                            remaining |-> retry.remaining]
            /\ PlayerKey(retry.name) \notin DOMAIN mirrors
  BY DEF RetryPlayer, Free, busVars
<1>2. retries \in Seq(Timers)
  BY DEF MirrorInv, MirrorTypes, LoopTypeOK
<1>3. retry \in Timers
  BY <1>2, ElementOfSeq
<1>4. retries' \in Seq(Timers)
  <2>1. i \in 1..Len(retries)
    BY <1>2
  <2>2. SubSeq(retries, 1, i - 1) \in Seq(Timers)
    BY <1>2, <2>1, SubSeqProperties
  <2>3. SubSeq(retries, i + 1, Len(retries)) \in Seq(Timers)
    BY <1>2, <2>1, SubSeqProperties
  <2>4. SubSeq(retries, 1, i - 1) \o SubSeq(retries, i + 1, Len(retries)) \in Seq(Timers)
    BY <2>2, <2>3, ConcatProperties
  <2>. QED
    BY <1>1, <2>4 DEF RemoveAt
<1>5. LoopTypeOK'
  BY <1>1, <1>3, <1>4, KeyFacts DEF MirrorInv, MirrorTypes, LoopTypeOK, Timers
<1>6. creating'.step # "owned" /\ (creating' # Idle => creating'.key \notin DOMAIN mirrors)
  BY <1>1 DEF Idle
<1>. QED
  BY <1>1, <1>5, <1>6, Attempting

\* An attempt in progress is one of an object, in a main loop that runs.
LEMMA InProgress ==
    ASSUME MirrorInv, creating.step \in {"created", "owned"}
    PROVE  /\ creating # Idle /\ creating.key \in Keys /\ creating.remaining \in Nat
           /\ creating.step = "owned" => creating.owner \in Connections
           /\ phase # "starting"
<1>1. creating # Idle
  BY DEF Idle
<1>2. phase # "starting"
  BY <1>1 DEF MirrorInv, BusInv, StartsEmpty
<1>. QED
  BY <1>1, <1>2 DEF MirrorInv, MirrorTypes, LoopTypeOK

LEMMA FailStep ==
    ASSUME MirrorInv, Fail, creating.step \in {"created", "owned"}, left' = left \/ Spend("mishaps")
    PROVE  MirrorInv'
<1>1. /\ creating' = Idle
      /\ UNCHANGED <<owner, inbox, phase, mirrors, pending, artVars>>
      /\ \/ retries' = retries
         \/ /\ creating.key.kind = "player" /\ creating.remaining > 1
            /\ retries' = Append(retries, [name |-> creating.key.service,
                                           remaining |-> creating.remaining - 1])
  BY DEF Fail, Service, busVars
<1>2. creating.key \in Keys /\ creating.remaining \in Nat /\ phase # "starting"
  BY InProgress
<1>3. creating.key.kind = "player" => creating.key.service \in Players
  BY <1>2 DEF Keys, PlayerKey, ItemKey
<1>4. retries' \in Seq(Timers)
  <2>1. retries \in Seq(Timers)
    BY DEF MirrorInv, MirrorTypes, LoopTypeOK
  <2>2. creating.key.kind = "player" /\ creating.remaining > 1 =>
          [name |-> creating.key.service, remaining |-> creating.remaining - 1] \in Timers
    BY <1>2, <1>3 DEF Timers
  <2>. QED
    BY <1>1, <2>1, <2>2
<1>5. LoopTypeOK'
  BY <1>1, <1>4 DEF MirrorInv, MirrorTypes, LoopTypeOK
<1>6. creating'.step # "owned"
  BY <1>1 DEF Idle
<1>. QED
  BY <1>1, <1>2, <1>5, <1>6, Attempting

LEMMA ReadOwnerStep ==
    ASSUME MirrorInv, ReadOwner
    PROVE  MirrorInv'
<1>1. creating.step = "created" /\ left' = left
  BY DEF ReadOwner
<1>2. CASE owner[Service] = NoOwner
  BY <1>1, <1>2, FailStep DEF ReadOwner
<1>3. CASE owner[Service] # NoOwner
  <2>1. /\ creating' = [step |-> "owned", key |-> creating.key, remaining |-> creating.remaining,
                        owner |-> owner[Service]]
        /\ UNCHANGED <<owner, inbox, phase, mirrors, pending, retries, artVars>>
    BY <1>3 DEF ReadOwner, busVars
  <2>2. /\ creating # Idle /\ creating.key \in Keys /\ creating.remaining \in Nat
        /\ phase # "starting"
    BY <1>1, InProgress
  <2>3. creating.key.service \in Names
    BY <2>2, KeyFacts
  <2>4. owner[Service] \in Connections
    BY <1>3, <2>3 DEF MirrorInv, MirrorTypes, BusTypeOK, Service
  <2>5. <<creating.key.service, owner[Service]>> \in Standing
    BY <2>3, <2>4 DEF Standing, Service
  <2>6. LoopTypeOK'
    BY <2>1, <2>2, <2>4 DEF MirrorInv, MirrorTypes, LoopTypeOK
  <2>7. creating.key \notin DOMAIN mirrors
    BY <2>2 DEF MirrorInv, BusInv, CreatingIsNew
  <2>. QED
    BY <1>1, <2>1, <2>2, <2>5, <2>6, <2>7, Attempting
<1>. QED
  BY <1>2, <1>3

\* The mirror enters the table for the owner that was read before.
LEMMA PublishStep ==
    ASSUME MirrorInv, Publish
    PROVE  MirrorInv'
<1>1. /\ ArtInv' /\ TableTypeOK'
      /\ DOMAIN mirrors' = DOMAIN mirrors \cup {creating.key}
      /\ \A k \in DOMAIN mirrors : mirrors'[k] = mirrors[k]
      /\ mirrors'[creating.key].owner = creating.owner
  BY PublishStaged DEF MirrorInv, BusInv
<1>2. /\ creating.step = "owned" /\ creating' = Idle
      /\ UNCHANGED <<owner, inbox, phase, pending, retries, left>>
  BY DEF Publish, busVars
<1>3. MirrorTypes'
  BY <1>1, <1>2 DEF MirrorInv, MirrorTypes, BusTypeOK, LoopTypeOK
<1>4. MirrorsOwned'
  <2>. SUFFICES ASSUME NEW k \in DOMAIN mirrors'
                PROVE  <<k.service, mirrors'[k].owner>> \in Standing'
    BY DEF MirrorsOwned, Standing
  <2>1. Standing' = Standing
    BY <1>2, StillStanding
  <2>2. CASE k = creating.key
    BY <1>1, <1>2, <2>1, <2>2 DEF MirrorInv, BusInv, CreatingStands
  <2>3. CASE k \in DOMAIN mirrors
    BY <1>1, <2>1, <2>3, MirrorsStand DEF MirrorInv, MirrorTypes, BusInv
  <2>. QED
    BY <1>1, <2>2, <2>3
<1>5. phase # "starting"
  BY <1>2, InProgress
<1>6. BusInv'
  BY <1>2, <1>4, <1>5 DEF BusInv, StartsEmpty, CreatingStands, CreatingIsNew, Idle
<1>. QED
  BY <1>1, <1>3, <1>6 DEF MirrorInv

LEMMA HostNameLostStep ==
    ASSUME MirrorInv, NEW k \in DOMAIN mirrors, HostNameLost(k)
    PROVE  MirrorInv'
<1>1. /\ creating = Idle /\ phase = "running" /\ FreeMirrors({k}) /\ Spend("mishaps")
      /\ UNCHANGED <<owner, inbox, creating, pending, retries, phase>>
  BY DEF HostNameLost, Free, busVars, loopVars
<1>2. /\ left'.staged = left.staged
      /\ left' \in [names : SUBSET (Players \cup Items), changes : Nat, registers : Nat,
                    staged : Nat, mishaps : Nat]
  BY <1>1, Spends DEF MirrorInv, MirrorTypes
<1>3. /\ ArtInv' /\ TableTypeOK' /\ DOMAIN mirrors' \subseteq DOMAIN mirrors
      /\ \A j \in DOMAIN mirrors' : mirrors'[j] = mirrors[j]
  BY <1>1, <1>2, FreeStaged DEF MirrorInv, MirrorTypes
<1>4. MirrorTypes'
  BY <1>1, <1>2, <1>3 DEF MirrorInv, MirrorTypes, BusTypeOK, LoopTypeOK
<1>5. MirrorsOwned'
  BY <1>1, <1>3 DEF MirrorInv, BusInv, MirrorsOwned
<1>6. BusInv'
  BY <1>1, <1>5 DEF BusInv, StartsEmpty, CreatingStands, CreatingIsNew, Idle
<1>. QED
  BY <1>3, <1>4, <1>6 DEF MirrorInv

LEMMA StageStep ==
    ASSUME MirrorInv, NEW k \in DOMAIN mirrors, Stage(k)
    PROVE  MirrorInv'
<1>1. /\ creating = Idle /\ phase = "running" /\ Spend("staged")
      /\ UNCHANGED <<owner, inbox, creating, pending, retries, phase>>
  BY DEF Stage, Free, busVars, loopVars
<1>2. left' \in [names : SUBSET (Players \cup Items), changes : Nat, registers : Nat,
                 staged : Nat, mishaps : Nat]
  BY <1>1, Spends DEF MirrorInv, MirrorTypes
<1>3. /\ ArtInv' /\ TableTypeOK' /\ DOMAIN mirrors' = DOMAIN mirrors
      /\ \A j \in DOMAIN mirrors : mirrors'[j].owner = mirrors[j].owner
  BY StageStaged DEF MirrorInv
<1>4. MirrorTypes'
  BY <1>1, <1>2, <1>3 DEF MirrorInv, MirrorTypes, BusTypeOK, LoopTypeOK
<1>5. MirrorsOwned'
  BY <1>1, <1>3 DEF MirrorInv, BusInv, MirrorsOwned
<1>6. BusInv'
  BY <1>1, <1>5 DEF BusInv, StartsEmpty, CreatingStands, CreatingIsNew, Idle
<1>. QED
  BY <1>3, <1>4, <1>6 DEF MirrorInv

LEMMA RemoveStagedFileStep ==
    ASSUME MirrorInv, NEW f, RemoveStagedFile(f)
    PROVE  MirrorInv'
<1>1. UNCHANGED <<owner, inbox, creating, pending, retries, phase, mirrors, left>>
  BY DEF RemoveStagedFile, busVars, loopVars
<1>2. MirrorTypes'
  BY <1>1 DEF MirrorInv, MirrorTypes, BusTypeOK, LoopTypeOK, TableTypeOK
<1>3. BusInv'
  BY <1>1, <1>2, StillStanding, StillOwned DEF MirrorInv
<1>. QED
  BY <1>2, <1>3, RemoveStaged DEF MirrorInv

\* main before its loop runs.
LEMMA StartStep ==
    ASSUME MirrorInv, Subscribe \/ Discover
    PROVE  MirrorInv'
<1>. DEFINE present == {p \in Players : owner[p] # NoOwner}
            listed == SetToSeq(present)
<1>1. /\ phase' \in {"subscribed", "running"}
      /\ UNCHANGED <<owner, inbox, creating, pending, mirrors, left, artVars>>
  BY DEF Subscribe, Discover, busVars, loopVars
<1>2. listed \in Seq(present)
  <2>1. present \subseteq Players \cup Items \cup Connections
    OBVIOUS
  <2>2. IsFiniteSet(present)
    BY <2>1, NamesAssumption, FS_Subset
  <2>. QED
    BY <2>2, Listed
<1>3. [i \in DOMAIN listed |-> Timer(listed[i])] \in Seq(Timers)
  <2>1. \A i \in 1..Len(listed) : listed[i] \in Players
    BY <1>2, ElementOfSeq
  <2>2. \A i \in 1..Len(listed) : Timer(listed[i]) \in Timers
    BY <2>1, MirrorAssumption DEF Timer, Timers
  <2>3. Len(listed) \in Nat /\ DOMAIN listed = 1..Len(listed)
    BY <1>2
  <2>. HIDE DEF listed
  <2>. QED
    BY <2>2, <2>3
<1>4. retries' \in Seq(Timers)
  BY <1>3 DEF Subscribe, Discover, loopVars, MirrorInv, MirrorTypes, LoopTypeOK
<1>5. MirrorTypes'
  BY <1>1, <1>4 DEF MirrorInv, MirrorTypes, BusTypeOK, LoopTypeOK, TableTypeOK
<1>6. BusInv'
  BY <1>1, <1>5, StillStanding, StillOwned DEF MirrorInv
<1>7. ArtInv'
  BY <1>1, StillStaged DEF MirrorInv
<1>. QED
  BY <1>5, <1>6, <1>7 DEF MirrorInv

-----------------------------------------------------------------------------
(* The theorems.                                                            *)

LEMMA MirrorInductive == MirrorInv /\ [MirrorNext]_mirrorVars => MirrorInv'
<1>. SUFFICES ASSUME MirrorInv, [MirrorNext]_mirrorVars PROVE MirrorInv'
  OBVIOUS
<1>1. CASE UNCHANGED mirrorVars
  <2>1. UNCHANGED <<owner, inbox, creating, pending, retries, phase, mirrors, left, artVars>>
    BY <1>1 DEF mirrorVars, busVars, loopVars
  <2>2. MirrorTypes'
    BY <2>1 DEF MirrorInv, MirrorTypes, BusTypeOK, LoopTypeOK, TableTypeOK
  <2>3. BusInv'
    BY <2>1, <2>2, StillStanding, StillOwned DEF MirrorInv
  <2>4. ArtInv'
    BY <2>1, StillStaged DEF MirrorInv
  <2>. QED
    BY <2>2, <2>3, <2>4 DEF MirrorInv
<1>2. CASE Loop
  <2>1. CASE PublishFails
    <3>1. creating.step = "owned" /\ Fail /\ (left' = left \/ Spend("mishaps"))
      BY <2>1 DEF PublishFails
    <3>. QED
      BY <3>1, FailStep
  <2>. QED
    BY <1>2, <2>1, StartStep, NameChangedStep, ItemRegisteredStep, PublishItemStep, ReadOwnerStep,
       PublishStep DEF Loop
<1>3. CASE Retrying
  BY <1>3, RetryPlayerStep DEF Retrying
<1>4. CASE \E n \in Players \cup Items, c \in Connections \cup {NoOwner} : ChangeOwner(n, c)
  BY <1>4, ChangeOwnerStep
<1>5. CASE \E c \in Connections : Disconnect(c)
  BY <1>5, DisconnectStep
<1>6. CASE \E c \in Connections, n \in Items \cup Connections, q \in {"default", "own"} :
             Register(c, n, q)
  BY <1>6, RegisterStep
<1>7. CASE \E k \in DOMAIN mirrors : HostNameLost(k) \/ Stage(k)
  BY <1>7, HostNameLostStep, StageStep
<1>8. CASE \E f \in removals : RemoveStagedFile(f)
  BY <1>8, RemoveStagedFileStep
<1>. QED
  BY <1>1, <1>2, <1>3, <1>4, <1>5, <1>6, <1>7, <1>8 DEF MirrorNext

\* What the portal knows of owners, queue, table, attempt and staged files fits
\* together in every reachable state, for any finite bus and any scenario.
THEOREM MirrorInvariant == MirrorSpec => []MirrorInv
BY MirrorInitInv, MirrorInductive, PTL DEF MirrorSpec

\* A mirror stands for the owner of its name, or the signal that removes it is
\* still queued (guest_name_changed, create_mirror).
THEOREM MirrorsFollowOwners == MirrorSpec => []MirrorsOwned
<1>1. MirrorInv => MirrorsOwned
  BY DEF MirrorInv, BusInv
<1>. QED
  BY <1>1, MirrorInvariant, PTL

\* Every staged file is artwork of one mirror, is about to be removed, or was
\* staged after the portal had stopped waiting (stage_artwork, mirror_free).
THEOREM FilesAreAccounted == MirrorSpec => []StagedAccounted
<1>1. MirrorInv => StagedAccounted
  BY DEF MirrorInv, ArtInv
<1>. QED
  BY <1>1, MirrorInvariant, PTL

-----------------------------------------------------------------------------
(* Requests and sessions.                                                   *)

-----------------------------------------------------------------------------
(* The inductive invariant.                                                 *)

RequestTypes ==
    /\ portal \in {"runs", "quit", "undefined"}
    /\ calls \in Seq(CallType) /\ Len(calls) <= MaxCalls
    /\ gone \subseteq Apps
    /\ open \subseteq {"request", "session", "inhibit"} \X Numbers
    /\ wire \subseteq {"response", "session", "closed"} \X Numbers
    /\ Live \subseteq Numbers
    /\ Range(sessions) \subseteq Numbers
    /\ requestsHost \subseteq Numbers /\ inhibitors \subseteq Numbers
    /\ responses \in [1..MaxCalls -> Seq(1..MaxCalls)]

WithPath == ReturnsRequest \cup Local \cup {"Finish"}
WithSession == ReturnsSession \cup {"CreateSession"}

\* What the arguments of a call name.
Named ==
    \A c \in Numbers :
        /\ calls[c].kind = "Finish" =>
             /\ calls[c].of \in Numbers
             /\ calls[calls[c].of].kind = "Acquire" /\ Path(calls[c].of) = Path(c)
        /\ calls[c].kind = "UnInhibit" =>
             calls[c].of \in Numbers /\ calls[calls[c].of].kind = "Inhibit"

\* What an application knows of a call by how far it has come.
Views ==
    \A c \in Numbers :
        /\ calls[c].stage = "done" => calls[c].view # "waiting"
        /\ calls[c].stage # "done" /\ calls[c].kind \notin Local => calls[c].view = "waiting"
        /\ calls[c].kind \in Local => calls[c].stage # "replied" /\ calls[c].view # "waiting"
        /\ calls[c].cancelled <=> calls[c].view = "closed"

\* What is in the tables: forwarded calls that are done, local ones that are not.
Entries ==
    /\ \A c \in requestsHost : calls[c].kind \in ReturnsRequest /\ calls[c].stage = "done"
    /\ \A c \in Live : \/ calls[c].kind \in ReturnsRequest /\ calls[c].stage = "done"
                       \/ calls[c].kind \in Local /\ calls[c].stage = "sent"
    /\ \A c \in sessionsHost : calls[c].kind \in WithSession /\ calls[c].stage = "done"
    /\ \A c \in inhibitors : calls[c].kind = "Inhibit" /\ calls[c].stage = "done"

\* While its owner is there, the Request of a local call is in the table until
\* the answer, and no FinishAcquireDevices is about to remove it.
LocalIsHeld ==
    \A c \in Numbers :
        calls[c].kind \in Local /\ calls[c].stage = "sent" /\ calls[c].app \notin gone =>
            /\ c \in Live
            /\ \A f \in Numbers : calls[f].kind = "Finish" /\ Path(f) = Path(c) =>
                 calls[f].stage = "done"

\* What is in flight when its owner leaves, and nothing else, is late; only
\* late entries of an owner that left are in the tables.
Losses ==
    /\ \A c \in Numbers : calls[c].late => calls[c].app \in gone
    /\ \A c \in Numbers : calls[c].app \in gone =>
         /\ calls[c].stage # "done" => calls[c].late
         /\ c \in Live \cup requestsHost \cup sessionsHost \cup inhibitors => calls[c].late

\* The tables by their entries: a path leads to the object that has it, and
\* both tables have the same objects, while the owner is there.
Keyed ==
    /\ \A p \in DOMAIN requests : Path(requests[p]) = p
    /\ \A p \in DOMAIN sessions : SessionPath(sessions[p]) = p

Twins ==
    /\ \A c \in Numbers : calls[c].app \notin gone =>
         (c \in requestsHost <=> c \in Live /\ calls[c].kind \notin Local)
    /\ sessionsHost = Range(sessions)

TableInv == Named /\ Views /\ Entries /\ Keyed /\ Twins /\ LocalIsHeld /\ Losses

Signalled(c) == <<"response", c>> \in wire \/ <<"session", c>> \in wire

\* One Response for a request, with a session or without.
Signals ==
    /\ \A c \in Numbers : Signalled(c) => calls[c].said /\ calls[c].kind \in ReturnsRequest
    /\ \A c \in Numbers : <<"session", c>> \in wire =>
         calls[c].kind = "CreateSession" /\ <<"response", c>> \notin wire
    /\ \A c \in Numbers : calls[c].said => calls[c].stage # "sent"

\* Who has heard an answer is not waiting for one.
Heard ==
    /\ portal = "runs" => \A c \in (1..MaxCalls) \ Numbers : responses[c] = <<>>
    /\ \A c \in Numbers : responses[c] # <<>> =>
         IF calls[c].kind \in Local THEN calls[c].stage = "done"
         ELSE calls[c].said /\ ~Signalled(c)
    /\ \A c \in Numbers :
         calls[c].kind \in ReturnsRequest /\ calls[c].view = "answered" /\ ~calls[c].late =>
             calls[c].said /\ ~Signalled(c)

AnswerInv == Signals /\ Heard /\ AnswersMatch

\* What is open at the host, by the calls that opened it; a closed session is
\* not opened again.
OpenedAt(c) ==
    /\ Req(c) \in open => /\ calls[c].kind \in ReturnsRequest /\ calls[c].stage # "sent"
                          /\ calls[c].said => calls[c].kind = "Acquire"
    /\ Inh(c) \in open => calls[c].kind = "Inhibit" /\ calls[c].stage # "sent"
    /\ Ses(c) \in open \/ <<"closed", c>> \in wire =>
         /\ calls[c].kind \in WithSession /\ calls[c].stage # "sent"
         /\ calls[c].kind = "CreateSession" => calls[c].said
    /\ Ses(c) \in open => <<"closed", c>> \notin wire /\ <<"response", c>> \notin wire
    /\ (Ses(c) \in open /\ calls[c].kind = "CreateSession" /\ calls[c].stage # "done") =>
         <<"session", c>> \in wire

Opened == \A c \in Numbers : OpenedAt(c)

\* A FinishAcquireDevices or UnInhibit that was answered has ended what it
\* names, and no other one has; a request that is to be finished is in the table.
FinishAt(f) ==
    LET e == calls[f].of IN
    /\ calls[f].kind = "Finish" =>
         /\ calls[e].said /\ ~Signalled(e) /\ calls[e].stage = "done"
         /\ ((calls[f].stage = "replied" \/ Req(e) \in open) /\ calls[f].app \notin gone) => e \in Live
         /\ calls[f].stage = "replied" =>
              /\ Req(e) \notin open
              /\ \A g \in Numbers :
                   (calls[g].kind = "Finish" /\ calls[g].stage = "replied" /\ g # f) =>
                       calls[g].of # e
    /\ calls[f].kind = "UnInhibit" =>
         /\ calls[e].stage = "done"
         /\ calls[f].stage = "replied" => Inh(e) \notin open

Finishing == \A f \in Numbers : FinishAt(f)

\* Where the router has the objects that stay open at the host.
ReachedAt(c) ==
    /\ Req(c) \in open \ closing /\ calls[c].stage = "done" => c \in Live \/ calls[c].late
    /\ Req(c) \in open /\ calls[c].cancelled => Req(c) \in closing
    /\ Inh(c) \in open \ closing /\ calls[c].stage = "done" => c \in inhibitors \/ calls[c].late
    /\ (Ses(c) \in open \ closing /\ calls[c].stage = "done" /\ <<"session", c>> \notin wire) =>
         \/ c \in sessionsHost \/ calls[c].late
         \/ calls[c].view \in {"closed", "refused"} \/ calls[c].sess = "raw"
         \/ (calls[c].view = "granted" /\ calls[c].app \in gone)
    /\ (/\ calls[c].kind = "CreateSession" /\ calls[c].stage = "done"
        /\ calls[c].app \notin gone /\ calls[c].view # "refused"
        /\ ~calls[c].said \/ <<"session", c>> \in wire) => c \in Live

Reached == portal = "runs" => \A c \in Numbers : ReachedAt(c)

HostInv == Opened /\ Finishing /\ Reached

RequestInv == RequestTypes /\ TableInv /\ AnswerInv /\ HostInv /\ FreedOnlyByOwnerLoss

-----------------------------------------------------------------------------
(* How the steps change calls and tables.                                   *)

\* The step changes nothing about a call but its state.
Keeps(d) ==
    /\ calls'[d].kind = calls[d].kind /\ calls'[d].app = calls[d].app
    /\ calls'[d].tok = calls[d].tok /\ calls'[d].stok = calls[d].stok
    /\ calls'[d].of = calls[d].of

\* The step changes the state of call c to these values, and no other call.
Sets(c, g, v, s, x, k) ==
    /\ calls' \in Seq(CallType) /\ Len(calls') = Len(calls) /\ Numbers' = Numbers
    /\ \A d \in Numbers : Keeps(d) /\ calls'[d].late = calls[d].late
    /\ \A d \in Numbers : d # c => calls'[d] = calls[d]
    /\ calls'[c].stage = g /\ calls'[c].view = v /\ calls'[c].sess = s
    /\ calls'[c].said = x /\ calls'[c].cancelled = k

LEMMA CallFacts ==
    ASSUME RequestTypes
    PROVE  /\ Numbers = 1..Len(calls) /\ Len(calls) \in Nat
           /\ \A c \in Numbers : calls[c] \in CallType
BY DEF RequestTypes, Numbers

LEMMA SetsCall ==
    ASSUME RequestTypes, NEW c \in Numbers, NEW r \in CallType, calls' = [calls EXCEPT ![c] = r]
    PROVE  /\ calls' \in Seq(CallType) /\ Len(calls') = Len(calls) /\ Numbers' = Numbers
           /\ calls'[c] = r /\ \A d \in Numbers : d # c => calls'[d] = calls[d]
BY CallFacts DEF RequestTypes, Numbers

LEMMA SetsStage ==
    ASSUME RequestTypes, NEW c \in Numbers,
           NEW g \in {"sent", "replied", "done"},
           calls' = [calls EXCEPT ![c].stage = g]
    PROVE  Sets(c, g, calls[c].view, calls[c].sess, calls[c].said, calls[c].cancelled)
<1>. DEFINE new == [calls[c] EXCEPT !.stage = g]
<1>1. calls[c] \in CallType
  BY CallFacts
<1>2. new \in CallType
  BY <1>1 DEF CallType
<1>3. /\ new.stage = g /\ new.view = calls[c].view /\ new.sess = calls[c].sess
      /\ new.said = calls[c].said /\ new.cancelled = calls[c].cancelled
      /\ new.kind = calls[c].kind /\ new.app = calls[c].app /\ new.tok = calls[c].tok
      /\ new.stok = calls[c].stok /\ new.of = calls[c].of /\ new.late = calls[c].late
  BY <1>1 DEF CallType
<1>4. calls' = [calls EXCEPT ![c] = new]
  OBVIOUS
<1>. HIDE DEF new
<1>5. /\ calls' \in Seq(CallType) /\ Len(calls') = Len(calls) /\ Numbers' = Numbers
      /\ calls'[c] = new /\ \A d \in Numbers : d # c => calls'[d] = calls[d]
  BY <1>2, <1>4, SetsCall
<1>. QED
  BY <1>3, <1>5 DEF Sets, Keeps

LEMMA SetsSettled ==
    ASSUME RequestTypes, NEW c \in Numbers,
           NEW v \in {"waiting", "granted", "answered", "closed", "refused"},
           calls' = [calls EXCEPT ![c].stage = "done", ![c].view = v]
    PROVE  Sets(c, "done", v, calls[c].sess, calls[c].said, calls[c].cancelled)
<1>. DEFINE new == [calls[c] EXCEPT !.stage = "done", !.view = v]
<1>1. calls[c] \in CallType
  BY CallFacts
<1>2. new \in CallType
  <2>1. ASSUME NEW r \in CallType PROVE [r EXCEPT !.stage = "done"] \in CallType
    BY DEF CallType
  <2>2. ASSUME NEW r \in CallType PROVE [r EXCEPT !.view = v] \in CallType
    BY DEF CallType
  <2>. QED
    BY <1>1, <2>1, <2>2
<1>3. /\ new.stage = "done" /\ new.view = v /\ new.sess = calls[c].sess
      /\ new.said = calls[c].said /\ new.cancelled = calls[c].cancelled
      /\ new.kind = calls[c].kind /\ new.app = calls[c].app /\ new.tok = calls[c].tok
      /\ new.stok = calls[c].stok /\ new.of = calls[c].of /\ new.late = calls[c].late
  BY <1>1 DEF CallType
<1>4. calls' = [calls EXCEPT ![c] = new]
  OBVIOUS
<1>. HIDE DEF new
<1>5. /\ calls' \in Seq(CallType) /\ Len(calls') = Len(calls) /\ Numbers' = Numbers
      /\ calls'[c] = new /\ \A d \in Numbers : d # c => calls'[d] = calls[d]
  BY <1>2, <1>4, SetsCall
<1>. QED
  BY <1>3, <1>5 DEF Sets, Keeps

LEMMA SetsSession ==
    ASSUME RequestTypes, NEW c \in Numbers,
           NEW v \in {"waiting", "granted", "answered", "closed", "refused"},
           NEW s \in {"none", "told", "raw", "closed"},
           calls' = [calls EXCEPT ![c].stage = "done", ![c].view = v, ![c].sess = s]
    PROVE  Sets(c, "done", v, s, calls[c].said, calls[c].cancelled)
<1>. DEFINE new == [calls[c] EXCEPT !.stage = "done", !.view = v, !.sess = s]
<1>1. calls[c] \in CallType
  BY CallFacts
<1>2. new \in CallType
  <2>1. ASSUME NEW r \in CallType PROVE [r EXCEPT !.stage = "done"] \in CallType
    BY DEF CallType
  <2>2. ASSUME NEW r \in CallType PROVE [r EXCEPT !.view = v] \in CallType
    BY DEF CallType
  <2>3. ASSUME NEW r \in CallType PROVE [r EXCEPT !.sess = s] \in CallType
    BY DEF CallType
  <2>. QED
    BY <1>1, <2>1, <2>2, <2>3
<1>3. /\ new.stage = "done" /\ new.view = v /\ new.sess = s
      /\ new.said = calls[c].said /\ new.cancelled = calls[c].cancelled
      /\ new.kind = calls[c].kind /\ new.app = calls[c].app /\ new.tok = calls[c].tok
      /\ new.stok = calls[c].stok /\ new.of = calls[c].of /\ new.late = calls[c].late
  BY <1>1 DEF CallType
<1>4. calls' = [calls EXCEPT ![c] = new]
  OBVIOUS
<1>. HIDE DEF new
<1>5. /\ calls' \in Seq(CallType) /\ Len(calls') = Len(calls) /\ Numbers' = Numbers
      /\ calls'[c] = new /\ \A d \in Numbers : d # c => calls'[d] = calls[d]
  BY <1>2, <1>4, SetsCall
<1>. QED
  BY <1>3, <1>5 DEF Sets, Keeps

LEMMA SetsAnswered ==
    ASSUME RequestTypes, NEW c \in Numbers,
           NEW s \in {"none", "told", "raw", "closed"},
           calls' = [calls EXCEPT ![c].view = "answered", ![c].sess = s]
    PROVE  Sets(c, calls[c].stage, "answered", s, calls[c].said, calls[c].cancelled)
<1>. DEFINE new == [calls[c] EXCEPT !.view = "answered", !.sess = s]
<1>1. calls[c] \in CallType
  BY CallFacts
<1>2. new \in CallType
  <2>1. ASSUME NEW r \in CallType PROVE [r EXCEPT !.view = "answered"] \in CallType
    BY DEF CallType
  <2>2. ASSUME NEW r \in CallType PROVE [r EXCEPT !.sess = s] \in CallType
    BY DEF CallType
  <2>. QED
    BY <1>1, <2>1, <2>2
<1>3. /\ new.stage = calls[c].stage /\ new.view = "answered" /\ new.sess = s
      /\ new.said = calls[c].said /\ new.cancelled = calls[c].cancelled
      /\ new.kind = calls[c].kind /\ new.app = calls[c].app /\ new.tok = calls[c].tok
      /\ new.stok = calls[c].stok /\ new.of = calls[c].of /\ new.late = calls[c].late
  BY <1>1 DEF CallType
<1>4. calls' = [calls EXCEPT ![c] = new]
  OBVIOUS
<1>. HIDE DEF new
<1>5. /\ calls' \in Seq(CallType) /\ Len(calls') = Len(calls) /\ Numbers' = Numbers
      /\ calls'[c] = new /\ \A d \in Numbers : d # c => calls'[d] = calls[d]
  BY <1>2, <1>4, SetsCall
<1>. QED
  BY <1>3, <1>5 DEF Sets, Keeps

LEMMA SetsSaid ==
    ASSUME RequestTypes, NEW c \in Numbers,
           calls' = [calls EXCEPT ![c].said = TRUE]
    PROVE  Sets(c, calls[c].stage, calls[c].view, calls[c].sess, TRUE, calls[c].cancelled)
<1>. DEFINE new == [calls[c] EXCEPT !.said = TRUE]
<1>1. calls[c] \in CallType
  BY CallFacts
<1>2. new \in CallType
  BY <1>1 DEF CallType
<1>3. /\ new.stage = calls[c].stage /\ new.view = calls[c].view /\ new.sess = calls[c].sess
      /\ new.said = TRUE /\ new.cancelled = calls[c].cancelled
      /\ new.kind = calls[c].kind /\ new.app = calls[c].app /\ new.tok = calls[c].tok
      /\ new.stok = calls[c].stok /\ new.of = calls[c].of /\ new.late = calls[c].late
  BY <1>1 DEF CallType
<1>4. calls' = [calls EXCEPT ![c] = new]
  OBVIOUS
<1>. HIDE DEF new
<1>5. /\ calls' \in Seq(CallType) /\ Len(calls') = Len(calls) /\ Numbers' = Numbers
      /\ calls'[c] = new /\ \A d \in Numbers : d # c => calls'[d] = calls[d]
  BY <1>2, <1>4, SetsCall
<1>. QED
  BY <1>3, <1>5 DEF Sets, Keeps

LEMMA SetsCancelled ==
    ASSUME RequestTypes, NEW c \in Numbers,
           calls' = [calls EXCEPT ![c].cancelled = TRUE, ![c].view = "closed"]
    PROVE  Sets(c, calls[c].stage, "closed", calls[c].sess, calls[c].said, TRUE)
<1>. DEFINE new == [calls[c] EXCEPT !.cancelled = TRUE, !.view = "closed"]
<1>1. calls[c] \in CallType
  BY CallFacts
<1>2. new \in CallType
  <2>1. ASSUME NEW r \in CallType PROVE [r EXCEPT !.cancelled = TRUE] \in CallType
    BY DEF CallType
  <2>2. ASSUME NEW r \in CallType PROVE [r EXCEPT !.view = "closed"] \in CallType
    BY DEF CallType
  <2>. QED
    BY <1>1, <2>1, <2>2
<1>3. /\ new.stage = calls[c].stage /\ new.view = "closed" /\ new.sess = calls[c].sess
      /\ new.said = calls[c].said /\ new.cancelled = TRUE
      /\ new.kind = calls[c].kind /\ new.app = calls[c].app /\ new.tok = calls[c].tok
      /\ new.stok = calls[c].stok /\ new.of = calls[c].of /\ new.late = calls[c].late
  BY <1>1 DEF CallType
<1>4. calls' = [calls EXCEPT ![c] = new]
  OBVIOUS
<1>. HIDE DEF new
<1>5. /\ calls' \in Seq(CallType) /\ Len(calls') = Len(calls) /\ Numbers' = Numbers
      /\ calls'[c] = new /\ \A d \in Numbers : d # c => calls'[d] = calls[d]
  BY <1>2, <1>4, SetsCall
<1>. QED
  BY <1>3, <1>5 DEF Sets, Keeps

LEMMA SetsSess ==
    ASSUME RequestTypes, NEW c \in Numbers,
           NEW s \in {"none", "told", "raw", "closed"},
           calls' = [calls EXCEPT ![c].sess = s]
    PROVE  Sets(c, calls[c].stage, calls[c].view, s, calls[c].said, calls[c].cancelled)
<1>. DEFINE new == [calls[c] EXCEPT !.sess = s]
<1>1. calls[c] \in CallType
  BY CallFacts
<1>2. new \in CallType
  BY <1>1 DEF CallType
<1>3. /\ new.stage = calls[c].stage /\ new.view = calls[c].view /\ new.sess = s
      /\ new.said = calls[c].said /\ new.cancelled = calls[c].cancelled
      /\ new.kind = calls[c].kind /\ new.app = calls[c].app /\ new.tok = calls[c].tok
      /\ new.stok = calls[c].stok /\ new.of = calls[c].of /\ new.late = calls[c].late
  BY <1>1 DEF CallType
<1>4. calls' = [calls EXCEPT ![c] = new]
  OBVIOUS
<1>. HIDE DEF new
<1>5. /\ calls' \in Seq(CallType) /\ Len(calls') = Len(calls) /\ Numbers' = Numbers
      /\ calls'[c] = new /\ \A d \in Numbers : d # c => calls'[d] = calls[d]
  BY <1>2, <1>4, SetsCall
<1>. QED
  BY <1>3, <1>5 DEF Sets, Keeps

\* The tables by their entries.
LEMMA TableFacts ==
    ASSUME Keyed
    PROVE  /\ \A c \in Live : Path(c) \in DOMAIN requests /\ requests[Path(c)] = c
           /\ \A p \in DOMAIN requests : requests[p] \in Live
           /\ \A c \in Range(sessions) : SessionPath(c) \in DOMAIN sessions /\ sessions[SessionPath(c)] = c
           /\ \A p \in DOMAIN sessions : sessions[p] \in Range(sessions)
BY DEF Keyed, Live, Range

LEMMA DropsOne ==
    ASSUME Keyed, NEW c \in Live, requests' = Without(requests, {Path(c)})
    PROVE  /\ Live' = Live \ {c}
           /\ \A p \in DOMAIN requests' : p \in DOMAIN requests /\ requests'[p] = requests[p]
<1>1. Path(c) \in DOMAIN requests /\ requests[Path(c)] = c
  BY TableFacts
<1>2. /\ DOMAIN requests' = DOMAIN requests \ {Path(c)}
      /\ \A p \in DOMAIN requests' : requests'[p] = requests[p]
  BY DEF Without, Restrict
<1>. QED
  BY <1>1, <1>2 DEF Live, Range, Keyed

LEMMA DropsNone ==
    ASSUME NEW p, p \notin DOMAIN requests, requests' = Without(requests, {p})
    PROVE  /\ Live' = Live
           /\ \A q \in DOMAIN requests' : q \in DOMAIN requests /\ requests'[q] = requests[q]
<1>1. /\ DOMAIN requests' = DOMAIN requests
      /\ \A q \in DOMAIN requests' : requests'[q] = requests[q]
  BY DEF Without, Restrict
<1>. QED
  BY <1>1 DEF Live, Range

LEMMA AddsOne ==
    ASSUME NEW p, NEW c, p \notin DOMAIN requests, requests' = With(requests, p, c)
    PROVE  /\ Live' = Live \cup {c}
           /\ \A q \in DOMAIN requests' :
                \/ q \in DOMAIN requests /\ requests'[q] = requests[q]
                \/ q = p /\ requests'[q] = c
<1>1. /\ DOMAIN requests' = DOMAIN requests \cup {p}
      /\ requests'[p] = c /\ \A q \in DOMAIN requests : requests'[q] = requests[q]
  BY DEF With
<1>. QED
  BY <1>1 DEF Live, Range

LEMMA SessionDrops ==
    ASSUME Keyed, NEW c \in Range(sessions), sessions' = Without(sessions, {SessionPath(c)})
    PROVE  /\ Range(sessions)' = Range(sessions) \ {c}
           /\ \A p \in DOMAIN sessions' : p \in DOMAIN sessions /\ sessions'[p] = sessions[p]
<1>1. SessionPath(c) \in DOMAIN sessions /\ sessions[SessionPath(c)] = c
  BY TableFacts
<1>2. /\ DOMAIN sessions' = DOMAIN sessions \ {SessionPath(c)}
      /\ \A p \in DOMAIN sessions' : sessions'[p] = sessions[p]
  BY DEF Without, Restrict
<1>. QED
  BY <1>1, <1>2 DEF Range, Keyed

LEMMA SessionAdds ==
    ASSUME NEW p, NEW c, p \notin DOMAIN sessions, sessions' = With(sessions, p, c)
    PROVE  /\ Range(sessions)' = Range(sessions) \cup {c}
           /\ \A q \in DOMAIN sessions' :
                \/ q \in DOMAIN sessions /\ sessions'[q] = sessions[q]
                \/ q = p /\ sessions'[q] = c
<1>1. /\ DOMAIN sessions' = DOMAIN sessions \cup {p}
      /\ sessions'[p] = c /\ \A q \in DOMAIN sessions : sessions'[q] = sessions[q]
  BY DEF With
<1>. QED
  BY <1>1 DEF Range

LEMMA Agreeing ==
    ASSUME RequestTypes, Keyed, Twins
    PROVE  TablesAgree
BY DEF RequestTypes, Keyed, Twins, TablesAgree

-----------------------------------------------------------------------------
(* Initially.                                                               *)

LEMMA RequestInitInv == Init => RequestInv
<1>. SUFFICES ASSUME Init PROVE RequestInv
  OBVIOUS
<1>1. /\ Numbers = {} /\ Len(calls) = 0 /\ calls \in Seq(CallType)
      /\ DOMAIN requests = {} /\ DOMAIN sessions = {}
  BY DEF Init, Numbers
<1>2. Live = {} /\ Range(sessions) = {}
  BY <1>1 DEF Live, Range
<1>3. responses \in [1..MaxCalls -> Seq(1..MaxCalls)]
  BY EmptySeq DEF Init
<1>4. RequestTypes
  BY <1>1, <1>2, <1>3, BoundAssumption DEF Init, RequestTypes
<1>5. TableInv
  BY <1>1, <1>2 DEF Init, TableInv, Named, Views, Entries, Keyed, Twins, LocalIsHeld, Losses
<1>6. AnswerInv
  BY <1>1 DEF Init, AnswerInv, Signals, Heard, AnswersMatch
<1>7. HostInv
  BY <1>1 DEF Init, HostInv, Opened, Finishing, Reached
<1>. QED
  BY <1>4, <1>5, <1>6, <1>7 DEF Init, RequestInv, FreedOnlyByOwnerLoss

-----------------------------------------------------------------------------
(* Steps that leave the tables alone.                                       *)

\* The state of a call goes forward: an answered call stays answered, and local
\* calls are not touched.
Forward(c, g, v, k) ==
    /\ calls[c].stage = "done" => g = "done"
    /\ g = calls[c].stage \/ calls[c].kind \notin Local
    /\ k <=> v = "closed"
    /\ g = "done" => v # "waiting"
    /\ g # "done" /\ calls[c].kind \notin Local => v = "waiting"
    /\ calls[c].kind \in Local => v # "waiting"

LEMMA PathsStay ==
    ASSUME NEW d, Keeps(d)
    PROVE  Path(d)' = Path(d) /\ SessionPath(d)' = SessionPath(d)
BY DEF Keeps, Path, SessionPath

\* A step that only changes the state of a call changes nothing that a call names.
LEMMA NamesStay ==
    ASSUME Named, Numbers' = Numbers, \A d \in Numbers : Keeps(d)
    PROVE  Named'
<1>1. \A d \in Numbers : Keeps(d) /\ Path(d)' = Path(d)
  BY PathsStay
<1>. QED
  BY <1>1 DEF Named, Keeps

\* A step that neither makes calls nor changes the tables keeps their keys.
LEMMA StillKeyed ==
    ASSUME RequestTypes, Keyed, \A d \in Numbers : Keeps(d),
           UNCHANGED <<requests, sessions>>
    PROVE  Keyed'
BY PathsStay, TableFacts DEF RequestTypes, Keyed

LEMMA TablesStill ==
    ASSUME RequestTypes, TableInv, UNCHANGED <<gone, tables>>,
           NEW c \in Numbers, NEW g, NEW v, NEW s, NEW x, NEW k,
           Sets(c, g, v, s, x, k), Forward(c, g, v, k)
    PROVE  TableInv'
<1>1. /\ Live' = Live /\ Range(sessions)' = Range(sessions) /\ requestsHost' = requestsHost
      /\ sessionsHost' = sessionsHost /\ inhibitors' = inhibitors /\ gone' = gone
  BY DEF tables, Live, Range
<1>2. \A d \in Numbers : Keeps(d) /\ Path(d)' = Path(d) /\ SessionPath(d)' = SessionPath(d)
  BY PathsStay DEF Sets
<1>3. Named'
  BY <1>2 DEF TableInv, Named, Sets, Keeps
<1>4. Views'
  BY <1>2 DEF TableInv, Views, Sets, Keeps, Forward
<1>5. Entries'
  <2>1. \A d \in Numbers : /\ calls'[d].kind = calls[d].kind
                           /\ calls[d].stage = "done" => calls'[d].stage = "done"
                           /\ calls[d].kind \in Local => calls'[d].stage = calls[d].stage
    BY <1>2 DEF Sets, Keeps, Forward
  <2>2. Live \subseteq Numbers /\ sessionsHost \subseteq Numbers
    BY DEF RequestTypes, TableInv, Twins
  <2>. QED
    BY <1>1, <2>1, <2>2 DEF TableInv, Entries, RequestTypes
<1>6. Keyed'
  BY <1>2, StillKeyed DEF TableInv, tables
<1>7. Twins'
  BY <1>1, <1>2 DEF TableInv, Twins, Sets, Keeps
<1>8. LocalIsHeld'
  BY <1>1, <1>2 DEF TableInv, LocalIsHeld, Sets, Keeps, Forward
<1>9. Losses'
  BY <1>1, <1>2 DEF TableInv, Losses, Sets, Keeps, Forward
<1>. QED
  BY <1>3, <1>4, <1>5, <1>6, <1>7, <1>8, <1>9 DEF TableInv

LEMMA TablesUnchanged ==
    ASSUME RequestTypes, TableInv, UNCHANGED <<calls, gone, tables>>
    PROVE  TableInv'
<1>1. /\ Live' = Live /\ Range(sessions)' = Range(sessions) /\ Numbers' = Numbers
      /\ \A d \in Numbers : Path(d)' = Path(d) /\ SessionPath(d)' = SessionPath(d)
  BY DEF tables, Live, Range, Numbers, Path, SessionPath
<1>2. Named' /\ Views' /\ Entries' /\ LocalIsHeld' /\ Losses'
  BY <1>1 DEF TableInv, Named, Views, Entries, LocalIsHeld, Losses, tables
<1>3. Keyed' /\ Twins'
  BY <1>1 DEF TableInv, Keyed, Twins, tables, Path, SessionPath
<1>. QED
  BY <1>2, <1>3 DEF TableInv

LEMMA TypesStill ==
    ASSUME RequestTypes, UNCHANGED <<gone, tables, responses>>, portal' \in {"runs", "quit", "undefined"},
           calls' \in Seq(CallType), Len(calls') = Len(calls), Numbers' = Numbers,
           open' \subseteq {"request", "session", "inhibit"} \X Numbers,
           wire' \subseteq {"response", "session", "closed"} \X Numbers
    PROVE  RequestTypes'
<1>1. Live' = Live /\ Range(sessions)' = Range(sessions)
  BY DEF tables, Live, Range
<1>. QED
  BY <1>1 DEF RequestTypes, tables

\* Steps in which nobody hears anything.
LEMMA AnswersStill ==
    ASSUME RequestTypes, AnswerInv, UNCHANGED <<portal, wire, responses>>,
           NEW c \in Numbers, NEW g, NEW v, NEW s, NEW k,
           Sets(c, g, v, s, calls[c].said, k),
           calls[c].stage = "done" => g = "done",
           calls[c].stage # "sent" => g # "sent",
           v = "answered" /\ calls[c].kind \in ReturnsRequest => calls[c].view = "answered"
    PROVE  AnswerInv'
<1>1. \A d \in Numbers : /\ Signalled(d)' <=> Signalled(d)
                         /\ calls'[d].said = calls[d].said /\ calls'[d].kind = calls[d].kind
                         /\ calls'[d].late = calls[d].late
  BY DEF Signalled, Sets, Keeps
<1>2. Signals'
  BY <1>1 DEF AnswerInv, Signals, Sets
<1>3. Heard'
  BY <1>1 DEF AnswerInv, Heard, Sets
<1>4. AnswersMatch'
  BY DEF AnswerInv, AnswersMatch, Sets
<1>. QED
  BY <1>2, <1>3, <1>4 DEF AnswerInv

LEMMA AnswersUnchanged ==
    ASSUME AnswerInv, UNCHANGED <<calls, responses>>,
           portal' = portal \/ portal' # "runs",
           \A c \in Numbers : /\ <<"response", c>> \in wire' => <<"response", c>> \in wire
                              /\ <<"session", c>> \in wire' => <<"session", c>> \in wire
    PROVE  AnswerInv'
<1>1. \A d \in Numbers : Signalled(d)' => Signalled(d)
  BY DEF Signalled
<1>2. Numbers' = Numbers
  BY DEF Numbers
<1>3. Signals'
  BY <1>1, <1>2 DEF AnswerInv, Signals
<1>4. Heard'
  BY <1>1, <1>2 DEF AnswerInv, Heard
<1>5. AnswersMatch'
  BY <1>2 DEF AnswerInv, AnswersMatch
<1>. QED
  BY <1>3, <1>4, <1>5 DEF AnswerInv

\* What the host and the tables have of a call stays as it is.
SameAt(d) ==
    /\ Req(d) \in open' <=> Req(d) \in open
    /\ Ses(d) \in open' <=> Ses(d) \in open
    /\ Inh(d) \in open' <=> Inh(d) \in open
    /\ \A t \in {"response", "session", "closed"} : <<t, d>> \in wire' <=> <<t, d>> \in wire
    /\ Req(d) \in open /\ Req(d) \in closing => Req(d) \in closing'
    /\ Ses(d) \in open /\ Ses(d) \in closing => Ses(d) \in closing'
    /\ Inh(d) \in open /\ Inh(d) \in closing => Inh(d) \in closing'
    /\ d \in Live => d \in Live'
    /\ d \in sessionsHost => d \in sessionsHost'
    /\ d \in inhibitors => d \in inhibitors'
    /\ calls[d].app \in gone' <=> calls[d].app \in gone

LEMMA OpenedStill ==
    ASSUME NEW d, SameAt(d), OpenedAt(d), Keeps(d),
           calls'[d].stage = "sent" => calls[d].stage = "sent",
           calls[d].stage = "done" => calls'[d].stage = "done", calls'[d].said = calls[d].said
    PROVE  OpenedAt(d)'
BY DEF SameAt, OpenedAt, Keeps, Req, Ses, Inh

LEMMA ReachedStill ==
    ASSUME NEW d, SameAt(d), ReachedAt(d), calls'[d] = calls[d]
    PROVE  ReachedAt(d)'
BY DEF SameAt, ReachedAt, Req, Ses, Inh

\* What FinishAcquireDevices and UnInhibit name is done and not opened again.
LEMMA FinishingStill ==
    ASSUME RequestTypes, Named, Finishing, Numbers' = Numbers,
           \A d \in Numbers :
              /\ Keeps(d)
              /\ calls[d].stage = "done" => calls'[d].stage = "done"
              /\ calls[d].said => calls'[d].said
              /\ calls'[d].stage = "replied" =>
                   calls[d].stage = "replied" \/ calls[d].kind \notin {"Finish", "UnInhibit"}
              /\ calls[d].app \notin gone' => calls[d].app \notin gone,
           \A d \in Numbers : calls[d].stage = "done" =>
              /\ calls[d].said /\ Signalled(d)' => Signalled(d)
              /\ Req(d) \in open' => Req(d) \in open
              /\ Inh(d) \in open' => Inh(d) \in open
              /\ (/\ calls[d].kind = "Acquire" /\ d \in Live /\ calls[d].app \notin gone'
                  /\ ~Signalled(d)) => d \in Live'
    PROVE  Finishing'
<1>. SUFFICES ASSUME NEW f \in Numbers PROVE FinishAt(f)'
  BY DEF Finishing
<1>1. ASSUME calls[f].kind = "Finish" PROVE FinishAt(f)'
  <2>. PICK e \in Numbers : e = calls[f].of
    BY <1>1 DEF Named
  <2>1. /\ calls[e].kind = "Acquire" /\ calls[e].app = calls[f].app
        /\ calls[e].said /\ ~Signalled(e) /\ calls[e].stage = "done"
    BY <1>1 DEF Named, Finishing, FinishAt, Path
  <2>2. calls'[e].said /\ ~Signalled(e)' /\ calls'[e].stage = "done"
    BY <2>1
  <2>3. ((calls'[f].stage = "replied" \/ Req(e) \in open') /\ calls'[f].app \notin gone') => e \in Live'
    BY <1>1, <2>1 DEF Finishing, FinishAt, Keeps
  <2>4. calls'[f].stage = "replied" => Req(e) \notin open'
    BY <1>1, <2>1 DEF Finishing, FinishAt, Keeps
  <2>5. calls'[f].stage = "replied" =>
          \A g \in Numbers : (/\ calls'[g].kind = "Finish" /\ calls'[g].stage = "replied"
                              /\ g # f) => calls'[g].of # e
    BY <1>1 DEF Finishing, FinishAt, Keeps
  <2>6. calls'[f].of = e /\ calls'[f].kind = "Finish"
    BY <1>1 DEF Keeps
  <2>. QED
    BY <2>2, <2>3, <2>4, <2>5, <2>6 DEF FinishAt, Req, Signalled
<1>2. ASSUME calls[f].kind = "UnInhibit" PROVE FinishAt(f)'
  <2>. PICK e \in Numbers : e = calls[f].of
    BY <1>2 DEF Named
  <2>1. calls[e].stage = "done"
    BY <1>2 DEF Finishing, FinishAt
  <2>2. calls'[e].stage = "done" /\ (calls'[f].stage = "replied" => Inh(e) \notin open')
    BY <1>2, <2>1 DEF Finishing, FinishAt
  <2>3. calls'[f].of = e /\ calls'[f].kind = "UnInhibit"
    BY <1>2 DEF Keeps
  <2>. QED
    BY <2>2, <2>3 DEF FinishAt, Inh
<1>3. ASSUME calls[f].kind \notin {"Finish", "UnInhibit"} PROVE FinishAt(f)'
  BY <1>3 DEF FinishAt, Keeps
<1>. QED
  BY <1>1, <1>2, <1>3

-----------------------------------------------------------------------------
(* The host's services.                                                     *)

LEMMA Parts ==
    ASSUME RequestInv
    PROVE  /\ RequestTypes /\ TableInv /\ AnswerInv
           /\ Opened /\ Finishing /\ Reached /\ FreedOnlyByOwnerLoss
           /\ Named /\ Views /\ Entries /\ Keyed /\ Twins /\ LocalIsHeld /\ Losses
           /\ Signals /\ Heard /\ AnswersMatch
BY DEF RequestInv, HostInv, TableInv, AnswerInv

LEMMA Whole ==
    ASSUME RequestTypes', TableInv', AnswerInv', Opened', Finishing', Reached', portal' # "undefined"
    PROVE  RequestInv'
BY DEF RequestInv, HostInv, FreedOnlyByOwnerLoss

LEMMA HostRepliesStep ==
    ASSUME RequestInv, NEW c \in Numbers, HostReplies(c)
    PROVE  RequestInv'
<1>. USE Parts
<1>0. /\ portal = "runs" /\ portal' = portal /\ UNCHANGED <<gone, tables, closing, wire, responses>>
      /\ calls[c].stage = "sent" /\ calls[c].kind \notin Local
      /\ Ended(c) \subseteq open /\ open' = (open \cup Made(c)) \ Ended(c)
  BY DEF HostReplies, Runs
<1>1. Sets(c, "replied", calls[c].view, calls[c].sess, calls[c].said, calls[c].cancelled)
  BY SetsStage DEF HostReplies
<1>2. TableInv'
  <2>1. Forward(c, "replied", calls[c].view, calls[c].cancelled)
    BY <1>0 DEF Forward, Views
  <2>. QED
    BY <1>0, <1>1, <2>1, TablesStill
<1>3. AnswerInv'
  BY <1>0, <1>1, AnswersStill
<1>4. Made(c) \subseteq {Req(c), Ses(c), Inh(c)}
  BY DEF Made
<1>5. RequestTypes'
  <2>1. open' \subseteq {"request", "session", "inhibit"} \X Numbers
    BY <1>0, <1>4 DEF RequestTypes, Req, Ses, Inh
  <2>. QED
    BY <1>0, <1>1, <2>1, TypesStill DEF Sets, RequestTypes
<1>6. \A d \in Numbers : d # c =>
        /\ Req(d) \in open' => Req(d) \in open
        /\ Ses(d) \in open' => Ses(d) \in open
        /\ Inh(d) \in open' => Inh(d) \in open
  BY <1>0, <1>4 DEF Req, Ses, Inh
<1>7. /\ Req(c) \in open' => calls[c].kind \in ReturnsRequest
      /\ Ses(c) \in open' => calls[c].kind \in ReturnsSession
      /\ Inh(c) \in open' => calls[c].kind = "Inhibit"
  <2>1. Req(c) \notin open /\ Ses(c) \notin open /\ Inh(c) \notin open
    BY <1>0 DEF Opened, OpenedAt
  <2>. QED
    BY <1>0, <2>1 DEF Made, Req, Ses, Inh, ReturnsRequest, ReturnsSession
<1>8. Opened'
  <2>1. ASSUME NEW d \in Numbers, d # c PROVE OpenedAt(d)'
    BY <1>0, <1>1, <1>6, <2>1 DEF Opened, OpenedAt, Sets, Keeps, Req, Ses, Inh
  <2>2. OpenedAt(c)'
    <3>1. ~calls[c].said /\ <<"closed", c>> \notin wire /\ <<"response", c>> \notin wire
      BY <1>0 DEF Opened, OpenedAt, Signals, Signalled
    <3>. QED
      BY <1>0, <1>1, <1>7, <3>1 DEF OpenedAt, Sets, Keeps, Req, Ses, Inh, WithSession, ReturnsSession
  <2>. QED
    BY <1>1, <2>1, <2>2 DEF Opened, Sets
<1>9. Finishing'
  <2>. SUFFICES ASSUME NEW f \in Numbers, calls[f].kind \in {"Finish", "UnInhibit"}
                PROVE  FinishAt(f)'
    BY <1>1 DEF Finishing, FinishAt, Sets, Keeps
  <2>. PICK e \in Numbers : e = calls[f].of
    BY DEF Named
  <2>1. calls[e].stage = "done" /\ e # c /\ calls'[e] = calls[e] /\ Live' = Live
        /\ calls'[f].of = e /\ calls'[f].kind = calls[f].kind /\ gone' = gone
        /\ calls'[f].app = calls[f].app /\ wire' = wire
    BY <1>0, <1>1 DEF Finishing, FinishAt, Sets, Keeps, Live, tables
  <2>2. CASE calls[f].kind = "UnInhibit"
    <3>1. calls'[f].stage = "replied" => Inh(e) \notin open'
      <4>1. CASE f = c
        BY <1>0, <2>2, <4>1 DEF Ended
      <4>2. CASE f # c
        BY <1>0, <1>1, <1>6, <2>1, <2>2, <4>2 DEF Finishing, FinishAt, Sets
      <4>. QED
        BY <4>1, <4>2
    <3>. QED
      BY <2>1, <2>2, <3>1 DEF FinishAt, Inh
  <2>3. CASE calls[f].kind = "Finish"
    <3>1. calls[e].said /\ ~Signalled(e) /\ (Req(e) \in open' => Req(e) \in open)
      BY <1>6, <2>1, <2>3 DEF Finishing, FinishAt
    <3>2. ~Signalled(e)' /\ calls'[e].said /\ calls'[e].stage = "done"
      BY <2>1, <3>1 DEF Signalled
    <3>3. ((calls'[f].stage = "replied" \/ Req(e) \in open') /\ calls'[f].app \notin gone') => e \in Live'
      <4>1. CASE f = c
        BY <1>0, <2>1, <2>3, <4>1 DEF Finishing, FinishAt, Ended
      <4>2. CASE f # c
        BY <1>1, <2>1, <2>3, <3>1, <4>2 DEF Finishing, FinishAt, Sets
      <4>. QED
        BY <4>1, <4>2
    <3>4. calls'[f].stage = "replied" => Req(e) \notin open'
      <4>1. CASE f = c
        BY <1>0, <2>3, <4>1 DEF Ended
      <4>2. CASE f # c
        BY <1>1, <2>3, <3>1, <4>2 DEF Finishing, FinishAt, Sets
      <4>. QED
        BY <4>1, <4>2
    <3>5. ASSUME calls'[f].stage = "replied", NEW g \in Numbers, g # f,
                 calls'[g].kind = "Finish", calls'[g].stage = "replied"
          PROVE  calls'[g].of # e
      <4>1. calls[g].kind = "Finish" /\ calls'[g].of = calls[g].of
        BY <1>1, <3>5 DEF Sets, Keeps
      <4>2. CASE f = c
        <5>1. calls[g].stage = "replied" /\ Req(e) \in open
          BY <1>0, <1>1, <2>3, <3>5, <4>2 DEF Sets, Ended
        <5>. QED
          BY <4>1, <5>1 DEF Finishing, FinishAt
      <4>3. CASE g = c
        <5>1. calls[f].stage = "replied" /\ Req(calls[g].of) \in open
          BY <1>0, <1>1, <3>5, <4>1, <4>3 DEF Sets, Ended
        <5>. QED
          BY <2>3, <4>1, <5>1 DEF Finishing, FinishAt
      <4>4. CASE f # c /\ g # c
        BY <1>1, <2>3, <3>5, <4>1, <4>4 DEF Finishing, FinishAt, Sets
      <4>. QED
        BY <4>2, <4>3, <4>4
    <3>6. Numbers' = Numbers
      BY <1>1 DEF Sets
    <3>. QED
      BY <2>1, <2>3, <3>2, <3>3, <3>4, <3>5, <3>6 DEF FinishAt, Req, Signalled
  <2>. QED
    BY <2>2, <2>3
<1>10. Reached'
  <2>1. ASSUME NEW d \in Numbers, d # c PROVE ReachedAt(d)'
    <3>1. /\ calls'[d] = calls[d] /\ Live' = Live /\ sessionsHost' = sessionsHost
          /\ inhibitors' = inhibitors /\ gone' = gone /\ wire' = wire /\ closing' = closing
      BY <1>0, <1>1, <2>1 DEF Sets, Live, tables
    <3>. QED
      BY <1>0, <1>6, <2>1, <3>1 DEF Reached, ReachedAt, Req, Ses, Inh
  <2>2. ReachedAt(c)'
    BY <1>0, <1>1 DEF ReachedAt, Sets, Views
  <2>. QED
    BY <1>1, <2>1, <2>2 DEF Reached, Sets
<1>. QED
  BY <1>0, <1>2, <1>3, <1>5, <1>8, <1>9, <1>10, Whole

LEMMA HostRespondsStep ==
    ASSUME RequestInv, NEW c \in Numbers, NEW w \in BOOLEAN, HostResponds(c, w)
    PROVE  RequestInv'
<1>. USE Parts
<1>0. /\ portal = "runs" /\ portal' = portal /\ UNCHANGED <<gone, tables, closing, responses>>
      /\ Req(c) \in open /\ ~calls[c].said /\ (w => calls[c].kind = "CreateSession")
      /\ calls' = [calls EXCEPT ![c].said = TRUE]
      /\ wire' = wire \cup {<<IF w THEN "session" ELSE "response", c>>}
      /\ open' = (open \ (IF calls[c].kind = "Acquire" THEN {} ELSE {Req(c)}))
                    \cup (IF w THEN {Ses(c)} ELSE {})
  BY DEF HostResponds, Runs
<1>1. Sets(c, calls[c].stage, calls[c].view, calls[c].sess, TRUE, calls[c].cancelled)
  BY <1>0, SetsSaid
<1>2. /\ calls[c].kind \in ReturnsRequest /\ calls[c].stage # "sent" /\ ~Signalled(c)
      /\ responses[c] = <<>> /\ calls[c].kind \notin Local
  <2>1. calls[c].kind \in ReturnsRequest /\ calls[c].stage # "sent" /\ ~Signalled(c)
    BY <1>0 DEF Opened, OpenedAt, Signals
  <2>. QED
    BY <1>0, <2>1 DEF Heard, ReturnsRequest, Local
<1>3. TableInv'
  <2>1. Forward(c, calls[c].stage, calls[c].view, calls[c].cancelled)
    BY DEF Forward, Views
  <2>. QED
    BY <1>0, <1>1, <2>1, TablesStill
<1>4. /\ \A d \in Numbers : \A t \in {"response", "session", "closed"} :
           d # c => (<<t, d>> \in wire' <=> <<t, d>> \in wire)
      /\ <<"session", c>> \in wire' <=> w
      /\ <<"response", c>> \in wire' <=> ~w
      /\ <<"closed", c>> \in wire' <=> <<"closed", c>> \in wire
  BY <1>0, <1>2 DEF Signalled
<1>5. /\ \A d \in Numbers : d # c => (Signalled(d)' <=> Signalled(d))
      /\ Signalled(c)'
  BY <1>4 DEF Signalled
<1>6. AnswerInv'
  <2>1. Signals'
    <3>1. Numbers' = Numbers /\ (\A d \in Numbers : calls'[d].kind = calls[d].kind)
      BY <1>1 DEF Sets, Keeps
    <3>2. \A d \in Numbers : d # c => calls'[d] = calls[d]
      BY <1>1 DEF Sets
    <3>3. calls'[c].said /\ calls'[c].stage # "sent"
      BY <1>1, <1>2 DEF Sets
    <3>4. \A d \in Numbers : Signalled(d)' => calls'[d].said /\ calls'[d].kind \in ReturnsRequest
      BY <1>2, <1>5, <3>1, <3>2, <3>3 DEF Signals
    <3>5. \A d \in Numbers : <<"session", d>> \in wire' =>
             calls'[d].kind = "CreateSession" /\ <<"response", d>> \notin wire'
      BY <1>0, <1>4, <3>1 DEF Signals
    <3>6. \A d \in Numbers : calls'[d].said => calls'[d].stage # "sent"
      BY <3>2, <3>3 DEF Signals
    <3>. QED
      BY <3>1, <3>4, <3>5, <3>6 DEF Signals
  <2>2. Heard'
    BY <1>0, <1>1, <1>2, <1>5 DEF Heard, Sets, Keeps
  <2>3. AnswersMatch'
    BY <1>0, <1>1 DEF AnswersMatch, Sets
  <2>. QED
    BY <2>1, <2>2, <2>3 DEF AnswerInv
<1>7. RequestTypes'
  <2>1. open' \subseteq {"request", "session", "inhibit"} \X Numbers
    BY <1>0 DEF RequestTypes, Ses
  <2>2. wire' \subseteq {"response", "session", "closed"} \X Numbers
    BY <1>0 DEF RequestTypes
  <2>. QED
    BY <1>0, <1>1, <2>1, <2>2, TypesStill DEF Sets
<1>8. /\ \A d \in Numbers : d # c =>
           /\ Req(d) \in open' <=> Req(d) \in open
           /\ Ses(d) \in open' <=> Ses(d) \in open
           /\ Inh(d) \in open' <=> Inh(d) \in open
      /\ Req(c) \in open' <=> calls[c].kind = "Acquire"
      /\ Ses(c) \in open' => w
      /\ Inh(c) \notin open'
  <2>1. Ses(c) \notin open /\ Inh(c) \notin open
    BY <1>0, <1>2 DEF Opened, OpenedAt, ReturnsRequest, WithSession, ReturnsSession
  <2>. QED
    BY <1>0, <2>1 DEF Req, Ses, Inh
<1>9. ASSUME NEW d \in Numbers, d # c PROVE SameAt(d) /\ calls'[d] = calls[d]
  BY <1>0, <1>1, <1>4, <1>8, <1>9 DEF SameAt, Sets, Live, tables
<1>10. Opened'
  <2>1. ASSUME NEW d \in Numbers, d # c PROVE OpenedAt(d)'
    BY <1>9, <2>1, OpenedStill DEF Opened, Keeps
  <2>2. OpenedAt(c)'
    <3>1. <<"closed", c>> \notin wire
      BY <1>0, <1>2 DEF Opened, OpenedAt, ReturnsRequest, WithSession, ReturnsSession
    <3>. QED
      BY <1>0, <1>1, <1>2, <1>4, <1>8, <3>1 DEF OpenedAt, Sets, Keeps, Req, Ses, Inh, WithSession
  <2>. QED
    BY <1>1, <2>1, <2>2 DEF Opened, Sets
<1>11. Finishing'
  <2>1. Live' = Live /\ gone' = gone
    BY <1>0 DEF Live, tables
  <2>. QED
    BY <1>0, <1>1, <1>5, <1>8, <2>1, FinishingStill DEF Sets, Keeps
<1>12. Reached'
  <2>1. ASSUME NEW d \in Numbers, d # c PROVE ReachedAt(d)'
    BY <1>0, <1>9, <2>1, ReachedStill DEF Reached
  <2>2. ReachedAt(c)'
    <3>1. Live' = Live /\ gone' = gone /\ closing' = closing /\ ReachedAt(c)
      BY <1>0 DEF Live, tables, Reached
    <3>. QED
      BY <1>0, <1>1, <1>4, <1>8, <3>1 DEF ReachedAt, Sets, Keeps, Req, Ses, Inh
  <2>. QED
    BY <1>1, <2>1, <2>2 DEF Reached, Sets
<1>. QED
  BY <1>0, <1>3, <1>6, <1>7, <1>10, <1>11, <1>12, Whole

LEMMA HostEndsSessionStep ==
    ASSUME RequestInv, NEW c \in Numbers, HostEndsSession(c)
    PROVE  RequestInv'
<1>. USE Parts
<1>0. /\ portal = "runs" /\ portal' = portal
      /\ UNCHANGED <<gone, calls, tables, closing, responses>> /\ Ses(c) \in open
      /\ open' = open \ {Ses(c)} /\ wire' = wire \cup {<<"closed", c>>}
  BY DEF HostEndsSession, Runs
<1>1. /\ Numbers' = Numbers /\ Live' = Live /\ \A d \in Numbers : Keeps(d)
      /\ \A d \in Numbers : Signalled(d)' <=> Signalled(d)
  BY <1>0 DEF Numbers, Live, tables, Keeps, Signalled
<1>2. TableInv'
  BY <1>0, TablesUnchanged
<1>3. AnswerInv'
  BY <1>0, AnswersUnchanged
<1>4. RequestTypes'
  <2>1. wire' \subseteq {"response", "session", "closed"} \X Numbers
    BY <1>0 DEF RequestTypes
  <2>. QED
    BY <1>0, <1>1, <2>1, TypesStill DEF RequestTypes
<1>5. Opened'
  <2>1. ASSUME NEW d \in Numbers PROVE OpenedAt(d)'
    <3>1. OpenedAt(d) /\ OpenedAt(c)
      BY DEF Opened
    <3>. QED
      BY <1>0, <3>1 DEF OpenedAt, Req, Ses, Inh
  <2>. QED
    BY <1>1, <2>1 DEF Opened
<1>6. Finishing'
  BY <1>0, <1>1, FinishingStill
<1>7. Reached'
  <2>1. ASSUME NEW d \in Numbers PROVE ReachedAt(d)'
    <3>1. ReachedAt(d)
      BY <1>0 DEF Reached
    <3>. QED
      BY <1>0, <1>1, <3>1 DEF ReachedAt, Req, Ses, Inh, tables
  <2>. QED
    BY <1>1, <2>1 DEF Reached
<1>. QED
  BY <1>0, <1>2, <1>3, <1>4, <1>5, <1>6, <1>7, Whole

LEMMA HostHandlesCloseStep ==
    ASSUME RequestInv, NEW h \in closing, NEW r \in BOOLEAN, HostHandlesClose(h, r)
    PROVE  RequestInv'
<1>. USE Parts
<1>0. /\ portal = "runs" /\ portal' = portal
      /\ UNCHANGED <<gone, calls, tables, responses>>
      /\ open' = open \ {h} /\ closing' = closing \ {h}
      /\ (r => h \in open /\ h[1] = "session")
      /\ wire' = IF r THEN wire \cup {<<"closed", h[2]>>} ELSE wire
  BY DEF HostHandlesClose, Runs
<1>1. /\ Numbers' = Numbers /\ Live' = Live /\ \A d \in Numbers : Keeps(d)
      /\ \A d \in Numbers : Signalled(d)' <=> Signalled(d)
  BY <1>0 DEF Numbers, Live, tables, Keeps, Signalled
<1>2. r => h[2] \in Numbers /\ h = Ses(h[2])
  BY <1>0 DEF RequestTypes, Ses
<1>3. TableInv'
  BY <1>0, TablesUnchanged
<1>4. AnswerInv'
  BY <1>0, AnswersUnchanged
<1>5. RequestTypes'
  <2>1. wire' \subseteq {"response", "session", "closed"} \X Numbers
    BY <1>0, <1>2 DEF RequestTypes
  <2>. QED
    BY <1>0, <1>1, <2>1, TypesStill DEF RequestTypes
<1>6. Opened'
  <2>1. ASSUME NEW d \in Numbers PROVE OpenedAt(d)'
    <3>1. OpenedAt(d)
      BY DEF Opened
    <3>2. <<"closed", d>> \in wire' => <<"closed", d>> \in wire \/ (Ses(d) \in open /\ Ses(d) \notin open')
      BY <1>0, <1>2
    <3>3. <<"response", d>> \in wire' <=> <<"response", d>> \in wire
      BY <1>0
    <3>. QED
      BY <1>0, <3>1, <3>2, <3>3 DEF OpenedAt, Req, Ses, Inh
  <2>. QED
    BY <1>1, <2>1 DEF Opened
<1>7. Finishing'
  BY <1>0, <1>1, FinishingStill
<1>8. Reached'
  <2>1. ASSUME NEW d \in Numbers PROVE ReachedAt(d)'
    <3>1. ReachedAt(d)
      BY <1>0 DEF Reached
    <3>2. <<"session", d>> \in wire' <=> <<"session", d>> \in wire
      BY <1>0
    <3>. QED
      BY <1>0, <1>1, <3>1, <3>2 DEF ReachedAt, Req, Ses, Inh, tables
  <2>. QED
    BY <1>1, <2>1 DEF Reached
<1>. QED
  BY <1>0, <1>3, <1>4, <1>5, <1>6, <1>7, <1>8, Whole

-----------------------------------------------------------------------------
(* Steps of the router that leave the tables alone.                         *)

LEMMA Refusal ==
    ASSUME RequestInv, NEW c \in Numbers, portal = "runs",
           UNCHANGED <<portal, gone, tables, open, wire, responses>>,
           calls[c].stage # "done", calls[c].kind \notin Local, calls' = Settle(c, "refused"),
           closing \subseteq closing',
           Req(c) \in open => Req(c) \in closing', Inh(c) \notin open
    PROVE  RequestInv'
<1>. USE Parts
<1>1. Sets(c, "done", "refused", calls[c].sess, calls[c].said, calls[c].cancelled)
  BY SetsSettled DEF Settle
<1>2. calls[c].view = "waiting" /\ ~calls[c].cancelled
  BY DEF Views
<1>3. /\ Live' = Live /\ sessionsHost' = sessionsHost /\ inhibitors' = inhibitors /\ gone' = gone
      /\ wire' = wire /\ open' = open
  BY DEF Live, tables
<1>4. TableInv'
  <2>1. Forward(c, "done", "refused", calls[c].cancelled)
    BY <1>2 DEF Forward
  <2>. QED
    BY <1>1, <2>1, TablesStill
<1>5. AnswerInv'
  BY <1>1, AnswersStill
<1>6. RequestTypes'
  BY <1>1, TypesStill DEF Sets, RequestTypes
<1>7. Opened'
  <2>1. ASSUME NEW d \in Numbers PROVE OpenedAt(d)'
    <3>1. SameAt(d) /\ Keeps(d)
      BY <1>1, <1>3 DEF SameAt, Sets
    <3>. QED
      BY <1>1, <3>1, OpenedStill DEF Opened, Sets
  <2>. QED
    BY <1>1, <2>1 DEF Opened, Sets
<1>8. Finishing'
  <2>1. \A d \in Numbers : Signalled(d)' <=> Signalled(d)
    BY <1>3 DEF Signalled
  <2>. QED
    BY <1>1, <1>3, <2>1, FinishingStill DEF Sets
<1>9. Reached'
  <2>1. ASSUME NEW d \in Numbers, d # c PROVE ReachedAt(d)'
    <3>1. SameAt(d) /\ calls'[d] = calls[d] /\ ReachedAt(d)
      BY <1>1, <1>3, <2>1 DEF SameAt, Sets, Reached
    <3>. QED
      BY <3>1, ReachedStill
  <2>2. ReachedAt(c)'
    <3>1. ReachedAt(c)
      BY DEF Reached
    <3>. QED
      BY <1>1, <1>2, <1>3, <3>1 DEF ReachedAt, Sets, Req, Ses, Inh
  <2>. QED
    BY <1>1, <2>1, <2>2 DEF Reached, Sets
<1>. QED
  BY <1>4, <1>5, <1>6, <1>7, <1>8, <1>9, Whole

LEMMA CallFailedStep ==
    ASSUME RequestInv, NEW c \in Numbers, CallFailed(c)
    PROVE  RequestInv'
<1>1. Req(c) \notin open /\ Inh(c) \notin open
  BY Parts DEF CallFailed, Opened, OpenedAt
<1>. QED
  BY <1>1, Refusal DEF CallFailed, Runs, world

LEMMA CloseRequestStep ==
    ASSUME RequestInv, NEW p \in DOMAIN requests, CloseRequest(p)
    PROVE  RequestInv'
<1>. USE Parts
<1>. PICK c \in Numbers : c = requests[p] /\ c \in Live
  BY TableFacts DEF RequestTypes
<1>0. /\ portal = "runs" /\ portal' = portal /\ UNCHANGED <<gone, tables, open, wire, responses>>
      /\ calls' = [calls EXCEPT ![c].cancelled = TRUE, ![c].view = "closed"]
      /\ closing' = IF calls[c].kind \in Local THEN closing ELSE closing \cup {Req(c)}
  BY DEF CloseRequest, Runs, CloseHostObject
<1>1. Sets(c, calls[c].stage, "closed", calls[c].sess, calls[c].said, TRUE)
  BY <1>0, SetsCancelled
<1>2. calls[c].kind \notin Local => calls[c].stage = "done"
  BY DEF Entries
<1>3. /\ Live' = Live /\ sessionsHost' = sessionsHost /\ inhibitors' = inhibitors /\ gone' = gone
      /\ wire' = wire /\ open' = open
  BY <1>0 DEF Live, tables
<1>4. TableInv'
  <2>1. Forward(c, calls[c].stage, "closed", TRUE)
    BY <1>2 DEF Forward
  <2>. QED
    BY <1>0, <1>1, <2>1, TablesStill
<1>5. AnswerInv'
  BY <1>0, <1>1, AnswersStill
<1>6. RequestTypes'
  BY <1>0, <1>1, TypesStill DEF Sets, RequestTypes
<1>7. Opened'
  <2>1. ASSUME NEW d \in Numbers PROVE OpenedAt(d)'
    <3>1. SameAt(d) /\ Keeps(d)
      BY <1>0, <1>1, <1>3 DEF SameAt, Sets
    <3>. QED
      BY <1>1, <3>1, OpenedStill DEF Opened, Sets
  <2>. QED
    BY <1>1, <2>1 DEF Opened, Sets
<1>8. Finishing'
  <2>1. \A d \in Numbers : Signalled(d)' <=> Signalled(d)
    BY <1>3 DEF Signalled
  <2>. QED
    BY <1>1, <1>3, <2>1, FinishingStill DEF Sets
<1>9. Reached'
  <2>1. ASSUME NEW d \in Numbers, d # c PROVE ReachedAt(d)'
    <3>1. SameAt(d) /\ calls'[d] = calls[d] /\ ReachedAt(d)
      BY <1>0, <1>1, <1>3, <2>1 DEF SameAt, Sets, Reached
    <3>. QED
      BY <3>1, ReachedStill
  <2>2. ReachedAt(c)'
    <3>1. ReachedAt(c) /\ (Req(c) \in open => Req(c) \in closing') /\ closing \subseteq closing'
      BY <1>0 DEF Reached, Opened, OpenedAt, ReturnsRequest, Local
    <3>. QED
      BY <1>1, <1>3, <3>1 DEF ReachedAt, Sets, Keeps, Req, Ses, Inh
  <2>. QED
    BY <1>1, <2>1, <2>2 DEF Reached, Sets
<1>. QED
  BY <1>0, <1>4, <1>5, <1>6, <1>7, <1>8, <1>9, Whole

LEMMA CloseSessionStep ==
    ASSUME RequestInv, NEW p \in DOMAIN sessions, CloseSession(p)
    PROVE  RequestInv'
<1>. USE Parts
<1>. PICK c \in Numbers : c = sessions[p]
  BY TableFacts DEF RequestTypes
<1>0. /\ portal = "runs" /\ portal' = portal /\ UNCHANGED <<gone, tables, open, wire, responses>>
      /\ calls' = [calls EXCEPT ![c].sess = "closed"]
      /\ closing' = closing \cup {Ses(c)}
  BY DEF CloseSession, Runs, CloseHostObject
<1>1. Sets(c, calls[c].stage, calls[c].view, "closed", calls[c].said, calls[c].cancelled)
  BY <1>0, SetsSess
<1>3. /\ Live' = Live /\ sessionsHost' = sessionsHost /\ inhibitors' = inhibitors /\ gone' = gone
      /\ wire' = wire /\ open' = open
  BY <1>0 DEF Live, tables
<1>4. TableInv'
  <2>1. Forward(c, calls[c].stage, calls[c].view, calls[c].cancelled)
    BY DEF Forward, Views
  <2>. QED
    BY <1>0, <1>1, <2>1, TablesStill
<1>5. AnswerInv'
  BY <1>0, <1>1, AnswersStill
<1>6. RequestTypes'
  BY <1>0, <1>1, TypesStill DEF Sets, RequestTypes
<1>7. Opened'
  <2>1. ASSUME NEW d \in Numbers PROVE OpenedAt(d)'
    <3>1. SameAt(d) /\ Keeps(d)
      BY <1>0, <1>1, <1>3 DEF SameAt, Sets
    <3>. QED
      BY <1>1, <3>1, OpenedStill DEF Opened, Sets
  <2>. QED
    BY <1>1, <2>1 DEF Opened, Sets
<1>8. Finishing'
  <2>1. \A d \in Numbers : Signalled(d)' <=> Signalled(d)
    BY <1>3 DEF Signalled
  <2>. QED
    BY <1>1, <1>3, <2>1, FinishingStill DEF Sets
<1>9. Reached'
  <2>1. ASSUME NEW d \in Numbers, d # c PROVE ReachedAt(d)'
    <3>1. SameAt(d) /\ calls'[d] = calls[d] /\ ReachedAt(d)
      BY <1>0, <1>1, <1>3, <2>1 DEF SameAt, Sets, Reached
    <3>. QED
      BY <3>1, ReachedStill
  <2>2. ReachedAt(c)'
    <3>1. ReachedAt(c)
      BY <1>0 DEF Reached
    <3>. QED
      BY <1>0, <1>1, <1>3, <3>1 DEF ReachedAt, Sets, Keeps, Req, Ses, Inh
  <2>. QED
    BY <1>1, <2>1, <2>2 DEF Reached, Sets
<1>. QED
  BY <1>0, <1>4, <1>5, <1>6, <1>7, <1>8, <1>9, Whole

-----------------------------------------------------------------------------
(* The applications: calls are added.                                       *)

Kinds == Forwarded \cup Local \cup Screen

\* The step makes call n.
Makes(n, k, a, t, s, g, v, u) ==
    /\ n \in 1..MaxCalls /\ n \notin Numbers /\ Numbers' = Numbers \cup {n}
    /\ calls' \in Seq(CallType) /\ Len(calls') <= MaxCalls
    /\ \A d \in Numbers : calls'[d] = calls[d]
    /\ calls'[n].kind = k /\ calls'[n].app = a /\ calls'[n].tok = t /\ calls'[n].stok = s
    /\ calls'[n].stage = g /\ calls'[n].view = v /\ calls'[n].of = u
    /\ ~calls'[n].said /\ ~calls'[n].cancelled /\ ~calls'[n].late

LEMMA MakesCall ==
    ASSUME RequestTypes, Len(calls) < MaxCalls, NEW k \in Kinds, NEW a \in Apps,
           NEW t \in Tokens \cup {None}, NEW s \in Tokens \cup {None},
           NEW g \in {"sent", "done"}, NEW v \in {"waiting", "granted", "refused"},
           NEW u \in Numbers \cup {None}, calls' = NewCall(k, a, t, s, g, v, u)
    PROVE  Makes(Len(calls) + 1, k, a, t, s, g, v, u)
<1>. DEFINE new == [kind |-> k, app |-> a, tok |-> t, stok |-> s, stage |-> g, view |-> v,
                    of |-> u, sess |-> "none", said |-> FALSE, cancelled |-> FALSE,
                    late |-> FALSE]
<1>1. Numbers = 1..Len(calls) /\ Len(calls) \in Nat
  BY CallFacts
<1>2. u \in (1..MaxCalls) \cup {None}
  BY <1>1, BoundAssumption DEF RequestTypes
<1>3. new \in CallType
  BY <1>2 DEF CallType, Kinds
<1>4. /\ new.kind = k /\ new.app = a /\ new.tok = t /\ new.stok = s /\ new.stage = g
      /\ new.view = v /\ new.of = u /\ ~new.said /\ ~new.cancelled /\ ~new.late
  OBVIOUS
<1>5. calls' = Append(calls, new)
  BY DEF NewCall
<1>. HIDE DEF new
<1>6. /\ calls' \in Seq(CallType) /\ Len(calls') = Len(calls) + 1
      /\ calls'[Len(calls) + 1] = new /\ \A d \in 1..Len(calls) : calls'[d] = calls[d]
  BY <1>1, <1>3, <1>5 DEF RequestTypes
<1>7. Numbers' = 1..Len(calls')
  BY <1>6 DEF Numbers
<1>8. /\ Len(calls) + 1 \in 1..MaxCalls /\ Len(calls) + 1 \notin Numbers
      /\ Numbers' = Numbers \cup {Len(calls) + 1} /\ Len(calls') <= MaxCalls
  BY <1>1, <1>6, <1>7, BoundAssumption
<1>. QED
  BY <1>1, <1>4, <1>6, <1>8 DEF Makes

\* What FinishAcquireDevices and UnInhibit are about.
Subject(k, a, t, u) ==
    /\ k = "Finish" =>
         /\ u \in Live /\ calls[u].kind = "Acquire" /\ Path(u) = <<a, t>> /\ calls[u].said
         /\ calls[u].stage = "done" /\ ~Signalled(u)
    /\ k = "UnInhibit" =>
         u \in Numbers /\ calls[u].kind = "Inhibit" /\ calls[u].stage = "done"

\* What is there of the calls made before stays.
LEMMA Addition ==
    ASSUME RequestInv, NEW n, NEW k \in Kinds, NEW a, NEW t, NEW s, NEW g, NEW v, NEW u,
           Makes(n, k, a, t, s, g, v, u), Subject(k, a, t, u), a \notin gone, portal = "runs",
           \/ k \notin Local /\ g = "sent" /\ v = "waiting"
           \/ k \in Local /\ g = "done" /\ v = "refused"
           \/ k \in Local /\ g = "sent" /\ v = "granted",
           UNCHANGED <<portal, gone, requestsHost, sessions, sessionsHost, inhibitors, world,
                       responses>>
    PROVE  /\ Named' /\ Views' /\ AnswerInv' /\ Opened'
           /\ n \notin Live \cup requestsHost \cup sessionsHost \cup inhibitors
           /\ \A c \in Numbers : Path(c)' = Path(c) /\ SessionPath(c)' = SessionPath(c)
           /\ Path(n)' = <<a, t>> /\ ~Signalled(n)' /\ \A c \in Numbers : Signalled(c)' <=> Signalled(c)
           /\ Req(n) \notin open /\ Ses(n) \notin open /\ Inh(n) \notin open
<1>. USE Parts
<1>1. /\ \A c \in Numbers : Path(c)' = Path(c) /\ SessionPath(c)' = SessionPath(c)
      /\ Path(n)' = <<a, t>>
  BY DEF Makes, Path, SessionPath
<1>2. /\ Req(n) \notin open /\ Ses(n) \notin open /\ Inh(n) \notin open /\ <<"closed", n>> \notin wire
      /\ <<"response", n>> \notin wire /\ <<"session", n>> \notin wire
  BY DEF Makes, RequestTypes, Req, Ses, Inh
<1>3. /\ ~Signalled(n)' /\ \A c \in Numbers : Signalled(c)' <=> Signalled(c)
  BY <1>2 DEF Signalled, world
<1>4. n \notin Live \cup requestsHost \cup sessionsHost \cup inhibitors
  BY DEF Makes, RequestTypes, Twins
<1>5. Named'
  <2>1. k = "Finish" => u \in Numbers
    BY DEF Subject, RequestTypes
  <2>. QED
    BY <1>1, <2>1 DEF Named, Makes, Subject
<1>6. Views'
  BY DEF Views, Makes
<1>7. Signals'
  BY <1>2, <1>3 DEF Signals, Makes, world
<1>8. responses[n] = <<>>
  BY DEF Makes, Heard
<1>9. Heard'
  BY <1>3, <1>8 DEF Heard, Makes
<1>10. AnswersMatch'
  BY <1>8 DEF AnswersMatch, Makes
<1>11. Opened'
  <2>1. ASSUME NEW c \in Numbers PROVE OpenedAt(c)'
    BY <2>1 DEF Opened, OpenedAt, Makes, world, Req, Ses, Inh
  <2>2. OpenedAt(n)'
    BY <1>2 DEF OpenedAt, world, Req, Ses, Inh
  <2>. QED
    BY <2>1, <2>2 DEF Opened, Makes
<1>. QED
  BY <1>1, <1>2, <1>3, <1>4, <1>5, <1>6, <1>7, <1>9, <1>10, <1>11 DEF AnswerInv

LEMMA AdditionFinishing ==
    ASSUME RequestInv, NEW n, NEW k, NEW a, NEW t, NEW s, NEW g, NEW v, NEW u,
           Makes(n, k, a, t, s, g, v, u), Subject(k, a, t, u), g # "replied",
           ~Signalled(n)', \A c \in Numbers : Signalled(c)' <=> Signalled(c),
           Live \subseteq Live', UNCHANGED <<gone, open>>
    PROVE  Finishing'
<1>. USE Parts
<1>1. ASSUME NEW f \in Numbers, calls[f].kind = "Finish" PROVE FinishAt(f)'
  <2>. PICK e \in Numbers : e = calls[f].of
    BY <1>1 DEF Named
  <2>1. calls'[e] = calls[e] /\ calls'[f] = calls[f] /\ ~Signalled(e)'
    BY <1>1 DEF Makes, Finishing, FinishAt
  <2>2. calls'[f].stage = "replied" =>
          \A h \in Numbers' : (calls'[h].kind = "Finish" /\ calls'[h].stage = "replied" /\ h # f) =>
                                 calls'[h].of # e
    BY <1>1 DEF Makes, Finishing, FinishAt
  <2>. QED
    BY <1>1, <2>1, <2>2 DEF Finishing, FinishAt, Req, Signalled
<1>2. ASSUME NEW f \in Numbers, calls[f].kind = "UnInhibit" PROVE FinishAt(f)'
  <2>. PICK e \in Numbers : e = calls[f].of
    BY <1>2 DEF Named
  <2>1. calls'[e] = calls[e] /\ calls'[f] = calls[f]
    BY <1>2 DEF Makes
  <2>. QED
    BY <1>2, <2>1 DEF Finishing, FinishAt, Inh
<1>3. ASSUME NEW f \in Numbers, calls[f].kind \notin {"Finish", "UnInhibit"} PROVE FinishAt(f)'
  BY <1>3 DEF FinishAt, Makes
<1>4. FinishAt(n)'
  <2>1. k = "Finish" => u \in Numbers /\ u \in Live' /\ calls'[u] = calls[u] /\ ~Signalled(u)'
    BY DEF Subject, RequestTypes, Makes
  <2>2. calls'[n].of = u /\ calls'[n].kind = k /\ calls'[n].stage # "replied"
    BY DEF Makes
  <2>3. k = "UnInhibit" => calls'[u] = calls[u]
    BY DEF Subject, Makes
  <2>. QED
    BY <2>1, <2>2, <2>3 DEF FinishAt, Subject, Signalled
<1>. QED
  BY <1>1, <1>2, <1>3, <1>4 DEF Finishing, Makes

\* A call for which nothing is registered yet.
LEMMA AdditionStep ==
    ASSUME RequestInv, NEW n, NEW k \in Kinds, NEW a, NEW t, NEW s, NEW g, NEW v, NEW u,
           Makes(n, k, a, t, s, g, v, u), Subject(k, a, t, u), a \notin gone, portal = "runs",
           \/ k \notin Local /\ g = "sent" /\ v = "waiting"
           \/ k \in Local /\ g = "done" /\ v = "refused",
           UNCHANGED <<portal, gone, tables, world, responses>>
    PROVE  RequestInv'
<1>. USE Parts
<1>1. /\ Live' = Live /\ Range(sessions)' = Range(sessions) /\ requestsHost' = requestsHost
      /\ sessionsHost' = sessionsHost /\ inhibitors' = inhibitors /\ gone' = gone
      /\ open' = open /\ closing' = closing /\ wire' = wire
  BY DEF Live, Range, tables, world
<1>2. /\ Named' /\ Views' /\ AnswerInv' /\ Opened'
      /\ n \notin Live \cup requestsHost \cup sessionsHost \cup inhibitors
      /\ \A c \in Numbers : Path(c)' = Path(c) /\ SessionPath(c)' = SessionPath(c)
      /\ Path(n)' = <<a, t>> /\ ~Signalled(n)' /\ \A c \in Numbers : Signalled(c)' <=> Signalled(c)
      /\ Req(n) \notin open /\ Ses(n) \notin open /\ Inh(n) \notin open
  BY Addition DEF tables
<1>3. RequestTypes'
  BY <1>1 DEF RequestTypes, Makes
<1>4. Entries'
  BY <1>1 DEF Entries, Makes, RequestTypes, Twins
<1>5. Keyed'
  BY <1>2, TableFacts DEF Keyed, tables, RequestTypes
<1>6. Twins'
  BY <1>1, <1>2 DEF Twins, Makes
<1>7. LocalIsHeld'
  <2>1. ASSUME NEW c \in Numbers, calls[c].kind \in Local, calls[c].stage = "sent",
               calls[c].app \notin gone, k = "Finish", Path(c) = <<a, t>>
        PROVE  FALSE
    <3>1. c \in Live /\ u \in Live /\ Path(u) = Path(c) /\ calls[u].kind = "Acquire"
      BY <2>1 DEF LocalIsHeld, Subject
    <3>2. u = c
      BY <3>1, TableFacts
    <3>. QED
      BY <2>1, <3>1, <3>2 DEF Local
  <2>. QED
    BY <1>1, <1>2, <2>1 DEF LocalIsHeld, Makes
<1>8. Losses'
  BY <1>1, <1>2 DEF Losses, Makes
<1>9. Finishing'
  BY <1>1, <1>2, AdditionFinishing
<1>10. Reached'
  <2>1. ASSUME NEW c \in Numbers PROVE ReachedAt(c)'
    BY <1>1, <2>1 DEF Reached, ReachedAt, Makes, Req, Ses, Inh
  <2>2. ReachedAt(n)'
    BY <1>1, <1>2 DEF ReachedAt, Makes, Req, Ses, Inh, Local
  <2>. QED
    BY <2>1, <2>2 DEF Reached, Makes
<1>. QED
  BY <1>2, <1>3, <1>4, <1>5, <1>6, <1>7, <1>8, <1>9, <1>10, Whole DEF TableInv

LEMMA ForwardCallStep ==
    ASSUME RequestInv, NEW a \in Apps, NEW k \in Forwarded, NEW t \in Tokens \cup {None},
           NEW s \in Tokens \cup {None}, ForwardCall(a, k, t, s)
    PROVE  RequestInv'
<1>1. Makes(Len(calls) + 1, k, a, t, s, "sent", "waiting", None)
  BY Parts, MakesCall DEF ForwardCall, Calls, Kinds
<1>2. Subject(k, a, t, None) /\ k \notin Local /\ k \in Kinds
  BY DEF Subject, ForwardCall, Forwarded, Local, Kinds
<1>. QED
  BY <1>1, <1>2, AdditionStep DEF ForwardCall, Calls

LEMMA FinishCallStep ==
    ASSUME RequestInv, NEW a \in Apps, NEW t \in Tokens, FinishCall(a, t)
    PROVE  RequestInv'
<1>. USE Parts
<1>. PICK u \in Numbers : u = requests[<<a, t>>]
  BY TableFacts DEF FinishCall, RequestTypes
<1>1. "Finish" \in Kinds /\ "Finish" \notin Local
  BY DEF Kinds, Forwarded, Local
<1>2. Makes(Len(calls) + 1, "Finish", a, t, None, "sent", "waiting", u)
  BY <1>1, MakesCall DEF FinishCall, Calls
<1>3. u \in Live /\ calls[u].kind = "Acquire" /\ Path(u) = <<a, t>> /\ calls[u].view = "answered"
  BY TableFacts DEF FinishCall, Keyed
<1>4. calls[u].stage = "done" /\ calls[u].app \notin gone /\ ~calls[u].late
  BY <1>3 DEF Entries, Local, FinishCall, Calls, Path, Losses
<1>5. calls[u].said /\ ~Signalled(u)
  BY <1>3, <1>4 DEF Heard, ReturnsRequest
<1>6. Subject("Finish", a, t, u)
  BY <1>3, <1>4, <1>5 DEF Subject
<1>. QED
  BY <1>1, <1>2, <1>6, AdditionStep DEF FinishCall, Calls

LEMMA InhibitCallStep ==
    ASSUME RequestInv, NEW a \in Apps, InhibitCall(a)
    PROVE  RequestInv'
<1>1. "Inhibit" \in Kinds /\ "Inhibit" \notin Local /\ Subject("Inhibit", a, None, None)
  BY DEF Kinds, Screen, Local, Subject
<1>2. Makes(Len(calls) + 1, "Inhibit", a, None, None, "sent", "waiting", None)
  BY <1>1, Parts, MakesCall DEF InhibitCall, Calls
<1>. QED
  BY <1>1, <1>2, AdditionStep DEF InhibitCall, Calls

LEMMA UnInhibitCallStep ==
    ASSUME RequestInv, NEW a \in Apps, NEW c \in inhibitors, UnInhibitCall(a, c)
    PROVE  RequestInv'
<1>1. "UnInhibit" \in Kinds /\ "UnInhibit" \notin Local
  BY DEF Kinds, Screen, Local
<1>2. c \in Numbers /\ Subject("UnInhibit", a, None, c)
  BY Parts DEF RequestTypes, Entries, Subject
<1>3. Makes(Len(calls) + 1, "UnInhibit", a, None, None, "sent", "waiting", c)
  BY <1>1, <1>2, Parts, MakesCall DEF UnInhibitCall, Calls
<1>. QED
  BY <1>1, <1>2, <1>3, AdditionStep DEF UnInhibitCall, Calls

LEMMA LocalCallStep ==
    ASSUME RequestInv, NEW a \in Apps, NEW k \in Local, NEW t \in Tokens, LocalCall(a, k, t)
    PROVE  RequestInv'
<1>. USE Parts
<1>0. k \in Kinds /\ Subject(k, a, t, None)
  BY DEF Kinds, Local, Subject
<1>1. CASE <<a, t>> \in DOMAIN requests
  <2>1. /\ calls' = NewCall(k, a, t, None, "done", "refused", None)
        /\ UNCHANGED <<portal, gone, tables, world, responses>>
        /\ portal = "runs" /\ a \notin gone /\ Len(calls) < MaxCalls
    BY <1>1 DEF LocalCall, Calls, tables
  <2>2. Makes(Len(calls) + 1, k, a, t, None, "done", "refused", None)
    BY <1>0, <2>1, MakesCall
  <2>. QED
    BY <1>0, <2>1, <2>2, AdditionStep
<1>2. CASE <<a, t>> \notin DOMAIN requests
  <2>. DEFINE m == Len(calls) + 1
  <2>1. /\ calls' = NewCall(k, a, t, None, "sent", "granted", None)
        /\ requests' = With(requests, <<a, t>>, m)
        /\ portal = "runs" /\ a \notin gone /\ Len(calls) < MaxCalls /\ ~InUse(a, t)
        /\ UNCHANGED <<portal, gone, requestsHost, sessions, sessionsHost, inhibitors, world,
                       responses>>
    BY <1>2 DEF LocalCall, Calls
  <2>2. Makes(m, k, a, t, None, "sent", "granted", None)
    BY <1>0, <2>1, MakesCall
  <2>. PICK n : n = m
    OBVIOUS
  <2>3. Makes(n, k, a, t, None, "sent", "granted", None) /\ requests' = With(requests, <<a, t>>, n)
    BY <2>1, <2>2
  <2>. HIDE DEF m
  <2>4. /\ Range(sessions)' = Range(sessions) /\ requestsHost' = requestsHost
        /\ sessionsHost' = sessionsHost /\ inhibitors' = inhibitors /\ gone' = gone
        /\ open' = open /\ closing' = closing /\ wire' = wire
    BY <2>1 DEF Range, world
  <2>5. /\ Live' = Live \cup {n}
        /\ \A q \in DOMAIN requests' : \/ q \in DOMAIN requests /\ requests'[q] = requests[q]
                                       \/ q = <<a, t>> /\ requests'[q] = n
    BY <1>2, <2>3, AddsOne
  <2>6. /\ Named' /\ Views' /\ AnswerInv' /\ Opened'
        /\ n \notin Live \cup requestsHost \cup sessionsHost \cup inhibitors
        /\ \A c \in Numbers : Path(c)' = Path(c) /\ SessionPath(c)' = SessionPath(c)
        /\ Path(n)' = <<a, t>> /\ ~Signalled(n)' /\ \A c \in Numbers : Signalled(c)' <=> Signalled(c)
        /\ Req(n) \notin open /\ Ses(n) \notin open /\ Inh(n) \notin open
    BY <1>0, <2>1, <2>3, Addition
  <2>7. RequestTypes'
    BY <2>1, <2>3, <2>4, <2>5 DEF RequestTypes, Makes
  <2>8. Entries'
    BY <2>3, <2>4, <2>5 DEF Entries, Makes, RequestTypes, Twins
  <2>9. Keyed'
    <3>1. \A p \in DOMAIN requests : requests[p] \in Numbers
      BY TableFacts DEF RequestTypes
    <3>2. \A p \in DOMAIN sessions : sessions[p] \in Numbers
      BY TableFacts DEF RequestTypes
    <3>. QED
      BY <2>1, <2>5, <2>6, <3>1, <3>2 DEF Keyed
  <2>10. Twins'
    BY <2>3, <2>4, <2>5, <2>6 DEF Twins, Makes
  <2>11. LocalIsHeld'
    <3>1. ASSUME NEW f \in Numbers, calls[f].kind = "Finish", Path(f) = <<a, t>>
          PROVE  calls[f].stage = "done"
      BY <2>1, <3>1 DEF Views, InUse, Path, Local
    <3>. QED
      BY <2>3, <2>4, <2>5, <2>6, <3>1 DEF LocalIsHeld, Makes, Local
  <2>12. Losses'
    BY <2>1, <2>3, <2>4, <2>5, <2>6 DEF Losses, Makes
  <2>13. Finishing'
    BY <1>0, <2>3, <2>4, <2>5, <2>6, AdditionFinishing
  <2>14. Reached'
    <3>1. ASSUME NEW c \in Numbers PROVE ReachedAt(c)'
      BY <2>1, <2>3, <2>4, <2>5, <3>1 DEF Reached, ReachedAt, Makes, Req, Ses, Inh
    <3>2. ReachedAt(n)'
      BY <2>3, <2>4, <2>6 DEF ReachedAt, Makes, Req, Ses, Inh, Local
    <3>. QED
      BY <2>3, <3>1, <3>2 DEF Reached, Makes
  <2>. QED
    BY <2>1, <2>6, <2>7, <2>8, <2>9, <2>10, <2>11, <2>12, <2>13, <2>14, Whole DEF TableInv
<1>. QED
  BY <1>1, <1>2

-----------------------------------------------------------------------------
(* The router: replies of the host.                                         *)

LEMMA ForwardedRequestStep ==
    ASSUME RequestInv, NEW c \in Numbers, ForwardedRequest(c)
    PROVE  RequestInv'
<1>. USE Parts
<1>0. /\ portal = "runs" /\ calls[c].stage = "replied" /\ calls[c].kind \in ReturnsRequest
      /\ UNCHANGED <<portal, gone, sessions, sessionsHost, inhibitors, open, wire, responses>>
  BY DEF ForwardedRequest, Runs
<1>1. calls[c].kind \notin Local /\ Inh(c) \notin open
  BY <1>0 DEF ReturnsRequest, Local, Opened, OpenedAt
<1>2. CASE Path(c) \in DOMAIN requests
  BY <1>0, <1>1, <1>2, Refusal DEF ForwardedRequest, CloseHostObject, tables
<1>3. CASE Path(c) \notin DOMAIN requests
  <2>1. /\ calls' = Settle(c, "granted") /\ closing' = closing
        /\ requests' = With(requests, Path(c), c) /\ requestsHost' = requestsHost \cup {c}
    BY <1>3 DEF ForwardedRequest, RegisterRequest
  <2>2. Sets(c, "done", "granted", calls[c].sess, calls[c].said, calls[c].cancelled)
    BY <2>1, SetsSettled DEF Settle
  <2>3. calls[c].view = "waiting" /\ ~calls[c].cancelled /\ (calls[c].app \in gone => calls[c].late)
    BY <1>0, <1>1 DEF Views, Losses
  <2>4. /\ Live' = Live \cup {c}
        /\ \A q \in DOMAIN requests' : \/ q \in DOMAIN requests /\ requests'[q] = requests[q]
                                       \/ q = Path(c) /\ requests'[q] = c
    BY <1>3, <2>1, AddsOne
  <2>5. \A d \in Numbers : Keeps(d) /\ Path(d)' = Path(d) /\ SessionPath(d)' = SessionPath(d)
    BY <2>2, PathsStay DEF Sets
  <2>6. /\ Range(sessions)' = Range(sessions) /\ sessionsHost' = sessionsHost
        /\ inhibitors' = inhibitors /\ gone' = gone /\ open' = open /\ wire' = wire
    BY <1>0 DEF Range
  <2>7. RequestTypes'
    BY <1>0, <2>1, <2>2, <2>4, <2>6 DEF RequestTypes, Sets
  <2>8. Named' /\ Views'
    <3>1. Named'
      BY <2>2, NamesStay DEF Sets
    <3>2. Views'
      BY <2>2, <2>3, <1>1 DEF Views, Sets, Keeps
    <3>. QED
      BY <3>1, <3>2
  <2>9. Entries'
    BY <1>0, <1>1, <2>1, <2>2, <2>4, <2>6 DEF Entries, Sets, Keeps, RequestTypes, Twins
  <2>10. Keyed'
    <3>1. \A p \in DOMAIN requests : requests[p] \in Numbers
      BY TableFacts DEF RequestTypes
    <3>2. \A p \in DOMAIN sessions : sessions[p] \in Numbers
      BY TableFacts DEF RequestTypes
    <3>. QED
      BY <1>0, <2>4, <2>5, <3>1, <3>2 DEF Keyed
  <2>11. Twins'
    BY <1>1, <2>1, <2>2, <2>4, <2>6 DEF Twins, Sets, Keeps
  <2>12. LocalIsHeld'
    BY <1>1, <2>2, <2>4, <2>5, <2>6 DEF LocalIsHeld, Sets, Keeps
  <2>13. Losses'
    BY <2>1, <2>2, <2>3, <2>4, <2>6 DEF Losses, Sets, Keeps
  <2>14. AnswerInv'
    BY <1>0, <2>2, AnswersStill
  <2>15. ASSUME NEW d \in Numbers PROVE SameAt(d)
    BY <2>1, <2>4, <2>6 DEF SameAt
  <2>16. Opened'
    <3>1. ASSUME NEW d \in Numbers PROVE OpenedAt(d)'
      BY <1>0, <2>2, <2>15, OpenedStill DEF Opened, Sets
    <3>. QED
      BY <2>2, <3>1 DEF Opened, Sets
  <2>17. Finishing'
    <3>1. \A d \in Numbers : Signalled(d)' <=> Signalled(d)
      BY <2>6 DEF Signalled
    <3>. QED
      BY <1>0, <2>2, <2>4, <2>6, <3>1, FinishingStill DEF Sets
  <2>18. Reached'
    <3>1. ASSUME NEW d \in Numbers, d # c PROVE ReachedAt(d)'
      BY <1>0, <2>2, <2>15, <3>1, ReachedStill DEF Reached, Sets
    <3>2. ReachedAt(c)'
      <4>1. OpenedAt(c)
        BY DEF Opened
      <4>2. <<"session", c>> \notin wire => Ses(c) \notin open
        BY <1>0, <4>1 DEF OpenedAt, ReturnsRequest, WithSession, ReturnsSession
      <4>. QED
        BY <1>1, <2>2, <2>3, <2>4, <2>6, <4>2 DEF ReachedAt, Sets, Req, Ses, Inh
    <3>. QED
      BY <2>2, <3>1, <3>2 DEF Reached, Sets
  <2>. QED
    BY <1>0, <2>7, <2>8, <2>9, <2>10, <2>11, <2>12, <2>13, <2>14, <2>16, <2>17, <2>18, Whole
       DEF TableInv
<1>. QED
  BY <1>2, <1>3

LEMMA ForwardedSessionStep ==
    ASSUME RequestInv, NEW c \in Numbers, ForwardedSession(c)
    PROVE  RequestInv'
<1>. USE Parts
<1>0. /\ portal = "runs" /\ calls[c].stage = "replied" /\ calls[c].kind \in ReturnsSession
      /\ UNCHANGED <<portal, gone, requests, requestsHost, inhibitors, open, wire, responses>>
  BY DEF ForwardedSession, Runs
<1>1. /\ calls[c].kind \notin Local \cup ReturnsRequest \cup {"Inhibit"}
      /\ Req(c) \notin open /\ Inh(c) \notin open
  BY <1>0 DEF ReturnsSession, ReturnsRequest, Local, Opened, OpenedAt
<1>2. CASE SessionPath(c) \in DOMAIN sessions
  <2>1. closing \subseteq closing'
    BY <1>2 DEF ForwardedSession, CloseHostObject
  <2>. QED
    BY <1>0, <1>1, <1>2, <2>1, Refusal DEF ForwardedSession, tables
<1>3. CASE SessionPath(c) \notin DOMAIN sessions
  <2>1. /\ calls' = [Settle(c, "answered") EXCEPT ![c].sess = "told"] /\ closing' = closing
        /\ sessions' = With(sessions, SessionPath(c), c) /\ sessionsHost' = sessionsHost \cup {c}
    BY <1>3 DEF ForwardedSession, RegisterSession
  <2>2. Sets(c, "done", "answered", "told", calls[c].said, calls[c].cancelled)
    <3>1. calls' = [calls EXCEPT ![c].stage = "done", ![c].view = "answered", ![c].sess = "told"]
      BY <2>1, CallFacts DEF Settle, RequestTypes, Numbers
    <3>. QED
      BY <3>1, SetsSession
  <2>3. calls[c].view = "waiting" /\ ~calls[c].cancelled /\ (calls[c].app \in gone => calls[c].late)
    BY <1>0, <1>1 DEF Views, Losses
  <2>4. /\ Range(sessions)' = Range(sessions) \cup {c}
        /\ \A q \in DOMAIN sessions' : \/ q \in DOMAIN sessions /\ sessions'[q] = sessions[q]
                                       \/ q = SessionPath(c) /\ sessions'[q] = c
    BY <1>3, <2>1, SessionAdds
  <2>5. \A d \in Numbers : Keeps(d) /\ Path(d)' = Path(d) /\ SessionPath(d)' = SessionPath(d)
    BY <2>2, PathsStay DEF Sets
  <2>6. /\ Live' = Live /\ requestsHost' = requestsHost /\ inhibitors' = inhibitors
        /\ gone' = gone /\ open' = open /\ wire' = wire
    BY <1>0 DEF Live, Range
  <2>7. RequestTypes'
    BY <1>0, <2>2, <2>4, <2>6 DEF RequestTypes, Sets
  <2>8. Named' /\ Views'
    <3>1. Named'
      BY <2>2, NamesStay DEF Sets
    <3>2. Views'
      BY <1>1, <2>2, <2>3 DEF Views, Sets, Keeps
    <3>. QED
      BY <3>1, <3>2
  <2>9. Entries'
    <3>1. \A d \in Numbers : /\ calls'[d].kind = calls[d].kind
                             /\ calls[d].stage = "done" => calls'[d].stage = "done"
                             /\ calls[d].kind \in Local => calls'[d].stage = calls[d].stage
      BY <1>1, <2>2 DEF Sets, Keeps
    <3>2. calls'[c].stage = "done" /\ Live \subseteq Numbers /\ sessionsHost \subseteq Numbers
      BY <2>2 DEF Sets, RequestTypes, Twins
    <3>. QED
      BY <1>0, <2>1, <2>6, <3>1, <3>2 DEF Entries, RequestTypes, WithSession
  <2>10. Keyed'
    <3>1. \A p \in DOMAIN requests : requests[p] \in Numbers
      BY TableFacts DEF RequestTypes
    <3>2. \A p \in DOMAIN sessions : sessions[p] \in Numbers
      BY TableFacts DEF RequestTypes
    <3>. QED
      BY <1>0, <2>4, <2>5, <3>1, <3>2 DEF Keyed
  <2>11. Twins'
    BY <2>1, <2>2, <2>4, <2>6 DEF Twins, Sets, Keeps
  <2>12. LocalIsHeld'
    BY <1>1, <2>2, <2>5, <2>6 DEF LocalIsHeld, Sets, Keeps
  <2>13. Losses'
    BY <2>1, <2>2, <2>3, <2>6 DEF Losses, Sets, Keeps
  <2>14. AnswerInv'
    BY <1>0, <1>1, <2>2, AnswersStill
  <2>15. ASSUME NEW d \in Numbers PROVE SameAt(d)
    BY <2>1, <2>6 DEF SameAt
  <2>16. Opened'
    <3>1. ASSUME NEW d \in Numbers PROVE OpenedAt(d)'
      BY <1>0, <2>2, <2>15, OpenedStill DEF Opened, Sets
    <3>. QED
      BY <2>2, <3>1 DEF Opened, Sets
  <2>17. Finishing'
    <3>1. \A d \in Numbers : Signalled(d)' <=> Signalled(d)
      BY <2>6 DEF Signalled
    <3>. QED
      BY <1>0, <2>2, <2>6, <3>1, FinishingStill DEF Sets
  <2>18. Reached'
    <3>1. ASSUME NEW d \in Numbers, d # c PROVE ReachedAt(d)'
      BY <1>0, <2>2, <2>15, <3>1, ReachedStill DEF Reached, Sets
    <3>2. ReachedAt(c)'
      BY <1>0, <1>1, <2>1, <2>2, <2>6 DEF ReachedAt, Sets, Keeps, Req, Ses, Inh, ReturnsSession
    <3>. QED
      BY <2>2, <3>1, <3>2 DEF Reached, Sets
  <2>. QED
    BY <1>0, <2>7, <2>8, <2>9, <2>10, <2>11, <2>12, <2>13, <2>14, <2>16, <2>17, <2>18, Whole
       DEF TableInv
<1>. QED
  BY <1>2, <1>3

LEMMA ScreenCallDoneStep ==
    ASSUME RequestInv, NEW c \in Numbers, ScreenCallDone(c)
    PROVE  RequestInv'
<1>. USE Parts
<1>0. /\ portal = "runs" /\ calls[c].stage = "replied" /\ calls[c].kind \in Screen
      /\ UNCHANGED <<portal, gone, requests, requestsHost, sessions, sessionsHost, world, responses>>
      /\ calls' = Settle(c, "answered")
      /\ inhibitors' = IF calls[c].kind = "Inhibit" THEN inhibitors \cup {c}
                       ELSE inhibitors \ {calls[c].of}
  BY DEF ScreenCallDone, Runs
<1>1. Sets(c, "done", "answered", calls[c].sess, calls[c].said, calls[c].cancelled)
  BY <1>0, SetsSettled DEF Settle
<1>2. /\ calls[c].kind \notin Local \cup ReturnsRequest \cup ReturnsSession \cup {"CreateSession"}
      /\ Req(c) \notin open /\ Ses(c) \notin open
  BY <1>0 DEF Screen, ReturnsSession, ReturnsRequest, WithSession, Local, Opened, OpenedAt
<1>3. calls[c].view = "waiting" /\ ~calls[c].cancelled /\ (calls[c].app \in gone => calls[c].late)
  BY <1>0, <1>2 DEF Views, Losses
<1>4. /\ Live' = Live /\ Range(sessions)' = Range(sessions) /\ requestsHost' = requestsHost
      /\ sessionsHost' = sessionsHost /\ gone' = gone /\ open' = open /\ wire' = wire
      /\ closing' = closing
  BY <1>0 DEF Live, Range, world
<1>5. \A d \in Numbers : Keeps(d) /\ Path(d)' = Path(d) /\ SessionPath(d)' = SessionPath(d)
  BY <1>1, PathsStay DEF Sets
<1>6. RequestTypes'
  BY <1>0, <1>1, <1>4 DEF RequestTypes, Sets
<1>7. Named' /\ Views'
  <2>1. Named'
    BY <1>1, NamesStay DEF Sets
  <2>2. Views'
    BY <1>1, <1>2, <1>3 DEF Views, Sets, Keeps
  <2>. QED
    BY <2>1, <2>2
<1>8. Entries'
  <2>1. \A d \in Numbers : /\ calls'[d].kind = calls[d].kind
                           /\ calls[d].stage = "done" => calls'[d].stage = "done"
                           /\ calls[d].kind \in Local => calls'[d].stage = calls[d].stage
    BY <1>1, <1>2 DEF Sets, Keeps
  <2>2. calls'[c].stage = "done" /\ Live \subseteq Numbers /\ sessionsHost \subseteq Numbers
    BY <1>1 DEF Sets, RequestTypes, Twins
  <2>3. \A d \in requestsHost' \cup sessionsHost' \cup Live' : d \in Numbers
    BY <1>4, <2>2 DEF RequestTypes
  <2>4. /\ \A d \in requestsHost' : calls'[d].kind \in ReturnsRequest /\ calls'[d].stage = "done"
        /\ \A d \in sessionsHost' : calls'[d].kind \in WithSession /\ calls'[d].stage = "done"
    BY <1>4, <2>1, <2>3 DEF Entries
  <2>5. \A d \in Live' : \/ calls'[d].kind \in ReturnsRequest /\ calls'[d].stage = "done"
                         \/ calls'[d].kind \in Local /\ calls'[d].stage = "sent"
    BY <1>4, <2>1, <2>3 DEF Entries
  <2>6. \A d \in inhibitors' : calls'[d].kind = "Inhibit" /\ calls'[d].stage = "done"
    BY <1>0, <2>1, <2>2 DEF Entries, RequestTypes
  <2>. QED
    BY <2>4, <2>5, <2>6 DEF Entries
<1>9. Keyed'
  BY <1>0, <1>5, StillKeyed
<1>10. Twins'
  BY <1>1, <1>4 DEF Twins, Sets, Keeps
<1>11. LocalIsHeld'
  BY <1>2, <1>1, <1>4, <1>5 DEF LocalIsHeld, Sets, Keeps
<1>12. Losses'
  BY <1>0, <1>1, <1>3, <1>4 DEF Losses, Sets, Keeps
<1>13. AnswerInv'
  BY <1>0, <1>1, <1>2, AnswersStill DEF world
<1>14. Opened'
  <2>1. ASSUME NEW d \in Numbers PROVE OpenedAt(d)'
    BY <1>0, <1>1, <1>4 DEF Opened, OpenedAt, Sets, Keeps, Req, Ses, Inh
  <2>. QED
    BY <1>1, <2>1 DEF Opened, Sets
<1>15. Finishing'
  <2>1. \A d \in Numbers : Signalled(d)' <=> Signalled(d)
    BY <1>4 DEF Signalled
  <2>. QED
    BY <1>0, <1>1, <1>4, <2>1, FinishingStill DEF Sets
<1>16. Reached'
  <2>1. ASSUME NEW d \in Numbers, d # c PROVE ReachedAt(d)'
    <3>1. d \in inhibitors => d \in inhibitors' \/ Inh(d) \notin open
      BY <1>0, <2>1 DEF Finishing, FinishAt, Screen
    <3>. QED
      BY <1>0, <1>1, <1>4, <2>1, <3>1 DEF Reached, ReachedAt, Sets, Req, Ses, Inh
  <2>2. ReachedAt(c)'
    <3>1. Inh(c) \in open => c \in inhibitors'
      BY <1>0 DEF Opened, OpenedAt
    <3>. QED
      BY <1>1, <1>2, <1>4, <3>1 DEF ReachedAt, Sets, Keeps, Req, Ses, Inh
  <2>. QED
    BY <1>1, <2>1, <2>2 DEF Reached, Sets
<1>. QED
  BY <1>0, <1>6, <1>7, <1>8, <1>9, <1>10, <1>11, <1>12, <1>13, <1>14, <1>15, <1>16, Whole
     DEF TableInv

LEMMA ForwardedFinishStep ==
    ASSUME RequestInv, NEW c \in Numbers, ForwardedFinish(c)
    PROVE  RequestInv'
<1>. USE Parts
<1>0. /\ portal = "runs" /\ calls[c].stage = "replied" /\ calls[c].kind = "Finish"
      /\ UNCHANGED <<portal, gone, sessions, sessionsHost, inhibitors, world, responses>>
      /\ calls' = Settle(c, "answered")
  BY DEF ForwardedFinish, Runs
<1>1. Sets(c, "done", "answered", calls[c].sess, calls[c].said, calls[c].cancelled)
  BY <1>0, SetsSettled DEF Settle
<1>2. /\ calls[c].kind \notin Local \cup ReturnsRequest \cup ReturnsSession \cup {"CreateSession"}
      /\ Req(c) \notin open /\ Ses(c) \notin open /\ Inh(c) \notin open
  BY <1>0 DEF ReturnsSession, ReturnsRequest, WithSession, Local, Opened, OpenedAt
<1>3. calls[c].view = "waiting" /\ ~calls[c].cancelled /\ (calls[c].app \in gone => calls[c].late)
  BY <1>0, <1>2 DEF Views, Losses
<1>4. /\ Range(sessions)' = Range(sessions) /\ sessionsHost' = sessionsHost
      /\ inhibitors' = inhibitors /\ gone' = gone /\ open' = open /\ wire' = wire
      /\ closing' = closing
  BY <1>0 DEF Range, world
<1>5. \A d \in Numbers : Keeps(d) /\ Path(d)' = Path(d) /\ SessionPath(d)' = SessionPath(d)
  BY <1>1, PathsStay DEF Sets
\* What is removed is the request that was finished, unless its owner left.
<1>. PICK rest : rest = IF Path(c) \in DOMAIN requests THEN {requests[Path(c)]} ELSE {}
  OBVIOUS
<1>6. /\ rest \subseteq Live /\ Live' = Live \ rest /\ requestsHost' = requestsHost \ rest
      /\ \A p \in DOMAIN requests' : p \in DOMAIN requests /\ requests'[p] = requests[p]
      /\ \A o \in rest : \/ o = calls[c].of /\ calls[o].kind = "Acquire"
                         \/ calls[o].app \in gone /\ calls[o].late
  <2>1. CASE Path(c) \in DOMAIN requests
    <3>. PICK o \in Live : o = requests[Path(c)] /\ rest = {o}
      BY <2>1, TableFacts
    <3>1. Path(o) = Path(c) /\ calls[o].app = calls[c].app /\ o \in Numbers
      BY <2>1 DEF Keyed, Path, RequestTypes
    <3>2. requests' = Without(requests, {Path(o)}) /\ requestsHost' = requestsHost \ {o}
      BY <2>1 DEF ForwardedFinish, Drop
    <3>3. /\ Live' = Live \ {o}
          /\ \A p \in DOMAIN requests' : p \in DOMAIN requests /\ requests'[p] = requests[p]
      BY <3>2, DropsOne
    <3>4. CASE calls[c].app \in gone
      BY <3>1, <3>2, <3>3, <3>4 DEF Losses
    <3>5. CASE calls[c].app \notin gone
      <4>1. calls[c].of \in Live /\ Path(calls[c].of) = Path(c) /\ calls[calls[c].of].kind = "Acquire"
        BY <1>0, <3>5 DEF Finishing, FinishAt, Named
      <4>2. o = calls[c].of
        BY <4>1, TableFacts
      <4>. QED
        BY <3>2, <3>3, <4>1, <4>2
    <3>. QED
      BY <3>4, <3>5
  <2>2. CASE Path(c) \notin DOMAIN requests
    <3>1. requests' = requests /\ requestsHost' = requestsHost
      BY <2>2 DEF ForwardedFinish
    <3>2. rest = {} /\ Live' = Live
      BY <2>2, <3>1 DEF Live
    <3>. QED
      BY <3>1, <3>2
  <2>. QED
    BY <2>1, <2>2
<1>7. RequestTypes'
  BY <1>0, <1>1, <1>4, <1>6 DEF RequestTypes, Sets
<1>8. Named' /\ Views'
  <2>1. Named'
    BY <1>1, NamesStay DEF Sets
  <2>2. Views'
    BY <1>1, <1>2, <1>3 DEF Views, Sets, Keeps
  <2>. QED
    BY <2>1, <2>2
<1>9. Entries'
  <2>1. \A d \in Numbers : /\ calls'[d].kind = calls[d].kind
                           /\ calls[d].stage = "done" => calls'[d].stage = "done"
                           /\ calls[d].kind \in Local => calls'[d].stage = calls[d].stage
    BY <1>1, <1>2 DEF Sets, Keeps
  <2>2. Live \subseteq Numbers /\ sessionsHost \subseteq Numbers
    BY DEF RequestTypes, Twins
  <2>. QED
    BY <1>4, <1>6, <2>1, <2>2 DEF Entries, RequestTypes
<1>10. Keyed'
  <2>1. \A p \in DOMAIN requests : requests[p] \in Numbers
    BY TableFacts DEF RequestTypes
  <2>2. \A p \in DOMAIN sessions : sessions[p] \in Numbers
    BY TableFacts DEF RequestTypes
  <2>. QED
    BY <1>0, <1>5, <1>6, <2>1, <2>2 DEF Keyed
<1>11. Twins'
  BY <1>1, <1>4, <1>6 DEF Twins, Sets, Keeps
<1>12. LocalIsHeld'
  BY <1>1, <1>2, <1>4, <1>5, <1>6 DEF LocalIsHeld, Sets, Keeps, Local
<1>13. Losses'
  BY <1>1, <1>3, <1>4, <1>6 DEF Losses, Sets, Keeps
<1>14. AnswerInv'
  BY <1>0, <1>1, <1>2, AnswersStill DEF world
<1>15. Opened'
  <2>1. ASSUME NEW d \in Numbers PROVE OpenedAt(d)'
    BY <1>0, <1>1, <1>4 DEF Opened, OpenedAt, Sets, Keeps, Req, Ses, Inh
  <2>. QED
    BY <1>1, <2>1 DEF Opened, Sets
<1>16. Finishing'
  <2>1. ASSUME NEW f \in Numbers, calls[f].kind = "Finish" PROVE FinishAt(f)'
    <3>. PICK e \in Numbers : e = calls[f].of
      BY <2>1 DEF Named
    <3>1. /\ calls[e].kind = "Acquire" /\ calls[e].app = calls[f].app
          /\ calls[e].said /\ ~Signalled(e) /\ calls[e].stage = "done"
      BY <2>1 DEF Named, Finishing, FinishAt, Path
    <3>2. calls'[e].said /\ ~Signalled(e)' /\ calls'[e].stage = "done"
      BY <1>0, <1>1, <1>4, <3>1 DEF Sets, Signalled
    <3>3. /\ calls'[f].of = e /\ calls'[f].kind = "Finish" /\ calls'[f].app = calls[f].app
          /\ calls'[f].stage = "replied" => f # c /\ calls[f].stage = "replied"
      BY <1>1, <2>1 DEF Sets, Keeps
    <3>4. ASSUME calls'[f].stage = "replied" \/ Req(e) \in open', calls[f].app \notin gone
          PROVE  e \in Live'
      <4>1. e \in Live
        BY <1>4, <2>1, <3>3, <3>4 DEF Finishing, FinishAt
      <4>2. e # calls[c].of
        BY <1>0, <1>4, <2>1, <3>3, <3>4 DEF Finishing, FinishAt
      <4>. QED
        BY <1>6, <3>1, <3>4, <4>1, <4>2
    <3>5. calls'[f].stage = "replied" =>
            /\ Req(e) \notin open'
            /\ \A g \in Numbers : (/\ calls'[g].kind = "Finish" /\ calls'[g].stage = "replied"
                                   /\ g # f) => calls'[g].of # e
      BY <1>1, <1>4, <2>1, <3>3 DEF Finishing, FinishAt, Sets, Keeps
    <3>6. Numbers' = Numbers
      BY <1>1 DEF Sets
    <3>. QED
      BY <1>4, <3>2, <3>3, <3>4, <3>5, <3>6 DEF FinishAt, Req, Signalled
  <2>2. ASSUME NEW f \in Numbers, calls[f].kind = "UnInhibit" PROVE FinishAt(f)'
    <3>. PICK e \in Numbers : e = calls[f].of
      BY <2>2 DEF Named
    <3>1. calls[e].stage = "done" /\ e # c /\ f # c
      BY <1>0, <2>2 DEF Finishing, FinishAt
    <3>2. calls'[e] = calls[e] /\ calls'[f] = calls[f]
      BY <1>1, <3>1 DEF Sets
    <3>. QED
      BY <1>4, <2>2, <3>2 DEF Finishing, FinishAt, Inh
  <2>3. ASSUME NEW f \in Numbers, calls[f].kind \notin {"Finish", "UnInhibit"} PROVE FinishAt(f)'
    BY <1>5, <2>3 DEF FinishAt, Keeps
  <2>. QED
    BY <1>1, <2>1, <2>2, <2>3 DEF Finishing, Sets
<1>17. Reached'
  <2>1. ASSUME NEW d \in Numbers, d # c PROVE ReachedAt(d)'
    <3>1. ReachedAt(d) /\ calls'[d] = calls[d]
      BY <1>0, <1>1, <2>1 DEF Reached, Sets
    <3>2. d \in Live => \/ d \in Live'
                        \/ Req(d) \notin open /\ calls[d].kind = "Acquire"
                        \/ calls[d].app \in gone /\ calls[d].late
      BY <1>0, <1>6 DEF Finishing, FinishAt
    <3>. QED
      BY <1>4, <3>1, <3>2 DEF ReachedAt, Req, Ses, Inh
  <2>2. ReachedAt(c)'
    BY <1>1, <1>2, <1>4 DEF ReachedAt, Sets, Keeps, Req, Ses, Inh
  <2>. QED
    BY <1>1, <2>1, <2>2 DEF Reached, Sets
<1>. QED
  BY <1>0, <1>7, <1>8, <1>9, <1>10, <1>11, <1>12, <1>13, <1>14, <1>15, <1>16, <1>17, Whole
     DEF TableInv

-----------------------------------------------------------------------------
(* The router: requests that it answers itself.                             *)

\* Call c has its answer, which is given on Request o or (ans is FALSE) nowhere.
Ends(c, o, ans) ==
    /\ calls' \in Seq(CallType) /\ Len(calls') = Len(calls) /\ Numbers' = Numbers
    /\ \A d \in Numbers : /\ Keeps(d) /\ calls'[d].late = calls[d].late
                          /\ calls'[d].said = calls[d].said /\ calls'[d].sess = calls[d].sess
                          /\ calls'[d].cancelled = calls[d].cancelled
    /\ \A d \in Numbers : d # c => calls'[d].stage = calls[d].stage
    /\ calls'[c].stage = "done"
    /\ \A d \in Numbers : ~(d = o /\ ans) => calls'[d].view = calls[d].view
    /\ ans => calls'[o].view = "answered"

LEMMA EndsAnswered ==
    ASSUME RequestTypes, NEW c \in Numbers, NEW o \in Numbers,
           calls' = [calls EXCEPT ![c].stage = "done", ![o].view = "answered"]
    PROVE  Ends(c, o, TRUE)
<1>a. PICK r : r = [calls[c] EXCEPT !.stage = "done"]
  OBVIOUS
<1>b. PICK mid : mid = [calls EXCEPT ![c] = r]
  OBVIOUS
<1>c. PICK q : q = [mid[o] EXCEPT !.view = "answered"]
  OBVIOUS
<1>1. Numbers = 1..Len(calls) /\ Len(calls) \in Nat /\ \A d \in Numbers : calls[d] \in CallType
  BY CallFacts
<1>2. /\ r \in CallType /\ r.stage = "done" /\ r.view = calls[c].view
      /\ r.kind = calls[c].kind /\ r.app = calls[c].app /\ r.tok = calls[c].tok
      /\ r.stok = calls[c].stok /\ r.of = calls[c].of /\ r.late = calls[c].late
      /\ r.said = calls[c].said /\ r.sess = calls[c].sess /\ r.cancelled = calls[c].cancelled
  BY <1>1, <1>a DEF CallType
<1>3. /\ mid \in Seq(CallType) /\ Len(mid) = Len(calls) /\ mid[c] = r
      /\ \A d \in Numbers : d # c => mid[d] = calls[d]
  BY <1>1, <1>2, <1>b DEF RequestTypes, Numbers
<1>4. mid[o] \in CallType
  BY <1>1, <1>2, <1>3
<1>5. /\ q \in CallType /\ q.view = "answered" /\ q.stage = mid[o].stage
      /\ q.kind = mid[o].kind /\ q.app = mid[o].app /\ q.tok = mid[o].tok
      /\ q.stok = mid[o].stok /\ q.of = mid[o].of /\ q.late = mid[o].late
      /\ q.said = mid[o].said /\ q.sess = mid[o].sess /\ q.cancelled = mid[o].cancelled
  BY <1>4, <1>c DEF CallType
<1>6. calls' = [mid EXCEPT ![o] = q]
  BY <1>1, <1>a, <1>b, <1>c DEF RequestTypes, Numbers
<1>7. /\ calls' \in Seq(CallType) /\ Len(calls') = Len(calls) /\ Numbers' = Numbers
      /\ calls'[o] = q /\ \A d \in Numbers : d # o => calls'[d] = mid[d]
  <2>1. DOMAIN mid = 1..Len(mid) /\ 1..Len(mid) = Numbers
    BY <1>1, <1>3
  <2>2. PICK new : new = [mid EXCEPT ![o] = q]
    OBVIOUS
  <2>3. /\ new \in Seq(CallType) /\ Len(new) = Len(mid)
        /\ new[o] = q /\ \A d \in Numbers : d # o => new[d] = mid[d]
    BY <1>3, <1>5, <2>1, <2>2, ExceptSeq
  <2>4. calls' = new
    BY <1>6, <2>2
  <2>5. Numbers' = 1..Len(new)
    BY <2>3, <2>4 DEF Numbers
  <2>. QED
    BY <1>3, <2>1, <2>3, <2>4, <2>5
<1>8. ASSUME NEW d \in Numbers
      PROVE  /\ Keeps(d) /\ calls'[d].late = calls[d].late
             /\ calls'[d].said = calls[d].said /\ calls'[d].sess = calls[d].sess
             /\ calls'[d].cancelled = calls[d].cancelled
             /\ calls'[d].stage = IF d = c THEN "done" ELSE calls[d].stage
             /\ calls'[d].view = IF d = o THEN "answered" ELSE calls[d].view
  <2>1. CASE d = o
    BY <1>2, <1>3, <1>5, <1>7, <2>1 DEF Keeps
  <2>2. CASE d # o /\ d = c
    <3>1. calls'[d] = r
      BY <1>3, <1>7, <2>2
    <3>. QED
      BY <1>2, <2>2, <3>1 DEF Keeps
  <2>3. CASE d # o /\ d # c
    <3>1. calls'[d] = calls[d]
      BY <1>3, <1>7, <2>3
    <3>. QED
      BY <2>3, <3>1 DEF Keeps
  <2>. QED
    BY <2>1, <2>2, <2>3
<1>9. /\ \A d \in Numbers : d # c => calls'[d].stage = calls[d].stage
      /\ \A d \in Numbers : d # o => calls'[d].view = calls[d].view
  BY <1>8
<1>10. calls'[c].stage = "done" /\ calls'[o].view = "answered"
  BY <1>8
<1>. QED
  BY <1>7, <1>8, <1>9, <1>10 DEF Ends

LEMMA EndsSilently ==
    ASSUME RequestTypes, NEW c \in Numbers, calls' = [calls EXCEPT ![c].stage = "done"]
    PROVE  Ends(c, c, FALSE)
BY SetsStage DEF Ends, Sets, Keeps

\* While its owner is there, the path of a local call leads to its own Request.
LEMMA LocalAnswer ==
    ASSUME RequestInv, portal = "runs", NEW c \in Numbers, NEW o \in Numbers, NEW ans \in BOOLEAN,
           calls[c].stage = "sent", calls[c].kind \in Local, Ends(c, o, ans),
           requests' = Without(requests, {Path(c)}),
           Path(c) \in DOMAIN requests => o = requests[Path(c)],
           ans => /\ Path(c) \in DOMAIN requests /\ ~calls[o].cancelled
                  /\ responses' = IF calls[o].app \in gone THEN responses
                                  ELSE [responses EXCEPT ![o] = Append(@, c)],
           ~ans => responses' = responses,
           UNCHANGED <<portal, gone, requestsHost, sessions, sessionsHost, inhibitors, open,
                       closing, wire>>
    PROVE  RequestInv'
<1>. USE Parts
<1>1. /\ Range(sessions)' = Range(sessions) /\ sessionsHost' = sessionsHost
      /\ inhibitors' = inhibitors /\ gone' = gone /\ open' = open /\ wire' = wire
      /\ closing' = closing /\ requestsHost' = requestsHost /\ sessions' = sessions
  BY DEF Range
<1>2. \A d \in Numbers : Keeps(d) /\ Path(d)' = Path(d) /\ SessionPath(d)' = SessionPath(d)
  BY PathsStay DEF Ends
<1>. PICK rest : rest = IF Path(c) \in DOMAIN requests THEN {o} ELSE {}
  OBVIOUS
<1>3. /\ rest \subseteq Live /\ Live' = Live \ rest /\ (ans => o \in rest)
      /\ \A p \in DOMAIN requests' : p \in DOMAIN requests /\ requests'[p] = requests[p]
      /\ \A d \in rest : d = c \/ (calls[d].app \in gone /\ calls[d].late)
      /\ calls[c].app \notin gone => o = c
      /\ rest \subseteq {o} /\ (c \in Live => c \in rest)
  <2>1. CASE Path(c) \in DOMAIN requests
    <3>1. o \in Live /\ Path(o) = Path(c) /\ rest = {o}
      BY <2>1, TableFacts DEF Keyed
    <3>2. /\ Live' = Live \ {o}
          /\ \A p \in DOMAIN requests' : p \in DOMAIN requests /\ requests'[p] = requests[p]
      BY <3>1, DropsOne
    <3>3. calls[o].app = calls[c].app
      BY <3>1 DEF Path
    <3>4. c \in Live => o = c
      BY <2>1, TableFacts
    <3>5. calls[c].app \notin gone => o = c
      BY <3>4 DEF LocalIsHeld
    <3>6. calls[c].app \in gone => calls[o].late
      BY <3>1, <3>3 DEF Losses
    <3>. QED
      BY <3>1, <3>2, <3>3, <3>4, <3>5, <3>6
  <2>2. CASE Path(c) \notin DOMAIN requests
    <3>1. rest = {} /\ ~ans
      BY <2>2
    <3>2. /\ Live' = Live
          /\ \A q \in DOMAIN requests' : q \in DOMAIN requests /\ requests'[q] = requests[q]
      BY <2>2, DropsNone
    <3>3. c \notin Live
      BY <2>2, TableFacts
    <3>4. calls[c].app \in gone
      BY <3>3 DEF LocalIsHeld
    <3>. QED
      BY <3>1, <3>2, <3>3, <3>4
  <2>. QED
    BY <2>1, <2>2
<1>4. /\ c \notin requestsHost /\ Req(c) \notin open /\ Ses(c) \notin open /\ Inh(c) \notin open
      /\ calls[c].kind \notin ReturnsRequest /\ responses[c] = <<>>
  BY DEF Entries, Local, ReturnsRequest, ReturnsSession, WithSession, Opened, OpenedAt, Heard
<1>5. responses' \in [1..MaxCalls -> Seq(1..MaxCalls)]
  <2>1. c \in 1..MaxCalls /\ o \in 1..MaxCalls
    BY CallFacts, BoundAssumption DEF RequestTypes
  <2>2. Append(responses[o], c) \in Seq(1..MaxCalls)
    BY <2>1 DEF RequestTypes
  <2>. QED
    BY <2>1, <2>2 DEF RequestTypes
<1>6. RequestTypes'
  BY <1>1, <1>3, <1>5 DEF RequestTypes, Ends
<1>7. Named'
  BY <1>2 DEF Named, Ends, Keeps
<1>8. Views'
  <2>1. ans => o \in Live
    BY <1>3
  <2>2. ASSUME NEW d \in Numbers
        PROVE  /\ calls'[d].stage = "done" => calls'[d].view # "waiting"
               /\ calls'[d].stage # "done" /\ calls'[d].kind \notin Local => calls'[d].view = "waiting"
               /\ calls'[d].kind \in Local => calls'[d].stage # "replied" /\ calls'[d].view # "waiting"
               /\ calls'[d].cancelled <=> calls'[d].view = "closed"
    <3>1. CASE ans /\ d = o
      BY <2>1, <3>1 DEF Views, Ends, Keeps, Entries
    <3>2. CASE ~(ans /\ d = o)
      BY <3>2 DEF Views, Ends, Keeps
    <3>. QED
      BY <3>1, <3>2
  <2>. QED
    BY <2>2 DEF Views, Ends
<1>9. Entries'
  <2>1. \A d \in Numbers : calls'[d].kind = calls[d].kind /\ (d # c => calls'[d].stage = calls[d].stage)
    BY DEF Ends, Keeps
  <2>2. Live \subseteq Numbers /\ sessionsHost \subseteq Numbers /\ c \notin Live'
    BY <1>3 DEF RequestTypes, Twins
  <2>3. c \notin sessionsHost /\ c \notin inhibitors
    BY DEF Entries, Local, WithSession, ReturnsSession
  <2>. QED
    BY <1>1, <1>3, <1>4, <2>1, <2>2, <2>3 DEF Entries, RequestTypes
<1>10. Keyed'
  <2>1. \A p \in DOMAIN requests : requests[p] \in Numbers
    BY TableFacts DEF RequestTypes
  <2>2. \A p \in DOMAIN sessions : sessions[p] \in Numbers
    BY TableFacts DEF RequestTypes
  <2>3. ASSUME NEW p \in DOMAIN requests' PROVE Path(requests[p])' = p
    <3>1. requests'[p] = requests[p] /\ p \in DOMAIN requests
      BY <1>3
    <3>2. requests[p] \in Numbers /\ Path(requests[p]) = p
      BY <2>1, <3>1 DEF Keyed
    <3>. QED
      BY <1>2, <3>1, <3>2
  <2>4. ASSUME NEW p \in DOMAIN sessions' PROVE SessionPath(sessions[p])' = p
    BY <1>1, <1>2, <2>2 DEF Keyed
  <2>. QED
    BY <2>3, <2>4 DEF Keyed
<1>11. Twins'
  BY <1>1, <1>3, <1>4 DEF Twins, Ends, Keeps
<1>12. LocalIsHeld'
  BY <1>1, <1>2, <1>3 DEF LocalIsHeld, Ends, Keeps
<1>13. Losses'
  BY <1>1, <1>3 DEF Losses, Ends, Keeps
<1>14. \A d \in Numbers : Signalled(d)' <=> Signalled(d)
  BY <1>1 DEF Signalled
<1>15. /\ \A d \in 1..MaxCalls : d # c => responses'[d] = responses[d]
       /\ responses'[c] \in {<<>>, <<c>>}
  <2>1. c \in 1..MaxCalls /\ o \in 1..MaxCalls
    BY CallFacts, BoundAssumption DEF RequestTypes
  <2>2. calls[o].app \notin gone /\ ans => o = c
    BY <1>3
  <2>3. Append(responses[c], c) = <<c>>
    BY <1>4
  <2>. QED
    BY <1>4, <2>1, <2>2, <2>3 DEF RequestTypes
<1>16. AnswerInv'
  <2>1. Signals'
    BY SMTT(40), <1>1, <1>4, <1>14 DEF Signals, Ends, Keeps
  <2>2. Heard'
    <3>1. Numbers \subseteq 1..MaxCalls
      BY CallFacts, BoundAssumption DEF RequestTypes
    <3>2. ASSUME NEW d \in Numbers, calls[d].kind \in ReturnsRequest, calls'[d].view = "answered",
                 ~calls[d].late
          PROVE  calls[d].said /\ ~Signalled(d)
      BY <1>3, <1>4, <3>2 DEF Heard, Ends
    <3>3. ASSUME NEW d \in Numbers, responses'[d] # <<>>
          PROVE  IF calls'[d].kind \in Local THEN calls'[d].stage = "done"
                 ELSE calls'[d].said /\ ~Signalled(d)'
      <4>1. CASE d = c
        BY <4>1 DEF Ends, Keeps
      <4>2. CASE d # c
        BY <1>14, <1>15, <3>1, <3>3, <4>2 DEF Heard, Ends, Keeps
      <4>. QED
        BY <4>1, <4>2
    <3>. QED
      BY <1>14, <1>15, <3>1, <3>2, <3>3 DEF Heard, Ends, Keeps
  <2>3. AnswersMatch'
    <3>1. Numbers \subseteq 1..MaxCalls
      BY CallFacts, BoundAssumption DEF RequestTypes
    <3>. QED
      BY <1>15, <3>1 DEF AnswersMatch, Ends
  <2>. QED
    BY <2>1, <2>2, <2>3 DEF AnswerInv
<1>17. Opened'
  <2>1. ASSUME NEW d \in Numbers PROVE OpenedAt(d)'
    BY <1>1 DEF Opened, OpenedAt, Ends, Keeps, Req, Ses, Inh
  <2>. QED
    BY <2>1 DEF Opened, Ends
<1>18. Finishing'
  <2>1. \A d \in Numbers : (calls[d].kind = "Acquire" /\ d \in Live /\ calls[d].app \notin gone') => d \in Live'
    BY <1>1, <1>3 DEF Local
  <2>. QED
    BY <1>1, <1>14, <2>1, FinishingStill DEF Ends
<1>19. Reached'
  <2>1. ASSUME NEW d \in Numbers, d # c PROVE ReachedAt(d)'
    <3>1. ReachedAt(d)
      BY DEF Reached
    <3>2. d \in Live => d \in Live' \/ (calls[d].app \in gone /\ calls[d].late)
      BY <1>3, <2>1
    <3>3. calls'[d].view # calls[d].view => calls[d].app \in gone /\ calls[d].late
      BY <1>3, <2>1 DEF Ends
    <3>. QED
      BY <1>1, <2>1, <3>1, <3>2, <3>3 DEF ReachedAt, Ends, Keeps, Req, Ses, Inh
  <2>2. ReachedAt(c)'
    BY <1>1, <1>4 DEF ReachedAt, Ends, Keeps, Req, Ses, Inh, Local
  <2>. QED
    BY <2>1, <2>2 DEF Reached, Ends
<1>. QED
  BY <1>6, <1>7, <1>8, <1>9, <1>10, <1>11, <1>12, <1>13, <1>16, <1>17, <1>18, <1>19, Whole
     DEF TableInv

LEMMA ChooserDoneStep ==
    ASSUME RequestInv, NEW c \in Numbers, ChooserDone(c)
    PROVE  RequestInv'
<1>. USE Parts
<1>0. /\ portal = "runs" /\ calls[c].stage = "sent" /\ calls[c].kind \in Local
      /\ UNCHANGED <<gone, requestsHost, sessions, sessionsHost, inhibitors, world>>
  BY DEF ChooserDone, Runs, Local
<1>1. CASE c \notin Live
  <2>1. portal' = "undefined" /\ UNCHANGED <<gone, calls, tables, world, responses>>
    BY <1>1, <1>0 DEF ChooserDone, tables
  <2>2. /\ Numbers' = Numbers /\ Live' = Live /\ \A d \in Numbers : Keeps(d)
        /\ \A d \in Numbers : Signalled(d)' <=> Signalled(d)
        /\ open' = open /\ wire' = wire /\ closing' = closing
    BY <2>1 DEF Numbers, Live, tables, Keeps, Signalled, world
  <2>3. TableInv'
    BY <2>1, TablesUnchanged
  <2>4. AnswerInv'
    BY <2>1, <2>2, AnswersUnchanged
  <2>5. RequestTypes'
    BY <2>1, <2>2, TypesStill DEF RequestTypes
  <2>6. Opened'
    BY <2>1, <2>2 DEF Opened, OpenedAt, Req, Ses, Inh
  <2>7. Finishing'
    BY <2>1, <2>2, FinishingStill
  <2>8. FreedOnlyByOwnerLoss'
    <3>1. calls[c].app \in gone
      BY <1>0, <1>1 DEF LocalIsHeld
    <3>. QED
      BY <1>0, <1>1, <2>1, <2>2, <3>1 DEF FreedOnlyByOwnerLoss, ChooserDone
  <2>. QED
    BY <2>1, <2>3, <2>4, <2>5, <2>6, <2>7, <2>8 DEF RequestInv, HostInv, Reached
<1>2. CASE c \in Live
  <2>1. /\ requests' = Without(requests, {Path(c)}) /\ portal' = portal
        /\ Path(c) \in DOMAIN requests /\ c = requests[Path(c)]
    BY <1>2, TableFacts DEF ChooserDone
  <2>2. CASE calls[c].cancelled
    <3>1. Ends(c, c, FALSE) /\ responses' = responses
      BY <1>2, <2>2, EndsSilently DEF ChooserDone
    <3>. QED
      BY <1>0, <2>1, <3>1, LocalAnswer DEF world
  <2>3. CASE ~calls[c].cancelled
    <3>1. Ends(c, c, TRUE)
      BY <1>2, <2>3, EndsAnswered DEF ChooserDone, Settle
    <3>2. responses' = IF calls[c].app \in gone THEN responses
                       ELSE [responses EXCEPT ![c] = Append(@, c)]
      BY <1>2, <2>3 DEF ChooserDone, Emit
    <3>. QED
      BY <1>0, <2>1, <2>3, <3>1, <3>2, LocalAnswer DEF world
  <2>. QED
    BY <2>2, <2>3
<1>. QED
  BY <1>1, <1>2

LEMMA BrokerDoneStep ==
    ASSUME RequestInv, NEW c \in Numbers, BrokerDone(c)
    PROVE  RequestInv'
<1>. USE Parts
<1>0. /\ portal = "runs" /\ calls[c].stage = "sent" /\ calls[c].kind \in Local
      /\ UNCHANGED <<portal, gone, requestsHost, sessions, sessionsHost, inhibitors, world>>
      /\ requests' = Without(requests, {Path(c)})
  BY DEF BrokerDone, Runs, Local
<1>1. CASE Answerable(c)
  <2>. PICK o \in Numbers : o = requests[Path(c)]
    BY <1>1, TableFacts DEF Answerable, RequestTypes
  <2>1. Ends(c, o, TRUE)
    BY <1>1, EndsAnswered DEF BrokerDone
  <2>2. responses' = IF calls[o].app \in gone THEN responses
                     ELSE [responses EXCEPT ![o] = Append(@, c)]
    BY <1>1 DEF BrokerDone, Emit
  <2>3. Path(c) \in DOMAIN requests /\ ~calls[o].cancelled
    BY <1>1 DEF Answerable
  <2>. QED
    BY <1>0, <2>1, <2>2, <2>3, LocalAnswer DEF world
<1>2. CASE ~Answerable(c)
  <2>1. Ends(c, c, FALSE) /\ responses' = responses
    BY <1>2, EndsSilently DEF BrokerDone
  <2>. PICK o \in Numbers : Path(c) \in DOMAIN requests => o = requests[Path(c)]
    BY TableFacts DEF RequestTypes
  <2>2. Ends(c, o, FALSE)
    BY <2>1 DEF Ends
  <2>. QED
    BY <1>0, <2>1, <2>2, LocalAnswer DEF world
<1>. QED
  BY <1>1, <1>2

-----------------------------------------------------------------------------
(* The router: signals of the host.                                         *)

LEMMA ResponseStep ==
    ASSUME RequestInv, NEW c \in Numbers, NEW w \in BOOLEAN, Response(c, w)
    PROVE  RequestInv'
<1>. USE Parts
<1>. PICK signal : signal = <<IF w THEN "session" ELSE "response", c>>
  OBVIOUS
<1>0. /\ portal = "runs" /\ signal \in wire /\ calls[c].stage = "done" /\ wire' = wire \ {signal}
      /\ portal' = IF c \in requestsHost \ Live THEN "undefined" ELSE portal
      /\ UNCHANGED <<gone, open, closing>>
  BY DEF Response, Runs
<1>1. /\ Signalled(c) /\ calls[c].said /\ calls[c].kind \in ReturnsRequest
      /\ calls[c].kind \notin Local /\ (w => calls[c].kind = "CreateSession")
      /\ ~Signalled(c)'
      /\ <<"session", c>> \in wire <=> w
  BY <1>0 DEF Signals, Signalled, ReturnsRequest, Local
<1>2. /\ \A d \in Numbers : Signalled(d)' <=> (Signalled(d) /\ d # c)
      /\ \A d \in Numbers, t \in {"response", "session", "closed"} :
           d # c => (<<t, d>> \in wire' <=> <<t, d>> \in wire)
      /\ <<"closed", c>> \in wire' <=> <<"closed", c>> \in wire
      /\ <<"response", c>> \notin wire' /\ <<"session", c>> \notin wire'
      /\ wire' \subseteq wire
  BY <1>0, <1>1 DEF Signalled
<1>3. responses[c] = <<>> /\ (calls[c].view = "answered" => calls[c].late)
  BY <1>1 DEF Heard
<1>4. CASE c \notin requestsHost \cap Live
  <2>1. UNCHANGED <<calls, tables, responses>>
    BY <1>0, <1>4 DEF Response
  <2>2. /\ Numbers' = Numbers /\ Live' = Live /\ requestsHost' = requestsHost
        /\ sessionsHost' = sessionsHost /\ inhibitors' = inhibitors
        /\ \A d \in Numbers : Keeps(d)
    BY <2>1 DEF Numbers, Live, tables, Keeps
  <2>3. TableInv'
    BY <1>0, <2>1, TablesUnchanged
  <2>4. AnswerInv'
    BY <1>0, <1>2, <2>1, AnswersUnchanged
  <2>5. RequestTypes'
    <3>1. wire' \subseteq {"response", "session", "closed"} \X Numbers
      BY <1>2 DEF RequestTypes
    <3>. QED
      BY <1>0, <2>1, <2>2, <3>1, TypesStill DEF RequestTypes
  <2>6. Opened'
    <3>1. ASSUME NEW d \in Numbers PROVE OpenedAt(d)'
      BY <1>0, <1>2, <2>1 DEF Opened, OpenedAt, Req, Ses, Inh
    <3>. QED
      BY <2>2, <3>1 DEF Opened
  <2>7. Finishing'
    BY <1>0, <1>2, <2>1, <2>2, FinishingStill
  <2>8. Reached'
    <3>1. ASSUME NEW d \in Numbers, d # c PROVE ReachedAt(d)'
      BY <1>0, <1>2, <2>1, <2>2, <3>1 DEF Reached, ReachedAt, Req, Ses, Inh
    <3>2. ReachedAt(c)'
      <4>1. ReachedAt(c)
        BY <1>0 DEF Reached
      <4>2. c \in Live /\ calls[c].app \notin gone => c \in requestsHost
        BY <1>1 DEF Twins
      <4>3. \/ c \notin Live \/ calls[c].app \in gone
        BY <1>4, <4>2
      <4>4. w => calls[c].app \in gone \/ calls[c].view = "refused"
        BY <1>0, <1>1, <4>1, <4>3 DEF ReachedAt
      <4>5. Ses(c) \in open => w
        BY <1>0, <1>1 DEF Opened, OpenedAt, Signalled
      <4>6. calls[c].view \in {"granted", "answered", "closed", "refused"}
        BY <1>0, CallFacts DEF Views, CallType
      <4>7. Ses(c) \in open => \/ calls[c].late \/ calls[c].view \in {"closed", "refused"}
                               \/ (calls[c].view = "granted" /\ calls[c].app \in gone)
        BY <1>3, <4>4, <4>5, <4>6
      <4>. QED
        BY <1>0, <1>1, <1>2, <2>1, <2>2, <4>1, <4>7 DEF ReachedAt, Req, Ses, Inh
    <3>. QED
      BY <2>2, <3>1, <3>2 DEF Reached
  <2>9. FreedOnlyByOwnerLoss'
    <3>1. c \in requestsHost \ Live => calls[c].app \in gone /\ calls[c].late
      BY <1>1 DEF Twins, Losses
    <3>. QED
      BY <1>0, <2>1, <2>2, <3>1 DEF FreedOnlyByOwnerLoss
  <2>. QED
    BY <2>3, <2>4, <2>5, <2>6, <2>7, <2>8, <2>9 DEF RequestInv, HostInv
<1>5. CASE c \in requestsHost \cap Live /\ calls[c].cancelled
  <2>1. /\ UNCHANGED <<portal, calls, sessions, sessionsHost, inhibitors, responses>>
        /\ requests' = Without(requests, {Path(c)}) /\ requestsHost' = requestsHost \ {c}
    BY <1>0, <1>5 DEF Response, Drop
  <2>2. /\ Live' = Live \ {c}
        /\ \A p \in DOMAIN requests' : p \in DOMAIN requests /\ requests'[p] = requests[p]
    BY <1>5, <2>1, DropsOne
  <2>3. /\ Numbers' = Numbers /\ Range(sessions)' = Range(sessions) /\ gone' = gone
        /\ \A d \in Numbers : Keeps(d) /\ Path(d)' = Path(d) /\ SessionPath(d)' = SessionPath(d)
    BY <1>0, <2>1 DEF Numbers, Range, Keeps, Path, SessionPath
  <2>4. RequestTypes'
    BY <1>0, <1>2, <2>1, <2>2, <2>3 DEF RequestTypes
  <2>5. Named' /\ Views' /\ Entries' /\ Losses'
    BY <1>0, <2>1, <2>2, <2>3 DEF Named, Views, Entries, Losses
  <2>6. Keyed'
    <3>1. /\ \A p \in DOMAIN requests : requests[p] \in Numbers
          /\ \A p \in DOMAIN sessions : sessions[p] \in Numbers
      BY TableFacts DEF RequestTypes
    <3>. QED
      BY <2>1, <2>2, <2>3, <3>1 DEF Keyed
  <2>7. Twins'
    BY <2>1, <2>2, <2>3 DEF Twins
  <2>8. LocalIsHeld'
    BY <1>1, <2>1, <2>2, <2>3 DEF LocalIsHeld
  <2>9. AnswerInv'
    BY <1>2, <2>1, AnswersUnchanged
  <2>10. Opened'
    <3>1. ASSUME NEW d \in Numbers PROVE OpenedAt(d)'
      BY <1>0, <1>2, <2>1 DEF Opened, OpenedAt, Req, Ses, Inh
    <3>. QED
      BY <2>3, <3>1 DEF Opened
  <2>11. Finishing'
    BY <1>0, <1>1, <1>2, <2>1, <2>2, <2>3, FinishingStill
  <2>12. Reached'
    <3>1. ASSUME NEW d \in Numbers, d # c PROVE ReachedAt(d)'
      BY <1>0, <1>2, <2>1, <2>2, <3>1 DEF Reached, ReachedAt, Req, Ses, Inh
    <3>2. ReachedAt(c)'
      <4>1. ReachedAt(c) /\ calls[c].view = "closed"
        BY <1>0, <1>5 DEF Reached, Views
      <4>. QED
        BY <1>0, <1>1, <1>2, <1>5, <2>1, <4>1 DEF ReachedAt, Req, Ses, Inh
    <3>. QED
      BY <2>3, <3>1, <3>2 DEF Reached
  <2>. QED
    BY <1>0, <2>1, <2>4, <2>5, <2>6, <2>7, <2>8, <2>9, <2>10, <2>11, <2>12, Whole DEF TableInv
<1>6. CASE c \in requestsHost \cap Live /\ ~calls[c].cancelled
  <2>. DEFINE free == SessionPath(c) \notin DOMAIN sessions
  <2>0. /\ UNCHANGED <<portal, gone, open, closing, inhibitors>>
        /\ calls[c].view # "closed" /\ calls[c].sess \in {"none", "told", "raw", "closed"}
    BY <1>0, <1>6, CallFacts DEF Response, Views, CallType
  <2>. PICK s \in {"none", "told", "raw", "closed"} :
         s = IF ~w THEN calls[c].sess ELSE IF free THEN "told" ELSE "raw"
    BY <2>0
  <2>1. calls' = [calls EXCEPT ![c].view = "answered", ![c].sess = s]
    BY <1>0, <1>6 DEF Response
  <2>2. Sets(c, "done", "answered", s, calls[c].said, calls[c].cancelled)
    BY <1>0, <2>1, SetsAnswered
  <2>. PICK new : new = IF w /\ free THEN {c} ELSE {}
    OBVIOUS
  <2>3. /\ sessionsHost' = sessionsHost \cup new /\ Range(sessions)' = Range(sessions) \cup new
        /\ new \subseteq {c} /\ (w => c \in sessionsHost' \/ s = "raw") /\ (~w => new = {})
        /\ \A q \in DOMAIN sessions' : \/ q \in DOMAIN sessions /\ sessions'[q] = sessions[q]
                                       \/ q = SessionPath(c) /\ sessions'[q] = c
    <3>1. CASE w /\ free
      <4>1. /\ sessions' = With(sessions, SessionPath(c), c)
            /\ sessionsHost' = sessionsHost \cup {c} /\ new = {c}
        BY <1>0, <1>6, <3>1 DEF Response, RegisterSession
      <4>. QED
        BY <3>1, <4>1, SessionAdds
    <3>2. CASE ~(w /\ free)
      <4>1. sessions' = sessions /\ sessionsHost' = sessionsHost /\ new = {}
        BY <1>0, <1>6, <3>2 DEF Response
      <4>2. w => s = "raw"
        BY <3>2
      <4>. QED
        BY <4>1, <4>2 DEF Range
    <3>. QED
      BY <3>1, <3>2
  <2>. PICK rest : rest = IF calls[c].kind = "Acquire" THEN {} ELSE {c}
    OBVIOUS
  <2>4. /\ requestsHost' = requestsHost \ rest /\ Live' = Live \ rest
        /\ \A p \in DOMAIN requests' : p \in DOMAIN requests /\ requests'[p] = requests[p]
        /\ rest \subseteq {c} /\ (calls[c].kind = "Acquire" => rest = {})
    <3>1. CASE calls[c].kind = "Acquire"
      <4>1. requests' = requests /\ requestsHost' = requestsHost /\ rest = {}
        BY <1>0, <1>6, <3>1 DEF Response
      <4>. QED
        BY <4>1 DEF Live
    <3>2. CASE calls[c].kind # "Acquire"
      <4>1. requests' = Without(requests, {Path(c)}) /\ requestsHost' = requestsHost \ {c} /\ rest = {c}
        BY <1>0, <1>6, <3>2 DEF Response, Drop
      <4>. QED
        BY <1>6, <3>2, <4>1, DropsOne
    <3>. QED
      BY <3>1, <3>2
  <2>5. \A d \in Numbers : Keeps(d) /\ Path(d)' = Path(d) /\ SessionPath(d)' = SessionPath(d)
    BY <2>2, PathsStay DEF Sets
  <2>6. /\ responses' \in [1..MaxCalls -> Seq(1..MaxCalls)]
        /\ \A d \in 1..MaxCalls : d # c => responses'[d] = responses[d]
        /\ responses'[c] \in {<<>>, <<c>>}
    <3>1. responses' = IF calls[c].app \in gone THEN responses
                       ELSE [responses EXCEPT ![c] = Append(@, c)]
      BY <1>0, <1>6 DEF Response, Emit
    <3>2. c \in 1..MaxCalls
      BY CallFacts, BoundAssumption DEF RequestTypes
    <3>3. Append(responses[c], c) = <<c>> /\ <<c>> \in Seq(1..MaxCalls)
      BY <1>3, <3>2
    <3>. QED
      BY <1>3, <3>1, <3>2, <3>3 DEF RequestTypes
  <2>7. RequestTypes'
    BY <1>2, <2>0, <2>2, <2>3, <2>4, <2>6 DEF RequestTypes, Sets
  <2>8. Named' /\ Views'
    <3>1. Named'
      BY <2>2, NamesStay DEF Sets
    <3>2. Views'
      BY <1>1, <1>6, <2>2 DEF Views, Sets, Keeps
    <3>. QED
      BY <3>1, <3>2
  <2>9. Entries'
    <3>1. \A d \in Numbers : /\ calls'[d].kind = calls[d].kind
                             /\ calls[d].stage = "done" => calls'[d].stage = "done"
                             /\ calls[d].kind \in Local => calls'[d].stage = calls[d].stage
      BY <1>1, <2>2 DEF Sets, Keeps
    <3>2. Live \subseteq Numbers /\ sessionsHost \subseteq Numbers
      BY DEF RequestTypes, Twins
    <3>3. \A d \in sessionsHost' : calls'[d].kind \in WithSession /\ calls'[d].stage = "done"
      BY <1>0, <1>1, <2>3, <3>1, <3>2 DEF Entries, WithSession
    <3>4. \A d \in requestsHost' \cup inhibitors' \cup Live' : d \in Numbers
      BY <2>0, <2>4, <3>2 DEF RequestTypes
    <3>5. /\ \A d \in requestsHost' :
                calls'[d].kind \in ReturnsRequest /\ calls'[d].stage = "done"
          /\ \A d \in inhibitors' : calls'[d].kind = "Inhibit" /\ calls'[d].stage = "done"
      BY <2>0, <2>4, <3>1, <3>4 DEF Entries
    <3>6. \A d \in Live' : \/ calls'[d].kind \in ReturnsRequest /\ calls'[d].stage = "done"
                           \/ calls'[d].kind \in Local /\ calls'[d].stage = "sent"
      BY <2>4, <3>1, <3>4 DEF Entries
    <3>. QED
      BY <3>3, <3>5, <3>6 DEF Entries
  <2>10. Keyed'
    <3>1. /\ \A p \in DOMAIN requests : requests[p] \in Numbers
          /\ \A p \in DOMAIN sessions : sessions[p] \in Numbers
      BY TableFacts DEF RequestTypes
    <3>. QED
      BY <2>3, <2>4, <2>5, <3>1 DEF Keyed
  <2>11. Twins'
    BY <2>0, <2>2, <2>3, <2>4 DEF Twins, Sets, Keeps
  <2>12. LocalIsHeld'
    BY <1>1, <2>0, <2>2, <2>4, <2>5 DEF LocalIsHeld, Sets, Keeps
  <2>13. Losses'
    BY <1>0, <1>6, <2>0, <2>2, <2>3, <2>4 DEF Losses, Sets, Keeps
  <2>14. AnswerInv'
    <3>1. Numbers \subseteq 1..MaxCalls
      BY CallFacts, BoundAssumption DEF RequestTypes
    <3>2. Signals'
      BY <1>2, <2>2 DEF Signals, Sets, Keeps
    <3>3. Heard'
      <4>1. ASSUME NEW d \in Numbers, responses'[d] # <<>>
            PROVE  IF calls'[d].kind \in Local THEN calls'[d].stage = "done"
                   ELSE calls'[d].said /\ ~Signalled(d)'
        <5>1. CASE d = c
          BY <1>1, <2>2, <5>1 DEF Sets, Keeps
        <5>2. CASE d # c
          BY <1>2, <2>2, <2>6, <3>1, <4>1, <5>2 DEF Heard, Sets, Keeps
        <5>. QED
          BY <5>1, <5>2
      <4>2. ASSUME NEW d \in Numbers, calls'[d].kind \in ReturnsRequest,
                   calls'[d].view = "answered", ~calls'[d].late
            PROVE  calls'[d].said /\ ~Signalled(d)'
        BY <1>1, <1>2, <2>2, <4>2 DEF Heard, Sets, Keeps
      <4>3. \A d \in (1..MaxCalls) \ Numbers : responses'[d] = <<>>
        BY <1>0, <2>6 DEF Heard
      <4>. QED
        BY <2>2, <4>1, <4>2, <4>3 DEF Heard, Sets
    <3>4. AnswersMatch'
      BY <2>2, <2>6, <3>1 DEF AnswersMatch, Sets
    <3>. QED
      BY <3>2, <3>3, <3>4 DEF AnswerInv
  <2>15. Opened'
    <3>1. ASSUME NEW d \in Numbers, d # c PROVE OpenedAt(d)'
      <4>1. calls'[d] = calls[d]
        BY <2>2, <3>1 DEF Sets
      <4>. QED
        BY <1>0, <1>2, <3>1, <4>1 DEF Opened, OpenedAt, Req, Ses, Inh
    <3>2. OpenedAt(c)'
      <4>1. /\ calls'[c].kind = calls[c].kind /\ calls'[c].said = calls[c].said
            /\ calls'[c].stage = "done"
        BY <2>2 DEF Sets, Keeps
      <4>. QED
        BY <1>0, <1>2, <4>1 DEF Opened, OpenedAt, Req, Ses, Inh
    <3>. QED
      BY <2>2, <3>1, <3>2 DEF Opened, Sets
  <2>16. Finishing'
    BY <1>0, <1>2, <2>0, <2>2, <2>4, FinishingStill DEF Sets
  <2>17. Reached'
    <3>1. ASSUME NEW d \in Numbers, d # c PROVE ReachedAt(d)'
      BY <1>0, <1>2, <2>0, <2>2, <2>3, <2>4, <3>1 DEF Reached, ReachedAt, Sets, Req, Ses, Inh
    <3>2. ReachedAt(c)'
      <4>1. Ses(c) \in open => w
        BY <1>0, <1>1 DEF Opened, OpenedAt, Signalled
      <4>2. Req(c) \in open => c \in Live'
        BY <1>1, <1>6, <2>4 DEF Opened, OpenedAt
      <4>3. Inh(c) \notin open
        BY <1>1 DEF Opened, OpenedAt, ReturnsRequest
      <4>. QED
        BY <1>1, <1>2, <1>6, <2>0, <2>2, <2>3, <4>1, <4>2, <4>3 DEF ReachedAt, Sets, Req, Ses, Inh
    <3>. QED
      BY <2>2, <3>1, <3>2 DEF Reached, Sets
  <2>. QED
    BY <1>0, <2>0, <2>7, <2>8, <2>9, <2>10, <2>11, <2>12, <2>13, <2>14, <2>15, <2>16, <2>17, Whole
       DEF TableInv
<1>. QED
  BY <1>4, <1>5, <1>6

LEMMA SessionClosedStep ==
    ASSUME RequestInv, NEW c \in Numbers, SessionClosed(c)
    PROVE  RequestInv'
<1>. USE Parts
<1>0. /\ portal = "runs" /\ <<"closed", c>> \in wire /\ calls[c].stage = "done"
      /\ wire' = wire \ {<<"closed", c>>}
      /\ UNCHANGED <<portal, gone, requests, requestsHost, inhibitors, open, closing, responses>>
  BY DEF SessionClosed, Runs
<1>1. Ses(c) \notin open
  BY <1>0 DEF Opened, OpenedAt
<1>2. /\ \A d \in Numbers : Signalled(d)' <=> Signalled(d)
      /\ \A d \in Numbers : /\ <<"response", d>> \in wire' <=> <<"response", d>> \in wire
                            /\ <<"session", d>> \in wire' <=> <<"session", d>> \in wire
                            /\ <<"closed", d>> \in wire' => <<"closed", d>> \in wire
  BY <1>0 DEF Signalled
<1>3. wire' \subseteq {"response", "session", "closed"} \X Numbers
  BY <1>0 DEF RequestTypes
<1>4. CASE c \notin sessionsHost
  <2>1. UNCHANGED <<calls, tables>>
    BY <1>0, <1>4 DEF SessionClosed, tables
  <2>2. /\ Numbers' = Numbers /\ Live' = Live /\ \A d \in Numbers : Keeps(d)
        /\ sessionsHost' = sessionsHost /\ inhibitors' = inhibitors
    BY <2>1 DEF Numbers, Live, tables, Keeps
  <2>3. TableInv'
    BY <1>0, <2>1, TablesUnchanged
  <2>4. AnswerInv'
    BY <1>0, <1>2, <2>1, AnswersUnchanged
  <2>5. RequestTypes'
    BY <1>0, <1>3, <2>1, <2>2, TypesStill DEF RequestTypes
  <2>6. Opened'
    <3>1. ASSUME NEW d \in Numbers PROVE OpenedAt(d)'
      BY <1>0, <1>2, <2>1 DEF Opened, OpenedAt, Req, Ses, Inh
    <3>. QED
      BY <2>2, <3>1 DEF Opened
  <2>7. Finishing'
    BY <1>0, <1>2, <2>1, <2>2, FinishingStill
  <2>8. Reached'
    <3>1. ASSUME NEW d \in Numbers PROVE ReachedAt(d)'
      BY <1>0, <1>2, <2>1, <2>2 DEF Reached, ReachedAt, Req, Ses, Inh
    <3>. QED
      BY <2>2, <3>1 DEF Reached
  <2>. QED
    BY <1>0, <2>3, <2>4, <2>5, <2>6, <2>7, <2>8, Whole
<1>5. CASE c \in sessionsHost
  <2>1. /\ calls' = [calls EXCEPT ![c].sess = "closed"] /\ sessionsHost' = sessionsHost \ {c}
        /\ sessions' = Without(sessions, {SessionPath(c)})
    BY <1>5 DEF SessionClosed
  <2>2. Sets(c, calls[c].stage, calls[c].view, "closed", calls[c].said, calls[c].cancelled)
    BY <2>1, SetsSess
  <2>3. /\ Range(sessions)' = Range(sessions) \ {c}
        /\ \A p \in DOMAIN sessions' : p \in DOMAIN sessions /\ sessions'[p] = sessions[p]
    BY <1>5, <2>1, SessionDrops DEF Twins
  <2>4. \A d \in Numbers : Keeps(d) /\ Path(d)' = Path(d) /\ SessionPath(d)' = SessionPath(d)
    BY <2>2, PathsStay DEF Sets
  <2>5. /\ Live' = Live /\ requestsHost' = requestsHost /\ inhibitors' = inhibitors
        /\ gone' = gone /\ open' = open /\ closing' = closing /\ requests' = requests
    BY <1>0 DEF Live, Range
  <2>6. RequestTypes'
    BY <1>0, <1>3, <2>2, <2>3, <2>5 DEF RequestTypes, Sets
  <2>7. Named' /\ Views'
    <3>1. Named'
      BY <2>2, NamesStay DEF Sets
    <3>2. Views'
      BY <2>2 DEF Views, Sets, Keeps
    <3>. QED
      BY <3>1, <3>2
  <2>8. Entries'
    <3>1. \A d \in Numbers : calls'[d].kind = calls[d].kind /\ calls'[d].stage = calls[d].stage
      BY <2>2 DEF Sets, Keeps
    <3>2. Live \subseteq Numbers /\ sessionsHost \subseteq Numbers
      BY DEF RequestTypes, Twins
    <3>. QED
      BY <2>1, <2>5, <3>1, <3>2 DEF Entries, RequestTypes
  <2>9. Keyed'
    <3>1. /\ \A p \in DOMAIN requests : requests[p] \in Numbers
          /\ \A p \in DOMAIN sessions : sessions[p] \in Numbers
      BY TableFacts DEF RequestTypes
    <3>. QED
      BY <2>3, <2>4, <2>5, <3>1 DEF Keyed
  <2>10. Twins'
    <3>1. sessionsHost' = Range(sessions)'
      BY <2>1, <2>3 DEF Twins
    <3>2. \A d \in Numbers : calls'[d].app = calls[d].app /\ calls'[d].kind = calls[d].kind
      BY <2>4 DEF Keeps
    <3>3. Numbers' = Numbers
      BY <2>2 DEF Sets
    <3>. QED
      BY <2>5, <3>1, <3>2, <3>3 DEF Twins
  <2>11. LocalIsHeld'
    BY <2>2, <2>4, <2>5 DEF LocalIsHeld, Sets, Keeps
  <2>12. Losses'
    BY <2>1, <2>2, <2>5 DEF Losses, Sets, Keeps
  <2>13. AnswerInv'
    <3>1. Signals'
      <4>1. Numbers' = Numbers
        BY <2>2 DEF Sets
      <4>2. \A d \in Numbers : /\ calls'[d].said = calls[d].said /\ calls'[d].kind = calls[d].kind
                               /\ calls'[d].stage = calls[d].stage
        BY <2>2 DEF Sets, Keeps
      <4>. QED
        BY <1>2, <4>1, <4>2 DEF Signals
    <3>2. Heard'
      BY <1>0, <1>2, <2>2 DEF Heard, Sets, Keeps
    <3>3. AnswersMatch'
      BY <1>0, <2>2 DEF AnswersMatch, Sets
    <3>. QED
      BY <3>1, <3>2, <3>3 DEF AnswerInv
  <2>14. Opened'
    <3>1. ASSUME NEW d \in Numbers PROVE OpenedAt(d)'
      BY <1>2, <2>2, <2>5 DEF Opened, OpenedAt, Sets, Keeps, Req, Ses, Inh
    <3>. QED
      BY <2>2, <3>1 DEF Opened, Sets
  <2>15. Finishing'
    BY <1>2, <2>2, <2>5, FinishingStill DEF Sets
  <2>16. Reached'
    <3>1. ASSUME NEW d \in Numbers, d # c PROVE ReachedAt(d)'
      BY <1>0, <1>2, <2>1, <2>2, <2>5, <3>1 DEF Reached, ReachedAt, Sets, Req, Ses, Inh
    <3>2. ReachedAt(c)'
      BY <1>0, <1>1, <1>2, <2>2, <2>5 DEF Reached, ReachedAt, Sets, Keeps, Req, Ses, Inh
    <3>. QED
      BY <2>2, <3>1, <3>2 DEF Reached, Sets
  <2>. QED
    BY <1>0, <2>6, <2>7, <2>8, <2>9, <2>10, <2>11, <2>12, <2>13, <2>14, <2>15, <2>16, Whole
       DEF TableInv
<1>. QED
  BY <1>4, <1>5

-----------------------------------------------------------------------------
(* An owner leaves.                                                         *)

LEMMA Latecomers ==
    ASSUME RequestTypes, NEW a,
           calls' = [c \in Numbers |->
                       [calls[c] EXCEPT !.late = @ \/ (calls[c].app = a /\ InFlight(c))]]
    PROVE  /\ calls' \in Seq(CallType) /\ Len(calls') = Len(calls) /\ Numbers' = Numbers
           /\ \A d \in Numbers :
                /\ Keeps(d) /\ calls'[d].stage = calls[d].stage /\ calls'[d].view = calls[d].view
                /\ calls'[d].sess = calls[d].sess /\ calls'[d].said = calls[d].said
                /\ calls'[d].cancelled = calls[d].cancelled
                /\ calls'[d].late <=> (calls[d].late \/ (calls[d].app = a /\ InFlight(d)))
<1>1. Numbers = 1..Len(calls) /\ Len(calls) \in Nat /\ \A d \in Numbers : calls[d] \in CallType
  BY CallFacts
<1>. DEFINE late(d) == calls[d].late \/ (calls[d].app = a /\ InFlight(d))
            new(d) == [calls[d] EXCEPT !.late = late(d)]
<1>2. ASSUME NEW d \in Numbers
      PROVE  /\ new(d) \in CallType /\ new(d).late = late(d)
             /\ new(d).kind = calls[d].kind /\ new(d).app = calls[d].app
             /\ new(d).tok = calls[d].tok /\ new(d).stok = calls[d].stok /\ new(d).of = calls[d].of
             /\ new(d).stage = calls[d].stage /\ new(d).view = calls[d].view
             /\ new(d).sess = calls[d].sess /\ new(d).said = calls[d].said
             /\ new(d).cancelled = calls[d].cancelled
  <2>1. calls[d] \in CallType /\ late(d) \in BOOLEAN
    BY <1>1
  <2>. HIDE DEF late
  <2>. QED
    BY <2>1 DEF CallType
<1>3. calls' = [d \in Numbers |-> new(d)]
  OBVIOUS
<1>. HIDE DEF new
<1>4. /\ calls' \in Seq(CallType) /\ Len(calls') = Len(calls)
      /\ \A d \in Numbers : calls'[d] = new(d)
  BY <1>1, <1>2, <1>3
<1>5. Numbers' = Numbers
  BY <1>1, <1>4 DEF Numbers
<1>6. ASSUME NEW d \in Numbers
      PROVE  /\ Keeps(d) /\ calls'[d].stage = calls[d].stage /\ calls'[d].view = calls[d].view
             /\ calls'[d].sess = calls[d].sess /\ calls'[d].said = calls[d].said
             /\ calls'[d].cancelled = calls[d].cancelled /\ calls'[d].late = late(d)
  <2>1. calls'[d] = new(d)
    BY <1>4
  <2>. HIDE DEF late
  <2>. QED
    BY <1>2, <2>1 DEF Keeps
<1>. QED
  BY <1>4, <1>5, <1>6

LEMMA GuestNameChangedStep ==
    ASSUME RequestInv, NEW a \in Apps, GuestNameChanged(a)
    PROVE  RequestInv'
<1>. USE Parts
<1>. PICK rs : rs = {p \in DOMAIN requests : p[1] = a}
  OBVIOUS
<1>. PICK ss : ss = {p \in DOMAIN sessions : p[1] = a}
  OBVIOUS
<1>0. /\ portal = "runs" /\ a \notin gone /\ gone' = gone \cup {a}
      /\ UNCHANGED <<portal, open, wire, responses>>
      /\ requestsHost' = requestsHost \ {requests[p] : p \in rs}
      /\ requests' = Without(requests, rs)
      /\ sessionsHost' = sessionsHost \ {sessions[p] : p \in ss}
      /\ sessions' = Without(sessions, ss)
      /\ inhibitors' = inhibitors \ Cookies(a)
  BY DEF GuestNameChanged, Runs
<1>1. closing' = closing \cup {Req(requests[p]) : p \in {q \in rs : requests[q] \in requestsHost}}
                         \cup {Ses(sessions[p]) : p \in ss} \cup {Inh(c) : c \in Cookies(a)}
  BY DEF GuestNameChanged
<1>2. /\ calls' \in Seq(CallType) /\ Len(calls') = Len(calls) /\ Numbers' = Numbers
      /\ \A d \in Numbers :
           /\ Keeps(d) /\ calls'[d].stage = calls[d].stage /\ calls'[d].view = calls[d].view
           /\ calls'[d].sess = calls[d].sess /\ calls'[d].said = calls[d].said
           /\ calls'[d].cancelled = calls[d].cancelled
           /\ calls'[d].late <=> (calls[d].late \/ (calls[d].app = a /\ InFlight(d)))
  BY Latecomers DEF GuestNameChanged
<1>3. \A d \in Numbers : Path(d)' = Path(d) /\ SessionPath(d)' = SessionPath(d)
  BY <1>2, PathsStay
<1>4. /\ \A p \in DOMAIN requests : p \in rs <=> calls[requests[p]].app = a
      /\ \A p \in DOMAIN sessions : p \in ss <=> calls[sessions[p]].app = a
  BY DEF Keyed, Path, SessionPath
<1>5. {requests[p] : p \in rs} = {c \in Live : calls[c].app = a}
  BY <1>4 DEF Live, Range
<1>6. {sessions[p] : p \in ss} = {c \in sessionsHost : calls[c].app = a}
  BY <1>4 DEF Twins, Range
<1>7. /\ DOMAIN requests' = DOMAIN requests \ rs
      /\ \A p \in DOMAIN requests' : p \in DOMAIN requests /\ requests'[p] = requests[p]
  BY <1>0 DEF Without, Restrict
<1>8. /\ DOMAIN sessions' = DOMAIN sessions \ ss
      /\ \A p \in DOMAIN sessions' : p \in DOMAIN sessions /\ sessions'[p] = sessions[p]
  BY <1>0 DEF Without, Restrict
<1>9. Live' = {c \in Live : calls[c].app # a}
  BY <1>4, <1>7 DEF Live, Range
<1>10. Range(sessions)' = {c \in Range(sessions) : calls[c].app # a}
  BY <1>4, <1>8 DEF Range
<1>11. /\ sessionsHost' = {c \in sessionsHost : calls[c].app # a}
       /\ inhibitors' = {c \in inhibitors : calls[c].app # a}
  BY <1>0, <1>6 DEF Cookies
<1>12. requestsHost' = {c \in requestsHost : calls[c].app # a}
  <2>1. \A c \in requestsHost : calls[c].app = a => c \in Live
    BY <1>0 DEF Twins, RequestTypes
  <2>. QED
    BY <1>0, <1>5, <2>1
<1>13. RequestTypes'
  BY <1>0, <1>2, <1>9, <1>10, <1>11, <1>12 DEF RequestTypes
<1>14. Named'
  BY <1>2, <1>3 DEF Named, Keeps
<1>15. Views'
  BY <1>2 DEF Views, Keeps
<1>16. Entries'
  <2>1. \A d \in Numbers : calls'[d].kind = calls[d].kind /\ calls'[d].stage = calls[d].stage
    BY <1>2 DEF Keeps
  <2>2. Live \subseteq Numbers /\ sessionsHost \subseteq Numbers
    BY DEF RequestTypes, Twins
  <2>. QED
    BY <1>9, <1>11, <1>12, <2>1, <2>2 DEF Entries, RequestTypes
<1>17. Keyed'
  <2>1. /\ \A p \in DOMAIN requests : requests[p] \in Numbers
        /\ \A p \in DOMAIN sessions : sessions[p] \in Numbers
    BY TableFacts DEF RequestTypes
  <2>. QED
    BY <1>3, <1>7, <1>8, <2>1 DEF Keyed
<1>18. Twins'
  BY <1>0, <1>2, <1>9, <1>10, <1>11, <1>12 DEF Twins, Keeps
<1>19. LocalIsHeld'
  BY <1>0, <1>2, <1>3, <1>9 DEF LocalIsHeld, Keeps
<1>20. Losses'
  <2>1. \A d \in Numbers : calls[d].stage # "done" => InFlight(d)
    BY DEF InFlight
  <2>. QED
    BY <1>0, <1>2, <1>9, <1>11, <1>12, <2>1 DEF Losses, Keeps
<1>21. \A d \in Numbers : Signalled(d)' <=> Signalled(d)
  BY <1>0 DEF Signalled
<1>22. AnswerInv'
  <2>1. Signals'
    BY <1>0, <1>2, <1>21 DEF Signals, Keeps
  <2>2. Heard'
    BY <1>0, <1>2, <1>21 DEF Heard, Keeps
  <2>3. AnswersMatch'
    BY <1>0, <1>2 DEF AnswersMatch
  <2>. QED
    BY <2>1, <2>2, <2>3 DEF AnswerInv
<1>23. Opened'
  <2>1. ASSUME NEW d \in Numbers PROVE OpenedAt(d)'
    BY <1>0, <1>2 DEF Opened, OpenedAt, Keeps, Req, Ses, Inh
  <2>. QED
    BY <1>2, <2>1 DEF Opened
<1>24. Finishing'
  BY <1>0, <1>2, <1>9, <1>21, FinishingStill
<1>25. Reached'
  <2>1. ASSUME NEW d \in Numbers PROVE ReachedAt(d)'
    <3>1. ReachedAt(d) /\ closing \subseteq closing'
      BY <1>0, <1>1 DEF Reached
    <3>2. d \in Live /\ Req(d) \in open => d \in Live' \/ Req(d) \in closing'
      <4>1. SUFFICES ASSUME d \in Live, Req(d) \in open, calls[d].app = a PROVE Req(d) \in closing'
        BY <1>9
      <4>2. d \in requestsHost
        BY <1>0, <4>1 DEF Twins, Opened, OpenedAt, ReturnsRequest, Local
      <4>3. Path(d) \in rs /\ requests[Path(d)] = d
        BY <1>4, <4>1, TableFacts
      <4>. QED
        BY <1>1, <4>2, <4>3
    <3>3. d \in sessionsHost => d \in sessionsHost' \/ Ses(d) \in closing'
      <4>1. SUFFICES ASSUME d \in sessionsHost, calls[d].app = a PROVE Ses(d) \in closing'
        BY <1>11
      <4>2. SessionPath(d) \in ss /\ sessions[SessionPath(d)] = d
        BY <1>4, <4>1, TableFacts DEF Twins
      <4>. QED
        BY <1>1, <4>2
    <3>4. d \in inhibitors => d \in inhibitors' \/ Inh(d) \in closing'
      BY <1>1, <1>11 DEF Cookies
    <3>5. ReachedAt(d)'
      BY <1>0, <1>2, <1>9, <3>1, <3>2, <3>3, <3>4 DEF ReachedAt, Keeps, Req, Ses, Inh
    <3>. QED
      BY <3>5
  <2>. QED
    BY <1>2, <2>1 DEF Reached
<1>. QED
  BY <1>0, <1>13, <1>14, <1>15, <1>16, <1>17, <1>18, <1>19, <1>20, <1>22, <1>23, <1>24, <1>25, Whole
     DEF TableInv

-----------------------------------------------------------------------------
(* The screen saver restarts, and the router ends.                          *)

LEMMA FunctionIsSeq ==
    ASSUME NEW S, NEW n \in Nat, NEW u \in [1..n -> S]
    PROVE  u \in Seq(S) /\ Len(u) = n
OBVIOUS

\* A call whose service went away is over, and refused.
Refused(x) == [x EXCEPT !.stage = "done", !.view = "refused"]

LEMMA RefusedCall ==
    ASSUME NEW x \in CallType
    PROVE  /\ Refused(x) \in CallType /\ Refused(x).stage = "done" /\ Refused(x).view = "refused"
           /\ Refused(x).kind = x.kind /\ Refused(x).app = x.app /\ Refused(x).tok = x.tok
           /\ Refused(x).stok = x.stok /\ Refused(x).of = x.of /\ Refused(x).late = x.late
           /\ Refused(x).sess = x.sess /\ Refused(x).said = x.said
           /\ Refused(x).cancelled = x.cancelled
<1>. PICK y : y = Refused(x)
  OBVIOUS
<1>. DEFINE r == [x EXCEPT !.stage = "done"]
<1>1. /\ r \in CallType /\ r.stage = "done"
      /\ r.kind = x.kind /\ r.app = x.app /\ r.tok = x.tok /\ r.stok = x.stok
      /\ r.of = x.of /\ r.late = x.late /\ r.sess = x.sess /\ r.said = x.said
      /\ r.cancelled = x.cancelled
  BY DEF CallType
<1>2. y = [r EXCEPT !.view = "refused"]
  BY DEF Refused
<1>. HIDE DEF r
<1>3. /\ y \in CallType /\ y.view = "refused" /\ y.stage = r.stage
      /\ y.kind = r.kind /\ y.app = r.app /\ y.tok = r.tok /\ y.stok = r.stok
      /\ y.of = r.of /\ y.late = r.late /\ y.sess = r.sess /\ y.said = r.said
      /\ y.cancelled = r.cancelled
  BY <1>1, <1>2 DEF CallType
<1>. QED
  BY <1>1, <1>3

LEMMA RefusedKeeps ==
    ASSUME RequestTypes, NEW d \in Numbers,
           calls'[d] = Refused(calls[d])
    PROVE  /\ Keeps(d) /\ calls'[d].late = calls[d].late
           /\ calls'[d].sess = calls[d].sess /\ calls'[d].said = calls[d].said
           /\ calls'[d].cancelled = calls[d].cancelled
           /\ calls'[d].stage = "done" /\ calls'[d].view = "refused"
<1>1. calls[d] \in CallType
  BY CallFacts
<1>. QED
  BY <1>1, RefusedCall DEF Keeps

LEMMA Restarted ==
    ASSUME RequestTypes,
           calls' = [c \in Numbers |->
                       IF calls[c].kind \in Screen /\ calls[c].stage = "sent"
                       THEN [calls[c] EXCEPT !.stage = "done", !.view = "refused"] ELSE calls[c]]
    PROVE  /\ calls' \in Seq(CallType) /\ Len(calls') = Len(calls) /\ Numbers' = Numbers
           /\ \A d \in Numbers :
                /\ Keeps(d) /\ calls'[d].late = calls[d].late
                /\ calls'[d].sess = calls[d].sess /\ calls'[d].said = calls[d].said
                /\ calls'[d].cancelled = calls[d].cancelled
                /\ IF calls[d].kind \in Screen /\ calls[d].stage = "sent"
                   THEN calls'[d].stage = "done" /\ calls'[d].view = "refused"
                   ELSE calls'[d] = calls[d]
<1>1. Numbers = 1..Len(calls) /\ Len(calls) \in Nat /\ \A d \in Numbers : calls[d] \in CallType
  BY CallFacts
<1>. DEFINE waits(d) == calls[d].kind \in Screen /\ calls[d].stage = "sent"
            ended(d) == Refused(calls[d])
            new(d) == IF waits(d) THEN ended(d) ELSE calls[d]
<1>2. \A d \in Numbers : ended(d) \in CallType
  BY <1>1, RefusedCall
<1>3. calls' = [d \in Numbers |-> new(d)]
  BY DEF Refused
<1>4. \A d \in Numbers : new(d) \in CallType
  <2>. HIDE DEF ended, waits
  <2>. QED
    BY <1>1, <1>2
<1>5. /\ calls' \in Seq(CallType) /\ Len(calls') = Len(calls)
      /\ \A d \in Numbers : calls'[d] = new(d)
  <2>. HIDE DEF new
  <2>1. PICK u : u = [d \in Numbers |-> new(d)]
    OBVIOUS
  <2>2. u \in Seq(CallType) /\ Len(u) = Len(calls) /\ \A d \in Numbers : u[d] = new(d)
    <3>1. u \in [1..Len(calls) -> CallType] /\ \A d \in Numbers : u[d] = new(d)
      BY <1>1, <1>4, <2>1
    <3>. QED
      BY <1>1, <3>1, FunctionIsSeq
  <2>3. calls' = u
    BY <1>3, <2>1
  <2>. QED
    BY <2>2, <2>3
<1>6. Numbers' = Numbers
  BY <1>1, <1>5 DEF Numbers
<1>7. ASSUME NEW d \in Numbers
      PROVE  /\ Keeps(d) /\ calls'[d].late = calls[d].late
             /\ calls'[d].sess = calls[d].sess /\ calls'[d].said = calls[d].said
             /\ calls'[d].cancelled = calls[d].cancelled
             /\ waits(d) => calls'[d].stage = "done" /\ calls'[d].view = "refused"
             /\ ~waits(d) => calls'[d] = calls[d]
  <2>1. CASE waits(d)
    <3>1. calls'[d] = ended(d)
      BY <1>5, <2>1
    <3>2. /\ Keeps(d) /\ calls'[d].late = calls[d].late
          /\ calls'[d].sess = calls[d].sess /\ calls'[d].said = calls[d].said
          /\ calls'[d].cancelled = calls[d].cancelled
          /\ calls'[d].stage = "done" /\ calls'[d].view = "refused"
      BY <3>1, RefusedKeeps
    <3>. HIDE DEF ended, waits
    <3>. QED
      BY <2>1, <3>2
  <2>2. CASE ~waits(d)
    <3>1. calls'[d] = calls[d]
      BY <1>5, <2>2
    <3>. HIDE DEF waits
    <3>. QED
      BY <2>2, <3>1 DEF Keeps
  <2>. QED
    BY <2>1, <2>2
<1>. QED
  BY <1>5, <1>6, <1>7

LEMMA ScreenSaverRestartedStep ==
    ASSUME RequestInv, ScreenSaverRestarted
    PROVE  RequestInv'
<1>. USE Parts
<1>0. /\ portal = "runs" /\ inhibitors' = {}
      /\ \A c \in Numbers : calls[c].kind \in Screen => calls[c].stage # "replied"
      /\ open' = {h \in open : h[1] # "inhibit"}
      /\ closing' = {h \in closing : h[1] # "inhibit"}
      /\ UNCHANGED <<portal, gone, requests, requestsHost, sessions, sessionsHost, wire, responses>>
  BY DEF ScreenSaverRestarted, Runs
<1>1. /\ calls' \in Seq(CallType) /\ Len(calls') = Len(calls) /\ Numbers' = Numbers
      /\ \A d \in Numbers :
           /\ Keeps(d) /\ calls'[d].late = calls[d].late
           /\ calls'[d].sess = calls[d].sess /\ calls'[d].said = calls[d].said
           /\ calls'[d].cancelled = calls[d].cancelled
           /\ IF calls[d].kind \in Screen /\ calls[d].stage = "sent"
              THEN calls'[d].stage = "done" /\ calls'[d].view = "refused"
              ELSE calls'[d] = calls[d]
  BY Restarted DEF ScreenSaverRestarted
<1>2. /\ Live' = Live /\ Range(sessions)' = Range(sessions) /\ requestsHost' = requestsHost
      /\ sessionsHost' = sessionsHost /\ gone' = gone /\ wire' = wire
  BY <1>0 DEF Live, Range
<1>3. \A d \in Numbers : Keeps(d) /\ Path(d)' = Path(d) /\ SessionPath(d)' = SessionPath(d)
  BY <1>1, PathsStay
<1>4. \A d \in Numbers : calls[d].kind \in Screen =>
        calls[d].kind \notin Local \cup ReturnsRequest \cup WithSession
  BY DEF Screen, Local, ReturnsRequest, WithSession, ReturnsSession
<1>5. /\ \A d \in Numbers : /\ Req(d) \in open' <=> Req(d) \in open
                            /\ Ses(d) \in open' <=> Ses(d) \in open
                            /\ Inh(d) \notin open'
                            /\ Req(d) \in closing' <=> Req(d) \in closing
                            /\ Ses(d) \in closing' <=> Ses(d) \in closing
  BY <1>0 DEF Req, Ses, Inh
<1>6. RequestTypes'
  BY <1>0, <1>1, <1>2 DEF RequestTypes
<1>7. Named'
  BY <1>1, <1>3 DEF Named, Keeps
<1>8. Views'
  <2>1. ASSUME NEW d \in Numbers, calls[d].kind \in Screen, calls[d].stage = "sent"
        PROVE  ~calls[d].cancelled
    BY <1>4, <2>1 DEF Views
  <2>. QED
    BY <1>1, <1>4, <2>1 DEF Views, Keeps
<1>9. \A d \in Numbers : /\ calls'[d].kind = calls[d].kind
                         /\ calls[d].stage = "done" => calls'[d].stage = "done"
                         /\ calls[d].kind \notin Screen => calls'[d] = calls[d]
                         /\ calls'[d].stage # "done" => calls'[d] = calls[d]
  BY <1>1 DEF Keeps
<1>10. Entries'
  <2>1. Live \subseteq Numbers /\ sessionsHost \subseteq Numbers
    BY DEF RequestTypes, Twins
  <2>. QED
    BY <1>0, <1>2, <1>4, <1>9, <2>1 DEF Entries, RequestTypes
<1>11. Keyed'
  BY <1>0, <1>3, StillKeyed
<1>12. Twins'
  BY <1>1, <1>2 DEF Twins, Keeps
<1>13. LocalIsHeld'
  <2>1. \A f \in Numbers : calls[f].kind = "Finish" => calls[f].kind \notin Screen
    BY DEF Screen
  <2>. QED
    BY <1>1, <1>2, <1>3, <1>4, <1>9, <2>1 DEF LocalIsHeld, Keeps
<1>14. Losses'
  BY <1>0, <1>1, <1>2, <1>9 DEF Losses, Keeps
<1>15. \A d \in Numbers : Signalled(d)' <=> Signalled(d)
  BY <1>2 DEF Signalled
<1>16. AnswerInv'
  <2>1. Signals'
    BY <1>1, <1>2, <1>9, <1>15 DEF Signals
  <2>2. Heard'
    BY <1>0, <1>1, <1>4, <1>9, <1>15 DEF Heard
  <2>3. AnswersMatch'
    BY <1>0, <1>1 DEF AnswersMatch
  <2>. QED
    BY <2>1, <2>2, <2>3 DEF AnswerInv
<1>17. Opened'
  <2>1. ASSUME NEW d \in Numbers PROVE OpenedAt(d)'
    BY <1>1, <1>2, <1>5, <1>9 DEF Opened, OpenedAt, Req, Ses, Inh
  <2>. QED
    BY <1>1, <2>1 DEF Opened
<1>18. Finishing'
  BY <1>0, <1>1, <1>2, <1>5, <1>15, FinishingStill
<1>19. Reached'
  <2>1. ASSUME NEW d \in Numbers PROVE ReachedAt(d)'
    <3>1. ReachedAt(d)
      BY <1>0 DEF Reached
    <3>2. CASE calls'[d] = calls[d]
      BY <1>2, <1>5, <3>1, <3>2 DEF ReachedAt, Req, Ses, Inh
    <3>3. CASE calls'[d] # calls[d]
      <4>1. Req(d) \notin open /\ Ses(d) \notin open /\ calls'[d].kind # "CreateSession"
        BY <1>1, <1>4, <3>3 DEF Opened, OpenedAt, Keeps, WithSession
      <4>. QED
        BY <1>5, <4>1 DEF ReachedAt, Req, Ses, Inh
    <3>. QED
      BY <3>2, <3>3
  <2>. QED
    BY <1>1, <2>1 DEF Reached
<1>. QED
  BY <1>0, <1>6, <1>7, <1>8, <1>10, <1>11, <1>12, <1>13, <1>14, <1>16, <1>17, <1>18, <1>19, Whole
     DEF TableInv

LEMMA QuitStep ==
    ASSUME RequestInv, Quit
    PROVE  RequestInv'
<1>1. /\ Numbers' = {} /\ Len(calls') = 0 /\ calls' \in Seq(CallType)
      /\ DOMAIN requests' = {} /\ DOMAIN sessions' = {}
  BY DEF Quit, Numbers
<1>2. Live' = {} /\ Range(sessions)' = {}
  BY <1>1 DEF Live, Range
<1>3. RequestTypes'
  BY <1>1, <1>2, Parts, BoundAssumption DEF Quit, RequestTypes
<1>4. TableInv'
  BY <1>1, <1>2 DEF Quit, TableInv, Named, Views, Entries, Keyed, Twins, LocalIsHeld, Losses
<1>5. AnswerInv'
  BY <1>1 DEF Quit, AnswerInv, Signals, Heard, AnswersMatch
<1>6. Opened' /\ Finishing' /\ Reached'
  BY <1>1 DEF Opened, Finishing, Reached
<1>. QED
  BY <1>3, <1>4, <1>5, <1>6, Whole DEF Quit

-----------------------------------------------------------------------------
(* All steps.                                                               *)

LEMMA StutterInv == RequestInv /\ UNCHANGED vars => RequestInv'
<1>. SUFFICES ASSUME RequestInv, UNCHANGED vars PROVE RequestInv'
  OBVIOUS
<1>. USE Parts
<1>1. /\ UNCHANGED <<portal, gone, calls, tables, responses>> /\ open' = open /\ wire' = wire
      /\ closing' = closing /\ sessionsHost' = sessionsHost /\ inhibitors' = inhibitors
      /\ requestsHost' = requestsHost
  BY DEF vars, tables
<1>2. /\ Numbers' = Numbers /\ Live' = Live /\ \A d \in Numbers : Keeps(d)
      /\ \A d \in Numbers : Signalled(d)' <=> Signalled(d)
  BY <1>1 DEF Numbers, Live, tables, Keeps, Signalled
<1>3. TableInv' /\ AnswerInv'
  BY <1>1, TablesUnchanged, AnswersUnchanged
<1>4. RequestTypes'
  BY <1>1, <1>2, TypesStill DEF RequestTypes
<1>5. Opened'
  BY <1>1, <1>2 DEF Opened, OpenedAt, Req, Ses, Inh
<1>6. Finishing'
  BY <1>1, <1>2, FinishingStill
<1>7. Reached'
  BY <1>1, <1>2 DEF Reached, ReachedAt, Req, Ses, Inh
<1>8. FreedOnlyByOwnerLoss'
  BY <1>1, <1>2 DEF FreedOnlyByOwnerLoss
<1>. QED
  BY <1>3, <1>4, <1>5, <1>6, <1>7, <1>8 DEF RequestInv, HostInv

LEMMA RequestInductive == RequestInv /\ [Next]_vars => RequestInv'
<1>. SUFFICES ASSUME RequestInv, [Next]_vars PROVE RequestInv'
  OBVIOUS
<1>1. ASSUME NEW a \in Apps, NEW k \in Forwarded, NEW t \in Tokens \cup {None},
             NEW s \in Tokens \cup {None}, ForwardCall(a, k, t, s)
      PROVE  RequestInv'
  BY <1>1, ForwardCallStep
<1>2. ASSUME NEW a \in Apps, NEW t \in Tokens,
             FinishCall(a, t) \/ ChooserCall(a, t) \/ BrokerCall(a, t)
      PROVE  RequestInv'
  <2>1. "Chooser" \in Local /\ "Broker" \in Local
    BY DEF Local
  <2>. QED
    BY <1>2, <2>1, FinishCallStep, LocalCallStep DEF ChooserCall, BrokerCall
<1>3. ASSUME NEW a \in Apps,
             \/ InhibitCall(a) \/ GuestNameChanged(a)
             \/ \E c \in inhibitors : UnInhibitCall(a, c)
      PROVE  RequestInv'
  BY <1>3, InhibitCallStep, GuestNameChangedStep, UnInhibitCallStep
<1>4. ASSUME NEW c \in Numbers, NEW w \in BOOLEAN,
             \/ HostReplies(c) \/ HostEndsSession(c) \/ HostResponds(c, w) \/ Response(c, w)
             \/ CallFailed(c) \/ ForwardedRequest(c) \/ ForwardedSession(c) \/ ForwardedFinish(c)
             \/ ChooserDone(c) \/ BrokerDone(c) \/ ScreenCallDone(c) \/ SessionClosed(c)
      PROVE  RequestInv'
  BY <1>4, HostRepliesStep, HostEndsSessionStep, HostRespondsStep, ResponseStep, CallFailedStep,
     ForwardedRequestStep, ForwardedSessionStep, ForwardedFinishStep, ChooserDoneStep,
     BrokerDoneStep, ScreenCallDoneStep, SessionClosedStep
<1>5. ASSUME NEW h \in closing, NEW r \in BOOLEAN, HostHandlesClose(h, r) PROVE RequestInv'
  BY <1>5, HostHandlesCloseStep
<1>6. ASSUME NEW p \in DOMAIN requests, CloseRequest(p) PROVE RequestInv'
  BY <1>6, CloseRequestStep
<1>7. ASSUME NEW p \in DOMAIN sessions, CloseSession(p) PROVE RequestInv'
  BY <1>7, CloseSessionStep
<1>8. CASE ScreenSaverRestarted \/ Quit
  BY <1>8, ScreenSaverRestartedStep, QuitStep
<1>9. CASE UNCHANGED vars
  BY <1>9, StutterInv
<1>10. CASE Next
  BY <1>1, <1>2, <1>3, <1>4, <1>5, <1>6, <1>7, <1>8, <1>10 DEF Next
<1>. QED
  BY <1>9, <1>10

-----------------------------------------------------------------------------
(* The theorems.                                                            *)

\* The inductive invariant holds whatever applications, tokens and calls there are.
THEOREM RequestInvariant == Spec => []RequestInv
BY RequestInitInv, RequestInductive, PTL DEF Spec

\* The host's tables of requests and sessions point to what the guest's tables hold
\* (register_request, host_portal_signal, guest_name_changed).
THEOREM EntriesAgree == Spec => []TablesAgree
<1>1. RequestInv => TablesAgree
  BY Parts, Agreeing
<1>. QED
  BY <1>1, RequestInvariant, PTL

\* An application hears one Response on a request at most, and it is its own
\* (broker_request_done finds the request by its path).
THEOREM AnswersAreOwn == Spec => []AnswersMatch
<1>1. RequestInv => AnswersMatch
  BY Parts
<1>. QED
  BY <1>1, RequestInvariant, PTL

\* Freed memory is used only through the two pointers that survive a Request whose
\* owner left (chooser_done, host_portal_signal).
THEOREM FreedAfterLoss == Spec => []FreedOnlyByOwnerLoss
<1>1. RequestInv => FreedOnlyByOwnerLoss
  BY Parts
<1>. QED
  BY <1>1, RequestInvariant, PTL

\* What the router opened at the host stays within its reach, with the exceptions that
\* the property names (forward_done, map_response, lifecycle_call).
THEOREM OpenedIsReachable == Spec => []HostObjectsReachable
<1>1. RequestInv => HostObjectsReachable
  <2>. SUFFICES ASSUME RequestInv, portal = "runs", NEW h \in open \ closing
                PROVE  LET call == calls[h[2]] IN
                       \/ Registered(h) \/ InFlight(h[2]) \/ call.late
                       \/ /\ h[1] = "session"
                          /\ \/ call.view \in {"closed", "refused"} \/ call.sess = "raw"
                             \/ call.view = "granted" /\ call.app \in gone
    BY DEF HostObjectsReachable
  <2>. PICK c \in Numbers : c = h[2]
    BY Parts DEF RequestTypes
  <2>1. /\ h \in {Req(c), Ses(c), Inh(c)} /\ h \in open /\ h \notin closing
        /\ ReachedAt(c)
    BY Parts DEF RequestTypes, Req, Ses, Inh, Reached
  <2>2. ~InFlight(c) => calls[c].stage = "done" /\ <<"session", c>> \notin wire
    BY DEF InFlight
  <2>3. CASE h = Req(c)
    <3>1. h[1] = "request"
      BY <2>3 DEF Req
    <3>2. c \in Live => Registered(h)
      BY <3>1 DEF Registered
    <3>. QED
      BY <2>1, <2>2, <2>3, <3>2 DEF ReachedAt
  <2>4. CASE h = Ses(c)
    <3>1. h[1] = "session" /\ h[1] # "request"
      BY <2>4 DEF Ses
    <3>2. c \in sessionsHost => Registered(h)
      BY <3>1 DEF Registered
    <3>. QED
      BY <2>1, <2>2, <2>4, <3>1, <3>2 DEF ReachedAt
  <2>5. CASE h = Inh(c)
    <3>1. h[1] # "session" /\ h[1] # "request"
      BY <2>5 DEF Inh
    <3>2. c \in inhibitors => Registered(h)
      BY <3>1 DEF Registered
    <3>. QED
      BY <2>1, <2>2, <2>5, <3>2 DEF ReachedAt
  <2>. QED
    BY <2>1, <2>3, <2>4, <2>5
<1>. QED
  BY <1>1, RequestInvariant, PTL

\* The tables hold nothing of an owner that left but what was in flight then
\* (guest_name_changed).
THEOREM LossPurges == Spec => []OwnerLossPurges
<1>1. RequestInv => OwnerLossPurges
  BY Parts DEF OwnerLossPurges, Losses, RequestTypes, Twins
<1>. QED
  BY <1>1, RequestInvariant, PTL

\* After Close no Response arrives on the request (Request.cancelled in lifecycle_call).
THEOREM CloseSilences == Spec => ClosedIsSilent
<1>1. ASSUME RequestInv, [Next]_vars, NEW c \in Numbers, calls[c].view = "closed"
      PROVE  responses'[c] = responses[c]
  <2>1. calls[c].cancelled /\ c \in 1..MaxCalls /\ responses \in [1..MaxCalls -> Seq(1..MaxCalls)]
    BY <1>1, Parts, CallFacts, BoundAssumption DEF Views, RequestTypes
  <2>2. ASSUME NEW o, NEW d, Emit(o, d), ~calls[o].cancelled PROVE responses'[c] = responses[c]
    BY <1>1, <2>1, <2>2 DEF Emit
  <2>3. ASSUME NEW d \in Numbers, NEW w \in BOOLEAN,
               ChooserDone(d) \/ BrokerDone(d) \/ Response(d, w)
        PROVE  responses'[c] = responses[c]
    <3>1. CASE ChooserDone(d)
      <4>1. responses' = responses \/ (~calls[d].cancelled /\ Emit(d, d))
        BY <3>1 DEF ChooserDone
      <4>. QED
        BY <2>2, <4>1
    <3>2. CASE BrokerDone(d)
      <4>1. \/ responses' = responses
            \/ ~calls[requests[Path(d)]].cancelled /\ Emit(requests[Path(d)], d)
        BY <3>2 DEF BrokerDone, Answerable
      <4>. QED
        BY <2>2, <4>1
    <3>3. CASE Response(d, w)
      <4>1. responses' = responses \/ (~calls[d].cancelled /\ Emit(d, d))
        BY <3>3 DEF Response
      <4>. QED
        BY <2>2, <4>1
    <3>. QED
      BY <2>3, <3>1, <3>2, <3>3
  <2>4. \/ responses' = responses
        \/ \E d \in Numbers, w \in BOOLEAN : ChooserDone(d) \/ BrokerDone(d) \/ Response(d, w)
    <3>1. ASSUME NEW a \in Apps,
                 \/ \E k \in Forwarded, t, s \in Tokens \cup {None} : ForwardCall(a, k, t, s)
                 \/ \E t \in Tokens : FinishCall(a, t)
                 \/ \E t \in Tokens : ChooserCall(a, t) \/ BrokerCall(a, t)
                 \/ InhibitCall(a)
                 \/ \E u \in inhibitors : UnInhibitCall(a, u)
                 \/ GuestNameChanged(a)
          PROVE  responses' = responses
      BY <3>1 DEF ForwardCall, FinishCall, ChooserCall, BrokerCall, LocalCall, InhibitCall,
                  UnInhibitCall, GuestNameChanged
    <3>2. ASSUME NEW d \in Numbers, NEW w \in BOOLEAN,
                 \/ HostReplies(d) \/ HostEndsSession(d) \/ HostResponds(d, w) \/ CallFailed(d)
                 \/ ForwardedRequest(d) \/ ForwardedSession(d) \/ ForwardedFinish(d)
                 \/ ScreenCallDone(d) \/ SessionClosed(d)
          PROVE  responses' = responses
      BY <3>2 DEF HostReplies, HostEndsSession, HostResponds, CallFailed, ForwardedRequest,
                  ForwardedSession, ForwardedFinish, ScreenCallDone, SessionClosed
    <3>3. ASSUME \/ \E h \in closing, r \in BOOLEAN : HostHandlesClose(h, r)
                 \/ \E p \in DOMAIN requests : CloseRequest(p)
                 \/ \E p \in DOMAIN sessions : CloseSession(p)
                 \/ ScreenSaverRestarted \/ Quit \/ UNCHANGED vars
          PROVE  responses' = responses
      BY <3>3 DEF HostHandlesClose, CloseRequest, CloseSession, ScreenSaverRestarted, Quit, vars
    <3>. QED
      BY <1>1, <3>1, <3>2, <3>3 DEF Next
  <2>. QED
    BY <2>3, <2>4
<1>2. RequestInv /\ [Next]_vars =>
        [\A c \in Numbers : calls[c].view = "closed" => responses'[c] = responses[c]]_vars
  BY <1>1
<1>. QED
  BY <1>2, RequestInvariant, PTL DEF Spec, ClosedIsSilent
==============================================================================
