---------------------------- MODULE PortalMirrors ----------------------------
(***************************************************************************)
(* Mirrors of guest objects on the host bus, native/spaces_portal.c: every *)
(* media player of the guest and every status item registered with the     *)
(* portal is exported again on the portal's one host connection, for as    *)
(* long as the owner of its guest name lives.  The portal learns of owners *)
(* from two sources: NameOwnerChanged signals, which queue behind whatever *)
(* the main loop is blocked in, and GetNameOwner calls, which overtake the *)
(* queue.  Artwork of a player is staged in files of native/spaces_broker.c.*)
(***************************************************************************)
EXTENDS Naturals, Sequences, FiniteSets, SequencesExt

CONSTANTS Connections,  \* connections to the guest bus, each a process
          Players,      \* well-known names of media players
          Items,        \* well-known names of status items
          NoOwner,      \* a name nobody owns
          MaxTries,     \* attempts to mirror a player (20 in the code)
          Budgets       \* how often the surroundings act, one record per scenario

ASSUME MirrorAssumption ==
    /\ NoOwner \notin Connections
    /\ Players \cap Items = {}
    /\ MaxTries \in Nat \ {0}

ASSUME NamesAssumption == IsFiniteSet(Players \cup Items \cup Connections)

ASSUME BudgetAssumption ==
    Budgets \subseteq [names : SUBSET (Players \cup Items), changes : Nat, registers : Nat,
                       staged : Nat, mishaps : Nat]

Names == Players \cup Items \cup Connections
MenuPath == "menu"
Idle == [step |-> "idle"]

VARIABLES
    owner,     \* the guest bus: the owner of every name
    phase,     \* how far main has come
    inbox,     \* signals and calls the portal has not yet handled
    creating,  \* the create_mirror the main loop is in
    mirrors,   \* portal->mirrors: key -> [owner, paths, artwork]
    pending,   \* status items to publish when idle
    retries,   \* timers of retry_mpris
    files,     \* files the broker has staged
    removals,  \* RemoveStagedFile calls on their way
    lost,      \* files of StageFile calls that timed out
    excused,   \* players whose attempts are used up or whose host name was lost
    shed,      \* names each connection gave up while it lived
    left       \* what is left of the scenario

busVars == <<owner, inbox, shed>>
artVars == <<files, removals, lost>>
loopVars == <<creating, pending, retries>>
mirrorVars == <<busVars, artVars, loopVars, phase, mirrors, excused, left>>

Spend(kind) == left[kind] > 0 /\ left' = [left EXCEPT ![kind] = @ - 1]

PlayerKey(name) == [kind |-> "player", service |-> name, path |-> "player"]
ItemKey(service, path) == [kind |-> "item", service |-> service, path |-> path]
Free == phase = "running" /\ creating = Idle

MirrorInit ==
    /\ left \in Budgets
    /\ owner \in {o \in [Names -> Connections \cup {NoOwner}] :
                    /\ \A c \in Connections : o[c] = c
                    /\ \A n \in Items : o[n] = NoOwner
                    /\ \A n \in Players \ left.names : o[n] = NoOwner}
    /\ phase = "starting"
    /\ inbox = <<>> /\ creating = Idle
    /\ mirrors = <<>> /\ pending = <<>> /\ retries = <<>>
    /\ files = {} /\ removals = {} /\ lost = {}
    /\ excused = {} /\ shed = {}

-----------------------------------------------------------------------------
(* The guest bus.                                                           *)

Changed(name, old, new) == [type |-> "changed", name |-> name, old |-> old, new |-> new]

\* The daemon delivers NameOwnerChanged once the portal has subscribed.
Deliver(messages) == inbox' = IF phase = "starting" THEN inbox ELSE inbox \o messages

\* RequestName and ReleaseName: a name is taken, handed over or given up.
ChangeOwner(name, new) ==
    /\ Spend("changes")
    /\ name \in left.names /\ owner[name] # new
    /\ new # NoOwner => owner[new] = new
    /\ owner' = [owner EXCEPT ![name] = new]
    /\ Deliver(<<Changed(name, owner[name], new)>>)
    /\ shed' = shed \cup ({owner[name]} \X {name})
    /\ excused' = excused \ {name}
    /\ UNCHANGED <<artVars, loopVars, phase, mirrors>>

\* A connection ends: its names go, the unique name last.
Disconnect(c) ==
    LET names == {n \in Names : owner[n] = c}
        order == SetToSeq(names \ {c}) \o <<c>>
    IN  /\ Spend("changes")
        /\ owner[c] = c
        /\ owner' = [n \in Names |-> IF n \in names THEN NoOwner ELSE owner[n]]
        /\ Deliver([i \in DOMAIN order |-> Changed(order[i], c, NoOwner)])
        /\ UNCHANGED <<artVars, loopVars, phase, mirrors, excused, shed>>

\* RegisterStatusNotifierItem, by a path of the sender or by a name.
Register(c, service, path) ==
    /\ Spend("registers")
    /\ phase # "starting" /\ owner[c] = c
    /\ service # c => path = "default"
    /\ inbox' = Append(inbox, [type |-> "register", sender |-> c, service |-> service, path |-> path])
    /\ UNCHANGED <<owner, shed, artVars, loopVars, phase, mirrors, excused>>

-----------------------------------------------------------------------------
(* Removing mirrors.                                                        *)

Artwork(keys) == UNION {mirrors[k].artwork : k \in keys}

\* Mutant of Removed: the staged artwork is forgotten, not removed.
RemovedKept(keys) == removals

\* mirror_free asks the broker to remove the artwork.
Removed(keys) == removals \cup Artwork(keys)

FreeMirrors(keys) ==
    /\ mirrors' = [k \in DOMAIN mirrors \ keys |-> mirrors[k]]
    /\ removals' = Removed(keys)
    /\ UNCHANGED <<files, lost>>

-----------------------------------------------------------------------------
(* Handlers of the main loop.                                               *)

\* maybe_add_mpris: a timer per change of a player's owner.
Timer(name) == [name |-> name, remaining |-> MaxTries]
Retry(name) == IF name \in Players THEN <<Timer(name)>> ELSE <<>>

\* Mutant of Rediscovers: a player that changes hands is not looked at again.
RediscoversNew(m) == m.old = NoOwner /\ m.new # NoOwner

Rediscovers(m) == m.new # NoOwner

\* Mutant of Orphaned: a hand-over keeps the mirrors of the old owner.
OrphanedGone(m) == {k \in DOMAIN mirrors : m.new = NoOwner /\ mirrors[k].owner = m.old}

\* The mirrors of the old owner go, whichever of its names has changed.
Orphaned(m) == {k \in DOMAIN mirrors : mirrors[k].owner = m.old}

\* guest_name_changed, the part about mirrors.
NameChanged ==
    LET m == Head(inbox)
    IN  /\ Free
        /\ inbox # <<>> /\ m.type = "changed"
        /\ inbox' = Tail(inbox)
        /\ FreeMirrors(Orphaned(m))
        /\ retries' = IF Rediscovers(m) THEN retries \o Retry(m.name) ELSE retries
        /\ UNCHANGED <<owner, shed, creating, pending, phase, excused, left>>

\* status_watcher_call: the item's name must belong to the sender; the rest
\* waits until the sender has its reply.
ItemRegistered ==
    LET m == Head(inbox)
    IN  /\ Free
        /\ inbox # <<>> /\ m.type = "register"
        /\ inbox' = Tail(inbox)
        /\ pending' = IF owner[m.service] # m.sender THEN pending
                      ELSE Append(pending, [owner |-> m.sender, key |-> ItemKey(m.service, m.path)])
        /\ UNCHANGED <<owner, shed, creating, retries, artVars, phase, mirrors, excused, left>>

\* publish_status_item up to create_mirror.
PublishItem ==
    LET item == Head(pending)
    IN  /\ Free
        /\ pending # <<>>
        /\ pending' = Tail(pending)
        /\ creating' = IF owner[item.key.service] = item.owner /\ item.key \notin DOMAIN mirrors
                       THEN [step |-> "created", key |-> item.key, remaining |-> 0] ELSE Idle
        /\ UNCHANGED <<busVars, artVars, retries, phase, mirrors, excused, left>>

\* retry_mpris up to create_mirror: a player that has a mirror is done.
RetryPlayer(i) ==
    LET retry == retries[i]
    IN  /\ Free
        /\ retries' = RemoveAt(retries, i)
        /\ creating' = IF PlayerKey(retry.name) \in DOMAIN mirrors THEN Idle
                       ELSE [step |-> "created", key |-> PlayerKey(retry.name),
                             remaining |-> retry.remaining]
        /\ UNCHANGED <<busVars, artVars, pending, phase, mirrors, excused, left>>

-----------------------------------------------------------------------------
(* create_mirror blocks the main loop in calls to the guest, not the guest. *)

Service == creating.key.service

\* A failed attempt: a player is tried again until its timer is used up.
Fail ==
    LET player == creating.key.kind = "player"
        again == player /\ creating.remaining > 1
    IN  /\ creating' = Idle
        /\ retries' = IF again THEN Append(retries, [name |-> Service, remaining |-> creating.remaining - 1])
                      ELSE retries
        /\ excused' = IF player /\ ~again THEN excused \cup {Service} ELSE excused
        /\ UNCHANGED <<busVars, artVars, pending, phase, mirrors>>

\* name_owner records the owner the mirror is for.
ReadOwner ==
    /\ creating.step = "created"
    /\ UNCHANGED left
    /\ IF owner[Service] = NoOwner THEN Fail
       ELSE /\ creating' = [step |-> "owned", key |-> creating.key, remaining |-> creating.remaining,
                            owner |-> owner[Service]]
            /\ UNCHANGED <<busVars, artVars, pending, retries, phase, mirrors, excused>>

\* Paths the host connection exports: an interface can be there only once.
Exported == UNION {mirrors[k].paths : k \in DOMAIN mirrors}

\* mirror_add_path and the rest: the mirror is in the table, and its menu if it
\* has one that can be exported.
Publish ==
    /\ creating.step = "owned"
    /\ owner[Service] # NoOwner /\ creating.key.path \notin Exported
    /\ \E menu \in {{}, {MenuPath}} :
        /\ menu # {} => creating.key.kind = "item" /\ MenuPath \notin Exported
        /\ mirrors' = [k \in DOMAIN mirrors \cup {creating.key} |->
                IF k = creating.key
                THEN [owner |-> creating.owner, paths |-> menu \cup {k.path}, artwork |-> {}]
                ELSE mirrors[k]]
    /\ creating' = Idle
    /\ UNCHANGED <<busVars, artVars, pending, retries, phase, excused, left>>

\* The object cannot be read, or something else is exported at its path.
PublishFails ==
    /\ creating.step = "owned"
    /\ \/ /\ owner[Service] = NoOwner \/ creating.key.path \in Exported
          /\ UNCHANGED left
       \/ Spend("mishaps")
    /\ Fail

\* mirror_name_lost: the host bus refuses the mirror's name.
HostNameLost(k) ==
    /\ Free
    /\ Spend("mishaps")
    /\ FreeMirrors({k})
    /\ excused' = excused \cup {k.service}
    /\ UNCHANGED <<busVars, loopVars, phase>>

-----------------------------------------------------------------------------
(* Artwork, staged when metadata is read or changes.                        *)

\* stage_artwork clears what was staged before.
Replaced(k) == removals \cup mirrors[k].artwork

\* stage_artwork and stage_file_method: the file is staged and recorded, or it
\* is staged when the portal no longer waits.
Stage(k) ==
    LET file == left.staged
    IN  /\ Free /\ k.kind = "player"
        /\ Spend("staged")
        /\ files' = files \cup {file}
        /\ \/ /\ removals' = Replaced(k)
              /\ mirrors' = [mirrors EXCEPT ![k].artwork = {file}]
              /\ UNCHANGED lost
           \/ /\ lost' = lost \cup {file}
              /\ UNCHANGED <<removals, mirrors>>
        /\ UNCHANGED <<busVars, loopVars, phase, excused>>

\* remove_staged_file_method.
RemoveStagedFile(file) ==
    /\ file \in removals
    /\ removals' = removals \ {file}
    /\ files' = files \ {file}
    /\ UNCHANGED <<lost, busVars, loopVars, phase, mirrors, excused, left>>

-----------------------------------------------------------------------------
(* main.                                                                    *)

\* The subscription to NameOwnerChanged comes before the list of names.
Subscribe ==
    /\ phase = "starting"
    /\ phase' = "subscribed"
    /\ UNCHANGED <<busVars, artVars, loopVars, mirrors, excused, left>>

\* discover_mpris.
Discover ==
    /\ phase = "subscribed"
    /\ phase' = "running"
    /\ LET present == SetToSeq({p \in Players : owner[p] # NoOwner})
       IN  retries' = [i \in DOMAIN present |-> Timer(present[i])]
    /\ UNCHANGED <<busVars, artVars, creating, pending, mirrors, excused, left>>

Loop ==
    \/ Subscribe \/ Discover
    \/ NameChanged \/ ItemRegistered \/ PublishItem
    \/ ReadOwner \/ Publish \/ PublishFails

Retrying == \E i \in DOMAIN retries : RetryPlayer(i)

MirrorNext ==
    \/ Loop \/ Retrying
    \/ \E n \in Players \cup Items, c \in Connections \cup {NoOwner} : ChangeOwner(n, c)
    \/ \E c \in Connections : Disconnect(c)
    \/ \E c \in Connections, n \in Items \cup Connections, q \in {"default", "own"} : Register(c, n, q)
    \/ \E k \in DOMAIN mirrors : HostNameLost(k) \/ Stage(k)
    \/ \E f \in removals : RemoveStagedFile(f)

\* The main loop runs and timers fire; applications are free to do nothing.
MirrorSpec == MirrorInit /\ [][MirrorNext]_mirrorVars /\ WF_mirrorVars(Loop) /\ WF_mirrorVars(Retrying)

-----------------------------------------------------------------------------
(* Properties.                                                              *)

\* A mirror stands for the connection that owns its name, or the signal that
\* says otherwise is still to be handled: create_mirror reads the owner past
\* the queue, and the name can move while it reads the object
\* (spaces_portal.c:2868).
MirrorsOwned ==
    \A k \in DOMAIN mirrors :
        \/ owner[k.service] = mirrors[k].owner
        \/ \E i \in DOMAIN inbox :
              inbox[i].type = "changed" /\ inbox[i].name = k.service /\ inbox[i].old = mirrors[k].owner

\* Every staged file is the artwork of one mirror, is about to be removed, or
\* was staged too late for the portal to know, and the artwork a mirror has
\* published exists (spaces_portal.c:1847).
StagedAccounted ==
    /\ files = Artwork(DOMAIN mirrors) \cup removals \cup lost
    /\ Artwork(DOMAIN mirrors) \cap (removals \cup lost) = {}

\* A player on the guest bus comes to have a mirror for its owner, through every
\* order of start-up, hand-over and restart, unless the attempts are used up or
\* the owner gives up another name, which takes its mirrors away for good
\* (spaces_portal.c:3581).
PlayersMirrored ==
    \A p \in Players, c \in Connections :
        (owner[p] = c) ~>
            \/ owner[p] # c \/ p \in excused
            \/ \E n \in Names \ {p} : <<c, n>> \in shed
            \/ PlayerKey(p) \in DOMAIN mirrors /\ mirrors[PlayerKey(p)].owner = c
====
