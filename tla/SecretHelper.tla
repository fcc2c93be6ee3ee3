---------------------------- MODULE SecretHelper ----------------------------
(***************************************************************************)
(* The secret helper of a guest session: native/spaces_secret_helper.c.    *)
(* D-Bus activation of one of four names runs a helper; flock serialises   *)
(* them.  A helper starts the wallet provider with a key from the portal,  *)
(* or checks the one a marker file says is managed.  A wallet that is not  *)
(* open is set aside under the first free number and created again.        *)
(* Helpers are killed, providers die or hang, renames fail, programs close *)
(* the wallet, and others that are not managed claim the provider's name.  *)
(***************************************************************************)
EXTENDS Naturals, FiniteSets, Sequences

CONSTANTS Helpers,     \* runs of the helper
          Unmanaged,   \* a provider that no helper started
          Nobody,      \* no process
          MaxWallets,  \* wallets created (bound)
          MaxNumber,   \* backup numbers (bound; G_MAXUINT in the code)
          MaxMishaps   \* kinds of faults that happen (bound)

ASSUME HelperAssumption == Nobody \notin Helpers /\ Unmanaged \notin Helpers /\ Unmanaged # Nobody
ASSUME NumberAssumption == MaxNumber \in Nat \ {0}

VARIABLES
    wallet,    \* the managed files in place: which wallet each is of, 0 absent
    saved,     \* the files set aside under each number
    broken,    \* wallets the key of this session does not open
    closed,    \* wallets that a guest program has locked or closed
    wallets,   \* wallets created so far
    owner,     \* who owns org.freedesktop.secrets
    child,     \* helpers whose provider process runs
    hung,      \* the owner does not answer
    ready,     \* the marker file
    turn,      \* who holds flock
    helper,    \* where each helper is
    move,      \* the backup in progress: number, files moved, what follows
    backedUp,  \* wallet_backed_up of each helper
    mishaps    \* kinds of faults that have happened

secretVars == <<wallet, saved, broken, closed, wallets, owner, child, hung, ready, turn, helper,
                move, backedUp, mishaps>>
fileVars == <<wallet, saved, broken, closed, wallets>>
processVars == <<owner, child, hung>>

\* The order in which spaces_backup_failed_wallet takes the files.
Names == <<"kwl", "salt", "attributes">>
Files == {Names[i] : i \in DOMAIN Names}
NoFiles == [f \in Files |-> 0]
NoMove == [number |-> 0, at |-> 0, files |-> {}, next |-> "done"]

Ended == {"done", "failed", "killed"}

SecretInit ==
    \* A wallet of an earlier session, which this session's key may not open.
    /\ wallet \in {NoFiles, [f \in Files |-> 1]}
    /\ wallets = IF wallet = NoFiles THEN 0 ELSE 1
    /\ broken \in SUBSET (1..wallets)
    /\ closed = {}
    /\ saved = [n \in 1..MaxNumber |-> NoFiles]
    /\ owner = Nobody
    /\ child = {}
    /\ hung = FALSE
    /\ ready = FALSE
    /\ turn = Nobody
    /\ helper = [h \in Helpers |-> "new"]
    /\ move = NoMove
    /\ backedUp = [h \in Helpers |-> FALSE]
    /\ mishaps = {}

Mishaps(kinds) ==
    /\ Cardinality(mishaps \cup kinds) <= MaxMishaps
    /\ mishaps' = mishaps \cup kinds
Mishap(kind) == Mishaps({kind})

Goto(h, where) == helper' = [helper EXCEPT ![h] = where]

\* close(lock_descriptor) with the end of the run.
End(h, result) == Goto(h, result) /\ turn' = Nobody

-----------------------------------------------------------------------------
(* Providers (external).                                                    *)

\* A provider that has its name creates the files that are missing.
Create ==
    /\ wallets < MaxWallets
    /\ wallet' = [f \in Files |-> IF wallet[f] = 0 THEN wallets + 1 ELSE wallet[f]]
    /\ wallets' = wallets + 1
    /\ broken' \in {broken, broken \cup {wallets + 1}}
    /\ UNCHANGED <<saved, closed>>

\* A helper's provider claims the name and opens the wallet.
ProviderClaims(h) ==
    /\ h \in child /\ owner = Nobody
    /\ owner' = h
    /\ hung' \in BOOLEAN
    /\ IF \E f \in Files : wallet[f] = 0 THEN Create ELSE UNCHANGED fileVars
    /\ UNCHANGED <<child, ready, turn, helper, move, backedUp, mishaps>>

\* A provider dies, or another program's provider claims the free name.
ProviderDies ==
    /\ owner # Nobody
    /\ Mishap("death")
    /\ owner' = Nobody
    /\ child' = child \ {owner}
    /\ UNCHANGED <<fileVars, hung, ready, turn, helper, move, backedUp>>

UnmanagedClaims ==
    /\ owner = Nobody
    /\ Mishap("unmanaged")
    /\ owner' = Unmanaged
    /\ hung' = FALSE
    /\ UNCHANGED <<fileVars, child, ready, turn, helper, move, backedUp>>

\* A provider that outlived its kill creates the wallet again.
SurvivorCreates ==
    /\ owner \in Helpers
    /\ wallet["kwl"] = 0
    /\ Create
    /\ UNCHANGED <<processVars, ready, turn, helper, move, backedUp, mishaps>>

\* A guest program closes the wallet, or locks its collection, at a provider
\* that has it open.
GuestCloses ==
    /\ owner \in Helpers /\ wallet["kwl"] # 0
    /\ closed' = closed \cup {wallet["kwl"]}
    /\ UNCHANGED <<wallet, saved, broken, wallets, processVars, ready, turn, helper, move,
                   backedUp, mishaps>>

-----------------------------------------------------------------------------
(* main and activate_provider.                                              *)

Start(h) ==
    /\ helper[h] = "new" /\ turn = Nobody
    /\ turn' = h
    /\ Goto(h, "check")
    /\ UNCHANGED <<fileVars, processVars, ready, move, backedUp, mishaps>>

\* An owner without the marker is refused; with it, it is queried; without an
\* owner the portal is asked for the secret.
Check(h) ==
    /\ helper[h] = "check"
    /\ \/ owner = Nobody /\ Goto(h, "secret") /\ UNCHANGED turn
       \/ owner # Nobody /\ ready /\ Goto(h, "query") /\ UNCHANGED turn
       \/ owner # Nobody /\ ~ready /\ End(h, "failed")
    /\ UNCHANGED <<fileVars, processVars, ready, move, backedUp, mishaps>>

\* retrieve_portal_secret and spaces_derive_kwallet_key; the portal may refuse
\* or not answer within 30 s.
RetrieveSecret(h) ==
    /\ helper[h] = "secret"
    /\ \/ Goto(h, "spawn") /\ UNCHANGED <<turn, mishaps>>
       \/ Mishap("portal") /\ End(h, "failed")
    /\ UNCHANGED <<fileVars, processVars, ready, move, backedUp>>

\* spawn_storage_provider; when it fails the marker goes.
Spawn(h) ==
    /\ helper[h] = "spawn"
    /\ \/ /\ child' = child \cup {h}
          /\ Goto(h, "wait")
          /\ UNCHANGED <<ready, turn, mishaps>>
       \/ /\ Mishap("spawn")
          /\ ready' = FALSE
          /\ End(h, "failed")
          /\ UNCHANGED child
    /\ UNCHANGED <<fileVars, owner, hung, move, backedUp>>

\* kill_provider after some mishaps: the owner, unless the bus does not tell its
\* pid, and the helper's own process.
Kill(h, kinds) ==
    /\ \/ /\ Mishaps(kinds)
          /\ owner' = Nobody
          /\ child' = child \ {owner, h}
       \/ /\ owner \notin {Nobody, h}
          /\ Mishaps(kinds \cup {"pid"})
          /\ child' = child \ {h}
          /\ UNCHANGED owner
    /\ UNCHANGED hung

\* wait_for_owner: whoever owns the name ends the wait, as do 15 s and the exit
\* of the process.
WaitForOwner(h) ==
    /\ helper[h] = "wait"
    /\ \/ /\ owner # Nobody
          /\ Goto(h, "requery")
          /\ UNCHANGED <<processVars, ready, turn, mishaps>>
       \/ /\ owner = Nobody
          /\ Kill(h, {})
          /\ ready' = FALSE
          /\ End(h, "failed")
    /\ UNCHANGED <<fileVars, move, backedUp>>

\* wallet_open_state.  A provider that hangs is a timeout, and one that goes an
\* error.  "closed" says that the wallet is not open, whether or not its key opens
\* it: the helper does not try the key again.  The KF6 proxy, which tries to open
\* it, may wait for a password, and without a provider its answer is any but an
\* open wallet.
WalletStates ==
    LET kwl == wallet["kwl"]
    IN CASE owner = Nobody -> {"error", "timeout", "closed"}
         [] owner = Unmanaged -> {"open", "closed", "error", "timeout"}
         [] owner \in Helpers /\ hung -> {"timeout"}
         [] OTHER -> (IF kwl \in broken THEN {"error"} ELSE {"open", "error"})
                         \cup (IF kwl \in broken \cup closed THEN {"closed", "timeout"} ELSE {})

\* Mutant of Unlocks: a provider that times out counts as locked.
UnlocksTimeout(state) == state \in {"closed", "timeout"}

Unlocks(state) == state = "closed"

\* Whether this run has started the provider it asks.
Spawned(h) == helper[h] = "requery"

\* The answer decides: an open wallet is served, a locked one is backed up once
\* in a run, on the answer of the proxy alone too, and anything else ends it.  A
\* provider this run did not start stays when it cannot be queried.
Query(h) ==
    /\ helper[h] \in {"query", "requery"}
    /\ \E state \in WalletStates :
        \/ /\ state = "open"
           /\ Goto(h, IF Spawned(h) THEN "mark" ELSE "claim")
           /\ UNCHANGED <<processVars, ready, turn, move, mishaps>>
        \/ /\ Unlocks(state) /\ ~backedUp[h]
           /\ Kill(h, IF owner = Nobody THEN {"orphan"} ELSE {})
           /\ ready' = FALSE
           /\ move' = [NoMove EXCEPT !.next = IF Spawned(h) THEN "spawn" ELSE "secret"]
           /\ Goto(h, "backup")
           /\ UNCHANGED turn
        \/ /\ state # "open" /\ ~(Unlocks(state) /\ ~backedUp[h])
           /\ IF state = "error" /\ ~Spawned(h)
              THEN UNCHANGED <<processVars, ready, mishaps>>
              ELSE Kill(h, {}) /\ ready' = FALSE
           /\ End(h, "failed")
           /\ UNCHANGED move
    /\ UNCHANGED <<fileVars, backedUp>>

\* The compatibility proxy cannot be started: after a start the provider goes.
NoProxy(h) ==
    /\ helper[h] \in {"query", "requery"}
    /\ IF Spawned(h) THEN Kill(h, {"proxy"}) ELSE Mishap("proxy") /\ UNCHANGED processVars
    /\ End(h, "failed")
    /\ UNCHANGED <<fileVars, ready, move, backedUp>>

\* create_marker; when it fails the provider goes.
Mark(h) ==
    /\ helper[h] = "mark"
    /\ \/ ready' = TRUE /\ Goto(h, "claim") /\ UNCHANGED <<processVars, turn, mishaps>>
       \/ /\ Kill(h, {"marker"})
          /\ End(h, "failed")
          /\ UNCHANGED ready
    /\ UNCHANGED <<fileVars, move, backedUp>>

\* The activation name must be owned, too.
Claim(h) ==
    /\ helper[h] = "claim"
    /\ End(h, IF owner = Nobody THEN "failed" ELSE "done")
    /\ UNCHANGED <<fileVars, processVars, ready, move, backedUp, mishaps>>

-----------------------------------------------------------------------------
(* spaces_backup_failed_wallet.                                             *)

Free(n) == saved[n] = NoFiles

\* The first number that is free for all files; without a wallet file, or a
\* number, nothing moves.
ChooseNumber(h) ==
    /\ helper[h] = "backup" /\ move.number = 0
    /\ LET free == {n \in 1..MaxNumber : Free(n)}
       IN IF wallet["kwl"] = 0 \/ free = {}
          THEN End(h, "failed") /\ move' = NoMove
          ELSE /\ move' = [move EXCEPT !.number = CHOOSE n \in free : \A m \in free : n <= m,
                                       !.files = {f \in Files : wallet[f] # 0}, !.at = 1]
               /\ UNCHANGED <<helper, turn>>
    /\ UNCHANGED <<fileVars, processVars, ready, backedUp, mishaps>>

\* Mutant of Moved: one suffix for all backups, and a plain rename.
MovedOver(f, n) ==
    /\ saved' = [saved EXCEPT ![1][f] = wallet[f]]
    /\ wallet' = [wallet EXCEPT ![f] = 0]
    /\ UNCHANGED <<broken, closed, wallets>>

Moved(f, n) ==
    /\ saved' = [saved EXCEPT ![n][f] = wallet[f]]
    /\ wallet' = [wallet EXCEPT ![f] = 0]
    /\ UNCHANGED <<broken, closed, wallets>>

\* One rename_noreplace of a file that was there; on failure the files moved
\* so far are put back.
Rename(h) ==
    /\ helper[h] = "backup" /\ move.at \in DOMAIN Names
    /\ LET f == Names[move.at]
       IN \/ /\ f \in move.files /\ wallet[f] # 0
             /\ Moved(f, move.number)
             /\ move' = [move EXCEPT !.at = @ + 1]
             /\ UNCHANGED <<helper, mishaps>>
          \/ /\ f \notin move.files
             /\ move' = [move EXCEPT !.at = @ + 1]
             /\ UNCHANGED <<fileVars, helper, mishaps>>
          \/ /\ f \in move.files
             /\ Mishap("rename")
             /\ Goto(h, "rollback")
             /\ move' = [move EXCEPT !.at = @ - 1]
             /\ UNCHANGED fileVars
    /\ UNCHANGED <<processVars, ready, turn, backedUp>>

\* All files are set aside: the wallet is created again.
BackupDone(h) ==
    /\ helper[h] = "backup" /\ move.at > Len(Names)
    /\ backedUp' = [backedUp EXCEPT ![h] = TRUE]
    /\ Goto(h, move.next)
    /\ move' = NoMove
    /\ UNCHANGED <<fileVars, processVars, ready, turn, mishaps>>

\* Mutant of Undo: the rollback forgets the file it had moved.
UndoNothing(f, n) == UNCHANGED fileVars

\* A rename back, over whatever is there.
Undo(f, n) ==
    /\ wallet' = [wallet EXCEPT ![f] = saved[n][f]]
    /\ saved' = [saved EXCEPT ![n][f] = 0]
    /\ UNCHANGED <<broken, closed, wallets>>

Rollback(h) ==
    /\ helper[h] = "rollback"
    /\ IF move.at = 0
       THEN /\ End(h, "failed")
            /\ move' = NoMove
            /\ UNCHANGED <<fileVars, mishaps>>
       ELSE /\ move' = [move EXCEPT !.at = @ - 1]
            /\ LET f == Names[move.at]
               IN \/ f \in move.files /\ Undo(f, move.number) /\ UNCHANGED mishaps
                  \/ f \notin move.files /\ UNCHANGED <<fileVars, mishaps>>
                  \/ f \in move.files /\ Mishap("undo") /\ UNCHANGED fileVars
            /\ UNCHANGED <<helper, turn>>
    /\ UNCHANGED <<processVars, ready, backedUp>>

\* A helper is killed; flock goes with it.
HelperKilled(h) ==
    /\ helper[h] \notin Ended \cup {"new"}
    /\ Mishap("kill")
    /\ End(h, "killed")
    /\ move' = NoMove
    /\ UNCHANGED <<fileVars, processVars, ready, backedUp>>

-----------------------------------------------------------------------------

HelperStep(h) ==
    \/ Start(h) \/ Check(h) \/ RetrieveSecret(h) \/ Spawn(h) \/ WaitForOwner(h) \/ Query(h)
    \/ NoProxy(h) \/ Mark(h) \/ Claim(h) \/ ChooseNumber(h) \/ Rename(h) \/ BackupDone(h)
    \/ Rollback(h)

SecretNext ==
    \/ \E h \in Helpers : HelperStep(h) \/ ProviderClaims(h) \/ HelperKilled(h)
    \/ ProviderDies \/ UnmanagedClaims \/ SurvivorCreates \/ GuestCloses

SecretSpec ==
    /\ SecretInit
    /\ [][SecretNext]_secretVars
    /\ \A h \in Helpers : WF_secretVars(HelperStep(h))

-----------------------------------------------------------------------------
(* Properties.                                                              *)

\* Every file that is somewhere, in place or under a number.
Everything ==
    ({<<f, wallet[f]>> : f \in Files} \cup {<<f, saved[n][f]>> : f \in Files, n \in 1..MaxNumber})
        \ (Files \X {0})

Strays == {"pid", "kill", "unmanaged"}

\* No step destroys a wallet's file, in whatever state kills, crashes and
\* failed renames have left the directory; a rollback may only replace what a
\* stray provider has written: one that outlived its kill or its helper, or
\* lost its name to an unmanaged one (spaces_secret_helper.c:608).
FilesKept ==
    [][ Everything \subseteq Everything'
        \/ (mishaps \cap Strays # {} /\ \E h \in Helpers : helper[h] = "rollback") ]_secretVars

\* A wallet is set aside only if its key does not open it or a guest program has
\* closed it: not because a provider hangs, times out or dies, a helper is killed
\* or a rename fails (spaces_secret_helper.c:919).  What an unmanaged provider or a
\* proxy without a provider answers says nothing about the wallet.
SoundWalletStays ==
    mishaps \cap {"unmanaged", "orphan"} = {} =>
        \A n \in 1..MaxNumber : saved[n]["kwl"] \in broken \cup closed \cup {0}

\* What is set aside under a number is one wallet with all its files, once no
\* backup is in progress and unless a helper was killed in it, a rename back
\* failed or a stray provider wrote (spaces_secret_helper.c:608).
BackupWhole ==
    (mishaps \cap (Strays \cup {"undo"}) = {} /\ move = NoMove) =>
        \A n \in 1..MaxNumber : \A f, g \in Files : saved[n][f] = saved[n][g]

====
