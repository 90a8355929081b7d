------------------------------ MODULE SymTower ------------------------------
(* The keyless watchtower of a symmetric channel (speculad/speculad.c), the *)
(* record lightningd keeps for it (lightningd/watchtower_store.c), and the  *)
(* chain it walks, one RPC call at a time, while blocks come and go.  An    *)
(* outpoint of the channel is the path of spends that leads to it from the  *)
(* funding output, a block the spends it holds, a block hash the chain up   *)
(* to it.  One lane, no factory, no settle clock.                           *)
EXTENDS Integers, SequencesExt

CONSTANTS
    First,       \* the peer's first state: 1 for the opener, 0 for the other
    MaxState,    \* bound: states the channel goes through
    MaxHeight,   \* bound: length of the chain, from the funding block on
    MaxReorgs,   \* bound: reorgs
    MaxFaults,   \* bound: RPC failures, failed writes, lost leases, restarts
    Delay        \* the shared delay

ASSUME TowerAssumption ==
    /\ First \in {0, 1} /\ MaxState \in Nat \ {0} /\ MaxHeight \in Nat /\ MaxReorgs \in Nat
    /\ MaxFaults \in Nat /\ Delay \in Nat \ {0}

VARIABLES
    chain,    \* the spends of each block
    db,       \* what lightningd has committed: its database, and channeld goes on
    record,   \* the `sym` file
    lost,     \* history: it could not be written when last it was to be
    k,        \* struct sym_cursor; by: history, the record of its last broadcast
    round,    \* where the tower is in its round, and what it read
    reorgs, faults,
    pool,     \* history: what the tower broadcast
    clean,    \* history: nothing failed or moved since the round started
    torn      \* history: the walk went from one branch to another unawares

node == <<db, record, lost>>
env == <<reorgs, faults>>
vars == <<chain, node, k, round, env, pool, clean, torn>>

(* Spends: the kickoff makes output KO, an update the output of its state.  *)
KO == -1
Close == -2
Settle == MaxState + 1
NoState == -3
States == 0..MaxState
Ends(s) == s \in {Close, Settle}

Spends(c) == FlattenSeq(c)
Upto(c, h) == SubSeq(c, 1, h)
(* The block that made the output which stands. *)
MadeAt(c) == LET held == {h \in 1..Len(c) : c[h] # <<>>}
             IN  IF held = {} THEN 0 ELSE CHOOSE h \in held : \A g \in held : g <= h

-----------------------------------------------------------------------------
(* lightningd, with sym_local, sym_remote and sym_remote_pending.  A node's *)
(* states have every second number: its peer's from First on.               *)

sym_best_state(m) == IF m.remote > m.local THEN m.remote ELSE m.local
(* wt_store_put_sym() *)
File(m) == [best |-> sym_best_state(m), pending |-> m.pending]
NoFile == [best |-> NoState, pending |-> NoState]

(* Mutant: the file is written from what was saved the time before. *)
sym_save_late(new) ==
    db' = new /\ record' = File(db) /\ lost' = FALSE /\ UNCHANGED faults
(* sym_save() and the transaction it is in: the file is durable before that *)
(* commits, with a crash between them or not; that it could not be written  *)
(* is only logged.                                                          *)
sym_save(new) ==
    \/ record' = File(new) /\ db' = new /\ lost' = FALSE /\ UNCHANGED faults
    \/ /\ faults < MaxFaults
       /\ faults' = faults + 1
       /\ \/ record' = File(new) /\ lost' = FALSE /\ UNCHANGED db
          \/ db' = new /\ lost' = TRUE /\ UNCHANGED record

tower == <<chain, k, round, reorgs, pool, clean, torn>>

(* sym_record_sent(): replaces what is pending, which is nothing or the     *)
(* first state: send_commit() waits for the revocation of any other.        *)
sym_record_sent ==
    LET num == (IF db.remote = NoState THEN First ELSE db.remote) + 2
    IN  /\ db.pending \in {NoState, First} /\ num <= MaxState
        /\ sym_save([db EXCEPT !.pending = num])
        /\ UNCHANGED tower
(* sym_record_local() *)
sym_record_local ==
    /\ db.local + 2 <= MaxState
    /\ sym_save([db EXCEPT !.local = db.local + 2])
    /\ UNCHANGED tower
(* sym_record_revoked(): the pending state is whole. *)
sym_record_revoked ==
    /\ db.pending \notin {NoState, First}
    /\ sym_save([db EXCEPT !.remote = db.pending, !.pending = NoState])
    /\ UNCHANGED tower

-----------------------------------------------------------------------------
(* The chain. *)

(* States someone may publish: those that channeld went on with, the peer's *)
(* first included, and the tower's.                                         *)
Newest(m, n) ==
    IF n % 2 # First THEN m.local
    ELSE IF m.pending # NoState THEN m.pending ELSE m.remote
Held(m) == {n \in States : n <= Newest(m, n)}
Published == Held(db) \cup {b.to : b \in pool}

(* What a next block may hold. *)
NextBlocks(c) ==
    LET p == Spends(c)
        to == Published \ {Settle}
    IN  {<<>>} \cup
        (IF p = <<>> THEN {<<Close>>, <<KO>>} \cup {<<KO, n>> : n \in to}
         ELSE IF Ends(Last(p)) THEN {}
         ELSE {<<n>> : n \in {m \in to : m > Last(p)}} \cup
              (IF Last(p) >= 0 /\ Len(c) + 1 - MadeAt(c) >= Delay
               THEN {<<Settle>>} ELSE {}))

Extend ==
    /\ Len(chain) < MaxHeight
    /\ \E b \in NextBlocks(chain) : chain' = Append(chain, b)
    /\ clean' = FALSE
    /\ UNCHANGED <<node, k, round, env, pool, torn>>

(* Blocks above the fork are replaced, by one more than there were; one of  *)
(* the last two may hold spends.                                            *)
Reorg ==
    /\ reorgs < MaxReorgs /\ Len(chain) < MaxHeight
    /\ \E fork \in 0..Len(chain) - 1 :
         LET blank == [i \in 1..Len(chain) - 1 |->
                         IF i <= fork THEN chain[i] ELSE <<>>]
         IN  \E b \in NextBlocks(blank) :
             \E b2 \in NextBlocks(Append(blank, b)) :
                /\ b = <<>> \/ b2 = <<>>
                /\ chain' = blank \o <<b, b2>>
    /\ ~IsPrefix(chain, chain')
    /\ reorgs' = reorgs + 1
    /\ clean' = FALSE
    /\ torn' = (torn \/ (round.at = "scan" /\ ~IsPrefix(k.hash, chain')))
    /\ UNCHANGED <<node, k, round, faults, pool>>

-----------------------------------------------------------------------------
(* The tower. *)

sym_cursor_reset ==
    [hash |-> <<>>, cur |-> <<>>, height |-> 0, done |-> FALSE, bcast |-> -1,
     by |-> NoFile]

Idle == [at |-> "idle", tip |-> 0, may |-> FALSE, s |-> NoFile]

(* sym_record_opened() *)
sym_record_opened == [local |-> 1 - First, remote |-> NoState, pending |-> First]

Init ==
    /\ chain = <<>>
    /\ db = sym_record_opened
    /\ \/ record = File(db) /\ faults = 0 /\ lost = FALSE
       \/ record = NoFile /\ faults = 1 /\ lost = TRUE /\ MaxFaults > 0
    /\ k = sym_cursor_reset
    /\ round = Idle
    /\ reorgs = 0
    /\ pool = {} /\ clean = FALSE /\ torn = FALSE

(* main(): the tip, the lease, the records. *)
StartRound(may) ==
    /\ round.at = "idle" /\ record # NoFile
    /\ may \/ faults < MaxFaults
    /\ faults' = IF may THEN faults ELSE faults + 1
    /\ round' = [at |-> "funding", tip |-> Len(chain), may |-> may, s |-> record]
    /\ clean' = may
    /\ UNCHANGED <<chain, node, k, reorgs, pool, torn>>

(* defend_sym_lane(): is the funding output spent? *)
LookAtFunding ==
    /\ round.at = "funding"
    /\ IF Spends(chain) = <<>>
       THEN k' = sym_cursor_reset /\ round' = Idle /\ torn' = FALSE
       ELSE UNCHANGED <<k, torn>> /\ round' = [round EXCEPT !.at = "sync"]
    /\ UNCHANGED <<chain, node, env, pool, clean>>

(* Mutant: the last block scanned is taken to be there still. *)
sym_block_hash_always == TRUE
(* sym_block_hash_is(): no block at that height says nothing. *)
sym_block_hash_is ==
    Len(chain) < Len(k.hash) \/ Upto(chain, Len(k.hash)) = k.hash

(* sym_scan(), its start. *)
CheckScanned ==
    /\ round.at = "sync"
    /\ k' = IF sym_block_hash_is THEN k ELSE sym_cursor_reset
    /\ torn' = (torn /\ sym_block_hash_is)
    /\ round' = [round EXCEPT !.at = "scan"]
    /\ UNCHANGED <<chain, node, env, pool, clean>>

(* sym_follow() for the spends of a block that lead on from k->cur; a       *)
(* settlement or a mutual close ends the walk.                              *)
sym_follow(before, after, h) ==
    IF ~(/\ Len(before) <= Len(k.cur) /\ Len(k.cur) < Len(after)
         /\ IsPrefix(k.cur, after))
    THEN k
    ELSE IF Ends(Last(after)) THEN [k EXCEPT !.done = TRUE]
    ELSE [k EXCEPT !.cur = after, !.height = h, !.bcast = -1, !.by = NoFile]

(* sym_scan(): one block. *)
ScanBlock ==
    LET h == Len(k.hash) + 1
    IN  /\ round.at = "scan"
        /\ ~k.done /\ h <= round.tip /\ h <= Len(chain)
        /\ k' = [sym_follow(Spends(Upto(chain, h - 1)), Spends(Upto(chain, h)), h)
                 EXCEPT !.hash = Upto(chain, h)]
        /\ UNCHANGED <<chain, node, round, env, pool, clean, torn>>

(* sym_scan() returns, false when a block is not there any more. *)
ScanEnds ==
    /\ round.at = "scan"
    /\ k.done \/ Len(k.hash) >= round.tip \/ Len(k.hash) >= Len(chain)
    /\ round' = IF k.done \/ k.cur = <<>> \/ Len(k.hash) < round.tip THEN Idle
                ELSE [round EXCEPT !.at = "act"]
    /\ UNCHANGED <<chain, node, k, env, pool, clean, torn>>

(* sym_stored(): what the tower may do over k->cur.  A state above the best *)
(* one that is not stored is left to its holder.                            *)
updates == round.s.best > Last(k.cur)
(* Mutant: a block late. *)
settle_due_late == round.tip >= k.height + Delay
settle_due == round.tip + 1 >= k.height + Delay
settles ==
    /\ ~updates
    /\ Last(k.cur) \in {round.s.best, round.s.pending}
    /\ settle_due

(* The rest of defend_sym_lane(), down to sendrawtransaction, which refuses *)
(* a settlement before its time.                                            *)
Broadcast ==
    /\ round.at = "act"
    /\ Spends(chain) = k.cur
    /\ updates \/ settles
    /\ round.may /\ k.bcast # round.tip
    /\ updates \/ Len(chain) + 1 - MadeAt(chain) >= Delay
    /\ pool' = pool \cup {[over |-> k.cur,
                           to |-> IF updates THEN round.s.best ELSE Settle]}
    /\ k' = [k EXCEPT !.bcast = round.tip, !.by = round.s]
    /\ round' = Idle
    /\ UNCHANGED <<chain, node, env, clean, torn>>
NothingToDo ==
    /\ round.at = "act"
    /\ ~(/\ Spends(chain) = k.cur
         /\ updates \/ settles
         /\ round.may /\ k.bcast # round.tip
         /\ updates \/ Len(chain) + 1 - MadeAt(chain) >= Delay)
    /\ round' = Idle
    /\ UNCHANGED <<chain, node, k, env, pool, clean, torn>>

(* An RPC call fails, no coin pays for the spend, or it is refused: that    *)
(* ends the round.  A failure to look a block hash up does not.             *)
RpcFails ==
    /\ faults < MaxFaults
    /\ round.at # "idle"
    /\ faults' = faults + 1
    /\ round' = IF round.at = "sync" THEN [round EXCEPT !.at = "scan"] ELSE Idle
    /\ clean' = FALSE
    /\ torn' = (torn \/ (round.at = "sync" /\ ~sym_block_hash_is))
    /\ UNCHANGED <<chain, node, k, reorgs, pool>>

(* The tower restarts: the cursors are in memory. *)
TowerRestarts ==
    /\ faults < MaxFaults
    /\ faults' = faults + 1
    /\ k' = sym_cursor_reset
    /\ round' = Idle
    /\ clean' = FALSE /\ torn' = FALSE
    /\ UNCHANGED <<chain, node, reorgs, pool>>

-----------------------------------------------------------------------------
Lightningd == sym_record_sent \/ sym_record_local \/ sym_record_revoked

Tower ==
    \/ StartRound(TRUE)
    \/ LookAtFunding
    \/ CheckScanned
    \/ ScanBlock
    \/ ScanEnds
    \/ Broadcast
    \/ NothingToDo

Next ==
    \/ Lightningd
    \/ Extend
    \/ Reorg
    \/ Tower
    \/ StartRound(FALSE)
    \/ RpcFails
    \/ TowerRestarts

Spec == Init /\ [][Next]_vars

(* The tower polls for ever. *)
FairSpec == Spec /\ WF_vars(Tower)

-----------------------------------------------------------------------------
Follows ==
    LET p == Spends(chain)
    IN  IF p # <<>> /\ Ends(Last(p)) THEN k.done /\ k.cur = Front(p)
        ELSE ~k.done /\ k.cur = p /\ k.height = MadeAt(chain)

(* "A reorg below what was scanned restarts the walk from the funding       *)
(* output, so the tower always acts on the chain as it now stands": after a *)
(* round in which no call failed and the chain did not move, the walk       *)
(* stands where the chain does, whatever reorgs, restarts and failed rounds *)
(* came before.  Not so, until the walk next starts over, when the reorg    *)
(* fell between the hash check of a scan and its blocks, or when the call   *)
(* for that hash failed: sym_scan() then carries the walk of one branch on  *)
(* over the blocks of another.                                              *)
FollowsChain == round.at = "idle" /\ clean /\ ~torn => Follows

(* sym_save(): "a keyless watcher always holds the best state this node     *)
(* holds", over crashes between the file and the database: whatever state   *)
(* the peer may publish, the tower can replace or settle.  Two exceptions   *)
(* are the code's: a write that failed is only logged, and the file stays   *)
(* behind until the next save; and sym_record_sent() forgets the peer's     *)
(* first state, which the peer may still publish.                           *)
RecordCovers ==
    ~lost => /\ record.best >= sym_best_state(db)
             /\ \A n \in Held(db) \ {First} : n <= record.best \/ n = record.pending

(* When the chain has settled down, an output of an older state than the    *)
(* record's has the update to that over it in the mempool, a stored one its *)
(* settlement as soon as the delay allows, although RPC calls failed and    *)
(* the lease was lost.  Only a state that RecordCovers excepts is left to   *)
(* its holder, and one that a crash has undone and the tower had published  *)
(* already.  One broadcast for each tip: a record that comes after it       *)
(* waits for the next.  A walk torn as FollowsChain says may look at the    *)
(* wrong output.                                                            *)
Answered ==
    LET p == Spends(chain)
        sent == {a \in pool : a.over = p}
        stored == Last(p) \in {record.best, record.pending}
        due == Len(chain) + 1 - MadeAt(chain) >= Delay
    IN  p # <<>> /\ ~Ends(Last(p)) /\ ~torn /\ record # NoFile =>
          \/ record.best > Last(p) /\ \E a \in sent : a.to = record.best
          \/ record.best <= Last(p) /\ stored /\ (due => \E a \in sent : a.to = Settle)
          \/ record.best < Last(p) /\ ~stored /\ (lost \/ Last(p) \notin Held(db) \ {First})
          \/ k.bcast = Len(chain) /\ k.by # record /\ sent # {}
EventuallyAnswered == <>[]Answered
=============================================================================
