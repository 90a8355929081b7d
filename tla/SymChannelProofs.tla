------------------------- MODULE SymChannelProofs -------------------------
(* The counters of the commitment dance, then the saved states of a         *)
(* symmetric channel and the game on chain, for any number of commitments,  *)
(* any delay and any set of watching nodes.  Then Topology: lightningd's    *)
(* view of the chain.                                                       *)
EXTENDS SymChannel, Topology, TLAPS

-----------------------------------------------------------------------------
(* The dance. *)

(* Each node has one peer, and is its peer's peer. *)
LEMMA PeerFacts ==
    \A n \in Nodes : Peer(n) \in Nodes /\ Peer(n) # n /\ Peer(Peer(n)) = n
  BY NodesAssumption DEF Nodes, Peer

(* The counters start in order: one commitment on each side, no revocation. *)
LEMMA DanceInitOK == DanceInit => DanceTypeOK /\ IndicesAgree
  BY PeerFacts DEF DanceInit, DanceTypeOK, IndicesAgree

(* send_commit() keeps the counters in order: it waits for the revocation,  *)
(* so the number it moves on from was revs + 1.                             *)
LEMMA SendCommitOK ==
    ASSUME NEW n \in Nodes, DanceTypeOK, IndicesAgree, SendCommit(n)
    PROVE  DanceTypeOK' /\ IndicesAgree'
  <1>1. DanceTypeOK'
    BY DEF SendCommit, DanceTypeOK
  <1>2. ASSUME NEW m \in Nodes
        PROVE  /\ revs[m]' <= nextL[Peer(m)]' - 1
               /\ nextL[Peer(m)]' <= nextR[m]'
               /\ nextR[m]' <= revs[m]' + 2
    <2>1. Peer(m) \in Nodes
      BY PeerFacts
    <2>2. CASE m = n
      BY <2>1, <2>2 DEF SendCommit, commit_revoked, DanceTypeOK, IndicesAgree
    <2>3. CASE m # n
      BY <2>1, <2>3 DEF SendCommit, DanceTypeOK, IndicesAgree
    <2>4. QED
      BY <2>2, <2>3
  <1>3. QED
    BY <1>1, <1>2 DEF IndicesAgree

(* handle_peer_commit_sig() keeps them: it takes only the commitment after  *)
(* the one it has, so its number does not pass what the peer has signed.    *)
LEMMA RecvCommitOK ==
    ASSUME NEW n \in Nodes, DanceTypeOK, IndicesAgree, RecvCommit(n)
    PROVE  DanceTypeOK' /\ IndicesAgree'
  <1>1. DanceTypeOK'
    BY DEF RecvCommit, DanceTypeOK
  <1>2. ASSUME NEW m \in Nodes
        PROVE  /\ revs[m]' <= nextL[Peer(m)]' - 1
               /\ nextL[Peer(m)]' <= nextR[m]'
               /\ nextR[m]' <= revs[m]' + 2
    <2>1. Peer(m) \in Nodes /\ Peer(Peer(m)) = m
      BY PeerFacts
    <2>2. CASE Peer(m) = n
      BY <2>1, <2>2 DEF RecvCommit, DanceTypeOK, IndicesAgree
    <2>3. CASE Peer(m) # n
      BY <2>1, <2>3 DEF RecvCommit, DanceTypeOK, IndicesAgree
    <2>4. QED
      BY <2>2, <2>3
  <1>3. QED
    BY <1>1, <1>2 DEF IndicesAgree

(* handle_peer_revoke_and_ack() keeps them: a revocation is under way only  *)
(* when the peer's number is past the count.                                *)
LEMMA RecvRevokeOK ==
    ASSUME NEW n \in Nodes, DanceTypeOK, IndicesAgree, RecvRevoke(n)
    PROVE  DanceTypeOK' /\ IndicesAgree'
  <1>1. DanceTypeOK'
    BY DEF RecvRevoke, DanceTypeOK
  <1>2. ASSUME NEW m \in Nodes
        PROVE  /\ revs[m]' <= nextL[Peer(m)]' - 1
               /\ nextL[Peer(m)]' <= nextR[m]'
               /\ nextR[m]' <= revs[m]' + 2
    <2>1. Peer(m) \in Nodes
      BY PeerFacts
    <2>2. CASE m = n
      BY <2>1, <2>2 DEF RecvRevoke, DanceTypeOK, IndicesAgree
    <2>3. CASE m # n
      BY <2>1, <2>3 DEF RecvRevoke, DanceTypeOK, IndicesAgree
    <2>4. QED
      BY <2>2, <2>3
  <1>3. QED
    BY <1>1, <1>2 DEF IndicesAgree

(* Every step of the dance keeps the counters in order, and so does a step  *)
(* that leaves them alone.                                                  *)
LEMMA DanceStepOK ==
    ASSUME DanceTypeOK, IndicesAgree, [DanceNext]_dance
    PROVE  DanceTypeOK' /\ IndicesAgree'
  <1>1. CASE DanceNext
    BY <1>1, SendCommitOK, RecvCommitOK, RecvRevokeOK DEF DanceNext
  <1>2. CASE UNCHANGED dance
    BY <1>2 DEF dance, DanceTypeOK, IndicesAgree
  <1>3. QED
    BY <1>1, <1>2

(* What channel_reestablish relies on: whatever is lost and sent again, the *)
(* numbers two channelds keep of each other's commitments are at most one   *)
(* apart and never out of order.                                            *)
THEOREM DanceIndicesAgree == DanceSpec => []IndicesAgree
  <1>1. DanceInit => DanceTypeOK /\ IndicesAgree
    BY DanceInitOK
  <1>2. DanceTypeOK /\ IndicesAgree /\ [DanceNext]_dance
            => (DanceTypeOK /\ IndicesAgree)'
    BY DanceStepOK
  <1>3. QED
    BY <1>1, <1>2, PTL DEF DanceSpec

-----------------------------------------------------------------------------
(* The symmetric channel. *)

(* Each saved state follows from the counters of the dance: the records of  *)
(* lightningd/symmetric.c are never a step behind channeld's.               *)
SavedStates ==
    \A n \in Nodes :
        /\ symL[n] = sym_state_num(n, nextL[n] - 1)
        /\ symR[n] = IF revs[n] = 0 THEN NoState
                     ELSE sym_state_num(Peer(n), revs[n])
        /\ symP[n] = IF nextR[n] = revs[n] + 2
                     THEN sym_state_num(Peer(n), nextR[n] - 1)
                     ELSE IF revs[n] = 0 THEN sym_state_num(Peer(n), 0)
                     ELSE NoState

(* A state output on chain was published by somebody who held it. *)
TipHeld == tip >= 0 => \E m \in Nodes : tip \in held(m)

(* An output older than React blocks is one no watching node replaces. *)
Reacted == age > React => \A n \in Watchers : seen[n] /\ ~sym_replaces(n)

(* What settles is a state, and has stood for the delay. *)
SettledAged == settled => age >= Delay /\ tip >= 0

(* The restarts counted so far determine what stands. *)
Restarts ==
    \A n \in Nodes :
        /\ ~seen[n] => after[n] = 0
        /\ after[n] <= 2
        /\ after[n] >= 1 => tip > sym_best(n)
        /\ after[n] = 2 => FirstWindow(n) /\ tip = sym_state_num(Peer(n), 1)

DanceInv == DanceTypeOK /\ IndicesAgree /\ SavedStates
IInv == TypeOK /\ DanceInv /\ TipHeld /\ Reacted /\ SettledAged /\ Restarts

-----------------------------------------------------------------------------
(* The best state a node holds whole is at least its own latest, and at     *)
(* least the peer's latest that it saw countersigned.                       *)
LEMMA BestFacts ==
    ASSUME DanceInv, NEW n \in Nodes
    PROVE  /\ sym_best(n) \in Nat
           /\ sym_best(n) \in sym_known(n)
           /\ sym_best(n) >= sym_state_num(n, nextL[n] - 1)
           /\ revs[n] > 0 => sym_best(n) >= sym_state_num(Peer(n), revs[n])
  <1>1. /\ Peer(n) \in Nodes
        /\ nextL[n] \in Nat \ {0} /\ revs[n] \in Nat
    BY PeerFacts DEF DanceInv, DanceTypeOK
  <1>2. /\ symL[n] = sym_state_num(n, nextL[n] - 1)
        /\ symR[n] = IF revs[n] = 0 THEN NoState
                     ELSE sym_state_num(Peer(n), revs[n])
    BY DEF DanceInv, SavedStates
  <1>3. /\ sym_state_num(n, nextL[n] - 1) \in Nat
        /\ sym_state_num(Peer(n), revs[n]) \in Nat
    BY <1>1 DEF sym_state_num
  <1>4. QED
    BY <1>1, <1>2, <1>3 DEF sym_best, sym_known, NoState

(* A state above a node's best, whoever held it, is the peer's newest, sent *)
(* and not yet countersigned, or the peer's very first in FirstWindow.      *)
LEMMA HeldBound ==
    ASSUME DanceInv, NEW n \in Nodes, NEW m \in Nodes,
           NEW s \in held(m), s > sym_best(n)
    PROVE  \/ nextR[n] = revs[n] + 2 /\ s = sym_state_num(Peer(n), revs[n] + 1)
           \/ FirstWindow(n) /\ s = sym_state_num(Peer(n), 0)
  <1> DEFINE p == Peer(n)
  <1>1. /\ p \in Nodes /\ p # n /\ Peer(p) = n
        /\ nextL[n] \in Nat \ {0} /\ nextL[p] \in Nat \ {0}
        /\ nextR[n] \in Nat \ {0} /\ nextR[p] \in Nat \ {0}
        /\ revs[n] \in Nat /\ revs[p] \in Nat
    BY PeerFacts DEF DanceInv, DanceTypeOK
  <1>2. /\ nextL[p] <= nextR[n] /\ nextR[n] <= revs[n] + 2
        /\ revs[p] <= nextL[n] - 1
    BY <1>1 DEF DanceInv, IndicesAgree
  <1>3. m = n \/ m = p
    BY DEF Nodes, Peer
  <1>4. ASSUME NEW i \in 0..(nextL[n] - 1), s = sym_state_num(n, i)
        PROVE  FALSE
    BY <1>1, <1>4, BestFacts DEF sym_state_num
  <1>5. ASSUME NEW i \in 1..revs[n], s = sym_state_num(p, i)
        PROVE  FALSE
    <2>1. sym_best(n) >= sym_state_num(p, revs[n])
      BY <1>1, BestFacts
    <2>2. QED
      BY <1>1, <1>5, <2>1, BestFacts DEF sym_state_num
  <1>6. ASSUME NEW i \in 0..(nextL[p] - 1), s = sym_state_num(p, i)
        PROVE  \/ nextR[n] = revs[n] + 2 /\ s = sym_state_num(p, revs[n] + 1)
               \/ FirstWindow(n) /\ s = sym_state_num(p, 0)
    <2>1. i <= revs[n] + 1
      BY <1>1, <1>2
    <2>2. CASE i = revs[n] + 1
      BY <1>1, <1>2, <1>6, <2>2
    <2>3. CASE i <= revs[n] /\ i > 0
      BY <1>1, <1>5, <1>6, <2>3
    <2>4. CASE i = 0 /\ revs[n] > 0
      BY <1>1, <1>6, <2>4, BestFacts DEF sym_state_num
    <2>5. CASE i = 0 /\ revs[n] = 0
      <3>1. n = A
        <4>1. SUFFICES ASSUME n # A PROVE FALSE
          OBVIOUS
        <4>2. n = B /\ p = A
          BY <4>1 DEF Nodes, Peer
        <4>3. QED
          BY <1>1, <1>6, <2>5, <4>2, NodesAssumption, BestFacts
             DEF sym_state_num
      <3>2. QED
        BY <1>6, <2>5, <3>1 DEF FirstWindow
    <2>6. QED
      BY <1>1, <2>1, <2>2, <2>3, <2>4, <2>5
  <1>7. ASSUME NEW i \in 1..revs[p], s = sym_state_num(n, i)
        PROVE  FALSE
    BY <1>1, <1>2, <1>4, <1>7
  <1>8. QED
    BY <1>1, <1>3, <1>4, <1>5, <1>6, <1>7 DEF held

(* Every state a node saw revoked is below the best it holds whole. *)
LEMMA RevokedBelowBest == DanceInv => HoldsNewer
  <1>1. SUFFICES ASSUME DanceInv, NEW n \in Nodes, NEW s \in Revoked(n)
                 PROVE  s < sym_best(n)
    BY DEF HoldsNewer
  <1>2. /\ Peer(n) \in Nodes
        /\ nextL[n] \in Nat \ {0} /\ revs[n] \in Nat
    BY <1>1, PeerFacts DEF DanceInv, DanceTypeOK
  <1>3. ASSUME NEW i \in 0..(revs[n] - 1), s = sym_state_num(Peer(n), i)
        PROVE  s < sym_best(n)
    BY <1>1, <1>2, <1>3, BestFacts DEF sym_state_num
  <1>4. ASSUME NEW i \in 0..(nextL[n] - 2), s = sym_state_num(n, i)
        PROVE  s < sym_best(n)
    BY <1>1, <1>2, <1>4, BestFacts DEF sym_state_num
  <1>5. QED
    BY <1>1, <1>3, <1>4 DEF Revoked

(* What a node knows of whatever stands, once it cannot replace it. *)
LEMMA KnowsWhatStands == TypeOK /\ DanceInv /\ TipHeld => KnowsSettlement
  <1>1. SUFFICES ASSUME TypeOK, DanceInv, TipHeld, NEW n \in Nodes,
                        seen[n], tip >= sym_best(n)
                 PROVE  \/ tip \in sym_known(n)
                        \/ FirstWindow(n) /\ tip = sym_state_num(Peer(n), 0)
    BY DEF KnowsSettlement
  <1>. tip \in Int /\ sym_best(n) \in Nat
    BY <1>1, BestFacts DEF TypeOK, Unspent, KO
  <1>2. CASE tip = sym_best(n)
    BY <1>1, <1>2, BestFacts
  <1>3. CASE tip > sym_best(n)
    <2>1. PICK m \in Nodes : tip \in held(m)
      BY <1>1, <1>3 DEF TipHeld
    <2>2. CASE /\ nextR[n] = revs[n] + 2
               /\ tip = sym_state_num(Peer(n), revs[n] + 1)
      <3>1. nextR[n] - 1 = revs[n] + 1
        BY <1>1, <2>2 DEF DanceInv, DanceTypeOK
      <3>2. symP[n] = tip
        BY <1>1, <2>2, <3>1 DEF DanceInv, SavedStates
      <3>3. QED
        BY <3>2 DEF sym_known
    <2>3. CASE FirstWindow(n) /\ tip = sym_state_num(Peer(n), 0)
      BY <2>3
    <2>4. QED
      BY <1>1, <1>3, <2>1, <2>2, <2>3, HeldBound
  <1>4. QED
    BY <1>1, <1>2, <1>3

(* A revocation under way countersigns what its receiver has pending. *)
LEMMA PendingCountersigned == DanceInv => CountersignsPending
  <1>1. SUFFICES ASSUME DanceInv, NEW n \in Nodes,
                        revs[n] < nextL[Peer(n)] - 1
                 PROVE  /\ sym_state_num(Peer(n), nextL[Peer(n)] - 1)
                              = sym_countersigned(n)
                        /\ symP[n] = sym_countersigned(n)
    BY DEF CountersignsPending
  <1>2. nextL[Peer(n)] = nextR[n] /\ nextR[n] = revs[n] + 2
    BY <1>1, PeerFacts DEF DanceInv, DanceTypeOK, IndicesAgree
  <1>3. QED
    BY <1>1, <1>2 DEF DanceInv, SavedStates, sym_countersigned

-----------------------------------------------------------------------------
(* Steps of the dance. *)

(* sym_record_sent() saves the state that was just signed. *)
LEMMA SendingOK ==
    ASSUME TypeOK, DanceInv, NEW n \in Nodes, sending_commitsig(n)
    PROVE  TypeOK' /\ DanceInv'
  <1>1. DanceTypeOK' /\ IndicesAgree'
    BY SendCommitOK DEF sending_commitsig, DanceInv
  <1>2. ASSUME NEW m \in Nodes
        PROVE  /\ symL'[m] = sym_state_num(m, nextL'[m] - 1)
               /\ symR'[m] = IF revs'[m] = 0 THEN NoState
                             ELSE sym_state_num(Peer(m), revs'[m])
               /\ symP'[m] = IF nextR'[m] = revs'[m] + 2
                             THEN sym_state_num(Peer(m), nextR'[m] - 1)
                             ELSE IF revs'[m] = 0
                             THEN sym_state_num(Peer(m), 0)
                             ELSE NoState
    <2>1. CASE m = n
      <3>1. nextR'[n] - 1 = nextR[n] /\ nextR'[n] = revs'[n] + 2
        BY DEF sending_commitsig, SendCommit, commit_revoked, DanceInv,
               DanceTypeOK
      <3>2. symP'[n] = sym_state_num(Peer(n), nextR[n])
        BY DEF sending_commitsig, sym_record_sent, TypeOK
      <3>3. QED
        BY <2>1, <3>1, <3>2
           DEF sending_commitsig, SendCommit, DanceInv, SavedStates
    <2>2. CASE m # n
      BY <2>2 DEF sending_commitsig, SendCommit, DanceInv, DanceTypeOK,
                  SavedStates, TypeOK
    <2>3. QED
      BY <2>1, <2>2
  <1>3. TypeOK'
    <2>1. sym_record_sent(n) \in Nat
      BY DEF sym_record_sent, sym_state_num, DanceInv, DanceTypeOK
    <2>2. QED
      BY <1>1, <2>1 DEF sending_commitsig, TypeOK, onchain
  <1>4. QED
    BY <1>1, <1>2, <1>3 DEF DanceInv, SavedStates

(* sym_record_local() saves the state whose commitment was just taken.      *)
LEMMA GotCommitsigOK ==
    ASSUME TypeOK, DanceInv, NEW n \in Nodes, got_commitsig(n)
    PROVE  TypeOK' /\ DanceInv'
  <1>1. DanceTypeOK' /\ IndicesAgree'
    BY RecvCommitOK DEF got_commitsig, DanceInv
  <1>2. ASSUME NEW m \in Nodes
        PROVE  /\ symL'[m] = sym_state_num(m, nextL'[m] - 1)
               /\ symR'[m] = symR[m] /\ symP'[m] = symP[m]
               /\ nextR'[m] = nextR[m] /\ revs'[m] = revs[m]
    <2>1. CASE m = n
      <3>1. nextL'[n] - 1 = nextL[n]
        BY DEF got_commitsig, RecvCommit, DanceInv, DanceTypeOK
      <3>2. symL'[n] = sym_state_num(n, nextL[n])
        BY DEF got_commitsig, sym_record_local, TypeOK
      <3>3. QED
        BY <2>1, <3>1, <3>2 DEF got_commitsig, RecvCommit
    <2>2. CASE m # n
      BY <2>2 DEF got_commitsig, RecvCommit, DanceInv, DanceTypeOK,
                  SavedStates, TypeOK
    <2>3. QED
      BY <2>1, <2>2
  <1>3. TypeOK'
    <2>1. sym_record_local(n) \in Nat
      BY DEF sym_record_local, sym_state_num, DanceInv, DanceTypeOK
    <2>2. QED
      BY <1>1, <2>1 DEF got_commitsig, TypeOK, onchain
  <1>4. SavedStates'
    BY <1>2 DEF DanceInv, SavedStates
  <1>5. QED
    BY <1>1, <1>3, <1>4 DEF DanceInv

(* sym_record_revoked() saves the peer's state as whole: it is the pending  *)
(* one, so that nothing is pending any more.                                *)
LEMMA GotRevokeOK ==
    ASSUME TypeOK, DanceInv, NEW n \in Nodes, got_revoke(n)
    PROVE  TypeOK' /\ DanceInv'
  <1>1. DanceTypeOK' /\ IndicesAgree'
    BY RecvRevokeOK DEF got_revoke, DanceInv
  <1>2. /\ nextR[n] = revs[n] + 2 /\ nextR[n] - 1 = revs'[n]
        /\ revs'[n] # 0 /\ nextR'[n] = revs'[n] + 1
    <2>1. /\ nextL[Peer(n)] \in Nat /\ nextR[n] \in Nat /\ revs[n] \in Nat
          /\ nextL[Peer(n)] <= nextR[n] /\ nextR[n] <= revs[n] + 2
      BY PeerFacts DEF DanceInv, DanceTypeOK, IndicesAgree
    <2>2. /\ revs[n] < nextL[Peer(n)] - 1
          /\ revs'[n] = revs[n] + 1 /\ nextR' = nextR
      BY DEF got_revoke, RecvRevoke, DanceInv, DanceTypeOK
    <2>3. QED
      BY <2>1, <2>2
  <1>3. /\ symR'[n] = sym_state_num(Peer(n), revs'[n])
        /\ symP'[n] = NoState
    <2>1. symP[n] = sym_countersigned(n)
      BY <1>2 DEF DanceInv, SavedStates, sym_countersigned
    <2>2. QED
      BY <1>2, <2>1 DEF got_revoke, sym_countersigned,
                        sym_remote_pending_after, TypeOK
  <1>4. TypeOK'
    <2>1. sym_countersigned(n) \in Nat
      BY DEF sym_countersigned, sym_state_num, DanceInv, DanceTypeOK
    <2>2. \A q \in Nat \cup {NoState} :
            sym_remote_pending_after(q, sym_countersigned(n))
                \in Nat \cup {NoState}
      BY DEF sym_remote_pending_after
    <2>3. QED
      BY <1>1, <2>1, <2>2 DEF got_revoke, TypeOK, onchain
  <1>5. SavedStates'
    <2>1. ASSUME NEW m \in Nodes, m # n
          PROVE  /\ symR'[m] = symR[m] /\ symP'[m] = symP[m]
                 /\ revs'[m] = revs[m]
      BY <2>1 DEF got_revoke, RecvRevoke, TypeOK, DanceTypeOK
    <2>2. symL' = symL /\ nextL' = nextL /\ nextR' = nextR
      BY DEF got_revoke, RecvRevoke
    <2>3. nextR'[n] # revs'[n] + 2
      BY <1>1, <1>2 DEF DanceTypeOK
    <2>4. QED
      BY <1>2, <1>3, <2>1, <2>2, <2>3 DEF DanceInv, SavedStates
  <1>6. QED
    BY <1>1, <1>4, <1>5 DEF DanceInv

(* A step of node n's dance needs n's channeld, leaves the chain alone, and *)
(* changes none of the other node's states.                                 *)
LEMMA OffChainFrame ==
    ASSUME TypeOK, DanceInv, NEW n \in Nodes,
           sending_commitsig(n) \/ got_commitsig(n) \/ got_revoke(n)
    PROVE  /\ ~seen[n] /\ UNCHANGED onchain
           /\ \A m \in Nodes \ {n} :
                sym_best(m)' = sym_best(m) /\ revs'[m] = revs[m]
           /\ \A m \in Nodes : held(m) \subseteq held(m)'
  <1>1. ~seen[n] /\ UNCHANGED onchain
    BY DEF sending_commitsig, got_commitsig, got_revoke
  <1>2. ASSUME NEW m \in Nodes \ {n}
        PROVE  symL'[m] = symL[m] /\ symR'[m] = symR[m] /\ revs'[m] = revs[m]
    BY DEF sending_commitsig, got_commitsig, got_revoke, SendCommit,
           RecvCommit, RecvRevoke, TypeOK, DanceTypeOK
  <1>3. ASSUME NEW m \in Nodes
        PROVE  /\ nextL[m] \in Nat /\ nextL'[m] \in Nat
               /\ revs[m] \in Nat /\ revs'[m] \in Nat
               /\ nextL[m] <= nextL'[m] /\ revs[m] <= revs'[m]
    BY DEF sending_commitsig, got_commitsig, got_revoke, SendCommit,
           RecvCommit, RecvRevoke, TypeOK, DanceTypeOK
  <1>4. ASSUME NEW m \in Nodes
        PROVE  held(m) \subseteq held(m)'
    <2>1. /\ 0..(nextL[m] - 1) \subseteq 0..(nextL'[m] - 1)
          /\ 1..revs[m] \subseteq 1..revs'[m]
      BY <1>3
    <2>2. QED
      BY <2>1 DEF held
  <1>5. QED
    BY <1>1, <1>2, <1>4 DEF sym_best

(* So the dance keeps the whole invariant, also after the kickoff, while    *)
(* one node has yet to see it.                                              *)
LEMMA OffChainOK ==
    ASSUME IInv, OffChain
    PROVE  IInv'
  <1>1. PICK n \in Nodes :
            sending_commitsig(n) \/ got_commitsig(n) \/ got_revoke(n)
    BY DEF OffChain
  <1>2. TypeOK' /\ DanceInv'
    BY <1>1, SendingOK, GotCommitsigOK, GotRevokeOK DEF IInv
  <1>3. /\ ~seen[n] /\ UNCHANGED onchain
        /\ \A m \in Nodes \ {n} :
             sym_best(m)' = sym_best(m) /\ revs'[m] = revs[m]
        /\ \A m \in Nodes : held(m) \subseteq held(m)'
    BY <1>1, OffChainFrame DEF IInv
  <1>4. /\ seen' = seen /\ tip' = tip /\ age' = age
        /\ settled' = settled /\ after' = after
    BY <1>3 DEF onchain
  <1>5. TipHeld'
    BY <1>3, <1>4 DEF IInv, TipHeld
  <1>6. Reacted'
    <2>1. SUFFICES ASSUME age' > React, NEW m \in Watchers
                   PROVE  (seen[m] /\ ~sym_replaces(m))'
      BY DEF Reacted
    <2>2. m \in Nodes /\ seen[m] /\ ~sym_replaces(m)
      BY <1>4, <2>1, SymAssumption DEF IInv, Reacted
    <2>3. QED
      BY <1>3, <1>4, <2>2 DEF sym_replaces
  <1>7. SettledAged'
    BY <1>4 DEF IInv, SettledAged
  <1>8. Restarts'
    <2>1. SUFFICES ASSUME NEW m \in Nodes
                   PROVE  (/\ ~seen[m] => after[m] = 0
                           /\ after[m] <= 2
                           /\ after[m] >= 1 => tip > sym_best(m)
                           /\ after[m] = 2 =>
                                /\ FirstWindow(m)
                                /\ tip = sym_state_num(Peer(m), 1))'
      BY DEF Restarts
    <2>2. CASE m = n
      <3>1. after[n] = 0
        BY <1>3 DEF IInv, Restarts
      <3>2. QED
        BY <1>3, <1>4, <2>2, <3>1
    <2>3. CASE m # n
      BY <1>3, <1>4, <2>3 DEF IInv, Restarts, FirstWindow
    <2>4. QED
      BY <2>2, <2>3
  <1>9. QED
    BY <1>2, <1>5, <1>6, <1>7, <1>8 DEF IInv

-----------------------------------------------------------------------------
(* Steps on chain. *)

(* They move no counter of the dance and no saved state. *)
LEMMA OnChainFrame ==
    ASSUME DanceInv, UNCHANGED <<dance, symL, symR, symP>>
    PROVE  /\ DanceInv'
           /\ \A n \in Nodes : /\ sym_best(n)' = sym_best(n)
                               /\ held(n)' = held(n)
                               /\ FirstWindow(n)' = FirstWindow(n)
  BY DEF dance, DanceInv, DanceTypeOK, IndicesAgree, SavedStates, sym_best,
         held, FirstWindow

(* An update: the state that stands is above the one before, and a restart  *)
(* is counted for the nodes that had nothing better than what stood.        *)
LEMMA UpdateOK ==
    ASSUME IInv, NEW q \in Nodes, NEW s \in held(q), Update(s)
    PROVE  IInv'
  <1>1. /\ tip # Unspent /\ ~settled /\ s > tip
        /\ tip' = s /\ age' = 0 /\ seen' = seen /\ settled' = settled
        /\ UNCHANGED <<dance, symL, symR, symP>>
        /\ after' = [n \in Nodes |->
                       IF seen[n] /\ tip >= sym_best(n) THEN after[n] + 1
                                                        ELSE after[n]]
    BY DEF Update, upd_allows
  <1>2. /\ DanceInv'
        /\ \A n \in Nodes : /\ sym_best(n)' = sym_best(n)
                            /\ held(n)' = held(n)
                            /\ FirstWindow(n)' = FirstWindow(n)
    BY <1>1, OnChainFrame DEF IInv
  <1>3. s \in Nat
    BY PeerFacts DEF held, sym_state_num, IInv, DanceInv, DanceTypeOK
  <1>4. tip \in Int
    BY DEF IInv, TypeOK, Unspent, KO
  <1>5. TypeOK'
    BY <1>1, <1>2, <1>3, SymAssumption DEF IInv, TypeOK, DanceInv
  <1>6. TipHeld'
    BY <1>1, <1>2 DEF TipHeld
  <1>7. Reacted' /\ SettledAged'
    BY <1>1, SymAssumption DEF Reacted, SettledAged
  <1>8. Restarts'
    <2>1. SUFFICES ASSUME NEW n \in Nodes
                   PROVE  (/\ ~seen[n] => after[n] = 0
                           /\ after[n] <= 2
                           /\ after[n] >= 1 => tip > sym_best(n)
                           /\ after[n] = 2 =>
                                /\ FirstWindow(n)
                                /\ tip = sym_state_num(Peer(n), 1))'
      BY DEF Restarts
    <2>2. /\ sym_best(n) \in Nat /\ sym_best(n)' = sym_best(n)
          /\ after[n] \in Nat
      BY <1>2, BestFacts DEF IInv, TypeOK
    <2>3. CASE ~seen[n]
      BY <1>1, <2>2, <2>3 DEF IInv, Restarts
    <2>4. CASE seen[n] /\ tip < sym_best(n)
      <3>1. after[n] = 0
        BY <1>4, <2>2, <2>4 DEF IInv, Restarts
      <3>2. after'[n] = 0
        BY <1>1, <1>4, <2>2, <2>4, <3>1
      <3>3. QED
        BY <1>1, <2>4, <3>2
    <2>5. CASE seen[n] /\ tip = sym_best(n)
      <3>1. after[n] = 0
        BY <1>4, <2>2, <2>5 DEF IInv, Restarts
      <3>2. after'[n] = 1
        BY <1>1, <1>4, <2>2, <2>5, <3>1
      <3>3. QED
        BY <1>1, <1>3, <2>2, <2>5, <3>2
    <2>6. CASE seen[n] /\ tip > sym_best(n)
      <3>1. PICK m \in Nodes : tip \in held(m)
        BY <1>4, <2>2, <2>6 DEF IInv, TipHeld
      <3>2. s > sym_best(n)
        BY <1>1, <1>3, <1>4, <2>2, <2>6
      <3>3. /\ Peer(n) \in Nodes /\ revs[n] \in Nat
        BY PeerFacts DEF IInv, DanceInv, DanceTypeOK
      <3>4. /\ FirstWindow(n)
            /\ tip = sym_state_num(Peer(n), 0)
            /\ s = sym_state_num(Peer(n), 1)
        <4>1. \/ tip = sym_state_num(Peer(n), revs[n] + 1)
              \/ FirstWindow(n) /\ tip = sym_state_num(Peer(n), 0)
          BY <2>6, <3>1, HeldBound DEF IInv
        <4>2. \/ s = sym_state_num(Peer(n), revs[n] + 1)
              \/ FirstWindow(n) /\ s = sym_state_num(Peer(n), 0)
          BY <3>2, HeldBound DEF IInv
        <4>3. QED
          BY <1>1, <3>3, <4>1, <4>2 DEF sym_state_num, FirstWindow
      <3>5. after[n] # 2
        BY <3>4 DEF IInv, Restarts, sym_state_num
      <3>6. after'[n] = after[n] + 1 /\ after'[n] <= 2
        BY <1>1, <1>4, <2>2, <2>6, <3>5 DEF IInv, Restarts
      <3>7. QED
        BY <1>1, <1>2, <2>2, <2>6, <3>2, <3>4, <3>6
    <2>7. QED
      BY <1>4, <2>2, <2>3, <2>4, <2>5, <2>6
  <1>9. QED
    BY <1>2, <1>5, <1>6, <1>7, <1>8 DEF IInv

(* What sym_best() returns is a state the node holds whole. *)
LEMMA BestHeld ==
    ASSUME DanceInv, NEW n \in Nodes
    PROVE  sym_best(n) \in held(n)
  <1>1. nextL[n] \in Nat \ {0} /\ revs[n] \in Nat
    BY DEF DanceInv, DanceTypeOK
  <1>2. /\ symL[n] = sym_state_num(n, nextL[n] - 1)
        /\ nextL[n] - 1 \in 0..(nextL[n] - 1)
    BY <1>1 DEF DanceInv, SavedStates
  <1>3. CASE symR[n] > symL[n]
    <2>1. symL[n] \in Nat
      BY <1>1, <1>2 DEF sym_state_num
    <2>2. revs[n] # 0
      BY <1>3, <2>1 DEF DanceInv, SavedStates, NoState
    <2>3. /\ symR[n] = sym_state_num(Peer(n), revs[n])
          /\ revs[n] \in 1..revs[n]
      BY <1>1, <2>2 DEF DanceInv, SavedStates
    <2>4. QED
      BY <1>3, <2>3 DEF sym_best, held
  <1>4. CASE ~(symR[n] > symL[n])
    BY <1>2, <1>4 DEF sym_best, held
  <1>5. QED
    BY <1>3, <1>4

(* A node that sees the kickoff freezes its states; nothing else moves. *)
LEMMA SeesCloseOK ==
    ASSUME IInv, NEW n \in Nodes, handle_symmetric_close(n)
    PROVE  IInv'
  <1>1. /\ UNCHANGED <<dance, symL, symR, symP>>
        /\ seen' = [seen EXCEPT ![n] = TRUE]
        /\ tip' = tip /\ age' = age /\ settled' = settled /\ after' = after
    BY DEF handle_symmetric_close
  <1>2. /\ DanceInv'
        /\ \A m \in Nodes : /\ sym_best(m)' = sym_best(m)
                            /\ held(m)' = held(m)
                            /\ FirstWindow(m)' = FirstWindow(m)
    BY <1>1, OnChainFrame DEF IInv
  <1>3. \A m \in Nodes : seen[m] => seen'[m]
    BY <1>1 DEF IInv, TypeOK
  <1>4. TypeOK'
    BY <1>1, <1>2 DEF IInv, TypeOK, DanceInv
  <1>5. TipHeld' /\ SettledAged'
    BY <1>1, <1>2 DEF IInv, TipHeld, SettledAged
  <1>6. Reacted'
    BY <1>1, <1>2, <1>3, SymAssumption DEF IInv, Reacted, sym_replaces
  <1>7. Restarts'
    BY <1>1, <1>2, <1>3 DEF IInv, Restarts
  <1>8. QED
    BY <1>2, <1>4, <1>5, <1>6, <1>7 DEF IInv

(* The kickoff itself: no state stands yet. *)
LEMMA KickoffOK ==
    ASSUME IInv, Kickoff
    PROVE  IInv'
  <1>1. /\ UNCHANGED <<dance, symL, symR, symP>>
        /\ tip = Unspent /\ tip' = KO /\ age' = 0
        /\ seen' = seen /\ settled' = settled /\ after' = after
    BY DEF Kickoff
  <1>2. /\ DanceInv'
        /\ \A m \in Nodes : /\ sym_best(m)' = sym_best(m)
                            /\ held(m)' = held(m)
                            /\ FirstWindow(m)' = FirstWindow(m)
    BY <1>1, OnChainFrame DEF IInv
  <1>3. TypeOK'
    BY <1>1, <1>2, SymAssumption DEF IInv, TypeOK, DanceInv
  <1>4. TipHeld' /\ Reacted' /\ SettledAged'
    BY <1>1, SymAssumption
       DEF IInv, TipHeld, Reacted, SettledAged, KO, Unspent
  <1>5. ASSUME NEW m \in Nodes
        PROVE  after[m] = 0
    BY <1>1, BestFacts DEF IInv, Restarts, TypeOK, Unspent
  <1>6. Restarts'
    BY <1>1, <1>5 DEF Restarts
  <1>7. QED
    BY <1>2, <1>3, <1>4, <1>6 DEF IInv

(* A settlement, by whoever has it, waits for the delay. *)
LEMMA SettleOK ==
    ASSUME IInv, NEW n \in Nodes, NEW states, SettleBy(n, states)
    PROVE  IInv'
  <1>1. /\ UNCHANGED <<dance, symL, symR, symP>>
        /\ settled' = TRUE /\ age >= Delay /\ tip >= 0
        /\ seen' = seen /\ tip' = tip /\ age' = age /\ after' = after
    BY DEF SettleBy, settle_matures
  <1>2. /\ DanceInv'
        /\ \A m \in Nodes : /\ sym_best(m)' = sym_best(m)
                            /\ held(m)' = held(m)
                            /\ FirstWindow(m)' = FirstWindow(m)
    BY <1>1, OnChainFrame DEF IInv
  <1>3. TypeOK'
    BY <1>1, <1>2 DEF IInv, TypeOK, DanceInv
  <1>4. TipHeld' /\ SettledAged'
    BY <1>1, <1>2 DEF IInv, TipHeld, SettledAged
  <1>5. Reacted'
    BY <1>1, <1>2, SymAssumption DEF IInv, Reacted, sym_replaces
  <1>6. Restarts'
    BY <1>1, <1>2 DEF IInv, Restarts
  <1>7. QED
    BY <1>2, <1>3, <1>4, <1>5, <1>6 DEF IInv

(* A block: beyond React blocks the watching nodes have reacted. *)
LEMMA BlockOK ==
    ASSUME IInv, Block
    PROVE  IInv'
  <1>1. /\ UNCHANGED <<dance, symL, symR, symP>>
        /\ ~settled /\ age < Delay /\ age' = age + 1
        /\ \A n \in Watchers : age >= React => seen[n] /\ ~sym_replaces(n)
        /\ seen' = seen /\ tip' = tip /\ settled' = settled /\ after' = after
    BY DEF Block
  <1>2. /\ DanceInv'
        /\ \A m \in Nodes : /\ sym_best(m)' = sym_best(m)
                            /\ held(m)' = held(m)
                            /\ FirstWindow(m)' = FirstWindow(m)
    BY <1>1, OnChainFrame DEF IInv
  <1>3. TypeOK'
    BY <1>1, <1>2, SymAssumption DEF IInv, TypeOK, DanceInv
  <1>4. TipHeld' /\ SettledAged'
    BY <1>1, <1>2 DEF IInv, TipHeld, SettledAged
  <1>5. Reacted'
    <2>1. age' > React => age >= React
      BY <1>1, SymAssumption DEF IInv, TypeOK
    <2>2. QED
      BY <1>1, <1>2, <2>1, SymAssumption DEF Reacted, sym_replaces
  <1>6. Restarts'
    BY <1>1, <1>2 DEF IInv, Restarts
  <1>7. QED
    BY <1>2, <1>3, <1>4, <1>5, <1>6 DEF IInv

(* The invariant holds when the channel opens ... *)
LEMMA InitOK == Init => IInv
  <1>1. SUFFICES ASSUME Init PROVE IInv
    OBVIOUS
  <1>2. DanceTypeOK /\ IndicesAgree
    BY <1>1, DanceInitOK DEF Init
  <1>3. /\ \A n \in Nodes : sym_state_num(n, 0) \in Nat
        /\ \A n \in Nodes : sym_state_num(Peer(n), 0) \in Nat
    BY DEF sym_state_num
  <1>4. TypeOK
    <2>1. /\ symL \in [Nodes -> Nat]
          /\ symR \in [Nodes -> Nat \cup {NoState}]
          /\ symP \in [Nodes -> Nat \cup {NoState}]
      BY <1>1, <1>3 DEF Init
    <2>2. seen \in [Nodes -> BOOLEAN] /\ settled \in BOOLEAN
      BY <1>1, Zenon DEF Init
    <2>3. /\ tip \in Nat \cup {Unspent, KO}
          /\ age \in 0..Delay
          /\ after \in [Nodes -> Nat]
      BY <1>1, SymAssumption DEF Init
    <2>4. QED
      BY <1>2, <2>1, <2>2, <2>3 DEF TypeOK
  <1>5. SavedStates
    BY <1>1 DEF Init, DanceInit, SavedStates
  <1>6. TipHeld /\ Reacted /\ SettledAged
    BY <1>1, SymAssumption DEF Init, TipHeld, Reacted, SettledAged, Unspent
  <1>7. Restarts
    BY <1>1 DEF Init, Restarts
  <1>8. QED
    BY <1>2, <1>4, <1>5, <1>6, <1>7 DEF IInv, DanceInv

(* ... and every step keeps it. *)
LEMMA StepOK == IInv /\ [Next]_vars => IInv'
  <1>1. SUFFICES ASSUME IInv, [Next]_vars PROVE IInv'
    OBVIOUS
  <1>2. CASE OffChain
    BY <1>1, <1>2, OffChainOK
  <1>3. CASE Kickoff
    BY <1>1, <1>3, KickoffOK
  <1>4. CASE PublishHeld
    BY <1>1, <1>4, UpdateOK DEF PublishHeld
  <1>5. CASE HolderSettles
    BY <1>1, <1>5, SettleOK DEF HolderSettles
  <1>6. CASE Block
    BY <1>1, <1>6, BlockOK
  <1>7. ASSUME NEW n \in Nodes, handle_symmetric_close(n)
        PROVE  IInv'
    BY <1>1, <1>7, SeesCloseOK
  <1>8. ASSUME NEW n \in Nodes, sym_resolve_state(n)
        PROVE  IInv'
    BY <1>1, <1>8, UpdateOK, BestHeld DEF sym_resolve_state, IInv
  <1>9. ASSUME NEW n \in Nodes, sym_settle(n)
        PROVE  IInv'
    BY <1>1, <1>9, SettleOK DEF sym_settle
  <1>10. CASE UNCHANGED vars
    <2>1. /\ UNCHANGED <<dance, symL, symR, symP>>
          /\ UNCHANGED <<seen, tip, age, settled, after>>
      BY <1>10 DEF vars, onchain
    <2>2. QED
      BY <1>1, <2>1, OnChainFrame, SymAssumption
         DEF IInv, TypeOK, DanceInv, TipHeld, Reacted, SettledAged,
             Restarts, sym_replaces
  <1>11. QED
    BY <1>1, <1>2, <1>3, <1>4, <1>5, <1>6, <1>7, <1>8, <1>9, <1>10
       DEF Next, OnChain

(* The invariant of every behaviour, from which the theorems follow. *)
LEMMA Invariance == Spec => []IInv
  BY InitOK, StepOK, PTL DEF Spec

-----------------------------------------------------------------------------
(* The saves of symmetric.c and the game on chain change nothing in the     *)
(* dance: it goes on as in an ordinary channel.                             *)
THEOREM SymImplementsDance == Spec => DanceSpec
  <1>1. Init => DanceInit
    BY DEF Init
  <1>2. [Next]_vars => [DanceNext]_dance
    <2>1. SUFFICES ASSUME [Next]_vars PROVE DanceNext \/ UNCHANGED dance
      OBVIOUS
    <2>2. CASE OffChain
      BY <2>2 DEF OffChain, sending_commitsig, got_commitsig, got_revoke,
                  DanceNext
    <2>3. CASE OnChain
      BY <2>3 DEF OnChain, Kickoff, PublishHeld, HolderSettles, Block, Update,
                  SettleBy, handle_symmetric_close, sym_resolve_state,
                  sym_settle
    <2>4. CASE UNCHANGED vars
      BY <2>4 DEF vars
    <2>5. QED
      BY <2>1, <2>2, <2>3, <2>4 DEF Next
  <1>3. QED
    BY <1>1, <1>2, PTL DEF Spec, DanceSpec

(* So the two nodes' counters agree in a symmetric channel as well, while   *)
(* one of them may have left the dance for the chain.                       *)
THEOREM SymIndicesAgree == Spec => []IndicesAgree
  BY SymImplementsDance, DanceIndicesAgree, PTL

(* Type correctness of what symmetric.c saves and what the chain holds. *)
THEOREM TypeCorrect == Spec => []TypeOK
  <1>1. IInv => TypeOK
    BY DEF IInv
  <1>2. QED
    BY <1>1, Invariance, PTL

(* What a revoke_and_ack countersigns is what sym_remote_pending holds,     *)
(* whatever was lost and sent again.                                        *)
THEOREM Countersigned == Spec => []CountersignsPending
  <1>1. IInv => CountersignsPending
    BY PendingCountersigned DEF IInv
  <1>2. QED
    BY <1>1, Invariance, PTL

(* sym_best_state() is above every state the node ever saw revoked.         *)
THEOREM AlwaysHoldsNewer == Spec => []HoldsNewer
  <1>1. IInv => HoldsNewer
    BY RevokedBelowBest DEF IInv
  <1>2. QED
    BY <1>1, Invariance, PTL

(* The promise of the symmetric channel: if React < Delay, no settlement of *)
(* a revoked state is ever mined against a node that watches.               *)
THEOREM RevokedNeverSettles == Spec => []SettledNotRevoked
  <1>1. IInv => SettledNotRevoked
    <2>1. SUFFICES ASSUME IInv, settled, NEW n \in Watchers,
                          tip \in Revoked(n)
                   PROVE  FALSE
      BY DEF SettledNotRevoked
    <2>2. n \in Nodes /\ age > React
      BY <2>1, SymAssumption DEF IInv, TypeOK, SettledAged
    <2>3. ~(tip < sym_best(n))
      BY <2>1, <2>2 DEF IInv, Reacted, sym_replaces
    <2>4. tip < sym_best(n)
      BY <2>1, <2>2, RevokedBelowBest DEF IInv, HoldsNewer
    <2>5. QED
      BY <2>3, <2>4
  <1>2. QED
    BY <1>1, Invariance, PTL

(* onchaind knows the settlement of whatever it cannot replace, but for the *)
(* peer's first state before the peer's first revocation.                   *)
THEOREM SettlementKnown == Spec => []KnowsSettlement
  <1>1. IInv => KnowsSettlement
    BY KnowsWhatStands DEF IInv
  <1>2. QED
    BY <1>1, Invariance, PTL

(* The delay of sym_htlc_margin() starts again once, or twice before the    *)
(* peer's first revocation, and never more often.                           *)
THEOREM RestartBound == Spec => []RestartsBounded
  <1>1. IInv => RestartsBounded
    <2>1. SUFFICES ASSUME IInv, NEW n \in Nodes
                   PROVE  after[n] <= IF FirstWindow(n) THEN 2 ELSE 1
      BY DEF RestartsBounded
    <2>2. /\ after[n] \in Nat /\ after[n] <= 2
          /\ after[n] = 2 => FirstWindow(n)
      BY <2>1 DEF IInv, TypeOK, Restarts
    <2>3. QED
      BY <2>2
  <1>2. QED
    BY <1>1, Invariance, PTL

-----------------------------------------------------------------------------
(* Depths told and depths believed are depths in lightningd's view of the   *)
(* chain, for any transactions, blocks and reorgs, whenever they strike and *)
(* whatever branch comes back.                                              *)

(* A chain whose blocks name their predecessors and hold a transaction once. *)
Linked(c) == \A h \in 1..Len(c) : c[h].prev = IF h = 1 THEN 0 ELSE c[h - 1].fork
OnceEach(c) == \A g, h \in 1..Len(c) : g # h => c[g].txs \cap c[h].txs = {}

TopologyTypeOK ==
    /\ past \subseteq Seq(Blocks) /\ prev_tip \in Seq(Blocks)
    /\ fork \in 0..MaxForks
    /\ asking \in BOOLEAN
    /\ height \in [Txs -> Nat] /\ told \in [Txs -> Int]
    /\ undone \subseteq Txs /\ depth \in Int

(* Whatever chain the node had it also had cut short; a block of the branch *)
(* being mined is in the chain.                                             *)
ChainSound(c) ==
    /\ Linked(c) /\ OnceEach(c)
    /\ \A n \in 0..Len(c) : SubSeq(c, 1, n) \in past
    /\ \A h \in 1..Len(c) :
         /\ c[h].fork <= fork
         /\ c[h].fork = fork => h <= Len(chain) /\ chain[h].fork = fork

(* A block hash tells the whole branch below it. *)
SameBelow(c, d) ==
    \A h \in 1..Len(c) :
        h <= Len(d) /\ c[h].fork = d[h].fork => \A g \in 1..h : c[g] = d[g]

(* What lightningd has seen is a chain that the node has had. *)
PastSound ==
    /\ chain \in past /\ view \in past
    /\ \A c \in past : ChainSound(c)
    /\ \A c, d \in past : SameBelow(c, d)

(* transactions.blockheight is the height in the view. *)
HeightsRight ==
    \A t \in Txs :
        /\ height[t] # 0 => height[t] \in 1..Len(view) /\ t \in view[height[t]].txs
        /\ \A h \in 1..Len(view) : t \in view[h].txs => height[t] = h
        /\ told[t] > 0 => height[t] # 0

(* The depths told at the last new tip stand, but for what has been kicked  *)
(* out since; that has been told 0.                                         *)
SinceUpdate ==
    /\ ~asking => prev_tip = view
    /\ \A t \in undone : told[t] = 0
    /\ \A h \in 1..Len(prev_tip) : \A t \in prev_tip[h].txs \ undone :
         told[t] = Len(prev_tip) + 1 - h

(* The channel watches the block with its funding until it is deep enough.  *)
FundingWatched ==
    /\ fault = "none"
    /\ bwatch \subseteq {h \in 1..Len(view) : Funding \in view[h].txs}
    /\ depth > 0 /\ depth < Announce => bwatch # {}

TopologyInv ==
    /\ TopologyTypeOK
    /\ PastSound
    /\ HeightsRight
    /\ SinceUpdate
    /\ FundingWatched

-----------------------------------------------------------------------------
(* The tip of a chain, by its height. *)
LEMMA TipFacts ==
    ASSUME NEW c \in Seq(Blocks)
    PROVE  TipFork(c) = IF Len(c) = 0 THEN 0 ELSE c[Len(c)].fork
  BY DEF TipFork, Last

(* Blocks and what they hold. *)
LEMMA BlockFacts ==
    ASSUME NEW b \in Blocks
    PROVE  b.txs \subseteq Txs /\ b.fork \in Nat /\ b.prev \in Nat
  BY DEF Blocks

(* A chain that grows by a block. *)
LEMMA GrowFacts ==
    ASSUME NEW c \in Seq(Blocks), NEW b \in Blocks
    PROVE  /\ Append(c, b) \in Seq(Blocks)
           /\ Len(c) \in Nat /\ Len(Append(c, b)) = Len(c) + 1
           /\ \A h \in 1..Len(c) : Append(c, b)[h] = c[h] /\ c[h] \in Blocks
           /\ Append(c, b)[Len(c) + 1] = b
  OBVIOUS

(* A chain that loses its top. *)
LEMMA CutFacts ==
    ASSUME NEW c \in Seq(Blocks), NEW n \in 0..Len(c)
    PROVE  /\ SubSeq(c, 1, n) \in Seq(Blocks)
           /\ Len(c) \in Nat /\ Len(SubSeq(c, 1, n)) = n
           /\ \A h \in 1..n : SubSeq(c, 1, n)[h] = c[h] /\ h \in 1..Len(c)
  OBVIOUS

(* Chains with the same blocks are the same chain. *)
LEMMA SameChain ==
    ASSUME NEW c \in Seq(Blocks), NEW d \in Seq(Blocks), Len(c) = Len(d),
           \A h \in 1..Len(c) : c[h] = d[h]
    PROVE  c = d
  OBVIOUS

(* Mined(c) is what its blocks hold. *)
LEMMA MinedFacts ==
    ASSUME NEW c, NEW t
    PROVE  t \in Mined(c) <=> \E h \in 1..Len(c) : t \in c[h].txs
  BY DEF Mined

(* Nothing is known at first. *)
LEMMA TopologyInitOK == TopologyInit => TopologyInv
  <1>1. SUFFICES ASSUME TopologyInit PROVE TopologyInv
    OBVIOUS
  <1> USE <1>1 DEF TopologyInit
  <1>2. TopologyTypeOK
    <2>1. <<>> \in Seq(Blocks) /\ 0 \in 0..MaxForks /\ -1 \in Int /\ 0 \in Int
      BY TopologyAssumption
    <2>2. QED
      BY <2>1 DEF TopologyTypeOK
  <1>3. PastSound
    <2>1. SubSeq(<<>>, 1, 0) = <<>> /\ Len(<<>>) = 0
      OBVIOUS
    <2>2. QED
      BY <2>1 DEF PastSound, ChainSound, SameBelow, Linked, OnceEach
  <1>4. HeightsRight /\ SinceUpdate /\ FundingWatched
    BY DEF HeightsRight, SinceUpdate, FundingWatched
  <1>5. QED
    BY <1>2, <1>3, <1>4 DEF TopologyInv

(* Nothing that matters changes. *)
LEMMA TopologyUnchanged ==
    ASSUME TopologyInv, UNCHANGED <<node, view, prev_tip, watches>>,
           asking' \in BOOLEAN, ~asking' => ~asking
    PROVE  TopologyInv'
  <1> USE DEF node, watches, TopologyInv
  <1>1. TopologyTypeOK' /\ HeightsRight'
    BY DEF TopologyTypeOK, HeightsRight
  <1>2. PastSound'
    BY DEF PastSound, ChainSound, SameBelow
  <1>3. SinceUpdate' /\ FundingWatched'
    BY DEF SinceUpdate, FundingWatched
  <1>4. QED
    BY <1>1, <1>2, <1>3

(* The node mines a block: one of the newest branch. *)
LEMMA MineOK ==
    ASSUME TopologyInv, Mine
    PROVE  TopologyInv'
  <1>0. PICK b \in Blocks : /\ b.txs \cap Mined(chain) = {}
                            /\ b.fork = fork /\ b.prev = TipFork(chain)
                            /\ chain' = Append(chain, b)
    BY DEF Mine
  <1>1. /\ UNCHANGED <<fork, view, asking, prev_tip, watches>>
        /\ past' = past \cup {chain'}
    BY DEF Mine
  <1> DEFINE n == Len(chain)
  <1>2. /\ chain \in past /\ chain \in Seq(Blocks)
        /\ chain' \in Seq(Blocks) /\ n \in Nat /\ Len(chain') = n + 1
        /\ \A h \in 1..n : chain'[h] = chain[h] /\ chain[h] \in Blocks
        /\ chain'[n + 1] = b
    BY <1>0, GrowFacts DEF TopologyInv, TopologyTypeOK, PastSound
  <1>3. /\ b.prev = IF n = 0 THEN 0 ELSE chain[n].fork
        /\ \A h \in 1..n : b.txs \cap chain[h].txs = {}
    BY <1>0, <1>2, TipFacts, MinedFacts
  <1> HIDE DEF n
  <1>4. fork \in Nat /\ \A c \in past : ChainSound(c) /\ Len(c) \in Nat
    BY DEF TopologyInv, TopologyTypeOK, PastSound
  <1>5. TopologyTypeOK'
    BY <1>1, <1>2 DEF TopologyInv, TopologyTypeOK, watches
  <1>6. ASSUME NEW c \in past PROVE ChainSound(c)'
    <2>1. ChainSound(c)
      BY <1>4
    <2>2. \A h \in 1..n : h <= n /\ h <= n + 1 /\ chain'[h].fork = chain[h].fork
      BY <1>2
    <2>3. ASSUME NEW h \in 1..Len(c), c[h].fork = fork
          PROVE  h <= n + 1 /\ chain'[h].fork = fork
      <3>1. h <= n /\ chain[h].fork = fork /\ h \in Nat /\ 1 <= h
        BY <2>1, <2>3 DEF ChainSound, n
      <3>2. h \in 1..n
        BY <1>2, <3>1
      <3>3. QED
        BY <2>2, <3>1, <3>2
    <2>4. QED
      BY <1>1, <1>2, <2>1, <2>3 DEF ChainSound
  <1>7. ASSUME NEW c, c = chain' PROVE ChainSound(c)'
    <2>1. Linked(chain) /\ OnceEach(chain) /\ \A h \in 1..n : chain[h].fork <= fork
      BY <1>2, <1>4 DEF ChainSound, n
    <2>2. Linked(chain')
      <3>1. ASSUME NEW h \in 1..(n + 1)
            PROVE  chain'[h].prev = IF h = 1 THEN 0 ELSE chain'[h - 1].fork
        <4>1. h # 1 => h - 1 \in 1..n /\ chain'[h - 1] = chain[h - 1]
          BY <1>2
        <4>2. CASE h = n + 1
          <5>1. h - 1 = n
            BY <1>2, <4>2
          <5>2. QED
            BY <1>2, <1>3, <4>1, <4>2, <5>1
        <4>3. CASE h \in 1..n
          BY <1>2, <2>1, <4>1, <4>3 DEF Linked, n
        <4>4. QED
          BY <1>2, <4>2, <4>3
      <3>2. QED
        BY <1>2, <3>1 DEF Linked
    <2>3. OnceEach(chain')
      BY <1>2, <1>3, <2>1 DEF OnceEach, n
    <2>4. \A h \in 1..(n + 1) : chain'[h].fork <= fork'
      <3>1. fork' = fork
        BY <1>1
      <3>2. QED
        BY <1>0, <1>2, <1>4, <2>1, <3>1
    <2>5. ASSUME NEW k \in 0..(n + 1) PROVE SubSeq(chain', 1, k) \in past'
      <3>1. /\ SubSeq(chain', 1, k) \in Seq(Blocks) /\ Len(SubSeq(chain', 1, k)) = k
            /\ \A h \in 1..k : SubSeq(chain', 1, k)[h] = chain'[h]
        BY <1>2, CutFacts
      <3>2. CASE k = n + 1
        <4>1. SubSeq(chain', 1, k) = chain'
          BY <1>2, <3>1, <3>2, SameChain
        <4>2. QED
          BY <1>1, <4>1
      <3>3. CASE k # n + 1
        <4>1. k \in 0..n /\ \A h \in 1..k : h \in 1..n
          BY <1>2, <3>3
        <4>2. /\ SubSeq(chain, 1, k) \in Seq(Blocks) /\ Len(SubSeq(chain, 1, k)) = k
              /\ \A h \in 1..k : SubSeq(chain, 1, k)[h] = chain[h]
          BY <1>2, <4>1, CutFacts DEF n
        <4>3. \A h \in 1..k : SubSeq(chain', 1, k)[h] = SubSeq(chain, 1, k)[h]
          BY <1>2, <3>1, <4>1, <4>2
        <4>4. SubSeq(chain', 1, k) = SubSeq(chain, 1, k)
          BY <3>1, <4>2, <4>3, SameChain
        <4>5. SubSeq(chain, 1, k) \in past
          BY <1>2, <1>4, <4>1 DEF ChainSound, n
        <4>6. QED
          BY <1>1, <4>4, <4>5
      <3>4. QED
        BY <3>2, <3>3
    <2>6. QED
      BY <1>1, <1>2, <1>7, <2>2, <2>3, <2>4, <2>5 DEF ChainSound
  <1>8. ASSUME NEW c \in past PROVE SameBelow(c, chain') /\ SameBelow(chain', c)
    <2>1. SameBelow(c, chain) /\ ChainSound(c)
      BY <1>2, <1>4 DEF TopologyInv, PastSound
    <2>2. ASSUME NEW h \in 1..Len(c), h <= n + 1, c[h].fork = chain'[h].fork
          PROVE  \A g \in 1..h : c[g] = chain'[g]
      <3>1. h \in Nat /\ 1 <= h /\ h # n + 1
        <4>1. h \in Nat /\ 1 <= h
          BY <1>4
        <4>2. h = n + 1 => c[h].fork = fork
          BY <1>0, <1>2, <2>2
        <4>3. c[h].fork = fork => h <= n
          BY <2>1 DEF ChainSound, n
        <4>4. QED
          BY <1>2, <4>1, <4>2, <4>3
      <3>2. h \in 1..n /\ \A g \in 1..h : g \in 1..n
        BY <1>2, <2>2, <3>1
      <3>3. \A g \in 1..h : c[g] = chain[g]
        BY <1>2, <2>1, <2>2, <3>2 DEF SameBelow, n
      <3>4. QED
        BY <1>2, <3>2, <3>3
    <2>3. SameBelow(c, chain')
      BY <1>2, <2>2 DEF SameBelow
    <2>4. \A h \in 1..(n + 1) : h <= Len(c) => h \in 1..Len(c) /\ h <= n + 1
      BY <1>2, <1>4
    <2>5. SameBelow(chain', c)
      BY <1>2, <2>2, <2>4 DEF SameBelow
    <2>6. QED
      BY <2>3, <2>5
  <1>9. PastSound'
    <2>1. \A c \in past' : ChainSound(c)'
      BY <1>1, <1>6, <1>7
    <2>2. SameBelow(chain', chain')
      BY DEF SameBelow
    <2>3. \A c, d \in past : SameBelow(c, d)
      BY DEF TopologyInv, PastSound
    <2>4. \A c, d \in past' : SameBelow(c, d)
      BY <1>1, <1>8, <2>2, <2>3
    <2>5. chain' \in past' /\ view' \in past'
      BY <1>1 DEF TopologyInv, PastSound
    <2>6. QED
      BY <2>1, <2>4, <2>5 DEF PastSound, SameBelow
  <1>10. HeightsRight' /\ FundingWatched'
    BY <1>1 DEF TopologyInv, HeightsRight, FundingWatched, watches
  <1>11. SinceUpdate'
    BY <1>1 DEF TopologyInv, SinceUpdate, watches
  <1>12. QED
    BY <1>5, <1>9, <1>10, <1>11 DEF TopologyInv

(* An anchor is orphaned or comes back: the next blocks are of a branch of  *)
(* their own.                                                               *)
LEMMA ReorgOK ==
    ASSUME TopologyInv, Reorg
    PROVE  TopologyInv'
  <1>1. /\ fork < MaxForks /\ fork' = fork + 1 /\ chain' \in past
        /\ UNCHANGED <<past, view, asking, prev_tip, watches>>
    BY DEF Reorg
  <1>2. fork \in Nat /\ fork' \in 0..MaxForks
    BY <1>1, TopologyAssumption DEF TopologyInv, TopologyTypeOK
  <1>3. TopologyTypeOK'
    BY <1>1, <1>2 DEF TopologyInv, TopologyTypeOK, watches
  <1>4. PastSound'
    <2>1. ASSUME NEW c \in past PROVE ChainSound(c)'
      <3>1. \A h \in 1..Len(c) : c[h].fork \in Nat
        BY BlockFacts DEF TopologyInv, TopologyTypeOK
      <3>2. ChainSound(c)
        BY DEF TopologyInv, PastSound
      <3>3. \A h \in 1..Len(c) : c[h].fork <= fork' /\ c[h].fork # fork'
        BY <1>1, <1>2, <3>1, <3>2 DEF ChainSound
      <3>4. QED
        BY <1>1, <3>2, <3>3 DEF ChainSound
    <2>2. QED
      BY <1>1, <2>1 DEF TopologyInv, PastSound, SameBelow
  <1>5. HeightsRight' /\ FundingWatched' /\ SinceUpdate'
    BY <1>1 DEF TopologyInv, HeightsRight, FundingWatched, SinceUpdate, watches
  <1>6. QED
    BY <1>3, <1>4, <1>5 DEF TopologyInv

-----------------------------------------------------------------------------
(* updates_complete(): every watch is told the depth in the view, or the    *)
(* tip is the one last announced and nothing is told.                       *)
LEMMA UpdatesCompleteOK ==
    ASSUME TopologyInv, updates_complete
    PROVE  TopologyInv'
  <1>0. /\ asking' = FALSE /\ prev_tip' = view
        /\ UNCHANGED <<chain, fork, past, view, height>>
        /\ IF prev_tip = view THEN UNCHANGED <<told, undone, bwatch, depth, fault>>
           ELSE /\ watch_check_block_added
                /\ told' = [t \in Txs |-> txw_fire(t)]
                /\ undone' = {}
    BY DEF updates_complete, node
  <1> DEFINE n == Len(view)
  <1>1. /\ n \in Nat /\ view \in Seq(Blocks)
        /\ \A h \in 1..n : view[h] \in Blocks /\ view[h].txs \subseteq Txs
    BY BlockFacts DEF TopologyInv, TopologyTypeOK, PastSound
  <1>2. /\ fault = "none"
        /\ bwatch \subseteq {h \in 1..n : Funding \in view[h].txs}
        /\ depth > 0 /\ depth < Announce => bwatch # {}
        /\ depth \in Int /\ Announce \in Nat
    BY TopologyAssumption DEF TopologyInv, FundingWatched, TopologyTypeOK
  <1>3. PastSound'
    BY <1>0 DEF TopologyInv, PastSound, ChainSound, SameBelow
  <1>4. CASE prev_tip = view
    <2>1. TopologyTypeOK' /\ SinceUpdate'
      BY <1>0, <1>4 DEF TopologyInv, TopologyTypeOK, SinceUpdate
    <2>2. HeightsRight' /\ FundingWatched'
      BY <1>0, <1>4 DEF TopologyInv, HeightsRight, FundingWatched
    <2>3. QED
      BY <1>3, <2>1, <2>2 DEF TopologyInv
  <1>5. CASE prev_tip # view
    <2>1. /\ fault' = IF \E h \in bwatch : h > n THEN "future" ELSE fault
          /\ depth' = IF bwatch = {} THEN depth ELSE n + 1 - CHOOSE h \in bwatch : TRUE
          /\ bwatch' = {h \in bwatch : n - h + 1 < Announce}
          /\ told' = [t \in Txs |-> IF get_tx_depth(t) # 0 THEN get_tx_depth(t) ELSE told[t]]
      BY <1>0, <1>5 DEF watch_check_block_added, txw_fire
    <2>2. ASSUME NEW t \in Txs
          PROVE  /\ told'[t] \in Int
                 /\ height[t] # 0 => told'[t] = n + 1 - height[t]
                 /\ told'[t] > 0 => height[t] # 0
      <3>1. height[t] \in Nat /\ told[t] \in Int
        BY DEF TopologyInv, TopologyTypeOK
      <3>2. /\ height[t] # 0 => height[t] \in 1..n
            /\ told[t] > 0 => height[t] # 0
        BY DEF TopologyInv, HeightsRight
      <3>3. told'[t] = IF get_tx_depth(t) # 0 THEN get_tx_depth(t) ELSE told[t]
        BY <2>1
      <3> HIDE DEF n
      <3>4. get_tx_depth(t) = IF height[t] = 0 THEN 0 ELSE n - height[t] + 1
        BY DEF get_tx_depth, n
      <3>5. QED
        BY <1>1, <3>1, <3>2, <3>3, <3>4
    <2> HIDE DEF n
    <2>3. /\ \A h \in bwatch : h \in Nat /\ 1 <= h /\ h <= n
          /\ \A h \in bwatch' : h \in bwatch
          /\ \A h \in bwatch : n - h + 1 < Announce => h \in bwatch'
      <3>1. \A h \in bwatch : h \in 1..n
        BY <1>2
      <3>2. \A h \in 1..n : h \in Nat /\ 1 <= h /\ h <= n
        BY <1>1
      <3>3. bwatch' = {h \in bwatch : n - h + 1 < Announce}
        BY <2>1
      <3>4. QED
        BY <3>1, <3>2, <3>3
    <2>4. /\ fault' = "none" /\ depth' \in Int
          /\ bwatch' \subseteq {h \in 1..n : Funding \in view[h].txs}
          /\ depth' > 0 /\ depth' < Announce => bwatch' # {}
      <3>1. fault' = "none"
        <4>1. ~\E h \in bwatch : h > n
          BY <1>1, <2>3
        <4>2. QED
          BY <1>2, <2>1, <4>1
      <3>2. CASE bwatch = {}
        BY <1>2, <2>1, <3>1, <3>2
      <3>3. CASE bwatch # {}
        <4> DEFINE w == CHOOSE h \in bwatch : TRUE
        <4>1. w \in bwatch /\ depth' = n + 1 - w
          BY <2>1, <3>3
        <4> HIDE DEF w
        <4>2. w \in Nat /\ 1 <= w /\ w <= n
          BY <2>3, <4>1
        <4>3. depth' \in Int /\ depth' = n - w + 1
          BY <1>1, <4>1, <4>2
        <4>4. depth' < Announce => w \in bwatch'
          BY <2>3, <4>1, <4>3
        <4>5. bwatch' \subseteq {h \in 1..n : Funding \in view[h].txs}
          BY <1>2, <2>3
        <4>6. QED
          BY <3>1, <4>3, <4>4, <4>5
      <3>4. QED
        BY <3>2, <3>3
    <2>5. TopologyTypeOK'
      <3>1. told' \in [Txs -> Int]
        BY <2>1, <2>2
      <3>2. QED
        BY <1>0, <1>1, <1>5, <2>4, <3>1 DEF TopologyInv, TopologyTypeOK
    <2>6. HeightsRight'
      BY <1>0, <2>2 DEF TopologyInv, HeightsRight
    <2>7. SinceUpdate'
      <3>1. ASSUME NEW h \in 1..n, NEW t \in view[h].txs
            PROVE  told'[t] = n + 1 - h
        <4>1. t \in Txs
          BY <1>1
        <4>2. height[t] = h
          BY <4>1 DEF TopologyInv, HeightsRight, n
        <4>3. h # 0
          BY <1>1
        <4>4. QED
          BY <2>2, <4>1, <4>2, <4>3
      <3>2. undone' = {}
        BY <1>0, <1>5
      <3>3. QED
        BY <1>0, <3>1, <3>2 DEF SinceUpdate, n
    <2>8. FundingWatched'
      BY <1>0, <2>4 DEF FundingWatched, n
    <2>9. QED
      BY <1>3, <2>5, <2>6, <2>7, <2>8 DEF TopologyInv
  <1>6. QED
    BY <1>4, <1>5

(* add_tip(): the block follows the view's tip, so it and the view are the  *)
(* chain up to it.                                                          *)
LEMMA AddTipOK ==
    ASSUME TopologyInv, asking, Len(view) + 1 <= Len(chain), prev_hash_matches,
           add_tip(chain[Len(view) + 1]),
           UNCHANGED <<node, asking, prev_tip>>
    PROVE  TopologyInv'
  <1> DEFINE n == Len(view)
             b == chain[n + 1]
  <1>0. /\ view' = Append(view, b)
        /\ height' = [t \in Txs |-> IF t \in b.txs THEN n + 1 ELSE height[t]]
        /\ bwatch' = IF Funding \in b.txs THEN bwatch \cup {n + 1} ELSE bwatch
        /\ UNCHANGED <<told, undone, depth, fault>>
        /\ UNCHANGED <<chain, fork, past>>
    BY DEF add_tip, node
  <1>1. /\ n \in Nat /\ Len(chain) \in Nat /\ n + 1 \in 1..Len(chain) /\ b \in Blocks
        /\ chain \in Seq(Blocks) /\ view \in Seq(Blocks)
        /\ Linked(chain) /\ OnceEach(chain) /\ SameBelow(view, chain)
    BY DEF TopologyInv, TopologyTypeOK, PastSound, ChainSound
  <1>2. /\ view' \in Seq(Blocks) /\ Len(view') = n + 1
        /\ \A h \in 1..n : view'[h] = view[h] /\ view[h] \in Blocks
        /\ view'[n + 1] = b
    BY <1>0, <1>1, GrowFacts
  <1>3. \A h \in 1..n : view[h] = chain[h]
    <2>1. CASE n = 0
      BY <2>1
    <2>2. CASE n # 0
      <3>1. b.prev = view[n].fork
        BY <1>1, <2>2, TipFacts DEF prev_hash_matches
      <3>2. b.prev = chain[n].fork
        <4>1. (n + 1) - 1 = n /\ n + 1 # 1
          BY <1>1, <2>2
        <4>2. QED
          BY <1>1, <4>1 DEF Linked
      <3>3. n \in 1..n /\ n <= Len(chain)
        BY <1>1, <2>2
      <3>4. QED
        BY <1>1, <3>1, <3>2, <3>3 DEF SameBelow
    <2>3. QED
      BY <2>1, <2>2
  <1>4. \A h \in 1..(n + 1) : view'[h] = chain[h] /\ h \in 1..Len(chain)
    BY <1>1, <1>2, <1>3
  <1>5. TopologyTypeOK'
    BY <1>0, <1>1, <1>2 DEF TopologyInv, TopologyTypeOK
  <1> HIDE DEF n, b
  <1>6. view' \in past
    <2>1. n + 1 \in 0..Len(chain)
      BY <1>1
    <2>2. /\ SubSeq(chain, 1, n + 1) \in Seq(Blocks)
          /\ Len(SubSeq(chain, 1, n + 1)) = n + 1
          /\ \A h \in 1..(n + 1) : SubSeq(chain, 1, n + 1)[h] = chain[h]
      BY <1>1, <2>1, CutFacts
    <2>3. view' = SubSeq(chain, 1, n + 1)
      BY <1>2, <1>4, <2>2, SameChain
    <2>4. QED
      BY <2>1, <2>3 DEF TopologyInv, PastSound, ChainSound
  <1>7. PastSound'
    BY <1>0, <1>6 DEF TopologyInv, PastSound, ChainSound, SameBelow
  <1>8. HeightsRight'
    <2>1. ASSUME NEW t \in Txs
          PROVE  /\ height'[t] # 0 => height'[t] \in 1..(n + 1) /\ t \in view'[height'[t]].txs
                 /\ \A h \in 1..(n + 1) : t \in view'[h].txs => height'[t] = h
                 /\ told'[t] > 0 => height'[t] # 0
      <3>1. /\ height[t] # 0 => height[t] \in 1..n /\ t \in view[height[t]].txs
            /\ \A h \in 1..n : t \in view[h].txs => height[t] = h
            /\ told[t] > 0 => height[t] # 0
        BY DEF TopologyInv, HeightsRight, n
      <3>2. CASE t \in b.txs
        <4>1. \A h \in 1..n : t \notin view[h].txs
          BY <1>1, <1>3, <1>4, <3>2 DEF OnceEach, b
        <4>2. height'[t] = n + 1
          BY <1>0, <3>2
        <4>3. QED
          BY <1>1, <1>2, <3>2, <4>1, <4>2
      <3>3. CASE t \notin b.txs
        <4>1. height'[t] = height[t] /\ told'[t] = told[t]
          BY <1>0, <3>3
        <4>2. n \in Nat /\ n + 1 \in 1..(n + 1) /\ \A h \in 1..n : h \in 1..(n + 1)
          BY <1>1
        <4>3. \A h \in 1..(n + 1) : t \in view'[h].txs => height'[t] = h
          BY <1>2, <3>1, <3>3, <4>1, <4>2
        <4>4. QED
          BY <1>2, <3>1, <4>1, <4>2, <4>3
      <3>4. QED
        BY <3>2, <3>3
    <2>2. QED
      BY <1>2, <2>1 DEF HeightsRight
  <1>9. SinceUpdate'
    BY <1>0 DEF TopologyInv, SinceUpdate
  <1>10. FundingWatched'
    <2>1. /\ bwatch \subseteq {h \in 1..n : Funding \in view[h].txs}
          /\ depth > 0 /\ depth < Announce => bwatch # {}
          /\ fault = "none"
      BY DEF TopologyInv, FundingWatched, n
    <2>2. bwatch' \subseteq {h \in 1..(n + 1) : Funding \in view'[h].txs}
      BY <1>0, <1>1, <1>2, <2>1
    <2>3. QED
      BY <1>0, <1>2, <2>1, <2>2 DEF FundingWatched
  <1>11. QED
    BY <1>5, <1>7, <1>8, <1>9, <1>10 DEF TopologyInv

(* remove_tip(): what the block had is told 0 and counts as undone. *)
LEMMA RemoveTipOK ==
    ASSUME TopologyInv, asking, Len(view) + 1 <= Len(chain), ~prev_hash_matches,
           remove_tip,
           UNCHANGED <<node, asking, prev_tip>>
    PROVE  TopologyInv'
  <1> DEFINE n == Len(view)
  <1>0. /\ view' = SubSeq(view, 1, n - 1)
        /\ told' = [t \in Txs |-> IF height[t] = n THEN 0 ELSE told[t]]
        /\ height' = [t \in Txs |-> IF height[t] = n THEN 0 ELSE height[t]]
        /\ depth' = IF n \in bwatch THEN 0 ELSE depth
        /\ bwatch' = bwatch \ {n}
        /\ fault' = fault
        /\ undone' = undone \cup {t \in Txs : height[t] = n}
        /\ UNCHANGED <<chain, fork, past>>
    BY DEF node, remove_tip, kicked_out, wallet_block_remove, watch_check_block_removed, Front
  <1>1. /\ n \in Nat /\ Len(chain) \in Nat /\ n + 1 \in 1..Len(chain)
        /\ view \in Seq(Blocks) /\ Linked(chain)
    BY DEF TopologyInv, TopologyTypeOK, PastSound, ChainSound
  <1>2. n # 0
    <2>1. TipFork(view) = IF n = 0 THEN 0 ELSE view[n].fork
      BY <1>1, TipFacts
    <2>2. chain[n + 1].prev = IF n = 0 THEN 0 ELSE chain[n].fork
      <3>1. (n + 1) - 1 = n /\ (n + 1 = 1 <=> n = 0)
        BY <1>1
      <3>2. QED
        BY <1>1, <3>1 DEF Linked
    <2>3. QED
      BY <2>1, <2>2 DEF prev_hash_matches
  <1>3. /\ view' \in Seq(Blocks) /\ Len(view') = n - 1 /\ n - 1 \in Nat
        /\ \A h \in 1..(n - 1) : view'[h] = view[h] /\ h \in 1..n
        /\ n \in 1..n
    <2>1. n - 1 \in 0..Len(view)
      BY <1>1, <1>2
    <2>2. /\ SubSeq(view, 1, n - 1) \in Seq(Blocks) /\ Len(SubSeq(view, 1, n - 1)) = n - 1
          /\ \A h \in 1..(n - 1) : SubSeq(view, 1, n - 1)[h] = view[h]
      BY <1>1, <2>1, CutFacts
    <2>3. n - 1 \in Nat /\ n \in 1..n /\ \A h \in 1..(n - 1) : h \in 1..n
      BY <1>1, <1>2
    <2>4. QED
      BY <1>0, <2>2, <2>3
  <1>4. view' \in past
    BY <1>0, <1>1, <1>2 DEF TopologyInv, PastSound, ChainSound
  <1> HIDE DEF n
  <1>5. TopologyTypeOK'
    <2>1. depth' \in Int
      BY <1>0 DEF TopologyInv, TopologyTypeOK
    <2>2. told' \in [Txs -> Int] /\ height' \in [Txs -> Nat]
      BY <1>0 DEF TopologyInv, TopologyTypeOK
    <2>3. undone' \subseteq Txs
      BY <1>0 DEF TopologyInv, TopologyTypeOK
    <2>4. QED
      BY <1>0, <2>1, <2>2, <2>3 DEF TopologyInv, TopologyTypeOK
  <1>7. PastSound'
    BY <1>0, <1>4 DEF TopologyInv, PastSound, ChainSound, SameBelow
  <1>8. HeightsRight'
    <2>1. ASSUME NEW t \in Txs
          PROVE  /\ height'[t] # 0 => height'[t] \in 1..(n - 1) /\ t \in view'[height'[t]].txs
                 /\ \A h \in 1..(n - 1) : t \in view'[h].txs => height'[t] = h
                 /\ told'[t] > 0 => height'[t] # 0
      <3>1. /\ height[t] # 0 => height[t] \in 1..n /\ t \in view[height[t]].txs
            /\ \A h \in 1..n : t \in view[h].txs => height[t] = h
            /\ told[t] > 0 => height[t] # 0
        BY DEF TopologyInv, HeightsRight, n
      <3>2. CASE height[t] = n
        <4>1. height'[t] = 0 /\ told'[t] = 0
          BY <1>0, <3>2
        <4>2. \A h \in 1..(n - 1) : h # n
          BY <1>3
        <4>3. QED
          BY <1>3, <3>1, <3>2, <4>1, <4>2
      <3>3. CASE height[t] # n
        <4>1. height'[t] = height[t] /\ told'[t] = told[t]
          BY <1>0, <3>3
        <4>2. height[t] # 0 => height[t] \in 1..(n - 1)
          BY <1>1, <3>1, <3>3
        <4>3. QED
          BY <1>3, <3>1, <4>1, <4>2
      <3>4. QED
        BY <3>2, <3>3
    <2>2. QED
      BY <1>3, <2>1 DEF HeightsRight
  <1>9. SinceUpdate'
    <2>1. /\ \A t \in undone : told[t] = 0
          /\ \A h \in 1..Len(prev_tip) : \A t \in prev_tip[h].txs \ undone :
               told[t] = Len(prev_tip) + 1 - h
          /\ \A h \in 1..Len(prev_tip) : prev_tip[h].txs \subseteq Txs
      BY BlockFacts DEF TopologyInv, SinceUpdate, TopologyTypeOK
    <2>2. \A t \in Txs : /\ t \in undone => told'[t] = 0
                         /\ t \in undone' \ undone => told'[t] = 0
                         /\ t \notin undone' => told'[t] = told[t]
      BY <1>0, <2>1
    <2>3. undone \subseteq Txs
      BY DEF TopologyInv, TopologyTypeOK
    <2>4. QED
      BY <1>0, <2>1, <2>2, <2>3 DEF SinceUpdate
  <1>10. FundingWatched'
    <2>1. /\ bwatch \subseteq {h \in 1..n : Funding \in view[h].txs}
          /\ depth > 0 /\ depth < Announce => bwatch # {}
          /\ fault = "none"
      BY DEF TopologyInv, FundingWatched, n
    <2>2. \A h \in bwatch' : h \in 1..(n - 1) /\ Funding \in view'[h].txs
      <3>1. \A h \in bwatch' : h \in 1..n /\ h # n /\ Funding \in view[h].txs
        BY <1>0, <2>1
      <3>2. \A h \in bwatch' : h \in 1..(n - 1)
        BY <1>1, <3>1
      <3>3. QED
        BY <1>3, <3>1, <3>2
    <2>3. depth' > 0 /\ depth' < Announce => bwatch' # {}
      BY <1>0, <2>1
    <2>4. QED
      BY <1>0, <1>3, <2>1, <2>2, <2>3 DEF FundingWatched
  <1>11. QED
    BY <1>5, <1>7, <1>8, <1>9, <1>10 DEF TopologyInv

-----------------------------------------------------------------------------
(* Every step keeps the invariant. *)
LEMMA TopologyStepOK == TopologyInv /\ [TopologyNext]_topology_vars => TopologyInv'
  <1>1. SUFFICES ASSUME TopologyInv, [TopologyNext]_topology_vars PROVE TopologyInv'
    OBVIOUS
  <1>2. CASE UNCHANGED topology_vars
    <2>1. UNCHANGED <<node, view, prev_tip, watches>> /\ asking' = asking /\ asking \in BOOLEAN
      BY <1>1, <1>2 DEF topology_vars, TopologyInv, TopologyTypeOK
    <2>2. QED
      BY <1>1, <2>1, TopologyUnchanged
  <1>3. CASE Mine
    BY <1>1, <1>3, MineOK
  <1>4. CASE Reorg
    BY <1>1, <1>4, ReorgOK
  <1>5. CASE try_extend_tip
    <2>1. UNCHANGED <<node, view, prev_tip, watches>> /\ asking' = TRUE
      BY <1>5 DEF try_extend_tip
    <2>2. QED
      BY <1>1, <2>1, TopologyUnchanged
  <1>6. CASE updates_complete
    BY <1>1, <1>6, UpdatesCompleteOK
  <1>7. CASE get_new_block
    <2>1. asking /\ Len(view) + 1 <= Len(chain) /\ UNCHANGED <<node, asking, prev_tip>>
      BY <1>7 DEF get_new_block, in_view
    <2>2. CASE prev_hash_matches
      BY <1>1, <1>7, <2>1, <2>2, AddTipOK DEF get_new_block
    <2>3. CASE ~prev_hash_matches
      BY <1>1, <1>7, <2>1, <2>3, RemoveTipOK DEF get_new_block
    <2>4. QED
      BY <2>2, <2>3
  <1>8. QED
    BY <1>1, <1>2, <1>3, <1>4, <1>5, <1>6, <1>7 DEF TopologyNext, Poll

(* The invariant holds of every behaviour. *)
LEMMA TopologyInvHolds == TopologySpec => []TopologyInv
  BY TopologyInitOK, TopologyStepOK, PTL DEF TopologySpec

(* Who watches a transaction has been told a depth it has in the view, or   *)
(* none: txwatch_fire() with 0 comes before the block is gone.  Between     *)
(* polls every depth told is exact, but for what was kicked out and came    *)
(* back before a new tip was announced: that stands at 0.                   *)
THEOREM WatchersToldDepths == TopologySpec => []DepthsTold
  <1>1. TopologyInv => DepthsTold
    <2>1. SUFFICES ASSUME TopologyInv, NEW t \in Txs
                   PROVE  /\ told[t] > 0 => t \in Mined(view)
                          /\ ~asking /\ t \in Mined(view) =>
                               told[t] = IF t \in undone THEN 0 ELSE DepthIn(view, t)
      BY DEF DepthsTold
    <2>2. told[t] > 0 => t \in Mined(view)
      BY <2>1, MinedFacts DEF TopologyInv, HeightsRight
    <2>3. ASSUME ~asking, t \in Mined(view), t \notin undone
          PROVE  told[t] = DepthIn(view, t)
      <3> DEFINE h == CHOOSE g \in 1..Len(view) : t \in view[g].txs
      <3>1. h \in 1..Len(view) /\ t \in view[h].txs
        BY <2>3, MinedFacts
      <3>2. DepthIn(view, t) = Len(view) + 1 - h
        BY <2>3 DEF DepthIn
      <3> HIDE DEF h
      <3>3. QED
        BY <2>1, <2>3, <3>1, <3>2 DEF TopologyInv, SinceUpdate
    <2>4. t \in undone => told[t] = 0
      BY <2>1 DEF TopologyInv, SinceUpdate
    <2>5. QED
      BY <2>2, <2>3, <2>4
  <1>2. QED
    BY <1>1, TopologyInvHolds, PTL

(* The channel watches the block that holds its funding and no other, so    *)
(* the assertion in watch_check_block_added() holds; and it believes in a   *)
(* depth only while the funding is in the view.                             *)
THEOREM FundingDepthReal == TopologySpec => []FundingDepth
  <1>1. TopologyInv => FundingDepth
    <2>1. SUFFICES ASSUME TopologyInv PROVE FundingDepth
      OBVIOUS
    <2>2. /\ fault = "none"
          /\ \A h \in bwatch : h \in 1..Len(view) /\ Funding \in view[h].txs
          /\ depth > 0 /\ depth < Announce => bwatch # {}
          /\ Len(view) \in Nat
      BY <2>1 DEF TopologyInv, FundingWatched, TopologyTypeOK
    <2>3. bwatch # {} => Funding \in Mined(view)
      BY <2>2, MinedFacts
    <2>4. QED
      BY <2>2, <2>3 DEF FundingDepth
  <1>2. QED
    BY <1>1, TopologyInvHolds, PTL
=============================================================================
