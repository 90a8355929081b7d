---------------------------- MODULE SymChannel ----------------------------
(* A symmetric channel (option_seq_symmetric): the states lightningd keeps  *)
(* as the commitment dance goes on (lightningd/symmetric.c), and the game   *)
(* on chain (common/sym_scripts.c, onchaind/onchaind.c) in which a stale    *)
(* state is replaced by a newer one rather than punished.  A state is its   *)
(* number: Channeld's SignedOnce says a number never has two contents.  No  *)
(* settle clock, factory or second lane.                                    *)
EXTENDS CommitDance

CONSTANTS
    MaxIndex,   \* bound: commitments each side ever signs for the other
    Delay,      \* the shared delay: larger of the two to_self_delays
    React,      \* blocks in which a watching node's update is mined
    Watchers    \* nodes that watch the chain, or have a tower that does

ASSUME SymAssumption ==
    /\ MaxIndex \in Nat
    /\ Delay \in Nat /\ React \in Nat /\ React < Delay
    /\ Watchers \subseteq Nodes

VARIABLES
    symL,     \* sym_local: n's own latest state, whole
    symR,     \* sym_remote: the peer's latest, whole, or NoState
    symP,     \* sym_remote_pending: signed by n only, or NoState
    seen,     \* seen[n]: n's onchaind runs, with the states held then
    tip,      \* Unspent, KO, or the number of the state output on chain
    age,      \* blocks since tip was mined
    settled,  \* tip's settlement is mined
    after     \* history: updates mined once n's best state or later stood

onchain == <<seen, tip, age, settled, after>>
vars == <<dance, symL, symR, symP, onchain>>

NoState == -1
Unspent == -2
KO == -1

(* Mutant: the opener's states are numbered from below. *)
sym_state_num_below(n, i) == 2 * i - (IF n = A THEN 1 ELSE 0)

(* Commitment i of node n as a state. *)
sym_state_num(n, i) == 2 * i + (IF n = A THEN 0 ELSE 1)

(* sym_record_opened(): the first state of each side, the peer's with n's   *)
(* signature alone.                                                         *)
Init ==
    /\ DanceInit
    /\ symL = [n \in Nodes |-> sym_state_num(n, 0)]
    /\ symR = [n \in Nodes |-> NoState]
    /\ symP = [n \in Nodes |-> sym_state_num(Peer(n), 0)]
    /\ seen = [n \in Nodes |-> FALSE]
    /\ tip = Unspent
    /\ age = 0
    /\ settled = FALSE
    /\ after = [n \in Nodes |-> 0]

-----------------------------------------------------------------------------
(* The dance, as lightningd records it.  A node whose onchaind runs has no  *)
(* channeld any more.                                                       *)

sym_record_sent(n) == sym_state_num(Peer(n), nextR[n])

(* peer_sending_commitsig(), sym_record_sent(). *)
sending_commitsig(n) ==
    /\ ~seen[n]
    /\ nextR[n] <= MaxIndex
    /\ SendCommit(n)
    /\ symP' = [symP EXCEPT ![n] = sym_record_sent(n)]
    /\ UNCHANGED <<symL, symR, onchain>>

(* Mutant: the new state is not saved before the old one is revoked. *)
sym_record_local_late(n) == sym_state_num(n, nextL[n] - 1)
sym_record_local(n) == sym_state_num(n, nextL[n])

(* peer_got_commitsig(), sym_record_local(). *)
got_commitsig(n) ==
    /\ ~seen[n]
    /\ RecvCommit(n)
    /\ symL' = [symL EXCEPT ![n] = sym_record_local(n)]
    /\ UNCHANGED <<symR, symP, onchain>>

(* Mutant: the signature is taken to be on the state after. *)
sym_countersigned_next(n) == sym_state_num(Peer(n), nextR[n])

(* The state handle_peer_revoke_and_ack() expects the signature to be on:   *)
(* the one signed last, remembered or rebuilt.                              *)
sym_countersigned(n) == sym_state_num(Peer(n), nextR[n] - 1)

(* sym_record_revoked(): a pending state that is now whole goes. *)
sym_remote_pending_after(pending, num) ==
    IF pending = num THEN NoState ELSE pending

(* handle_peer_revoke_and_ack(), peer_got_revoke(), sym_record_revoked().   *)
got_revoke(n) ==
    /\ ~seen[n]
    /\ RecvRevoke(n)
    /\ symR' = [symR EXCEPT ![n] = sym_countersigned(n)]
    /\ symP' = [symP EXCEPT
                  ![n] = sym_remote_pending_after(@, sym_countersigned(n))]
    /\ UNCHANGED <<symL, onchain>>

-----------------------------------------------------------------------------
(* On chain. *)

(* sym_best_state(), and sym_best of onchaind. *)
sym_best(n) == IF symR[n] > symL[n] THEN symR[n] ELSE symL[n]
(* Mutant: the pending state is not looked up. *)
sym_known_whole(n) == {symL[n], symR[n]}

(* sym_known() *)
sym_known(n) == {symL[n], symR[n], symP[n]}

(* Every state n has ever had both signatures on, kept or not: its own, and *)
(* the peer's that a revocation countersigned.                              *)
held(n) ==
    {sym_state_num(n, i) : i \in 0..(nextL[n] - 1)}
        \cup {sym_state_num(Peer(n), i) : i \in 1..revs[n]}

(* sym_broadcast_kickoff(): no state enters into it. *)
Kickoff ==
    /\ tip = Unspent
    /\ tip' = KO /\ age' = 0
    /\ UNCHANGED <<dance, symL, symR, symP, seen, settled, after>>

(* The funding output is seen spent: onchaind replaces channeld. *)
handle_symmetric_close(n) ==
    /\ n \in Watchers
    /\ tip # Unspent /\ ~seen[n]
    /\ seen' = [seen EXCEPT ![n] = TRUE]
    /\ UNCHANGED <<dance, symL, symR, symP, tip, age, settled, after>>

(* Mutant: UPD compares nothing. *)
upd_any(k, s) == TRUE

(* UPD(k) takes a state above k with both signatures. *)
upd_allows(k, s) == s > k

Update(s) ==
    /\ tip # Unspent /\ ~settled
    /\ upd_allows(tip, s)
    /\ tip' = s /\ age' = 0
    /\ after' = [n \in Nodes |->
                   IF seen[n] /\ tip >= sym_best(n) THEN after[n] + 1
                                                    ELSE after[n]]
    /\ UNCHANGED <<dance, symL, symR, symP, seen, settled>>

(* Anybody publishes any state it ever held, revoked ones included. *)
PublishHeld == \E n \in Nodes : \E s \in held(n) : Update(s)

(* Mutant: onchaind settles what it knows before it looks for better. *)
sym_replaces_unknown(n) == tip < sym_best(n) /\ tip \notin sym_known(n)

sym_replaces(n) == tip < sym_best(n)

(* sym_resolve_state(): the best state n holds whole, over KO and over any  *)
(* older state.                                                             *)
sym_resolve_state(n) ==
    /\ seen[n] /\ sym_replaces(n)
    /\ Update(sym_best(n))

(* Mutant: the settlement of any state output is valid at once. *)
settle_matures_at_once == TRUE

(* SETTLE(n)'s OP_CHECKSEQUENCEVERIFY. *)
settle_matures == age >= Delay

(* A node settles what stands if it knows the settlement; a node that       *)
(* published a state can settle it as well.                                 *)
SettleBy(n, states) ==
    /\ ~settled
    /\ tip \in states /\ tip >= 0
    /\ settle_matures
    /\ settled' = TRUE
    /\ UNCHANGED <<dance, symL, symR, symP, seen, tip, age, after>>

sym_settle(n) == seen[n] /\ ~sym_replaces(n) /\ SettleBy(n, sym_known(n))
HolderSettles == \E n \in Nodes : SettleBy(n, held(n))

(* A block.  A node that watches has seen the kickoff, and an update of its *)
(* own over whatever older output is there, before React blocks pass.       *)
Block ==
    /\ tip # Unspent /\ ~settled
    /\ age < Delay
    /\ \A n \in Watchers :
         age >= React => seen[n] /\ ~sym_replaces(n)
    /\ age' = age + 1
    /\ UNCHANGED <<dance, symL, symR, symP, seen, tip, settled, after>>

OffChain ==
    \E n \in Nodes : sending_commitsig(n) \/ got_commitsig(n) \/ got_revoke(n)
OnChain ==
    \/ Kickoff
    \/ PublishHeld
    \/ HolderSettles
    \/ Block
    \/ \E n \in Nodes : \/ handle_symmetric_close(n)
                        \/ sym_resolve_state(n)
                        \/ sym_settle(n)

Next == OffChain \/ OnChain
Spec == Init /\ [][Next]_vars

(* Blocks come, and a watching node sees the kickoff, publishes its best    *)
(* state and settles; nobody else has to do anything.                       *)
FairSpec ==
    /\ Spec
    /\ WF_vars(Block)
    /\ \A n \in Watchers :
         /\ WF_vars(handle_symmetric_close(n))
         /\ WF_vars(sym_resolve_state(n))
         /\ WF_vars(sym_settle(n))

-----------------------------------------------------------------------------
TypeOK ==
    /\ DanceTypeOK
    /\ symL \in [Nodes -> Nat]
    /\ symR \in [Nodes -> Nat \cup {NoState}]
    /\ symP \in [Nodes -> Nat \cup {NoState}]
    /\ seen \in [Nodes -> BOOLEAN]
    /\ tip \in Nat \cup {Unspent, KO}
    /\ age \in 0..Delay
    /\ settled \in BOOLEAN
    /\ after \in [Nodes -> Nat]

(* A revocation under way countersigns exactly the state its receiver has   *)
(* pending: the sender signs its state nextL - 1, also when it sends the    *)
(* revocation again, and the receiver checks the one it signed last.        *)
CountersignsPending ==
    \A n \in Nodes : revs[n] < nextL[Peer(n)] - 1 =>
        /\ sym_state_num(Peer(n), nextL[Peer(n)] - 1) = sym_countersigned(n)
        /\ symP[n] = sym_countersigned(n)

(* The states n knows revoked: the peer's, and its own. *)
Revoked(n) ==
    {sym_state_num(Peer(n), i) : i \in 0..(revs[n] - 1)}
        \cup {sym_state_num(n, i) : i \in 0..(nextL[n] - 2)}

(* "a node cheated with any state it saw revoked always holds one numbered  *)
(* above it" whole, whoever's state it was (doc/sequentia-fork.md, 5e).     *)
HoldsNewer ==
    \A n \in Nodes : \A s \in Revoked(n) : s < sym_best(n)

(* So no revoked state is ever settled against a node that watches. *)
SettledNotRevoked ==
    settled => \A n \in Watchers : tip \notin Revoked(n)

(* Before the peer's first revocation the opener holds no state of the      *)
(* peer's whole.                                                            *)
FirstWindow(n) == n = A /\ revs[n] = 0

(* Whatever state stands, the peer's newest included, a node that cannot    *)
(* replace it knows its settlement: outside FirstWindow always, in it but   *)
(* for the peer's very first state.                                         *)
KnowsSettlement ==
    \A n \in Nodes :
        seen[n] /\ tip >= sym_best(n) =>
            \/ tip \in sym_known(n)
            \/ FirstWindow(n) /\ tip = sym_state_num(Peer(n), 0)

(* How often the shared delay is started again after the node's best state  *)
(* stood: at most once, in FirstWindow at most twice, however many states   *)
(* the peer ever held.                                                      *)
RestartsBounded ==
    \A n \in Nodes : after[n] <= IF FirstWindow(n) THEN 2 ELSE 1

(* What sym_htlc_margin() pays for and doc/sequentia-fork.md says: a peer   *)
(* that withheld its last acknowledgement publishes the state it holds,     *)
(* "restarting it once".  False in FirstWindow: the accepter publishes its  *)
(* first state, which no update of the opener's replaces, and then its      *)
(* second.                                                                  *)
RestartsOnce == \A n \in Nodes : after[n] <= 1

(* A kickoff is in the end settled, by nodes that watch alone; unless the   *)
(* peer's very first state stands for good and only the peer, which does    *)
(* not watch, can settle it.                                                *)
KickoffSettles ==
    tip = KO ~>
        \/ settled
        \/ [](\A n \in Watchers :
                 FirstWindow(n) /\ tip = sym_state_num(Peer(n), 0))
============================================================================
