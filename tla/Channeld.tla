------------------------------ MODULE Channeld ------------------------------
(* Two nodes of one channel: each is a channeld (channeld/channeld.c) and   *)
(* the lightningd that keeps its database (lightningd/peer_htlcs.c,         *)
(* lightningd/channel_control.c).  They exchange update, commitment and     *)
(* revocation messages over a connection that is FIFO while it lasts; when  *)
(* it breaks, both channelds die with everything they had not persisted and *)
(* new ones start from the databases and reestablish.                       *)
EXTENDS FullChannel, Sequences

CONSTANTS
    A, B,            \* the two nodes; A opened the channel
    Funding,         \* channel capacity
    OpenerMsat,      \* A's balance when the channel becomes usable
    InitialFeerate,
    Amounts,         \* HTLC amounts lightningd may offer
    Budgets          \* bounds on what the environment does, one per scenario

Nodes == {A, B}

ASSUME ChanneldAssumption ==
    /\ A # B
    /\ Funding \in Nat /\ OpenerMsat \in 0..Funding
    /\ InitialFeerate \in Nat \ {0}
    /\ Amounts \subseteq Nat \ {0}
    /\ Budgets \subseteq
         [htlcs : [Nodes -> Nat],         \* HTLCs each node offers
          rates : Seq(Nat \ {0}),         \* feerates A will ask for, in turn
          cuts : Nat,                     \* connections that will break
          closers : SUBSET Nodes]         \* nodes whose user may close

VARIABLES
    chan,    \* chan[n]: struct channel of n's channeld
    peer,    \* peer[n]: the rest of n's struct peer
    db,      \* db[n]: what n's lightningd has committed to its database
    pipe,    \* pipe[n]: commands and reports between n's daemons, not yet read
    net,     \* net[n]: messages on their way to n
    target,  \* the feerate A's lightningd wants now
    budget,  \* what the environment may still do
    signed,  \* history: signed[n], the last commitment n first signed
    fault    \* "none", or the error path some daemon has taken

vars == <<chan, peer, db, pipe, net, target, budget, signed, fault>>

Peer(n) == IF n = A THEN B ELSE A
OpenerSide(n) == IF n = A THEN "local" ELSE "remote"
(* The node that the side of n's channel stands for. *)
NodeOf(n, side) == IF side = "local" THEN n ELSE Peer(n)

(* What a commitment transaction says, in terms both nodes share. *)
CommitTx(n, c, view, num) ==
    [num |-> num,
     feerate |-> channel_feerate(c, view),
     owed |-> [m \in Nodes |->
                 c.owed[view][IF m = n THEN "local" ELSE "remote"]],
     htlcs |-> {<<NodeOf(n, h[1]), h[2], Amount(c, h)>> :
                  h \in committed(c, view)}]

-----------------------------------------------------------------------------
(* towire_channeld_init() and init_channel(): the channel and the peer      *)
(* state that a new channeld starts with.                                   *)
RestoredChannel(n, d) ==
    channel_force_htlcs(OpenerSide(n), d.htlcs, d.fee, d.our, Funding)

RestoredPeer(n, d, phase) ==
    [nextL |-> d.nextL, nextR |-> d.nextR, revs |-> d.revs,
     timer |-> FALSE, lastEmpty |-> 0,
     htlcId |-> d.htlcId,
     desired |-> channel_feerate(RestoredChannel(n, d), "remote"),
     phase |-> phase,
     sendShut |-> d.shutting, shutL |-> FALSE, shutR |-> d.rshut]

InitDb(n) ==
    [htlcs |-> << >>, fee |-> new_fee_states(OpenerSide(n), InitialFeerate),
     our |-> IF n = A THEN OpenerMsat ELSE Funding - OpenerMsat,
     nextL |-> 1, nextR |-> 1, revs |-> 0,
     wasRevoke |-> FALSE, lastSent |-> {}, htlcId |-> 0,
     shutting |-> FALSE, rshut |-> FALSE]

EmptyPipe == [offer |-> 0, shut |-> FALSE, got |-> FALSE]

Init ==
    /\ db = [n \in Nodes |-> InitDb(n)]
    /\ chan = [n \in Nodes |-> RestoredChannel(n, db[n])]
    /\ peer = [n \in Nodes |-> RestoredPeer(n, db[n], "run")]
    /\ pipe = [n \in Nodes |-> EmptyPipe]
    /\ net = [n \in Nodes |-> << >>]
    /\ target = InitialFeerate
    /\ budget \in Budgets
    /\ signed = [n \in Nodes |->
                   CommitTx(n, RestoredChannel(n, db[n]), "remote", 0)]
    /\ fault = "none"

-----------------------------------------------------------------------------
(* A channeld acts while it runs; no daemon acts after a fault.             *)
Running(n) == fault = "none" /\ peer[n].phase = "run"
Receives(n, type) ==
    Running(n) /\ net[n] # << >> /\ Head(net[n]).type = type

Send(n, msgs) == net' = [net EXCEPT ![Peer(n)] = @ \o msgs]
(* Consume the message at hand and reply. *)
Reply(n, msgs) ==
    net' = [net EXCEPT ![n] = Tail(@), ![Peer(n)] = @ \o msgs]

(* Mutant: HTLCs may remain. *)
shutdown_complete_any(p, c) == p.shutL /\ p.shutR /\ p.revs = p.nextR - 1

shutdown_complete(p, c) ==
    p.shutL /\ p.shutR /\ num_channel_htlcs(c) = 0 /\ p.revs = p.nextR - 1

(* The main loop of channeld ends, and closingd takes over, as soon as      *)
(* shutdown_complete() holds after an event.                                *)
MainLoop(p, c) ==
    IF shutdown_complete(p, c) THEN [p EXCEPT !.phase = "closing"] ELSE p

FirstFault(cases) ==
    LET hits == {i \in DOMAIN cases : cases[i][1]}
    IN  IF hits = {} THEN "none" ELSE cases[Min(hits)][2]

-----------------------------------------------------------------------------
(* lightningd's side of a step.  An HTLC it has no row for was offered or   *)
(* received since the last commitment.                                      *)
OldState(d, h) == IF h \in DOMAIN d.htlcs THEN d.htlcs[h].state
                  ELSE IF h[1] = "local" THEN SENT_ADD_HTLC ELSE RCVD_ADD_HTLC
expected_state(s) ==
    IF s + 1 = RCVD_REMOVE_HTLC THEN RCVD_REMOVE_COMMIT ELSE s + 1

(* One step along the lifecycle for a sent commitment or a received         *)
(* revocation; a received commitment is two, since lightningd takes the     *)
(* revocation it implies in the same transaction.                           *)
state_update_ok(old, new, steps) ==
    new = IF steps = 1 THEN expected_state(old)
                       ELSE expected_state(expected_state(old))

(* peer_got_shutdown() *)
peer_got_shutdown(d) == [d EXCEPT !.rshut = TRUE, !.shutting = TRUE]

(* lightningd reads reports in order: a shutdown channeld reported goes     *)
(* into the database before the report of a commitment.                     *)
Reported(n) == IF pipe[n].got THEN peer_got_shutdown(db[n]) ELSE db[n]

(* Record the HTLCs in `changed` as they stand in channel c.                *)
(* remove_htlc_in() and remove_htlc_out() settle our_msat when an HTLC dies *)
(* with a preimage.                                                         *)
RecordHtlcs(d, c, before, changed) ==
    LET dead == {h \in changed : h \notin DOMAIN c.htlcs}
        paid(side) == SumAmounts(before,
            {h \in dead : h[1] = side /\ before.htlcs[h].r = "fulfill"})
    IN  [d EXCEPT
          !.htlcs = [h \in (DOMAIN @ \cup changed) \ dead |->
                        IF h \in changed THEN c.htlcs[h] ELSE @[h]],
          !.our = @ + paid("remote") - paid("local"),
          !.fee = towire_fee_states(c.fee)]

HtlcUpdatesOk(d, c, changed, steps) ==
    \A h \in changed :
        state_update_ok(OldState(d, h),
            IF h \in DOMAIN c.htlcs THEN State(c, h)
            ELSE IF h[1] = "local" THEN RCVD_REMOVE_ACK_REVOCATION
                                   ELSE SENT_REMOVE_ACK_REVOCATION,
            steps)

-----------------------------------------------------------------------------
(* Commands from lightningd.                                                *)

(* send_htlc_out(): lightningd offers an HTLC on a channel that may still   *)
(* take one (channel_state_can_add_htlc()).                                 *)
LightningdOfferHtlc(n) ==
    /\ Running(n)
    /\ ~db[n].shutting
    /\ pipe[n].offer = 0
    /\ peer[n].htlcId < budget.htlcs[n]
    /\ \E a \in Amounts : pipe' = [pipe EXCEPT ![n].offer = a]
    /\ UNCHANGED <<chan, peer, db, net, target, budget, signed, fault>>

handle_offer_htlc(n) ==
    LET p == peer[n]
        a == pipe[n].offer
    IN  /\ Running(n)
        /\ a # 0
        /\ pipe' = [pipe EXCEPT ![n].offer = 0]
        /\ IF add_htlc_ok(chan[n], "local", p.htlcId, a)
           THEN /\ chan' = [chan EXCEPT
                              ![n] = new_htlc(@, "local", p.htlcId, a)]
                /\ peer' = [peer EXCEPT ![n].htlcId = @ + 1,
                                        ![n].timer = TRUE]
                /\ Send(n, <<[type |-> "add", id |-> p.htlcId,
                              amount |-> a]>>)
           ELSE UNCHANGED <<chan, peer, net>>
        /\ UNCHANGED <<db, target, budget, signed, fault>>

may_resolve(htlc) == htlc.state = RCVD_ADD_ACK_REVOCATION

(* fulfill_htlc(), fail_in_htlc(): lightningd settles an HTLC its peer      *)
(* offered, and saves that before it tells channeld.                        *)
LightningdResolveHtlc(n) ==
    /\ fault = "none" /\ peer[n].phase # "down"
    /\ \E h \in DOMAIN db[n].htlcs, r \in {"fulfill", "fail"} :
         /\ may_resolve(db[n].htlcs[h])
         /\ db' = [db EXCEPT ![n].htlcs[h] =
                             [@ EXCEPT !.state = SENT_REMOVE_HTLC, !.r = r]]
    /\ UNCHANGED <<chan, peer, pipe, net, target, budget, signed, fault>>

(* handle_preimage(), handle_fail(): channeld reads that command. *)
handle_resolution(n) ==
    /\ Running(n)
    /\ \E h \in DOMAIN db[n].htlcs :
         LET r == db[n].htlcs[h].r IN
         /\ db[n].htlcs[h].state = SENT_REMOVE_HTLC
         /\ h \in DOMAIN chan[n].htlcs
         /\ State(chan[n], h) < SENT_REMOVE_HTLC
         /\ fault' = IF remove_htlc_ok(chan[n], h) THEN "none"
                     ELSE "HTLC preimage failed"
         /\ chan' = [chan EXCEPT ![n] = remove_htlc(@, h, r)]
         /\ Send(n, <<[type |-> r, id |-> h[2]]>>)
    /\ peer' = [peer EXCEPT ![n].timer = TRUE]
    /\ UNCHANGED <<db, pipe, target, budget, signed>>

(* The feerate A's lightningd asks for follows the fee market. *)
FeeratesChange ==
    /\ fault = "none"
    /\ budget.rates # << >>
    /\ target' = Head(budget.rates)
    /\ budget' = [budget EXCEPT !.rates = Tail(@)]
    /\ UNCHANGED <<chan, peer, db, pipe, net, signed, fault>>

(* Sent when lightningd's estimate moves and whenever a channeld starts     *)
(* (try_update_feerates()).                                                 *)
handle_feerates(n) ==
    /\ Running(n)
    /\ OpenerSide(n) = "local"
    /\ peer[n].desired # target
    /\ peer' = [peer EXCEPT
                  ![n].desired = target,
                  ![n].timer = @ \/ peer[n].nextL # 1 \/ peer[n].nextR # 1]
    /\ UNCHANGED <<chan, db, pipe, net, target, budget, signed, fault>>

(* The user closes the channel: lightningd saves CHANNELD_SHUTTING_DOWN and *)
(* tells channeld.                                                          *)
LightningdClose(n) ==
    /\ Running(n)
    /\ n \in budget.closers
    /\ ~db[n].shutting
    /\ db' = [db EXCEPT ![n].shutting = TRUE]
    /\ pipe' = [pipe EXCEPT ![n].shut = TRUE]
    /\ UNCHANGED <<chan, peer, net, target, budget, signed, fault>>

handle_shutdown_cmd(n) ==
    /\ Running(n)
    /\ pipe[n].shut /\ pipe[n].offer = 0
    /\ pipe' = [pipe EXCEPT ![n].shut = FALSE]
    /\ peer' = [peer EXCEPT ![n].sendShut = TRUE, ![n].timer = TRUE]
    /\ UNCHANGED <<chan, db, net, target, budget, signed, fault>>

-----------------------------------------------------------------------------
(* The commit timer: send_commit().                                         *)

maybe_send_shutdown(p) ==
    IF p.sendShut THEN [p EXCEPT !.sendShut = FALSE, !.shutL = TRUE] ELSE p
shutdown_msgs(p) == IF p.sendShut THEN <<[type |-> "shutdown"]>> ELSE << >>

fee_target(p, c) ==
    LET current == channel_feerate(c, "remote")
    IN  IF p.desired > current
        THEN Max({current, Min({p.desired, approx_max_feerate(c)})})
        ELSE p.desired
want_fee_update(n, p, c) ==
    /\ OpenerSide(n) = "local"
    /\ fee_target(p, c) # channel_feerate(c, "remote")

awaiting_revocation(p) == p.revs # p.nextR - 1
(* Mutant: no commitment after shutdown at all. *)
final_phase_with_htlcs(p, c) == p.shutL
final_shutdown_phase(p, c) == p.shutL /\ num_channel_htlcs(c) = 0

(* Too early (the revocation restarts the timer) or too late. *)
send_commit_not_now(n) ==
    LET p == peer[n] IN
    /\ Running(n) /\ p.timer
    /\ awaiting_revocation(p) \/ final_shutdown_phase(p, chan[n])
    /\ fault' = IF awaiting_revocation(p) /\ p.revs # p.nextR - 2
                THEN "assert revocations_received" ELSE "none"
    /\ peer' = [peer EXCEPT ![n].timer = FALSE]
    /\ UNCHANGED <<chan, db, pipe, net, target, budget, signed>>

(* The channel with the fee update this commitment would bring. *)
with_fee_update(n) ==
    LET p == peer[n]
        c == chan[n]
    IN  IF want_fee_update(n, p, c) /\ feerate_changes_done(c.fee)
        THEN channel_update_feerate(c, fee_target(p, c)) ELSE c

send_commit_nothing(n) ==
    LET p == peer[n]
        p2 == [maybe_send_shutdown(p) EXCEPT !.timer = FALSE]
    IN
    /\ Running(n) /\ p.timer
    /\ ~awaiting_revocation(p) /\ ~final_shutdown_phase(p, chan[n])
    /\ ~any_change(with_fee_update(n), sending_commit_states)
    /\ peer' = [peer EXCEPT ![n] = MainLoop(p2, chan[n])]
    /\ Send(n, shutdown_msgs(p))
    /\ UNCHANGED <<chan, db, pipe, target, budget, signed, fault>>

(* peer_sending_commitsig(): lightningd saves the commitment before it goes *)
(* out.                                                                     *)
peer_sending_commitsig(d, c, before, changed) ==
    LET added == {h \in changed : State(c, h) = SENT_ADD_COMMIT}
    IN  [RecordHtlcs(d, c, before, changed) EXCEPT
           !.nextR = @ + 1, !.wasRevoke = FALSE, !.lastSent = changed,
           !.htlcId = @ + Cardinality(added)]
ids_in_order(d, c, changed) ==
    LET ids == {h[2] : h \in {g \in changed : State(c, g) = SENT_ADD_COMMIT}}
    IN  ids # {} => Max(ids) = d.htlcId + Cardinality(ids) - 1

send_commit(n) ==
    LET p == peer[n]
        c == chan[n]
        c1 == with_fee_update(n)
        c2 == channel_sending_commit(c1)
        changed == moving(c1, sending_commit_states)
        tx == CommitTx(n, c2, "remote", p.nextR)
        rate == c1.fee[first_fee_state("local")]
        fee_msg == IF c1 = c THEN << >>
                   ELSE <<[type |-> "fee", rate |-> rate]>>
    IN
    /\ Running(n) /\ p.timer
    /\ ~awaiting_revocation(p) /\ ~final_shutdown_phase(p, c)
    /\ any_change(c1, sending_commit_states)
    /\ chan' = [chan EXCEPT ![n] = c2]
    /\ peer' = [peer EXCEPT
                  ![n] = [maybe_send_shutdown(p) EXCEPT !.nextR = @ + 1]]
    /\ db' = [db EXCEPT
                ![n] = peer_sending_commitsig(Reported(n), c2, c1, changed)]
    /\ pipe' = [pipe EXCEPT ![n].got = FALSE]
    /\ Send(n, fee_msg \o <<[type |-> "commit", tx |-> tx]>>
                       \o shutdown_msgs(p))
    /\ signed' = [signed EXCEPT ![n] = tx]
    /\ fault' = FirstFault(<<
         <<c1 # c /\ ~can_opener_afford_feerate(c, rate),
           "Could not afford feerate">>,
         <<underflow(c2), "balance underflow">>,
         <<~HtlcUpdatesOk(db[n], c2, changed, 1), "invalid HTLC update">>,
         <<~ids_in_order(db[n], c2, changed), "ids out of order">> >>)
    /\ UNCHANGED <<target, budget>>

-----------------------------------------------------------------------------
(* Messages from the peer.                                                  *)

handle_peer_add_htlc(n) ==
    LET m == Head(net[n]) IN
    /\ Receives(n, "add")
    /\ fault' = IF add_htlc_ok(chan[n], "remote", m.id, m.amount) THEN "none"
                ELSE "Bad peer_add_htlc"
    /\ chan' = [chan EXCEPT ![n] = new_htlc(@, "remote", m.id, m.amount)]
    /\ Reply(n, << >>)
    /\ UNCHANGED <<peer, db, pipe, target, budget, signed>>

(* handle_peer_fulfill_htlc(), handle_peer_fail_htlc() and the malformed    *)
(* variant.                                                                 *)
handle_peer_remove_htlc(n) ==
    LET m == Head(net[n])
        h == <<"local", m.id>>
    IN
    /\ Receives(n, "fulfill") \/ Receives(n, "fail")
    /\ IF remove_htlc_ok(chan[n], h)
       THEN /\ chan' = [chan EXCEPT ![n] = remove_htlc(@, h, m.type)]
            /\ fault' = "none"
       ELSE fault' = "Bad update_fulfill_htlc" /\ UNCHANGED chan
    /\ peer' = [peer EXCEPT ![n].timer = TRUE]
    /\ Reply(n, << >>)
    /\ UNCHANGED <<db, pipe, target, budget, signed>>

handle_peer_feechange(n) ==
    LET rate == Head(net[n]).rate IN
    /\ Receives(n, "fee")
    /\ fault' = FirstFault(<<
         <<OpenerSide(n) # "remote", "update_fee from non-opener">>,
         <<~can_opener_afford_feerate(chan[n], rate),
           "update_fee unaffordable">> >>)
    /\ chan' = [chan EXCEPT ![n] = channel_update_feerate(@, rate)]
    /\ Reply(n, << >>)
    /\ UNCHANGED <<peer, db, pipe, target, budget, signed>>

(* Either daemon dies or the connection breaks: both channelds go, with     *)
(* what lightningd wrote to them and what is on the wire.  The state shown  *)
(* while down is the one the next channeld will start from.                 *)
BreakConnection ==
    /\ chan' = [n \in Nodes |-> RestoredChannel(n, db[n])]
    /\ peer' = [n \in Nodes |-> RestoredPeer(n, db[n], "down")]
    /\ pipe' = [n \in Nodes |-> EmptyPipe]
    /\ net' = [n \in Nodes |-> << >>]
    /\ fault' = FirstFault(<<
         <<\E n \in Nodes : force_may_refuse(chan'[n]),
           "Could not restore HTLCs">>,
         <<\E n \in Nodes : ~adjust_balance_ok(chan'[n]) \/ underflow(chan'[n]),
           "Could not restore balances">> >>)
    /\ UNCHANGED <<db, target, signed>>

(* A commitment that changes nothing is let pass once, not twice running.   *)
second_empty_commitment(p, c) ==
    ~any_change(c, rcvd_commit_states) /\ p.lastEmpty = p.nextL - 1

(* "commit_sig with no changes (again!)": the node warns and hangs up, with *)
(* nothing of the commitment saved.                                         *)
reject_empty_commit_sig(n) ==
    /\ Receives(n, "commit")
    /\ second_empty_commitment(peer[n], chan[n])
    /\ UNCHANGED budget
    /\ BreakConnection

(* Mutant: lightningd does not save the number of its new commitment. *)
peer_got_commitsig_no_index(d, c, before, changed) ==
    [RecordHtlcs(d, c, before, changed) EXCEPT !.wasRevoke = TRUE]

(* peer_got_commitsig() and peer_sending_revocation(). *)
peer_got_commitsig(d, c, before, changed) ==
    [RecordHtlcs(d, c, before, changed) EXCEPT
        !.nextL = @ + 1, !.wasRevoke = TRUE]

(* handle_peer_commit_sig() and the send_revocation() it ends in: the       *)
(* revocation of the commitment before goes out once lightningd has saved   *)
(* this one.                                                                *)
handle_peer_commit_sig(n) ==
    LET p == peer[n]
        c == chan[n]
        c1 == channel_rcvd_commit(c)
        c2 == channel_sending_revoke_and_ack(c1)
        changed == moving(c, rcvd_commit_states)
        p2 == [p EXCEPT
                 !.nextL = @ + 1,
                 !.lastEmpty = IF any_change(c, rcvd_commit_states)
                                THEN @ ELSE p.nextL,
                 !.timer = @ \/ revoke_queues_changes(c1)
                             \/ want_fee_update(n, p, c2)]
    IN
    /\ Receives(n, "commit")
    /\ ~second_empty_commitment(p, c)
    /\ chan' = [chan EXCEPT ![n] = c2]
    /\ peer' = [peer EXCEPT ![n] = MainLoop(p2, c2)]
    /\ db' = [db EXCEPT ![n] = peer_got_commitsig(Reported(n), c2, c, changed)]
    /\ pipe' = [pipe EXCEPT ![n].got = FALSE]
    /\ Reply(n, <<[type |-> "revoke", num |-> p.nextL - 1]>>)
    /\ fault' = FirstFault(<<
         <<underflow(c1), "balance underflow">>,
         <<c.opener = "remote" /\ ~can_opener_afford_feerate(
                                      c1, channel_feerate(c1, "local")),
           "assert can_opener_afford_feerate">>,
         <<Head(net[n]).tx # CommitTx(n, c1, "local", p.nextL),
           "Bad commit_sig signature">>,
         <<~HtlcUpdatesOk(db[n], c2, changed, 2),
           "invalid HTLC update">> >>)
    /\ UNCHANGED <<target, budget, signed>>

(* peer_got_revoke(). *)
peer_got_revoke(d, c, before, changed) ==
    [RecordHtlcs(d, c, before, changed) EXCEPT !.revs = @ + 1]

handle_peer_revoke_and_ack(n) ==
    LET p == peer[n]
        c == chan[n]
        c1 == channel_rcvd_revoke_and_ack(c)
        changed == moving(c, rcvd_revoke_states)
        p2 == [p EXCEPT !.revs = @ + 1, !.timer = TRUE]
    IN
    /\ Receives(n, "revoke")
    /\ chan' = [chan EXCEPT ![n] = c1]
    /\ peer' = [peer EXCEPT ![n] = MainLoop(p2, c1)]
    /\ db' = [db EXCEPT ![n] = peer_got_revoke(Reported(n), c1, c, changed)]
    /\ pipe' = [pipe EXCEPT ![n].got = FALSE]
    /\ Reply(n, << >>)
    /\ fault' = FirstFault(<<
         <<p.revs # p.nextR - 2, "Unexpected revoke_and_ack">>,
         <<Head(net[n]).num # p.nextR - 2, "Wrong privkey">>,
         <<~HtlcUpdatesOk(db[n], c1, changed, 1), "invalid HTLC update">> >>)
    /\ UNCHANGED <<target, budget, signed>>

(* channeld reports the peer's shutdown and does not wait: "on reconnect    *)
(* other end will re-send anyway".                                          *)
handle_peer_shutdown(n) ==
    LET p == peer[n]
        p2 == [p EXCEPT !.shutR = TRUE,
                        !.sendShut = @ \/ ~p.shutL,
                        !.timer = @ \/ ~p.shutL]
    IN
    /\ Receives(n, "shutdown")
    /\ peer' = [peer EXCEPT ![n] = MainLoop(p2, chan[n])]
    /\ pipe' = [pipe EXCEPT ![n].got = TRUE]
    /\ Reply(n, << >>)
    /\ UNCHANGED <<chan, db, target, budget, signed, fault>>

(* lightningd reads that report, unless it dies first. *)
LightningdGotShutdown(n) ==
    /\ fault = "none"
    /\ pipe[n].got
    /\ db' = [db EXCEPT ![n] = Reported(n)]
    /\ pipe' = [pipe EXCEPT ![n].got = FALSE]
    /\ UNCHANGED <<chan, peer, net, target, budget, signed, fault>>

-----------------------------------------------------------------------------
(* Losing the connection and coming back.                                   *)

Disconnect ==
    /\ fault = "none"
    /\ budget.cuts > 0
    /\ \E n \in Nodes : peer[n].phase # "down"
    /\ budget' = [budget EXCEPT !.cuts = @ - 1]
    /\ BreakConnection

(* closing_signed negotiation (closingd/closingd.c receive_offer()) skips a *)
(* late shutdown and warns and hangs up on anything else that is not its    *)
(* own.  lightningd starts closingd once it has read channeld's reports.    *)
closingd_in(n) ==
    /\ fault = "none" /\ peer[n].phase = "closing"
    /\ ~pipe[n].got
    /\ net[n] # << >>
    /\ UNCHANGED budget
    /\ IF Head(net[n]).type = "shutdown"
       THEN /\ Reply(n, << >>)
            /\ UNCHANGED <<chan, peer, db, pipe, target, signed, fault>>
       ELSE BreakConnection

(* Mutant: it asks for the revocation of its last commitment as if it had   *)
(* all before.                                                              *)
reestablish_ahead(p) ==
    [type |-> "reestablish", nc |-> p.nextL, nr |-> p.nextR - 1]
reestablish(p) == [type |-> "reestablish", nc |-> p.nextL, nr |-> p.revs]

(* The nodes reconnect: each new channeld opens with channel_reestablish.   *)
Reconnect ==
    /\ fault = "none"
    /\ \A n \in Nodes : peer[n].phase = "down"
    /\ peer' = [n \in Nodes |-> [peer[n] EXCEPT !.phase = "reestablish"]]
    /\ net' = [n \in Nodes |-> <<reestablish(peer[Peer(n)])>>]
    /\ UNCHANGED <<chan, db, pipe, target, budget, signed, fault>>

(* HTLCs of one side, in the order of their ids. *)
ById(hs) ==
    CHOOSE s \in [1..Cardinality(hs) -> hs] :
        \A i, j \in DOMAIN s : i < j => s[i][2] < s[j][2]
in_state(c, s) == {h \in DOMAIN c.htlcs : State(c, h) = s}

(* Mutant: what is sent again is always a failure. *)
send_fail_only(c, hs) ==
    LET order == ById(hs)
    IN  [i \in DOMAIN order |-> [type |-> "fail", id |-> order[i][2]]]

send_fail_or_fulfill(c, hs) ==
    LET order == ById(hs)
    IN  [i \in DOMAIN order |->
            [type |-> c.htlcs[order[i]].r, id |-> order[i][2]]]

(* Mutant: our own commitment is signed in place of theirs. *)
resent_tx_of_ours(n, c, num) == CommitTx(n, c, "local", num)
resent_tx(n, c, num) == CommitTx(n, c, "remote", num)

(* Removals, then additions, each in id order; the opener always restates   *)
(* the feerate.                                                             *)
resend_commitment(n, c, lastSent, num) ==
    LET adds == ById(lastSent \cap in_state(c, SENT_ADD_COMMIT))
    IN  send_fail_or_fulfill(c, lastSent \cap in_state(c, SENT_REMOVE_COMMIT))
        \o [i \in DOMAIN adds |-> [type |-> "add", id |-> adds[i][2],
                                   amount |-> Amount(c, adds[i])]]
        \o (IF c.opener = "local"
            THEN <<[type |-> "fee", rate |-> channel_feerate(c, "remote")]>>
            ELSE << >>)
        \o <<[type |-> "commit", tx |-> resent_tx(n, c, num)]>>

(* Mutant: the revocation always goes first. *)
revocation_first(wasRevoke, commit, revoke) == revoke \o commit

(* What is sent again goes in the order it first went. *)
retransmit(wasRevoke, commit, revoke) ==
    IF wasRevoke THEN commit \o revoke ELSE revoke \o commit

(* The second half of peer_reconnect(). *)
peer_reconnect(n) ==
    LET p == peer[n]
        c == chan[n]
        d == db[n]
        m == Head(net[n])
        again == m.nc = p.nextR - 1
        revoke == IF m.nr = p.nextL - 2
                  THEN <<[type |-> "revoke", num |-> p.nextL - 2]>>
                  ELSE << >>
        commit == IF again THEN resend_commitment(n, c, d.lastSent, p.nextR - 1)
                  ELSE << >>
        p2 == [maybe_send_shutdown(p) EXCEPT !.phase = "run", !.timer = TRUE]
    IN
    /\ fault = "none" /\ p.phase = "reestablish"
    /\ net[n] # << >>
    /\ peer' = [peer EXCEPT ![n] = MainLoop(p2, c)]
    /\ Reply(n, retransmit(d.wasRevoke, commit, revoke)
                 \o shutdown_msgs(p)
                 \o send_fail_or_fulfill(c, in_state(c, SENT_REMOVE_HTLC)))
    /\ fault' = FirstFault(<<
         <<m.nr < p.nextL - 2, "peer is in the past">>,
         <<m.nr > p.nextL - 1, "we are in the past">>,
         <<m.nc \notin {p.nextR - 1, p.nextR} \/ m.nc = 0,
           "bad reestablish commitment_number">>,
         <<again /\ ~(d.lastSent \subseteq DOMAIN c.htlcs),
           "Can't find HTLC to resend">>,
         <<in_state(c, SENT_REMOVE_HTLC)
             # {h \in in_state(c, SENT_REMOVE_HTLC) : c.htlcs[h].r # "none"},
           "HTLC not failed/fulfilled">> >>)
    /\ UNCHANGED <<chan, db, pipe, target, budget, signed>>

-----------------------------------------------------------------------------
(* channeld's main loop: commands from lightningd, its timer, the peer. *)
MasterIn(n) ==
    \/ handle_offer_htlc(n)
    \/ handle_resolution(n)
    \/ handle_feerates(n)
    \/ handle_shutdown_cmd(n)

CommitTimer(n) ==
    \/ send_commit_not_now(n)
    \/ send_commit_nothing(n)
    \/ send_commit(n)

PeerIn(n) ==
    \/ handle_peer_add_htlc(n)
    \/ handle_peer_remove_htlc(n)
    \/ handle_peer_feechange(n)
    \/ handle_peer_commit_sig(n)
    \/ reject_empty_commit_sig(n)
    \/ handle_peer_revoke_and_ack(n)
    \/ handle_peer_shutdown(n)
    \/ peer_reconnect(n)
    \/ closingd_in(n)

(* What users, payments, the fee market and the network do to them. *)
Environment ==
    \/ FeeratesChange
    \/ Disconnect
    \/ Reconnect
    \/ \E n \in Nodes :
         \/ LightningdOfferHtlc(n)
         \/ LightningdResolveHtlc(n)
         \/ LightningdClose(n)
         \/ LightningdGotShutdown(n)

Next ==
    \/ Environment
    \/ \E n \in Nodes : MasterIn(n) \/ CommitTimer(n) \/ PeerIn(n)

Spec == Init /\ [][Next]_vars

(* channeld's main loop starves neither lightningd, its timer nor the peer; *)
(* connectd keeps reconnecting a peer that has a channel; lightningd        *)
(* reads its daemons' reports, and settles every HTLC in the end, at the    *)
(* latest as its deadline nears.                                            *)
FairSpec ==
    /\ Spec
    /\ WF_vars(Reconnect)
    /\ \A n \in Nodes :
         /\ WF_vars(MasterIn(n))
         /\ WF_vars(CommitTimer(n))
         /\ WF_vars(PeerIn(n))
         /\ WF_vars(LightningdResolveHtlc(n))
         /\ WF_vars(LightningdGotShutdown(n))

-----------------------------------------------------------------------------
(* No daemon ever takes one of its error paths against an honest peer:      *)
(* signatures match, reestablish numbers are in range, lightningd finds     *)
(* every HTLC in the state it expects, no balance underflows and the        *)
(* database restores.                                                       *)
NoFault == fault = "none"

(* Each view of each node adds up to the capacity. *)
FundsConserved ==
    \A n \in Nodes, v \in Sides :
        chan[n].owed[v]["local"] + chan[n].owed[v]["remote"]
            + SumAmounts(chan[n], committed(chan[n], v)) = Funding

(* While no commitment is under way to the peer, the node knows exactly     *)
(* which transaction its peer holds: balances, HTLCs and feerate.           *)
CommitmentsAgree ==
    \A n \in Nodes :
        peer[n].nextR = peer[Peer(n)].nextL =>
            CommitTx(n, chan[n], "remote", 0)
                = CommitTx(Peer(n), chan[Peer(n)], "local", 0)

(* Whenever the daemons might die, the database rebuilds the channel that   *)
(* channeld has reached: the views channeld keeps by increments are the     *)
(* ones channel_force_htlcs() computes, and only uncommitted updates go.    *)
RestoreAgrees ==
    \A n \in Nodes :
        LET r == RestoredChannel(n, db[n])
            kept == {h \in DOMAIN chan[n].htlcs :
                       State(chan[n], h) \notin {SENT_ADD_HTLC, RCVD_ADD_HTLC}}
        IN  /\ r.owed = chan[n].owed
            /\ r.fee = towire_fee_states(chan[n].fee)
            /\ DOMAIN r.htlcs = kept

(* A commitment number is signed for one transaction only, however often    *)
(* the commitment is sent again after a restart.                            *)
SignedOnce ==
    \A n \in Nodes : \A i \in DOMAIN net[Peer(n)] :
        LET m == net[Peer(n)][i] IN m.type = "commit" => m.tx = signed[n]

(* Both ends of an HTLC see it settled the same way, if at all. *)
SameResolution ==
    \A n \in Nodes : \A h \in DOMAIN chan[n].htlcs :
        LET far == <<"remote", h[2]>>
            there == chan[Peer(n)].htlcs
        IN  h[1] = "local" /\ State(chan[n], h) >= RCVD_REMOVE_HTLC
                /\ far \in DOMAIN there
              => there[far].r = chan[n].htlcs[h].r

(* When both nodes have gone on to negotiate the closing transaction, the   *)
(* balances lightningd hands closingd split the capacity exactly, and are   *)
(* what both last commitments pay: nothing is left in an HTLC.              *)
ClosingSplitsFunds ==
    (\A n \in Nodes : peer[n].phase = "closing") =>
        /\ db[A].our + db[B].our = Funding
        /\ \A n \in Nodes, v \in Sides :
             chan[n].owed[v]["local"] = db[n].our

(* This step of n moves the feerate of slot i into slot j, not the last,    *)
(* that is full, and frees the one there.  A received commitment takes a    *)
(* feerate two states on.                                                   *)
FeeClash(n, i, j) ==
    /\ peer'[n].phase # "down"
    /\ j = i + 1 \/ (j = i + 2 /\ peer'[n].nextL # peer[n].nextL)
    /\ j < last_fee_state(chan[n].opener)
    /\ chan[n].fee[i] # 0 /\ chan'[n].fee[i] = 0
    /\ chan[n].fee[j] # 0 /\ chan'[n].fee[j] # 0

(* No feerate under way is ever lost to the one behind it: where one lands  *)
(* on another, as it may when resend_commitment() restates the feerate,     *)
(* that other is the same or is the one long in force.                      *)
NoFeerateLost ==
    [][\A n \in Nodes : \A i, j \in AddingStates : FeeClash(n, i, j) =>
         chan[n].fee[j] \in {chan[n].fee[i],
                             chan[n].fee[last_fee_state(chan[n].opener)]}]_vars

(* The counters of the two channelds, across lost messages, restarts and    *)
(* retransmissions, move only as CommitDance allows: no number is skipped   *)
(* or goes back, so a revoked commitment is never current again, and the    *)
(* two ends stay within one commitment of each other.                       *)
Dance == INSTANCE CommitDance WITH
    nextL <- [n \in Nodes |-> peer[n].nextL],
    nextR <- [n \in Nodes |-> peer[n].nextR],
    revs <- [n \in Nodes |-> peer[n].revs]
ImplementsDance == Dance!DanceSpec

HtlcIds(n) == UNION {0..(b.htlcs[n] - 1) : b \in Budgets}

(* Every HTLC that was ever committed is in the end gone from both          *)
(* databases.                                                               *)
HtlcsSettle ==
    \A n \in Nodes : \A i \in HtlcIds(n) :
        <<"local", i>> \in DOMAIN db[n].htlcs ~>
            /\ <<"local", i>> \notin DOMAIN db[n].htlcs
            /\ <<"remote", i>> \notin DOMAIN db[Peer(n)].htlcs

(* Once either side has begun to shut the channel down, both get to the     *)
(* closing negotiation.                                                     *)
ShutdownCompletes ==
    \A n \in Nodes :
        db[n].shutting ~> \A m \in Nodes : peer[m].phase = "closing"

-----------------------------------------------------------------------------
(* Statements of the code's comments and assertions that the runs refute.   *)

(* handle_peer_commit_sig(): "We were supposed to check this was affordable *)
(* as we go", and an assertion that the opener can pay the feerate of the   *)
(* commitment just received.                                                *)
AffordableAsWeGo == fault # "assert can_opener_afford_feerate"

(* handle_peer_shutdown(): "we don't have to wait because on reconnect      *)
(* other end will re-send anyway".  A shutdown both ends have sent is not   *)
(* lost to the node that dies before it has recorded it: the channel still  *)
(* gets to the closing negotiation.                                         *)
ResentShutdownSuffices ==
    \A n \in Nodes :
        peer[n].shutL /\ peer[n].shutR
            ~> \A m \in Nodes : peer[m].phase = "closing"
============================================================================
