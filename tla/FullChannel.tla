---------------------------- MODULE FullChannel ----------------------------
(* channeld/full_channel.c: the channel as one node sees it, as pure        *)
(* operators on a record                                                    *)
(*    [opener |-> a side, htlcs |-> a function from <<owner side, id>> to   *)
(*     [state, amount, r], fee |-> fee slots, owed |-> view -> side -> Int] *)
(* where r is "none", "fulfill" (htlc->r) or "fail" (htlc->failed).  One    *)
(* asset lane, anchor outputs, no splice, every HTLC above the dust limit.  *)
EXTENDS FeeStates, Integers, FiniteSetsExt

CONSTANTS
    Reserve,        \* channel_reserve each side must keep
    AnchorCost,     \* the opener's two anchor outputs (660 sat)
    BaseWeight,     \* commitment weight without HTLCs, in fee units
    HtlcWeight,     \* weight of one HTLC output
    MaxAccepted,    \* max_accepted_htlcs of both sides
    MaxInFlight     \* max_htlc_value_in_flight of both sides

ASSUME FullChannelAssumption ==
    /\ {Reserve, AnchorCost, HtlcWeight, MaxAccepted, MaxInFlight} \subseteq Nat
    /\ BaseWeight \in Nat \ {0}

Amount(c, h) == c.htlcs[h].amount
State(c, h) == c.htlcs[h].state
channel_feerate(c, side) == get_feerate(c.fee, c.opener, side)

-----------------------------------------------------------------------------
(* gather_htlcs() *)
committed(c, side) == {h \in DOMAIN c.htlcs : State(c, h) \in Committed(side)}
removing(c, side) == {h \in committed(c, side) : State(c, h) \in Pending(side)}
adding(c, side) ==
    {h \in DOMAIN c.htlcs : State(c, h) \in Pending(side) \ Committed(side)}
num_other_side(c, side) ==
    Cardinality({h \in (committed(c, side) \ removing(c, side))
                            \cup adding(c, side) : h[1] # side})

(* commit_tx_num_untrimmed over the next commitment: none is trimmed. *)
num_untrimmed(c, side) ==
    Cardinality(committed(c, side)) + Cardinality(adding(c, side))
        - Cardinality(removing(c, side))

SumAmounts(c, hs) == MapThenSumSet(LAMBDA h : Amount(c, h), hs)
sum_offered(c, hs, side) == SumAmounts(c, {h \in hs : h[1] = side})

(* Mutant: a failed HTLC is not refunded. *)
remove_delta_no_refund(c, hs, side) ==
    SumAmounts(c, {h \in hs : c.htlcs[h].r = "fulfill" /\ side = Other(h[1])})

(* balance_add_htlc(), balance_remove_htlc(): what adding (removing) these  *)
(* HTLCs does to the side's balance.                                        *)
add_delta(c, hs, side) == -SumAmounts(c, {h \in hs : h[1] = side})
remove_delta(c, hs, side) ==
    SumAmounts(c, {h \in hs : side = IF c.htlcs[h].r = "fulfill"
                                     THEN Other(h[1]) ELSE h[1]})

(* The side's balance once the view's pending changes are in it. *)
balance_after(c, view, side) ==
    c.owed[view][side] + remove_delta(c, removing(c, view), side)
                       + add_delta(c, adding(c, view), side)

(* Negative where the code returns false. *)
room_above_reserve(c, view, side) ==
    IF c.owed[view][side] <= 0 THEN -1
    ELSE LET b == balance_after(c, view, side)
         IN  IF b < 0 THEN -1 ELSE b - Reserve

commit_tx_weight(num) == BaseWeight + HtlcWeight * num
commit_tx_base_fee(rate, num) == rate * commit_tx_weight(num)

fee_for_htlcs(c, view, side) ==
    commit_tx_base_fee(channel_feerate(c, side), num_untrimmed(c, view))

local_opener_has_fee_headroom(c, view, remainder) ==
    remainder >= commit_tx_base_fee(
                    marginal_feerate(channel_feerate(c, "local")),
                    num_untrimmed(c, view) + 1)

-----------------------------------------------------------------------------
with_htlc(c, h, rec) ==
    [c EXCEPT !.htlcs = [g \in DOMAIN c.htlcs \cup {h} |->
                            IF g = h THEN rec ELSE c.htlcs[g]]]

(* The HTLC as channel_add_htlc() would put it into the channel. *)
new_htlc(c, sender, id, amount) ==
    with_htlc(c, <<sender, id>>,
        [state |-> IF sender = "local" THEN SENT_ADD_HTLC ELSE RCVD_ADD_HTLC,
         amount |-> amount, r |-> "none"])

(* add_htlc() with enforce_aggregate_limits, all in the recipient's view,   *)
(* counted with the new HTLC in it.                                         *)
add_htlc_ok(c, sender, id, amount) ==
    LET d == new_htlc(c, sender, id, amount)
        view == Other(sender)
        room == room_above_reserve(d, view, sender)
        after_anchors == room - (IF c.opener = sender THEN AnchorCost ELSE 0)
        opener_room == room_above_reserve(d, view, c.opener)
        opener_left == opener_room
                        - (IF c.opener # sender THEN AnchorCost ELSE 0)
    IN  /\ <<sender, id>> \notin DOMAIN c.htlcs
        /\ num_other_side(d, view) <= MaxAccepted
        /\ sum_offered(d, committed(d, view), sender)
             + sum_offered(d, adding(d, view), sender)
             - sum_offered(d, removing(d, view), sender) <= MaxInFlight
        /\ room >= 0
        /\ after_anchors >= 0
        /\ c.opener = sender =>
             /\ after_anchors >= fee_for_htlcs(d, view, view)
             /\ sender = "local" =>
                  local_opener_has_fee_headroom(d, view, after_anchors)
        /\ sender = "local" =>
             /\ opener_room >= 0
             /\ opener_left >= 0
             /\ opener_left >= fee_for_htlcs(d, view, c.opener)
             /\ opener_left >= fee_for_htlcs(d, view, Other(c.opener))

(* channel_fulfill_htlc(), channel_fail_htlc(): only an HTLC irrevocably    *)
(* committed on both sides, and only once.                                  *)
remove_htlc_ok(c, h) ==
    /\ h \in DOMAIN c.htlcs
    /\ c.htlcs[h].r = "none"
    /\ State(c, h) \in {SENT_ADD_ACK_REVOCATION, RCVD_ADD_ACK_REVOCATION}
remove_htlc(c, h, r) ==
    with_htlc(c, h, [c.htlcs[h] EXCEPT !.state = @ + 1, !.r = r])

-----------------------------------------------------------------------------
(* change_htlcs(): move every HTLC in one of the states on by one, adjust   *)
(* the changed side's view, drop the dead, move the fee slots.              *)
moving(c, states) == {h \in DOMAIN c.htlcs : State(c, h) \in states}
change_htlcs(c, view, states) ==
    LET mv == moving(c, states)
        enters == {h \in mv : /\ State(c, h) \notin Committed(view)
                              /\ State(c, h) + 1 \in Committed(view)}
        leaves == {h \in mv : /\ State(c, h) \in Committed(view)
                              /\ State(c, h) + 1 \notin Committed(view)}
        alive == {h \in DOMAIN c.htlcs :
                    ~(h \in mv /\ State(c, h) + 1 \in DeadStates)}
    IN  [c EXCEPT
          !.htlcs = [h \in alive |->
                       IF h \in mv THEN [c.htlcs[h] EXCEPT !.state = @ + 1]
                                   ELSE c.htlcs[h]],
          !.owed[view] = [s \in Sides |-> @[s] + add_delta(c, enters, s)
                                              + remove_delta(c, leaves, s)],
          !.fee = inc_fee_states(@, states)]

fee_moves(c, states) == \E i \in states \cap AddingStates : c.fee[i] # 0
any_change(c, states) == moving(c, states) # {} \/ fee_moves(c, states)
underflow(c) == \E v \in Sides, s \in Sides : c.owed[v][s] < 0

sending_commit_states == {SENT_ADD_HTLC, SENT_REMOVE_REVOCATION,
                          SENT_ADD_REVOCATION, SENT_REMOVE_HTLC}
rcvd_revoke_states == {SENT_ADD_COMMIT, SENT_REMOVE_ACK_COMMIT,
                       SENT_ADD_ACK_COMMIT, SENT_REMOVE_COMMIT}
rcvd_commit_states == {RCVD_ADD_REVOCATION, RCVD_REMOVE_HTLC,
                       RCVD_ADD_HTLC, RCVD_REMOVE_REVOCATION}
sending_revoke_states == {RCVD_ADD_ACK_COMMIT, RCVD_REMOVE_COMMIT,
                          RCVD_ADD_COMMIT, RCVD_REMOVE_ACK_COMMIT}

channel_sending_commit(c) == change_htlcs(c, "remote", sending_commit_states)
channel_rcvd_revoke_and_ack(c) == change_htlcs(c, "local", rcvd_revoke_states)
channel_rcvd_commit(c) == change_htlcs(c, "local", rcvd_commit_states)
channel_sending_revoke_and_ack(c) ==
    change_htlcs(c, "remote", sending_revoke_states)

(* Mutant: a revocation never starts the commit timer. *)
revoke_queues_nothing(c) == FALSE

(* channel_sending_revoke_and_ack()'s result: it left changes pending for   *)
(* the other side's commitment.                                             *)
revoke_queues_changes(c) ==
    LET queueing == {s \in sending_revoke_states : s + 1 \in Pending("remote")}
    IN  any_change(c, queueing)

-----------------------------------------------------------------------------
(* The most the opener can pay per unit of weight: in the other side's      *)
(* view, counting pending additions and not pending removals.               *)
approx_max_feerate(c) ==
    LET view == Other(c.opener)
        avail == c.owed[view][c.opener]
                    + add_delta(c, adding(c, view), c.opener)
                    - AnchorCost - Reserve
    IN  IF avail < 0 THEN 0
        ELSE avail \div commit_tx_weight(num_untrimmed(c, view))

can_opener_afford_feerate(c, rate) ==
    LET view == Other(c.opener)
        available == balance_after(c, view, c.opener)
    IN  /\ available >= 0
        /\ available >= commit_tx_base_fee(rate, num_untrimmed(c, view))
                            + AnchorCost + Reserve

channel_update_feerate(c, rate) ==
    [c EXCEPT !.fee = start_fee_update(@, c.opener, rate)]

num_channel_htlcs(c) == Cardinality(DOMAIN c.htlcs)

-----------------------------------------------------------------------------
(* channel_force_htlcs(): rebuild both views from our_msat and the HTLCs of *)
(* the database (adjust_balance()).                                         *)
channel_force_htlcs(opener, htlcs, fee, our, funding) ==
    LET c == [opener |-> opener, htlcs |-> htlcs, fee |-> fee,
              owed |-> [v \in Sides |-> [s \in Sides |->
                          IF s = "local" THEN our ELSE funding - our]]]
        was(v) == {h \in DOMAIN htlcs : htlcs[h].state \in WasCommitted(v)}
    IN  [c EXCEPT !.owed = [v \in Sides |-> [s \in Sides |->
            @[v][s] + add_delta(c, was(v), s)
                    + remove_delta(c, was(v) \ committed(c, v), s)]]]

(* adjust_balance() gives up on an HTLC a view has dropped and nobody       *)
(* resolved.                                                                *)
adjust_balance_ok(c) ==
    \A h \in DOMAIN c.htlcs, v \in Sides :
        State(c, h) \in WasCommitted(v) \ Committed(v) => c.htlcs[h].r # "none"

(* add_htlc() refuses on the recipient's max_accepted_htlcs whether or not  *)
(* the limits are enforced, and lightningd lists HTLCs in no useful order:  *)
(* some order is refused when an HTLC that comes last finds the limit       *)
(* already used up by the others.                                           *)
force_may_refuse(c) ==
    \E h \in DOMAIN c.htlcs :
        LET others == {g \in DOMAIN c.htlcs : g # h}
            d == [c EXCEPT !.htlcs = [g \in others |-> c.htlcs[g]]]
        IN  num_other_side(d, Other(h[1])) + 1 > MaxAccepted

============================================================================
