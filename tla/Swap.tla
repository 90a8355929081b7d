------------------------------- MODULE Swap -------------------------------
(* A swap between two lanes of a symmetric channel: lightningd/sym_lanes.c, *)
(* its part of channeld/channeld.c and channeld/full_channel.c, over the    *)
(* commitments, revocations and retransmissions that carry it.  The lanes   *)
(* are not the channel's own (no reserve, no fee); an HTLC is added and     *)
(* stays; both channelds live and die with the connection.                  *)
EXTENDS HtlcState, Integers, SequencesExt

CONSTANTS
    Lanes,       \* lanes 1 .. n
    Capacity,    \* what each lane holds
    Share,       \* what node "A" starts with in each lane
    Swaps,       \* ids of the swaps that may be asked for
    Terms,       \* id -> [by, give, give_lane, take, take_lane], as its owner gives and takes
    Htlcs,       \* HTLCs that may be offered
    Offer,       \* HTLC -> [by, lane, amount]
    Plans,       \* scenarios: sets of swaps and HTLCs, with the number of cuts
    Blocks,      \* expiry_blocks
    Grace,       \* SYM_SWAP_GRACE
    MaxHeight    \* bound: blocks

NoSwap == [id |-> 0, state |-> RCVD_ADD_HTLC]
NoState == 20

ASSUME SwapAssumption ==
    /\ 0 \notin Swaps
    /\ \A l \in Lanes : Share[l] \in 0..Capacity[l]
    /\ \A i \in Swaps : Terms[i].give_lane # Terms[i].take_lane
    /\ Blocks \in Nat \ {0} /\ Grace \in Nat /\ MaxHeight \in Nat

VARIABLES
    conn,     \* the nodes are connected and channeld runs on both
    ch,       \* struct channel of each channeld
    db,       \* what each lightningd has saved: struct sym_lanes_info, the channel
    wire,     \* messages to each channeld
    cust,     \* custom messages to each lightningd
    pipe,     \* what each lightningd wrote to its channeld
    hook,     \* swaps each node's sym_swap hook is deciding, with their expiry
    height,   \* block height of each node
    plan      \* what is still to happen

vars == <<conn, ch, db, wire, cust, pipe, hook, height, plan>>

Nodes == {"A", "B"}
Peer(n) == IF n = "A" THEN "B" ELSE "A"

-----------------------------------------------------------------------------
(* full_channel.c *)

balance_swap(owed, s) ==
    LET t == Terms[s.id]
        owner == htlc_state_owner(s.state)
    IN  [owed EXCEPT ![t.give_lane][owner] = @ - t.give,
                     ![t.give_lane][Other(owner)] = @ + t.give,
                     ![t.take_lane][Other(owner)] = @ - t.take,
                     ![t.take_lane][owner] = @ + t.take]

(* Mutant: only the swap in flight counts. *)
promises_in_flight(c) == {c.swap}
(* The swap in flight, and the one we asked for. *)
promises(c) == {c.swap, [id |-> c.req, state |-> RCVD_ADD_HTLC]}
swap_promised(c, view, lane, payer) ==
    LET open == {s \in promises(c) : s.id # 0 /\ s.state \notin Committed(view)}
        gives == {s \in open : /\ htlc_state_owner(s.state) = payer
                               /\ Terms[s.id].give_lane = lane}
        takes == {s \in open : /\ htlc_state_owner(s.state) # payer
                               /\ Terms[s.id].take_lane = lane}
    IN  MapThenSumSet(LAMBDA s : Terms[s.id].give, gives)
          + MapThenSumSet(LAMBDA s : Terms[s.id].take, takes)

sum_of(c, hs, lane, side) ==
    MapThenSumSet(LAMBDA h : Offer[h].amount,
        {h \in hs : /\ Offer[h].lane = lane
                    /\ htlc_state_owner(c.htlcs[h]) = side})

(* What a payer has left in a view, its pending HTLCs and promises paid. *)
left(c, view, lane, payer) ==
    LET adding == {h \in Htlcs : c.htlcs[h] \in Pending(view) \ Committed(view)}
    IN  c.owed[view][lane][payer] - sum_of(c, adding, lane, payer)
          - swap_promised(c, view, lane, payer)

swap_affordable(c, payer, lane, amount) ==
    \A view \in Sides : left(c, view, lane, payer) >= amount

channel_sym_swap_check(c, s) ==
    LET t == Terms[s.id]
        owner == htlc_state_owner(s.state)
    IN  /\ c.swap = NoSwap
        /\ swap_affordable(c, owner, t.give_lane, t.give)
        /\ swap_affordable(c, Other(owner), t.take_lane, t.take)

(* lane_room(), in the recipient's view. *)
add_htlc_ok(c, h, sender) ==
    left(c, Other(sender), Offer[h].lane, sender) >= Offer[h].amount

(* change_htlcs() for HTLCs and a swap that are added. *)
change_htlcs(c, view, states) ==
    LET enters(s) == s \in states /\ s \notin Committed(view)
                                  /\ s + 1 \in Committed(view)
        into == {h \in Htlcs : enters(c.htlcs[h])}
        owed == [l \in Lanes |-> [s \in Sides |->
                    c.owed[view][l][s] - sum_of(c, into, l, s)]]
        step == c.swap # NoSwap /\ c.swap.state \in states
    IN  [c EXCEPT
          !.htlcs = [h \in Htlcs |-> IF @[h] \in states THEN @[h] + 1 ELSE @[h]],
          !.swap = IF step THEN [@ EXCEPT !.state = @ + 1] ELSE @,
          !.owed[view] = IF step /\ enters(c.swap.state)
                         THEN balance_swap(owed, c.swap) ELSE owed]

sending_commit_states == {SENT_ADD_HTLC, SENT_ADD_REVOCATION}
rcvd_revoke_states == {SENT_ADD_COMMIT, SENT_ADD_ACK_COMMIT}
rcvd_commit_states == {RCVD_ADD_REVOCATION, RCVD_ADD_HTLC}
sending_revoke_states == {RCVD_ADD_ACK_COMMIT, RCVD_ADD_COMMIT}

pending_commit(c) ==
    \/ \E h \in Htlcs : c.htlcs[h] \in sending_commit_states
    \/ c.swap # NoSwap /\ c.swap.state \in sending_commit_states

Finished == {SENT_ADD_ACK_REVOCATION, RCVD_ADD_ACK_REVOCATION}
channel_sym_swap_done(c) ==
    IF c.swap.state \in Finished THEN [c EXCEPT !.swap = NoSwap] ELSE c

(* channel_force_htlcs() and the swap it is given: a swap in flight moves   *)
(* the views that committed it.                                             *)
restored(d) ==
    LET owed == [v \in Sides |-> [l \in Lanes |-> [s \in Sides |->
                   IF s = "local" THEN d.our[l] ELSE Capacity[l] - d.our[l]]]]
        c == [htlcs |-> d.htlcs, swap |-> d.swap, req |-> d.req, owed |-> owed]
        was(v) == {h \in Htlcs : d.htlcs[h] \in WasCommitted(v)}
        less == [v \in Sides |-> [l \in Lanes |-> [s \in Sides |->
                   owed[v][l][s] - sum_of(c, was(v), l, s)]]]
    IN  [c EXCEPT !.owed = [v \in Sides |->
            IF d.swap # NoSwap /\ d.swap.state \in Committed(v)
            THEN balance_swap(less[v], d.swap) ELSE less[v]]]

-----------------------------------------------------------------------------
Init ==
    /\ plan \in Plans
    /\ conn = TRUE
    /\ db = [n \in Nodes |->
              [our |-> [l \in Lanes |-> IF n = "A" THEN Share[l]
                                        ELSE Capacity[l] - Share[l]],
               htlcs |-> [h \in Htlcs |-> NoState], swap |-> NoSwap,
               req |-> 0, expiry |-> 0,
               nextL |-> 1, nextR |-> 1, revs |-> 0, wasRevoke |-> FALSE]]
    /\ ch = [n \in Nodes |-> restored(db[n])]
    /\ wire = [n \in Nodes |-> <<>>] /\ cust = [n \in Nodes |-> <<>>]
    /\ pipe = [n \in Nodes |-> <<>>] /\ hook = [n \in Nodes |-> {}]
    /\ height = [n \in Nodes |-> 0]

SendTo(q, n, ms) == [q EXCEPT ![n] = @ \o ms]
Message(t, i, e) == [type |-> t, id |-> i, expiry |-> e]

(* The connection or a daemon goes, and what was under way with it. *)
BreakConnection ==
    /\ conn' = FALSE
    /\ ch' = [n \in Nodes |-> restored(db[n])]
    /\ wire' = [n \in Nodes |-> <<>>] /\ cust' = [n \in Nodes |-> <<>>]
    /\ pipe' = [n \in Nodes |-> <<>>]

-----------------------------------------------------------------------------
(* sym_lanes.c: asking. *)

(* Bound: there are blocks enough for it to run out. *)
json_symswap(n, i) ==
    /\ conn /\ i \in plan.swaps /\ Terms[i].by = n
    /\ height[n] + Blocks + Grace < MaxHeight
    /\ db[n].req = 0 /\ db[n].swap = NoSwap
    /\ plan' = [plan EXCEPT !.swaps = @ \ {i}]
    /\ db' = [db EXCEPT ![n].req = i, ![n].expiry = height[n] + Blocks]
    /\ pipe' = SendTo(pipe, n, <<Message("request", i, height[n] + Blocks)>>)
    /\ UNCHANGED <<conn, ch, wire, cust, hook, height>>

(* Mutant: channeld is not told. *)
req_done_silently(n, q) ==
    /\ db' = [db EXCEPT ![n].req = 0]
    /\ pipe' = q
(* req_done() with an error: it goes, here and in channeld. *)
req_done(n, q) ==
    /\ db' = [db EXCEPT ![n].req = 0]
    /\ pipe' = IF db[n].req # 0 /\ conn
               THEN SendTo(q, n, <<Message("cancel", db[n].req, 0)>>) ELSE q

PipeHas(n, t) == conn /\ pipe[n] # <<>> /\ Head(pipe[n]).type = t
PipeRead(n) == [pipe EXCEPT ![n] = Tail(@)]

(* handle_sym_swap_request() and lightningd's swap_request_reply(). *)
handle_sym_swap_request(n) ==
    LET m == Head(pipe[n])
        swap == [id |-> m.id, state |-> RCVD_ADD_HTLC]
    IN  /\ PipeHas(n, "request")
        /\ IF ch[n].req = 0 /\ channel_sym_swap_check(ch[n], swap)
           THEN /\ ch' = [ch EXCEPT ![n].req = m.id]
                /\ cust' = SendTo(cust, Peer(n), <<m>>)
                /\ pipe' = PipeRead(n)
                /\ UNCHANGED db
           ELSE /\ req_done(n, PipeRead(n))
                /\ UNCHANGED <<ch, cust>>
        /\ UNCHANGED <<conn, wire, hook, height, plan>>

handle_sym_swap_cancel(n) ==
    /\ PipeHas(n, "cancel")
    /\ ch' = [ch EXCEPT ![n].req = IF @ = Head(pipe[n]).id THEN 0 ELSE @]
    /\ pipe' = PipeRead(n)
    /\ UNCHANGED <<conn, db, wire, cust, hook, height, plan>>

(* sym_lanes_notify_new_block() *)
NewBlock(n) ==
    /\ height[n] < MaxHeight
    /\ height' = [height EXCEPT ![n] = @ + 1]
    /\ IF db[n].req # 0 /\ height'[n] > db[n].expiry + Grace
       THEN req_done(n, pipe)
       ELSE UNCHANGED <<db, pipe>>
    /\ UNCHANGED <<conn, ch, wire, cust, hook, plan>>

-----------------------------------------------------------------------------
(* sym_lanes.c: being asked. *)

CustHas(n, t) == conn /\ cust[n] # <<>> /\ Head(cust[n]).type = t
CustRead(n) == [cust EXCEPT ![n] = Tail(@)]

(* sym_lanes_handle_peer_msg() *)
rcvd_request(n) ==
    /\ CustHas(n, "request")
    /\ hook' = [hook EXCEPT ![n] = @ \cup {Head(cust[n])}]
    /\ cust' = CustRead(n)
    /\ UNCHANGED <<conn, ch, db, wire, pipe, height, plan>>
rcvd_refusal(n) ==
    /\ CustHas(n, "refuse")
    /\ IF db[n].req = Head(cust[n]).id
       THEN req_done(n, pipe)
       ELSE UNCHANGED <<db, pipe>>
    /\ cust' = CustRead(n)
    /\ UNCHANGED <<conn, ch, wire, hook, height, plan>>

(* send_refuse(): only to a peer that is connected. *)
send_refuse(n, i) ==
    cust' = IF conn THEN SendTo(cust, Peer(n), <<Message("refuse", i, 0)>>)
            ELSE cust

(* The hook refuses, or accepts: swap_take(). *)
sym_swap_hook_cb(n, accept) ==
    /\ \E m \in hook[n] :
         /\ hook' = [hook EXCEPT ![n] = @ \ {m}]
         /\ IF accept /\ conn /\ height[n] < m.expiry
            THEN /\ pipe' = SendTo(pipe, n, <<Message("accept", m.id, 0)>>)
                 /\ UNCHANGED cust
            ELSE /\ send_refuse(n, m.id)
                 /\ UNCHANGED pipe
    /\ UNCHANGED <<conn, ch, db, wire, height, plan>>

(* handle_sym_swap_accept() and lightningd's swap_accept_reply(). *)
handle_sym_swap_accept(n) ==
    LET swap == [id |-> Head(pipe[n]).id, state |-> SENT_ADD_HTLC]
    IN  /\ PipeHas(n, "accept")
        /\ pipe' = PipeRead(n)
        /\ IF ch[n].req = 0 /\ channel_sym_swap_check(ch[n], swap)
           THEN /\ ch' = [ch EXCEPT ![n].swap = swap]
                /\ UNCHANGED cust
           ELSE /\ send_refuse(n, swap.id)
                /\ UNCHANGED ch
        /\ UNCHANGED <<conn, db, wire, hook, height, plan>>

-----------------------------------------------------------------------------
(* What lightningd saves with a commitment or a revocation. *)

lane_move(our, s) ==
    LET t == Terms[s.id]
        ours == htlc_state_owner(s.state) = "local"
    IN  [our EXCEPT ![t.give_lane] = IF ours THEN @ - t.give ELSE @ + t.give,
                    ![t.take_lane] = IF ours THEN @ + t.take ELSE @ - t.take]

(* sym_lanes_swap_step(): our request is met once the peer's commitment has *)
(* it; our balances move when both commitments do.                          *)
sym_lanes_swap_step(d, s) ==
    LET met == d.req = s.id /\ htlc_state_owner(s.state) = "remote"
        e == [d EXCEPT !.req = IF met THEN 0 ELSE @]
    IN  IF s = NoSwap THEN d
        ELSE IF s.state \in Finished
        THEN [e EXCEPT !.our = lane_move(@, s), !.swap = NoSwap]
        ELSE [e EXCEPT !.swap = s]

(* HTLCs that no commitment has carried are not saved. *)
saved(d, c) ==
    [sym_lanes_swap_step(d, c.swap) EXCEPT
       !.htlcs = [h \in Htlcs |->
          IF c.htlcs[h] \in {SENT_ADD_HTLC, RCVD_ADD_HTLC} THEN NoState
          ELSE c.htlcs[h]]]

(* A swap of ours rides in the commitment that first carries it, and in its *)
(* retransmission.                                                          *)
seq_swap(c) ==
    IF c.swap.state = SENT_ADD_COMMIT THEN c.swap.id ELSE 0
commit_msg(c) ==
    [type |-> "commit", swap |-> seq_swap(c), owed |-> c.owed["remote"]]

-----------------------------------------------------------------------------
(* channeld.c *)

handle_offer_htlc(n, h) ==
    /\ conn /\ h \in plan.htlcs /\ Offer[h].by = n
    /\ plan' = [plan EXCEPT !.htlcs = @ \ {h}]
    /\ add_htlc_ok(ch[n], h, "local")
    /\ ch' = [ch EXCEPT ![n].htlcs[h] = SENT_ADD_HTLC]
    /\ wire' = SendTo(wire, Peer(n), <<[type |-> "add", h |-> h]>>)
    /\ UNCHANGED <<conn, db, cust, pipe, hook, height>>

send_commit(n) ==
    LET c == change_htlcs(ch[n], "remote", sending_commit_states)
    IN  /\ conn
        /\ db[n].revs = db[n].nextR - 1
        /\ pending_commit(ch[n])
        /\ ch' = [ch EXCEPT ![n] = c]
        /\ db' = [db EXCEPT ![n] = [saved(@, c) EXCEPT
                                      !.nextR = @ + 1, !.wasRevoke = FALSE]]
        /\ wire' = SendTo(wire, Peer(n), <<commit_msg(c)>>)
        /\ UNCHANGED <<conn, cust, pipe, hook, height, plan>>

Receives(n, t) == conn /\ wire[n] # <<>> /\ Head(wire[n]).type = t
WireRead(n) == [wire EXCEPT ![n] = Tail(@)]

(* What the peer cannot afford is warned about, and the connection closed.  *)
handle_peer_add_htlc(n) ==
    LET h == Head(wire[n]).h
    IN  /\ Receives(n, "add")
        /\ IF add_htlc_ok(ch[n], h, "remote")
           THEN /\ ch' = [ch EXCEPT ![n].htlcs[h] = RCVD_ADD_HTLC]
                /\ wire' = WireRead(n)
                /\ UNCHANGED <<conn, cust, pipe>>
           ELSE BreakConnection
        /\ UNCHANGED <<db, hook, height, plan>>

(* take_peer_swap(): only the swap we asked for, still affordable. *)
asked_for(c, i) ==
    /\ c.req = i
    /\ channel_sym_swap_check([c EXCEPT !.req = 0],
                              [id |-> i, state |-> RCVD_ADD_HTLC])
take_peer_swap(c, i) ==
    IF i = 0 THEN c
    ELSE [c EXCEPT !.req = 0, !.swap = [id |-> i, state |-> RCVD_ADD_HTLC]]

rcvd_commit(c, m) ==
    change_htlcs(take_peer_swap(c, m.swap), "local", rcvd_commit_states)

(* handle_peer_commit_sig(), with the revocation it ends in. *)
handle_peer_commit_sig(n) ==
    LET m == Head(wire[n])
        c == change_htlcs(rcvd_commit(ch[n], m), "remote", sending_revoke_states)
    IN  /\ Receives(n, "commit")
        /\ IF m.swap = 0 \/ asked_for(ch[n], m.swap)
           THEN /\ ch' = [ch EXCEPT ![n] = channel_sym_swap_done(c)]
                /\ db' = [db EXCEPT ![n] = [saved(@, c) EXCEPT
                                        !.nextL = @ + 1, !.wasRevoke = TRUE]]
                /\ wire' = SendTo(WireRead(n), Peer(n), <<[type |-> "revoke"]>>)
                /\ UNCHANGED <<conn, cust, pipe>>
           ELSE BreakConnection /\ UNCHANGED db
        /\ UNCHANGED <<hook, height, plan>>

handle_peer_revoke_and_ack(n) ==
    LET c == change_htlcs(ch[n], "local", rcvd_revoke_states)
    IN  /\ Receives(n, "revoke")
        /\ ch' = [ch EXCEPT ![n] = channel_sym_swap_done(c)]
        /\ db' = [db EXCEPT ![n] = [saved(@, c) EXCEPT !.revs = @ + 1]]
        /\ wire' = WireRead(n)
        /\ UNCHANGED <<conn, cust, pipe, hook, height, plan>>

-----------------------------------------------------------------------------
(* The connection breaks; a restart of lightningd also forgets its hooks.   *)
Disconnect(n, restart) ==
    /\ conn /\ plan.cuts > 0
    /\ plan' = [plan EXCEPT !.cuts = @ - 1]
    /\ BreakConnection
    /\ hook' = IF restart THEN [hook EXCEPT ![n] = {}] ELSE hook
    /\ UNCHANGED <<db, height>>

(* peer_reconnect(): what the peer did not get is sent again. *)
retransmission(n) ==
    LET d == db[n]
        p == db[Peer(n)]
        revoke == IF p.revs = d.nextL - 2 THEN <<[type |-> "revoke"]>> ELSE <<>>
        adds == {h \in Htlcs : d.htlcs[h] = SENT_ADD_COMMIT}
        again == IF p.nextL = d.nextR - 1
                 THEN SetToSeq({[type |-> "add", h |-> h] : h \in adds})
                        \o <<commit_msg(restored(d))>>
                 ELSE <<>>
    IN  IF d.wasRevoke THEN again \o revoke ELSE revoke \o again

Reconnect ==
    /\ ~conn
    /\ conn' = TRUE
    /\ ch' = [n \in Nodes |-> restored(db[n])]
    /\ wire' = [n \in Nodes |-> retransmission(Peer(n))]
    /\ UNCHANGED <<db, cust, pipe, hook, height, plan>>

-----------------------------------------------------------------------------
Channeld(n) ==
    \/ handle_sym_swap_request(n)
    \/ handle_sym_swap_cancel(n)
    \/ handle_sym_swap_accept(n)
    \/ send_commit(n)
    \/ handle_peer_add_htlc(n)
    \/ handle_peer_commit_sig(n)
    \/ handle_peer_revoke_and_ack(n)

Lightningd(n) ==
    \/ rcvd_request(n)
    \/ rcvd_refusal(n)
    \/ \E accept \in BOOLEAN : sym_swap_hook_cb(n, accept)

Next ==
    \/ \E n \in Nodes :
         \/ Channeld(n)
         \/ Lightningd(n)
         \/ NewBlock(n)
         \/ \E i \in Swaps : json_symswap(n, i)
         \/ \E h \in Htlcs : handle_offer_htlc(n, h)
         \/ \E restart \in BOOLEAN : Disconnect(n, restart)
    \/ Reconnect

Spec == Init /\ [][Next]_vars

(* Daemons serve what they are sent, hooks answer, nodes reconnect, blocks  *)
(* come.                                                                    *)
FairSpec ==
    /\ Spec
    /\ \A n \in Nodes : WF_vars(Channeld(n)) /\ WF_vars(Lightningd(n))
                          /\ WF_vars(NewBlock(n))
    /\ WF_vars(Reconnect)

-----------------------------------------------------------------------------
Idle(n) == db[n].swap = NoSwap /\ db[n].req = 0

(* A swap is applied whole or not at all, to both nodes: a commitment that  *)
(* is received is for the balances its receiver computes, lane by lane; a   *)
(* swap that was asked for can still be paid when it comes, whatever HTLCs  *)
(* came between; and the balances in the two databases add up in every lane *)
(* once neither has a swap in flight, over lost messages and restarts.      *)
LanesAgree ==
    /\ \A n \in Nodes : Receives(n, "commit") =>
         LET m == Head(wire[n])
             own == rcvd_commit(ch[n], m).owed["local"]
         IN  /\ m.swap # 0 /\ m.swap = ch[n].req => asked_for(ch[n], m.swap)
             /\ m.swap = 0 \/ asked_for(ch[n], m.swap) =>
                  \A l \in Lanes, s \in Sides :
                     own[l][s] = m.owed[l][Other(s)] /\ own[l][s] >= 0
    /\ (\A n \in Nodes : db[n].swap = NoSwap) =>
         \A l \in Lanes : db["A"].our[l] + db["B"].our[l] = Capacity[l]

(* The peer took the swap and this node has let its request go. *)
Orphaned(i) ==
    LET n == Terms[i].by
    IN  /\ db[Peer(n)].swap.id = i
        /\ db[n].req # i /\ db[n].swap.id # i
        /\ height[n] > db[n].expiry + Grace

Settled ==
    /\ conn
    /\ \A n \in Nodes :
         /\ Idle(n) /\ ch[n].swap = NoSwap /\ ch[n].req = 0
         /\ wire[n] = <<>>
         /\ \A h \in Htlcs : ch[n].htlcs[h] \in Finished \cup {NoState}

(* Every request ends and the channel goes on: swaps and HTLCs that were    *)
(* under way finish at both nodes, also when both ask at once, a refusal is *)
(* lost or the peer's HTLC crosses a request that needs the same money      *)
(* (warned about and sent again until the request ends).  Except when the   *)
(* nodes came back together only after the request and its grace ran out:   *)
(* the peer sends again the commitment that carries the swap, and           *)
(* take_peer_swap() refuses it every time.                                  *)
SwapsEnd == <>[](Settled \/ \E i \in Swaps : Orphaned(i))
=============================================================================
