------------------------------ MODULE Closing -------------------------------
(* The mutual close of a channel without HTLCs: closingd's fee negotiation  *)
(* on both nodes (closingd/closingd.c), lightningd's record of the best     *)
(* closing transaction and of the `close` command (closing_control.c), and  *)
(* what it drops to chain (peer_control.c).  A fee stands for the closing   *)
(* transaction that pays it: both nodes build the same one, since the       *)
(* balances no longer change (Channeld's ClosingSplitsFunds).               *)
EXTENDS Integers, Sequences, FiniteSets, FiniteSetsExt

CONSTANTS
    Opener, Accepter,  \* who pays the fee, and who does not
    Funding,           \* the most a fee can be
    OpenerOut,         \* what the opener has to pay it from
    Plans              \* what the environment does, one record per scenario

Nodes == {Opener, Accepter}
Peer(n) == IF n = Opener THEN Accepter ELSE Opener

(* The fees each node may start with, the step and the least fee of each,   *)
(* whose users wait, and how often the connection goes or a node restarts.  *)
PlanRecords ==
    [fees : [Nodes -> SUBSET [min : Nat, desired : Nat, max : Nat]],
     step : [Nodes -> [by : Nat, unit : {"%", "sat"}]],
     floor : [Nodes -> Nat], closers : SUBSET Nodes,
     cuts : Nat, restarts : Nat]

ASSUME ClosingAssumption ==
    /\ Opener # Accepter
    /\ Funding \in Nat /\ OpenerOut \in 0..Funding
    /\ Plans \subseteq PlanRecords

VARIABLES
    plan,       \* the scenario: fees of each node, steps, cuts, crashes
    state,      \* channel->state
    last_tx,    \* channel->last_tx, in the database
    d,          \* closingd: where it is and its offer[], feerange
    connected,
    wire,       \* closing_signed on their way to a node
    cmd,        \* the `close` command: pending, or its answer
    broadcast,  \* transactions dropped to chain
    chain       \* the one that was mined

vars == <<plan, state, last_tx, d, connected, wire, cmd, broadcast, chain>>

NoTx == [kind |-> "none", fee |-> 0]
Commitment == [kind |-> "commitment", fee |-> 0]
Close(f) == [kind |-> "close", fee |-> f]

NoRange == [min |-> 0, max |-> -1]

(* A closingd that is not there; one that is being started, after channeld  *)
(* has seen channel_reestablish and shutdown.                               *)
Off == [pc |-> "off", quick |-> FALSE, bounds |-> NoRange, ours |-> 0,
        theirs |-> 0, feerange |-> [min |-> 0, max |-> 0, higher |-> Opener]]
Starting == [Off EXCEPT !.pc = "starting"]
Idle(n) == d[n].pc \in {"off", "over"}

Init ==
    /\ plan \in Plans
    /\ state = [n \in Nodes |-> "CHANNELD_SHUTTING_DOWN"]
    /\ last_tx = [n \in Nodes |-> Commitment]
    /\ d = [n \in Nodes |-> Starting]
    /\ connected = TRUE
    /\ wire = [n \in Nodes |-> <<>>]
    /\ cmd = [n \in Nodes |-> IF n \in plan.closers THEN "pending" ELSE "none"]
    /\ broadcast = {}
    /\ chain = NoTx

-----------------------------------------------------------------------------
(* closingd's arithmetic.  The weight of the transaction is the same for    *)
(* every feerate, so feerates are given as fees.                            *)

Clamp(f, lo, hi) == IF f < lo THEN lo ELSE IF f > hi THEN hi ELSE f

calc_fee_bounds(n, r) ==
    LET maxfee == IF n = Opener THEN r.max ELSE Funding
        minfee == IF r.min > maxfee THEN maxfee ELSE r.min
    IN  [min |-> minfee, max |-> maxfee,
         desired |-> Clamp(r.desired, minfee, maxfee)]

(* Mutant: the ranges are joined, not intersected. *)
get_overlap_union(r, s) ==
    [min |-> Min({r.min, s.min}), max |-> Max({r.max, s.max})]
get_overlap(r, s) == [min |-> Max({r.min, s.min}), max |-> Min({r.max, s.max})]

amount_in_range(f, r) == r.min <= f /\ f <= r.max

init_feerange(n, ours, theirs, max) ==
    [min |-> 0, max |-> max, higher |-> IF ours > theirs THEN n ELSE Peer(n)]

(* Without the internal error on an offer of zero, which no run makes. *)
adjust_feerange(fr, f, side) ==
    IF side = fr.higher THEN [fr EXCEPT !.max = f - 1]
                        ELSE [fr EXCEPT !.min = f + 1]

(* What the next offer takes off the range left, in a percentage of it or   *)
(* in satoshi.                                                              *)
StepSat(step, len) ==
    IF step.unit = "sat" THEN step.by - 1 ELSE (len * step.by) \div 100

Agreeing(fr) == fr.min + 1 >= fr.max

(* What we offer now; -1 when the range is below what we accept. *)
adjust_offer(n, fr, theirs, min) ==
    LET lo == Max({fr.min, min})
        by == StepSat(plan.step[n], fr.max - lo)
    IN  IF Agreeing(fr) THEN theirs
        ELSE IF fr.max < lo THEN -1
        ELSE IF fr.higher = n THEN Max({fr.max - by, lo})
        ELSE Min({lo + by, fr.max})

(* The default step, which also stands for a channel with anchors. *)
use_quickclose(n) == plan.step[n] = [by |-> 50, unit |-> "%"]

-----------------------------------------------------------------------------
(* lightningd *)

closing_fee_is_acceptable(n, f) == f >= plan.floor[n]

(* Mutant: only a close that pays more than the last replaces it. *)
Saved_dearest(n, f) ==
    IF f >= d[n].bounds.min /\ closing_fee_is_acceptable(n, f)
         /\ f > last_tx[n].fee
    THEN [last_tx EXCEPT ![n] = Close(f)] ELSE last_tx

(* peer_received_closing_signature(), for an offer closingd finds high      *)
(* enough.                                                                  *)
Saved(n, f) ==
    IF f >= d[n].bounds.min /\ closing_fee_is_acceptable(n, f)
    THEN [last_tx EXCEPT ![n] = Close(f)] ELSE last_tx

Answered(n, type) ==
    IF cmd[n] = "pending" THEN [cmd EXCEPT ![n] = type] ELSE cmd

(* drop_to_chain(): what replaced the commitment goes out in its place. *)
drop_to_chain(n, cooperative) ==
    /\ broadcast' = broadcast \cup {last_tx[n]}
    /\ cmd' = Answered(n, IF cooperative THEN "mutual" ELSE "unilateral")

(* The connection is gone: closingd dies unless it had already finished. *)
Disconnected == [n \in Nodes |-> IF d[n].pc \in {"done", "over"} THEN d[n] ELSE Off]
Hangup ==
    /\ connected' = FALSE
    /\ wire' = [n \in Nodes |-> <<>>]

wants_onchain_fail(n) ==
    state[n] \in {"CHANNELD_SHUTTING_DOWN", "CLOSINGD_SIGEXCHANGE"}

(* Mutant: the transaction is not broadcast. *)
channel_fail_quietly(n) ==
    /\ state' = IF wants_onchain_fail(n)
                THEN [state EXCEPT ![n] = "AWAITING_UNILATERAL"] ELSE state
    /\ cmd' = Answered(n, "unilateral")
    /\ UNCHANGED broadcast

(* channel_fail_permanent(); the caller says what becomes of the daemons. *)
channel_fail_permanent(n) ==
    /\ state' = IF wants_onchain_fail(n)
                THEN [state EXCEPT ![n] = "AWAITING_UNILATERAL"] ELSE state
    /\ drop_to_chain(n, FALSE)

-----------------------------------------------------------------------------
(* closingd *)

closing_signed(e) == [fee |-> e.ours,
                      range |-> IF e.quick THEN e.bounds ELSE NoRange]

(* close_tx(): nobody signs, or checks, what the opener cannot pay. *)
Affordable(f) == f <= OpenerOut

(* send_offer(), in state e after it; peer_failed_warn() hangs up. *)
send_offer(n, e, got) ==
    /\ Affordable(e.ours)
    /\ d' = [d EXCEPT ![n] = e]
    /\ wire' = [wire EXCEPT ![n] = got, ![Peer(n)] = Append(@, closing_signed(e))]
    /\ UNCHANGED connected
say_nothing(n, e, got) ==
    /\ d' = [d EXCEPT ![n] = e]
    /\ wire' = [wire EXCEPT ![n] = got]
    /\ UNCHANGED connected
peer_failed_warn(n) == Hangup /\ d' = [Disconnected EXCEPT ![n] = Off]
Offers(n, e, got) ==
    \/ send_offer(n, e, got)
    \/ ~Affordable(e.ours) /\ peer_failed_warn(n)

(* peer_start_closingd_after_shutdown(), and closingd up to the first       *)
(* message it waits for.  Feerates are read anew each time.                 *)
peer_start_closingd(n) ==
    /\ d[n].pc = "starting"
    /\ state' = IF state[n] = "CHANNELD_SHUTTING_DOWN"
                THEN [state EXCEPT ![n] = "CLOSINGD_SIGEXCHANGE"] ELSE state
    /\ \E r \in plan.fees[n] :
         LET b == calc_fee_bounds(n, r)
             e == [Off EXCEPT !.pc = "first", !.quick = use_quickclose(n),
                              !.bounds = [min |-> b.min, max |-> b.max],
                              !.ours = b.desired]
         IN  IF n = Opener THEN Offers(n, e, wire[n])
                           ELSE say_nothing(n, e, wire[n])
    /\ UNCHANGED <<plan, last_tx, cmd, broadcast, chain>>

Finished(e) == [e EXCEPT !.pc = "done"]

(* do_quickclose() when the first offer of theirs, e.theirs, is there. *)
do_quickclose(n, e, range, got) ==
    LET overlap == get_overlap(e.bounds, range)
        f == Clamp(e.ours, overlap.min, overlap.max)
    IN  \/ /\ overlap.min > overlap.max
           /\ peer_failed_warn(n)
        \/ /\ overlap.min <= overlap.max /\ n = Opener
           /\ \/ /\ ~amount_in_range(e.theirs, overlap)
                 /\ peer_failed_warn(n)
              \/ /\ amount_in_range(e.theirs, overlap) /\ e.ours = e.theirs
                 /\ say_nothing(n, Finished(e), got)
              \/ /\ amount_in_range(e.theirs, overlap) /\ e.ours # e.theirs
                 /\ send_offer(n, Finished([e EXCEPT !.ours = e.theirs]), got)
        \/ /\ overlap.min <= overlap.max /\ n = Accepter
           /\ Offers(n, [e EXCEPT !.ours = f,
                                  !.pc = IF f = e.theirs THEN "done" ELSE "quick"],
                     got)

(* Our turn in the rounds without ranges, then theirs unless we agree. *)
our_round(n, e, got) ==
    LET fr == adjust_feerange(e.feerange, e.theirs, Peer(n))
        f == adjust_offer(n, fr, e.theirs, e.bounds.min)
    IN  \/ /\ e.ours = e.theirs
           /\ say_nothing(n, Finished(e), got)
        \/ /\ e.ours # e.theirs /\ f = -1
           /\ peer_failed_warn(n)
        \/ /\ e.ours # e.theirs /\ f # -1
           /\ Offers(n, [e EXCEPT !.ours = f,
                                  !.feerange = adjust_feerange(fr, f, n),
                                  !.pc = IF f = e.theirs THEN "done" ELSE "rounds"],
                     got)

(* The first two offers are made: the accepter still has to send its own.   *)
start_rounds(n, e, got) ==
    LET fr == init_feerange(n, e.ours, e.theirs, e.bounds.max)
    IN  \/ /\ n = Opener
           /\ our_round(n, [e EXCEPT !.feerange = adjust_feerange(fr, e.ours, n)], got)
        \/ /\ n = Accepter
           /\ Offers(n, [e EXCEPT !.feerange = adjust_feerange(
                                     adjust_feerange(fr, e.theirs, Opener), e.ours, n),
                                  !.pc = IF e.ours = e.theirs THEN "done" ELSE "rounds"],
                     got)

(* receive_offer(), and what closingd does up to the next one. *)
receive_offer(n) ==
    /\ d[n].pc \in {"first", "quick", "rounds"} /\ wire[n] # <<>>
    /\ LET m == Head(wire[n])
           e == [d[n] EXCEPT !.theirs = m.fee]
           got == Tail(wire[n])
       IN  \/ /\ ~Affordable(m.fee)
              /\ peer_failed_warn(n)
              /\ UNCHANGED last_tx
           \/ /\ Affordable(m.fee)
              /\ last_tx' = Saved(n, m.fee)
              /\ \/ /\ e.pc = "first" /\ e.quick /\ m.range # NoRange
                    /\ do_quickclose(n, e, m.range, got)
                 \/ /\ e.pc = "first" /\ ~(e.quick /\ m.range # NoRange)
                    /\ start_rounds(n, e, got)
                 \/ /\ e.pc = "quick" /\ e.ours = e.theirs
                    /\ say_nothing(n, Finished(e), got)
                 \/ /\ e.pc = "quick" /\ e.ours # e.theirs
                    /\ peer_failed_warn(n)
                 \/ /\ e.pc = "rounds"
                    /\ our_round(n, e, got)
    /\ UNCHANGED <<plan, state, cmd, broadcast, chain>>

-----------------------------------------------------------------------------
(* lightningd again *)

(* A negotiation done over for the peer's sake changes nothing more. *)
peer_closing_complete(n) ==
    /\ d[n].pc = "done"
    /\ d' = [d EXCEPT ![n].pc = "over"]
    /\ \/ /\ state[n] = "CLOSINGD_SIGEXCHANGE"
          /\ state' = [state EXCEPT ![n] = "CLOSINGD_COMPLETE"]
          /\ drop_to_chain(n, TRUE)
       \/ /\ state[n] # "CLOSINGD_SIGEXCHANGE"
          /\ UNCHANGED <<state, broadcast, cmd>>
    /\ UNCHANGED <<plan, last_tx, connected, wire, chain>>

(* The user's patience, unilateraltimeout, ends. *)
close_command_timeout(n) ==
    /\ cmd[n] = "pending"
    /\ channel_fail_permanent(n)
    /\ d' = [d EXCEPT ![n] = Off]
    /\ UNCHANGED <<plan, last_tx, connected, wire, chain>>

Failed(n) == state[n] \in {"AWAITING_UNILATERAL", "FUNDING_SPEND_SEEN"}

(* handle_peer_spoke(): nobody reads what this channel is told, so the peer *)
(* is sent an error, and fails the channel too.                             *)
handle_peer_spoke(n) ==
    /\ Idle(n) /\ wire[n] # <<>>
    /\ channel_fail_permanent(Peer(n))
    /\ d' = [Disconnected EXCEPT ![Peer(n)] = Off]
    /\ Hangup
    /\ UNCHANGED <<plan, last_tx, chain>>

(* A node that still negotiates reconnects; one that is done joins in; one  *)
(* that failed the channel sends its error.                                 *)
WantsPeer(n) == wants_onchain_fail(n)
peer_connected ==
    /\ ~connected
    /\ \A n \in Nodes : Idle(n)
    /\ \E n \in Nodes : WantsPeer(n)
    /\ \/ /\ \A n \in Nodes : ~Failed(n)
          /\ connected' = TRUE
          /\ d' = [n \in Nodes |-> Starting]
          /\ UNCHANGED <<state, broadcast, cmd>>
       \/ \E n \in Nodes :
            /\ Failed(n)
            /\ channel_fail_permanent(Peer(n))
            /\ UNCHANGED <<connected, d>>
    /\ UNCHANGED <<plan, last_tx, wire, chain>>

(* The funding output is spent.  The command is answered as by a close that *)
(* was not ours.                                                            *)
funding_spent(n) ==
    /\ chain # NoTx /\ state[n] # "FUNDING_SPEND_SEEN"
    /\ state' = [state EXCEPT ![n] = "FUNDING_SPEND_SEEN"]
    /\ cmd' = Answered(n, "unilateral")
    /\ d' = [d EXCEPT ![n] = Off]
    /\ UNCHANGED <<plan, last_tx, connected, wire, broadcast, chain>>

Mine ==
    /\ chain = NoTx
    /\ \E tx \in broadcast : chain' = tx
    /\ UNCHANGED <<plan, state, last_tx, d, connected, wire, cmd, broadcast>>

Cut ==
    /\ connected /\ plan.cuts > 0
    /\ plan' = [plan EXCEPT !.cuts = @ - 1]
    /\ d' = Disconnected
    /\ Hangup
    /\ UNCHANGED <<state, last_tx, cmd, broadcast, chain>>

(* lightningd stops and starts again: commands are forgotten, and a channel *)
(* that was closed or failed is dropped to chain once more.                 *)
Restart(n) ==
    /\ plan.restarts > 0
    /\ plan' = [plan EXCEPT !.restarts = @ - 1]
    /\ d' = [Disconnected EXCEPT ![n] = Off]
    /\ Hangup
    /\ cmd' = Answered(n, "none")
    /\ broadcast' = broadcast \cup
           (IF state[n] \in {"CLOSINGD_COMPLETE", "AWAITING_UNILATERAL"}
            THEN {last_tx[n]} ELSE {})
    /\ UNCHANGED <<state, last_tx, chain>>

Daemon(n) == peer_start_closingd(n) \/ receive_offer(n) \/ peer_closing_complete(n)

Next ==
    \/ \E n \in Nodes : \/ Daemon(n)
                        \/ close_command_timeout(n)
                        \/ handle_peer_spoke(n)
                        \/ funding_spent(n)
                        \/ Restart(n)
    \/ peer_connected
    \/ Mine
    \/ Cut

Spec == Init /\ [][Next]_vars

(* The daemons run, the peers reconnect, timers fire, transactions are      *)
(* mined and seen.                                                          *)
FairSpec ==
    /\ Spec
    /\ \A n \in Nodes : /\ WF_vars(Daemon(n))
                        /\ WF_vars(close_command_timeout(n))
                        /\ WF_vars(handle_peer_spoke(n))
                        /\ WF_vars(funding_spent(n))
    /\ WF_vars(peer_connected)
    /\ WF_vars(Mine)

-----------------------------------------------------------------------------
Ended(n) == d[n].pc \in {"done", "over"}

(* Two closingds of one connection end their loops on the same fee, neither *)
(* is left waiting for, or sending, an offer the other no longer reads, and *)
(* with ranges that fee is within the range of each.                        *)
SameFee ==
    /\ (\A n \in Nodes : Ended(n)) => d[Opener].ours = d[Accepter].ours
    /\ \A n \in Nodes :
         /\ Ended(n) => /\ d[n].ours = d[n].theirs
                        /\ wire[n] = <<>>
         /\ Ended(n) /\ (\A m \in Nodes : use_quickclose(m))
              => amount_in_range(d[n].ours, d[n].bounds)

(* When closingd is done, lightningd holds the closing transaction agreed   *)
(* on, with the peer's signature, and drops that one to chain: whatever     *)
(* other offers, sessions and restarts came before.  A fee below the node's *)
(* own minimum is agreed to but not kept (README, observations).            *)
AgreedIsKept ==
    \A n \in Nodes :
        Ended(n) /\ d[n].ours >= Max({d[n].bounds.min, plan.floor[n]})
        => last_tx[n] = Close(d[n].ours)

(* A close that both users' fees allow, or that one of them waits for, ends *)
(* on chain, and both nodes see it there, although connections are lost,    *)
(* nodes restart and fees change between sessions.                          *)
ClosesInTheEnd == <>(\A n \in Nodes : state[n] = "FUNDING_SPEND_SEEN")
=============================================================================
