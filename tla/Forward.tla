------------------------------ MODULE Forward ------------------------------
(* A node that forwards HTLCs (lightningd/peer_htlcs.c): each comes in on   *)
(* one channel and goes out on another.  The HTLCs that are committed are   *)
(* in the database; an HTLC still being offered lives with the outgoing     *)
(* channel's channeld.  Blocks arrive, channels go on chain, daemons die.   *)
EXTENDS Naturals, FiniteSets

CONSTANTS
    Htlcs,
    InExpiry, OutExpiry,   \* cltv_expiry of each on its two channels
    InDeadline,            \* htlc_in_deadline()
    OutDeadline,           \* htlc_out_deadline()
    MaxHeight,             \* bound: every deadline and expiry has passed
    MaxDeaths,             \* bound: how often a daemon dies
    MayClose               \* the user may shut the outgoing channel down

ASSUME ForwardAssumption ==
    /\ IsFiniteSet(Htlcs)
    /\ InExpiry \in [Htlcs -> Nat] /\ OutExpiry \in [Htlcs -> Nat]
    /\ \A h \in Htlcs : OutExpiry[h] < InExpiry[h]   \* check_cltv()
    /\ InDeadline \in [Htlcs -> Nat] /\ OutDeadline \in [Htlcs -> Nat]
    /\ MaxHeight \in Nat /\ MaxDeaths \in Nat /\ MayClose \in BOOLEAN

VARIABLES
    height,
    hin,        \* struct htlc_in: its resolution, and how it ended
    hout,       \* struct htlc_out: where it is in its life
    waiting,    \* HTLCs the htlc_accepted hook has not let through yet
    in, out,    \* state of the two channels
    owner,      \* the outgoing channel has its channeld
    deaths,
    took,       \* history: the next node has the preimage paid for
    sends,      \* history: how often the HTLC was committed to the next node
    abandoned,  \* history: failed by consider_failing_incoming()
    fault

chans == <<in, out, owner>>
hist == <<took, sends, abandoned>>
forward_vars == <<height, hin, hout, waiting, chans, deaths, hist, fault>>

(* A row in the database, or only in memory: not connected to htlcs_out     *)
(* before channeld has replied.                                             *)
Rows == {"committed", "failing", "fulfilled", "failed"}
Offering == {"offered", "added"}

ForwardInit ==
    /\ height = 0
    /\ hin = [h \in Htlcs |-> "none"]
    /\ hout = [h \in Htlcs |-> "none"]
    /\ waiting = {}
    /\ in = "normal" /\ out = "normal" /\ owner = TRUE
    /\ deaths = 0
    /\ took = {} /\ abandoned = {}
    /\ sends = [h \in Htlcs |-> 0]
    /\ fault = "none"

-----------------------------------------------------------------------------
can_add_htlc(state) == state = "normal"
can_remove_htlc(state) == state \in {"normal", "shutting"}

(* hin after fail_in_htlc() of the HTLCs hs, where hout->in is still there. *)
failed(hs) == [h \in Htlcs |-> IF h \in hs /\ hin[h] = "ready" THEN "failed"
                               ELSE hin[h]]
(* An HTLC already being removed makes state_update_ok() fail its channel;  *)
(* one with a preimage fails an assertion.                                  *)
fail_in_htlc(hs) ==
    /\ hin' = failed(hs)
    /\ in' = IF \E h \in hs : hin[h] = "failed" THEN "onchain" ELSE in
    /\ fault' = IF \E h \in hs : hin[h] = "fulfilled"
                THEN "preimage" ELSE fault

(* peer_accepted_htlc() *)
peer_accepted_htlc(h) ==
    /\ hin[h] = "none"
    /\ in # "onchain"
    /\ hin' = [hin EXCEPT ![h] = "ready"]
    /\ waiting' = waiting \cup {h}
    /\ UNCHANGED <<height, hout, chans, deaths, hist, fault>>

(* forward_htlc(), send_htlc_out(): refused for its fee, amount or asset,   *)
(* or since the channel cannot take it now.                                 *)
forward_htlc_fails(h) ==
    /\ h \in waiting
    /\ waiting' = waiting \ {h}
    /\ fail_in_htlc({h})
    /\ UNCHANGED <<height, hout, out, owner, deaths, hist>>

(* forward_htlc() and send_htlc_out(): the HTLC goes to the outgoing        *)
(* channeld, which owns the htlc_out.                                       *)
forward_htlc(h) ==
    /\ h \in waiting
    /\ can_add_htlc(out) /\ owner
    /\ height < OutExpiry[h]
    /\ waiting' = waiting \ {h}
    /\ hout' = [hout EXCEPT ![h] = "offered"]
    /\ UNCHANGED <<height, hin, chans, deaths, hist, fault>>

(* rcvd_htlc_reply() *)
rcvd_htlc_reply_fails(h) ==
    /\ hout[h] = "offered"
    /\ hout' = [hout EXCEPT ![h] = "none"]
    /\ fail_in_htlc({h})
    /\ UNCHANGED <<height, waiting, out, owner, deaths, hist>>
rcvd_htlc_reply(h) ==
    /\ hout[h] = "offered"
    /\ hout' = [hout EXCEPT ![h] = "added"]
    /\ UNCHANGED <<height, hin, waiting, chans, deaths, hist, fault>>

(* update_out_htlc(): the first commitment that has it: "now it outlives    *)
(* peer".                                                                   *)
update_out_htlc_commit(h) ==
    /\ hout[h] = "added" /\ owner
    /\ hout' = [hout EXCEPT ![h] = "committed"]
    /\ sends' = [sends EXCEPT ![h] = @ + 1]
    /\ UNCHANGED <<height, hin, waiting, chans, deaths, took, abandoned, fault>>

(* destroy_hout_subd_died(): with the outgoing channeld go the HTLCs it     *)
(* had not committed, hs, and those coming in for them fail.                *)
destroy_hout_subd_died(hs) ==
    hout' = [h \in Htlcs |-> IF h \in hs THEN "none" ELSE hout[h]]
Dying == {h \in Htlcs : hout[h] \in Offering}

(* The connection breaks, or htlc_offer_timeout() breaks it. *)
OutChanneldDies ==
    /\ owner /\ deaths < MaxDeaths
    /\ deaths' = deaths + 1
    /\ owner' = FALSE
    /\ destroy_hout_subd_died(Dying)
    /\ fail_in_htlc(Dying)
    /\ UNCHANGED <<height, waiting, out, hist>>
OutReconnects ==
    /\ ~owner /\ out # "onchain"
    /\ owner' = TRUE
    /\ UNCHANGED <<height, hin, hout, waiting, in, out, deaths, hist, fault>>

(* The outgoing channel is shut down: no HTLC may be added. *)
OutShutsDown ==
    /\ MayClose /\ out = "normal"
    /\ out' = "shutting"
    /\ UNCHANGED <<height, hin, hout, waiting, in, owner, deaths, hist, fault>>

(* Someone takes the channel to chain; its channeld goes. *)
OutGoesOnchain ==
    /\ out # "onchain"
    /\ out' = "onchain" /\ owner' = FALSE
    /\ destroy_hout_subd_died(Dying)
    /\ fail_in_htlc(Dying)
    /\ UNCHANGED <<height, waiting, deaths, hist>>
InGoesOnchain ==
    /\ in # "onchain"
    /\ in' = "onchain"
    /\ UNCHANGED <<height, hin, hout, waiting, out, owner, deaths, hist, fault>>

-----------------------------------------------------------------------------
(* Mutant: the preimage is kept until the HTLC is gone. *)
fulfill_our_htlc_out_later(h) ==
    /\ hout' = [hout EXCEPT ![h] = "fulfilled"]
    /\ took' = took \cup {h}
    /\ UNCHANGED hin

(* fulfill_our_htlc_out(): fulfill_htlc() takes the preimage to an incoming *)
(* HTLC that is not being removed yet.                                      *)
fulfill_our_htlc_out(h) ==
    /\ hout' = [hout EXCEPT ![h] = "fulfilled"]
    /\ took' = took \cup {h}
    /\ hin' = [hin EXCEPT ![h] = IF @ = "ready" THEN "fulfilled" ELSE @]

(* peer_fulfilled_our_htlc(), from a commitment of the peer. *)
peer_fulfilled_our_htlc(h) ==
    /\ hout[h] = "committed" /\ owner
    /\ fulfill_our_htlc_out(h)
    /\ UNCHANGED <<height, waiting, chans, deaths, sends, abandoned, fault>>
(* onchain_fulfilled_htlc(): onchaind sees the preimage, in a claim from    *)
(* the peer's commitment.  The peer may have failed the HTLC before, on our *)
(* commitment alone: then the preimage is skipped.                          *)
onchain_fulfilled_htlc(h) ==
    /\ hout[h] \in {"committed", "failing"} /\ out = "onchain"
    /\ h \notin took
    /\ IF hout[h] = "failing" THEN took' = took \cup {h} /\ UNCHANGED <<hin, hout>>
                              ELSE fulfill_our_htlc_out(h)
    /\ UNCHANGED <<height, waiting, chans, deaths, sends, abandoned, fault>>

(* peer_failed_our_htlc(): the failure is only recorded: the peer's own     *)
(* commitment may still have the HTLC.                                      *)
peer_failed_our_htlc(h) ==
    /\ hout[h] = "committed" /\ owner
    /\ hout' = [hout EXCEPT ![h] = "failing"]
    /\ UNCHANGED <<height, hin, waiting, chans, deaths, hist, fault>>

(* update_out_htlc() and remove_htlc_out(), when both commitments are rid   *)
(* of it: fail_out_htlc() fails the incoming HTLC, if it is still there.    *)
remove_htlc_out(h) ==
    /\ hout[h] \in {"failing", "fulfilled"} /\ owner
    /\ hout' = [hout EXCEPT ![h] = "gone"]
    /\ IF hout[h] = "failing" THEN fail_in_htlc({h})
                              ELSE UNCHANGED <<hin, in, fault>>
    /\ UNCHANGED <<height, waiting, out, owner, deaths, hist>>

(* onchain_failed_our_htlc(): timed out, or not in the commitment that      *)
(* confirmed.                                                               *)
onchain_failed_our_htlc(h) ==
    /\ hout[h] \in {"committed", "failing"} /\ out = "onchain"
    /\ h \notin took
    /\ hout' = [hout EXCEPT ![h] = "failed"]
    /\ hin' = failed({h})
    /\ UNCHANGED <<height, waiting, chans, deaths, hist, fault>>

(* update_in_htlc() and remove_htlc_in(): the peer lets go of it; or it is  *)
(* settled on chain, by our claim or, once expired, by the peer's timeout.  *)
remove_htlc_in(h) ==
    /\ \/ in = "normal" /\ hin[h] \in {"fulfilled", "failed"}
       \/ in = "onchain" /\ hin[h] = "fulfilled"
       \/ in = "onchain" /\ hin[h] # "none" /\ height >= InExpiry[h]
    /\ hin[h] \in {"ready", "fulfilled", "failed"}
    /\ hin' = [hin EXCEPT ![h] =
                 CASE @ = "fulfilled" -> "paid"
                   [] @ = "failed" -> "returned"
                   [] OTHER -> "timedout"]
    /\ waiting' = waiting \ {h}
    /\ UNCHANGED <<height, hout, chans, deaths, hist, fault>>

-----------------------------------------------------------------------------
(* consider_failing_incoming(), for an outgoing channel that is dying. *)
consider_failing_incoming(h, now) ==
    /\ hout[h] = "committed"
    /\ hin[h] = "ready"
    /\ now + 3 >= InExpiry[h]
    /\ can_remove_htlc(in)

(* Mutant: only while the peer is connected. *)
past_deadline_connected(now) ==
    {h \in Htlcs : owner /\ hout[h] \in Rows \cup {"added"} /\ now >= OutDeadline[h]}
(* htlcs_out does not hold an HTLC channeld has not replied to. *)
past_deadline(now) ==
    {h \in Htlcs : hout[h] \in Rows \cup {"added"} /\ now >= OutDeadline[h]}

(* htlcs_notify_new_block().  A channel failed in one round is dying in the *)
(* next.                                                                    *)
htlcs_notify_new_block(now) ==
    LET late == past_deadline(now)
        fails == late # {} /\ can_add_htlc(out)
        dying == IF fails THEN Dying ELSE {}
        gives_up == {h \in late : consider_failing_incoming(h, now)}
    IN  /\ out' = IF fails THEN "onchain" ELSE out
        /\ owner' = (owner /\ ~fails)
        /\ destroy_hout_subd_died(dying)
        /\ hin' = failed(dying \cup gives_up)
        /\ abandoned' = abandoned \cup gives_up
        /\ in' = IF \E h \in Htlcs : hin[h] = "fulfilled"
                                       /\ now >= InDeadline[h]
                 THEN "onchain" ELSE in

(* Blocks keep coming; past MaxHeight their number tells nothing apart. *)
NewBlock ==
    /\ height' = IF height < MaxHeight THEN height + 1 ELSE height
    /\ htlcs_notify_new_block(height')
    /\ UNCHANGED <<waiting, deaths, took, sends, fault>>

(* Mutant: every incoming HTLC not being removed is replayed. *)
unconnected_all == {h \in Htlcs : hin[h] = "ready"}
(* load_channels_from_wallet(), htlcs_resubmit(): an incoming HTLC that is  *)
(* not being removed and has no outgoing one in the database is replayed.   *)
unconnected_htlcs_in ==
    {h \in Htlcs : hin[h] = "ready" /\ hout[h] \notin Rows}

LightningdRestarts ==
    /\ deaths < MaxDeaths
    /\ deaths' = deaths + 1
    /\ owner' = FALSE
    /\ hout' = [h \in Htlcs |-> IF hout[h] \in Offering THEN "none" ELSE hout[h]]
    /\ waiting' = unconnected_htlcs_in
    /\ UNCHANGED <<height, hin, in, out, hist, fault>>

(* The htlc_accepted hook answers, and the outgoing channeld. *)
HookAnswers(h) == forward_htlc(h) \/ forward_htlc_fails(h)
OutReplies(h) ==
    \/ rcvd_htlc_reply(h)
    \/ rcvd_htlc_reply_fails(h)
    \/ update_out_htlc_commit(h)

(* onchaind settles what is left on chain. *)
OutResolves(h) == onchain_fulfilled_htlc(h) \/ onchain_failed_our_htlc(h)

ForwardNext ==
    /\ fault = "none"
    /\ \/ \E h \in Htlcs :
            \/ peer_accepted_htlc(h)
            \/ HookAnswers(h)
            \/ OutReplies(h)
            \/ peer_fulfilled_our_htlc(h)
            \/ peer_failed_our_htlc(h)
            \/ remove_htlc_out(h)
            \/ OutResolves(h)
            \/ remove_htlc_in(h)
       \/ OutChanneldDies
       \/ OutReconnects
       \/ OutShutsDown
       \/ OutGoesOnchain
       \/ InGoesOnchain
       \/ NewBlock
       \/ LightningdRestarts

ForwardSpec == ForwardInit /\ [][ForwardNext]_forward_vars

(* Plugins answer, channeld replies or dies, onchaind settles what the code *)
(* waits for, blocks come and expired HTLCs on chain are taken back.        *)
FairForward ==
    /\ ForwardSpec
    /\ WF_forward_vars(fault = "none" /\ NewBlock)
    /\ \A h \in Htlcs :
         /\ WF_forward_vars(fault = "none" /\ HookAnswers(h))
         /\ WF_forward_vars(fault = "none" /\ OutReplies(h))
         /\ WF_forward_vars(fault = "none" /\ OutResolves(h))
         /\ WF_forward_vars(fault = "none" /\ remove_htlc_in(h))

-----------------------------------------------------------------------------
(* The next node failed the HTLC and then claimed it on chain, from the     *)
(* commitment of its own that still had it: onchain_fulfilled_htlc() skips  *)
(* an HTLC that has a failonion.                                            *)
ClaimedAfterFailing(h) == h \in took /\ hout[h] = "failing"

(* The node is out of pocket in three cases only: it gave the incoming HTLC *)
(* up (consider_failing_incoming()), the previous node timed it out on      *)
(* chain, or the next node claimed it on chain after it had failed it.      *)
(* Whenever else the next node has been paid, the incoming HTLC is          *)
(* fulfilled.  An incoming HTLC fails only when the outgoing one cannot be  *)
(* paid any more, and nobody fails one whose preimage is known (the         *)
(* assertion of fail_in_htlc()).                                            *)
PaidThrough ==
    /\ fault = "none"
    /\ \A h \in Htlcs \ abandoned :
        /\ h \in took => \/ hin[h] \in {"fulfilled", "paid", "timedout"}
                         \/ ClaimedAfterFailing(h)
        /\ hin[h] \in {"failed", "returned"} =>
             hout[h] \in {"none", "failed", "gone"}

(* An HTLC is committed to the next node once, across restarts, replays and *)
(* channelds that die while it is being added: while it waits to be         *)
(* forwarded, the next node has never had it.                               *)
ForwardedOnce ==
    \A h \in Htlcs : /\ sends[h] <= 1
                     /\ h \in waiting => hout[h] = "none" /\ sends[h] = 0

(* No HTLC is held for ever, whatever the peers refuse to say, whichever    *)
(* daemon dies and however long onchaind waits: a block past its deadline   *)
(* takes the outgoing channel to chain.  The exceptions are the code's: it  *)
(* does not fail a channel that is shutting down for a deadline, and an     *)
(* HTLC claimed on chain after it was failed is left to the previous node.  *)
HtlcsResolve ==
    \A h \in Htlcs :
        hin[h] = "ready" ~> \/ hin[h] # "ready" \/ out = "shutting"
                           \/ ClaimedAfterFailing(h)
============================================================================
