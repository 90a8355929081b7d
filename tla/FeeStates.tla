----------------------------- MODULE FeeStates -----------------------------
(* common/fee_states.c: the feerates in flight, one slot per HTLC state; a  *)
(* NULL slot is 0.  An update_fee travels like an HTLC the opener adds and  *)
(* is never removed, only replaced by the one behind it.                    *)
EXTENDS HtlcState

(* commit_tx_base_fee's headroom rule marginal_feerate() interpolates      *)
(* between a 100% and a 10% margin; MarginPct is the margin at the          *)
(* feerates an instance uses.                                               *)
CONSTANT MarginPct
ASSUME MarginPctAssumption == MarginPct \in Nat

first_fee_state(opener) ==
    IF opener = "local" THEN SENT_ADD_HTLC ELSE RCVD_ADD_HTLC
last_fee_state(opener) ==
    IF opener = "local" THEN SENT_ADD_ACK_REVOCATION
                        ELSE RCVD_ADD_ACK_REVOCATION

new_fee_states(opener, rate) ==
    [i \in HtlcStates |-> IF i = last_fee_state(opener) THEN rate ELSE 0]

(* The first non-NULL feerate committed to this side is current. *)
get_feerate(fee, opener, side) ==
    LET current(i) ==
          /\ fee[i] # 0
          /\ i \in Committed(side)
          /\ \A j \in first_fee_state(opener)..(i - 1) :
                ~(fee[j] # 0 /\ j \in Committed(side))
    IN  fee[CHOOSE i \in first_fee_state(opener)..last_fee_state(opener) :
                current(i)]

(* Mutant: a feerate change may start before the last one is done. *)
feerate_changes_always_done(fee) == TRUE

(* Called with ignore_uncommitted = false only. *)
feerate_changes_done(fee) ==
    \E i \in HtlcStates : \A j \in HtlcStates : (fee[j] # 0) <=> (j = i)

start_fee_update(fee, opener, rate) ==
    [fee EXCEPT ![first_fee_state(opener)] = rate]

(* inc_fee_state() over a set of slots, no two of which are adjacent: each  *)
(* full slot moves up by one, freeing whatever the next slot held.          *)
inc_fee_states(fee, slots) ==
    LET moves(i) == i \in slots \cap AddingStates /\ fee[i] # 0
    IN  [i \in HtlcStates |->
            IF moves(i) THEN 0
            ELSE IF i > 0 /\ moves(i - 1) THEN fee[i - 1]
            ELSE fee[i]]

(* What towire_fee_states() gives lightningd to keep: uncommitted slots are *)
(* not sent.                                                                *)
towire_fee_states(fee) ==
    [i \in HtlcStates |->
        IF i \in Committed("local") \cup Committed("remote")
        THEN fee[i] ELSE 0]

marginal_feerate(rate) == rate + (rate * MarginPct) \div 100
============================================================================
