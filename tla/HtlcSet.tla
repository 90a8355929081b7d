------------------------------ MODULE HtlcSet ------------------------------
(* The parts of one payment to us (lightningd/htlc_set.c), the invoice they *)
(* pay and the plugin hook asked before it is marked paid                   *)
(* (lightningd/invoice.c, wallet/invoices.c).  HTLCs and invoices are in    *)
(* the database; the set, its timer and the hook calls are in memory only.  *)
EXTENDS Naturals, FiniteSets, FiniteSetsExt

CONSTANTS
    Parts,      \* HTLCs that may reach us for the invoice's payment_hash
    Assets,
    NoAsset,    \* an invoice that names no asset
    MaxMsat,    \* bound of an amount (2^64 - 1 in the code)
    Scenarios   \* the invoice, the onions, and what else may happen

Onions == [msat : 1..MaxMsat, total : 1..MaxMsat, secret : BOOLEAN,
           asset : Assets]

Scenario ==
    [msat : 0..MaxMsat,             \* amount of the invoice, 0 for any
     asset : Assets \cup {NoAsset},
     required : BOOLEAN,            \* it insists on its payment_secret
     onion : [Parts -> Onions],
     restarts : Nat, onchain : 0..1, deletes : BOOLEAN]

ASSUME HtlcSetAssumption ==
    /\ IsFiniteSet(Parts)
    /\ MaxMsat \in Nat
    /\ NoAsset \notin Assets
    /\ Scenarios \subseteq Scenario

VARIABLES
    sc,       \* the scenario, with what is left of its restarts
    invoice,  \* state of the invoice in the database
    hin,      \* hin[p]: the part in the database
    waiting,  \* parts the htlc_accepted hook has not let through yet
    set,      \* struct htlc_set of the payment_hash; no parts: there is none
    hooks,    \* invoice_payment calls not answered; on: its set still exists
    fault

set_vars == <<sc, invoice, hin, waiting, set, hooks, fault>>

NoSet == [parts |-> {}, so_far |-> 0, total |-> 0, asset |-> NoAsset,
          timer |-> FALSE]
OnChain == "onchain"

SetInit ==
    /\ sc \in Scenarios
    /\ invoice = "unpaid"
    /\ hin = [p \in Parts |-> "none"]
    /\ waiting = {}
    /\ set = NoSet
    /\ hooks = {}
    /\ fault = "none"

-----------------------------------------------------------------------------
Settle(ps, outcome) ==
    hin' = [p \in Parts |-> IF p \in ps /\ hin[p] = "ready" THEN outcome
                            ELSE hin[p]]

(* The set is freed: calls about it will find it gone. *)
FreeSet(rest) ==
    /\ set' = NoSet
    /\ hooks' = {[h EXCEPT !.on = FALSE] : h \in rest}

(* htlc_set_fail() *)
htlc_set_fail(ps, rest) == Settle(ps, "failed") /\ FreeSet(rest)

(* peer_accepted_htlc(): the part is irrevocably committed. *)
peer_accepted_htlc(p) ==
    /\ fault = "none"
    /\ hin[p] = "none"
    /\ hin' = [hin EXCEPT ![p] = "ready"]
    /\ waiting' = waiting \cup {p}
    /\ UNCHANGED <<sc, invoice, set, hooks, fault>>

(* handle_localpay() refuses: the onion does not fit the HTLC, or the HTLC  *)
(* expires too soon at this height.                                         *)
handle_localpay_fails(p) ==
    /\ fault = "none" /\ p \in waiting
    /\ waiting' = waiting \ {p}
    /\ Settle({p}, "failed")
    /\ UNCHANGED <<sc, invoice, set, hooks, fault>>

(* invoice_check_payment(): the invoice is unpaid and wants this. *)
invoice_check_payment(o) ==
    /\ invoice = "unpaid"
    /\ sc.asset \in {NoAsset, o.asset}
    /\ sc.required => o.secret
    /\ sc.msat # 0 => o.total \in sc.msat..(2 * sc.msat)

(* Mutant: parts of one set may be in several assets. *)
part_fits_any_asset(o) == invoice_check_payment(o)
                            /\ (set.parts # {} => o.secret)
(* What htlc_set_add_() asks of a part before it lets it in. *)
part_fits(o) ==
    /\ invoice_check_payment(o)
    /\ set.parts # {} => o.asset = set.asset /\ o.secret

(* htlc_set_add_(): the part alone is failed. *)
htlc_set_add_refused(p) ==
    /\ fault = "none" /\ p \in waiting
    /\ ~part_fits(sc.onion[p])
    /\ waiting' = waiting \ {p}
    /\ Settle({p}, "failed")
    /\ UNCHANGED <<sc, invoice, set, hooks, fault>>

(* The set with the part in it; a new set starts its timer. *)
with_part(p) ==
    LET o == sc.onion[p] IN
    IF set.parts = {}
    THEN [parts |-> {p}, so_far |-> o.msat, total |-> o.total,
          asset |-> o.asset, timer |-> TRUE]
    ELSE [set EXCEPT !.parts = @ \cup {p}, !.so_far = @ + o.msat]

set_complete(s) == s.so_far >= s.total

(* htlc_set_add_(): the whole set is failed, since totals differ, the sum   *)
(* overflows, or the first of several parts has no secret.                  *)
htlc_set_add_fails(p) ==
    LET o == sc.onion[p]
        s == with_part(p)
    IN
    /\ fault = "none" /\ p \in waiting
    /\ part_fits(o)
    /\ \/ o.total # s.total
       \/ s.so_far > MaxMsat
       \/ ~set_complete(s) /\ ~o.secret
    /\ waiting' = waiting \ {p}
    /\ htlc_set_fail(s.parts, hooks)
    /\ UNCHANGED <<sc, invoice, fault>>

(* htlc_set_add_(): the part waits for the others, or completes the set: the *)
(* timer is freed and invoice_try_pay() asks the plugins.                   *)
htlc_set_add(p) ==
    LET o == sc.onion[p]
        s == with_part(p)
    IN
    /\ fault = "none" /\ p \in waiting
    /\ part_fits(o)
    /\ o.total = s.total /\ s.so_far <= MaxMsat
    /\ set_complete(s) \/ o.secret
    /\ waiting' = waiting \ {p}
    /\ IF set_complete(s)
       THEN /\ fault' = IF s.timer THEN "none" ELSE "timer freed twice"
            /\ set' = [s EXCEPT !.timer = FALSE]
            /\ hooks' = hooks \cup {[by |-> p, on |-> TRUE]}
       ELSE /\ set' = s
            /\ UNCHANGED <<hooks, fault>>
    /\ UNCHANGED <<sc, invoice, hin>>

(* Mutant: the timer waits for a part that is late. *)
timeout_waits ==
    /\ fault = "none" /\ set.timer
    /\ UNCHANGED set_vars

(* timeout_htlc_set(), 70 seconds after the first part. *)
timeout_htlc_set ==
    /\ fault = "none" /\ set.timer
    /\ htlc_set_fail(set.parts, hooks)
    /\ UNCHANGED <<sc, invoice, waiting, fault>>

(* Mutant: the other parts are forgotten with the set. *)
inpay_destroyed_alone(p) == FreeSet(hooks) /\ hin' = [hin EXCEPT ![p] = "gone"]

(* htlc_set_inpay_destroyed(): the others fail, if it is part of a set. *)
htlc_set_inpay_destroyed(p) ==
    IF p \in set.parts
    THEN /\ FreeSet(hooks)
         /\ hin' = [q \in Parts |-> IF q = p THEN "gone"
                                    ELSE IF q \in set.parts THEN "failed"
                                    ELSE hin[q]]
    ELSE /\ hin' = [hin EXCEPT ![p] = "gone"]
         /\ UNCHANGED <<set, hooks>>

(* The HTLC goes with its channel, once the peer has timed it out on chain. *)
HtlcTimesOut(p) ==
    /\ fault = "none"
    /\ hin[p] = "ready"
    /\ waiting' = waiting \ {p}
    /\ htlc_set_inpay_destroyed(p)
    /\ UNCHANGED <<sc, invoice, fault>>

-----------------------------------------------------------------------------
(* invoice_check_onchain_payment(): a transaction pays the invoice's        *)
(* fallback address.                                                        *)
invoice_check_onchain_payment ==
    /\ fault = "none"
    /\ sc.onchain > 0
    /\ invoice # "deleted"
    /\ sc' = [sc EXCEPT !.onchain = @ - 1]
    /\ hooks' = hooks \cup {[by |-> OnChain, on |-> FALSE]}
    /\ UNCHANGED <<invoice, hin, waiting, set, fault>>

(* Mutant: the state of the invoice is not looked at again. *)
invoices_resolve_any(i) == i # "deleted"
(* invoices_resolve() succeeds. *)
invoices_resolve(i) == i = "unpaid"

(* invoice_payment_hooks_done(): no plugin objects.  The invoice is paid    *)
(* and the parts fulfilled in one database transaction.                     *)
invoice_payment_hooks_done(h) ==
    LET rest == hooks \ {h} IN
    /\ fault = "none" /\ h \in hooks
    /\ h.on \/ h.by = OnChain
    /\ IF invoices_resolve(invoice)
       THEN /\ invoice' = "paid"
            /\ IF h.on THEN Settle(set.parts, "fulfilled") /\ FreeSet(rest)
               ELSE hooks' = rest /\ UNCHANGED <<hin, set>>
       ELSE /\ IF h.on THEN htlc_set_fail(set.parts, rest)
               ELSE hooks' = rest /\ UNCHANGED <<hin, set>>
            /\ UNCHANGED invoice
    /\ fault' = IF invoice = "deleted" /\ ~h.on
                THEN "htlc_set_fail of no set" ELSE "none"
    /\ UNCHANGED <<sc, waiting>>

(* invoice_payment_deserialize(): a plugin has the set failed, or the set   *)
(* is gone.                                                                 *)
invoice_payment_refused(h) ==
    /\ fault = "none" /\ h \in hooks
    /\ h.by # OnChain
    /\ IF h.on THEN htlc_set_fail(set.parts, hooks \ {h})
       ELSE hooks' = hooks \ {h} /\ UNCHANGED <<hin, set>>
    /\ UNCHANGED <<sc, invoice, waiting, fault>>

(* trigger_expiration() *)
trigger_expiration ==
    /\ fault = "none"
    /\ invoice = "unpaid"
    /\ invoice' = "expired"
    /\ UNCHANGED <<sc, hin, waiting, set, hooks, fault>>

(* json_delinvoice() *)
json_delinvoice ==
    /\ fault = "none"
    /\ sc.deletes /\ invoice # "deleted"
    /\ invoice' = "deleted"
    /\ UNCHANGED <<sc, hin, waiting, set, hooks, fault>>

(* htlcs_resubmit(): every part that is not being removed is replayed. *)
htlcs_resubmit == {p \in Parts : hin[p] = "ready"}

(* lightningd dies and starts again from its database. *)
Restart ==
    /\ fault = "none"
    /\ sc.restarts > 0
    /\ sc' = [sc EXCEPT !.restarts = @ - 1]
    /\ waiting' = htlcs_resubmit
    /\ set' = NoSet
    /\ hooks' = {}
    /\ UNCHANGED <<invoice, hin, fault>>

LocalPay(p) ==
    \/ handle_localpay_fails(p)
    \/ htlc_set_add_refused(p)
    \/ htlc_set_add_fails(p)
    \/ htlc_set_add(p)

HookAnswers ==
    \E h \in hooks : invoice_payment_hooks_done(h) \/ invoice_payment_refused(h)

SetNext ==
    \/ \E p \in Parts : peer_accepted_htlc(p) \/ LocalPay(p) \/ HtlcTimesOut(p)
    \/ timeout_htlc_set
    \/ HookAnswers
    \/ invoice_check_onchain_payment
    \/ trigger_expiration
    \/ json_delinvoice
    \/ Restart

SetSpec == SetInit /\ [][SetNext]_set_vars

(* Plugins answer their hooks, and a timer that is not freed expires. *)
SetFairness ==
    /\ \A p \in Parts : WF_set_vars(LocalPay(p))
    /\ WF_set_vars(timeout_htlc_set)
    /\ WF_set_vars(HookAnswers)

-----------------------------------------------------------------------------
With(state) == {p \in Parts : hin[p] = state}
Msats == [p \in Parts |-> sc.onion[p].msat]
SumOf(ps) == MapThenSumSet(LAMBDA p : Msats[p], ps)

(* A preimage is released only for the whole amount, in one asset, of an    *)
(* invoice that is marked paid: however parts, hooks, expiry, deletion and  *)
(* restarts interleave.  The set never counts other than what it holds.     *)
PaidInFull ==
    /\ set.so_far = SumOf(set.parts)
    /\ With("fulfilled") # {} =>
        /\ invoice \in {"paid", "deleted"}
        /\ Cardinality({sc.onion[p].asset : p \in With("fulfilled")}) = 1
        /\ \A p \in With("fulfilled") :
             /\ SumOf(With("fulfilled")) >= sc.onion[p].total
             /\ sc.onion[p].total >= sc.msat

(* No part is held with nobody left to settle it: one that waits is before  *)
(* its hook or in the set, and the set has its timer or a hook call that    *)
(* will answer it, never both.                                              *)
NoPartForgotten ==
    /\ With("ready") = waiting \cup set.parts
    /\ set.parts # {} =>
         (set.timer <=> ~\E h \in hooks : h.on)

(* An invoice that is no longer unpaid takes no further part. *)
PaidOnce ==
    [][invoice # "unpaid" =>
         {p \in Parts : hin'[p] = "fulfilled"} = With("fulfilled")]_set_vars

(* The payer sent more parts than the total takes, and the last came while  *)
(* the plugins were asked: htlc_set_add_() frees the timer a second time.   *)
ExtraPart ==
    /\ fault = "timer freed twice"
    /\ \E p \in set.parts : SumOf(set.parts \ {p}) >= set.total

(* Every part we hold is fulfilled or failed in the end, timer, hook and    *)
(* restarts notwithstanding, but for an extra part.                         *)
PartsSettle ==
    \A p \in Parts : hin[p] = "ready" ~> hin[p] # "ready" \/ ExtraPart
============================================================================
