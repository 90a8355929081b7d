------------------------------- MODULE Credit -------------------------------
(* A credit channel (lightningd/credit.c): the opener, the provider, owes   *)
(* the other node, the holder, what the latest of its signed notes says.    *)
(* A note goes from lightningd to lightningd, an HTLC from lightningd to    *)
(* channeld to the peer's channeld: neither waits for the other.            *)
EXTENDS Naturals, SequencesExt

CONSTANTS
    Payments,      \* payment hashes the provider is paid for the holder
    Atoms,         \* amount of each payment
    Htlcs,         \* HTLCs the provider may offer
    Msat,          \* amount of each HTLC, in atoms
    Balance,       \* the provider's balance at the start
    Reserve, Dust,
    MaxCuts        \* bound: how often the connection goes

ASSUME CreditAssumption ==
    /\ IsFiniteSet(Payments) /\ IsFiniteSet(Htlcs)
    /\ Atoms \in [Payments -> Nat \ {0}] /\ Msat \in [Htlcs -> Nat \ {0}]
    /\ Balance \in Nat /\ Reserve \in Nat /\ Dust \in Nat /\ MaxCuts \in Nat

VARIABLES
    credit,     \* provider's credit_notes: the credit of each, 0 if none
    preimages,  \* the notes it has the preimage of
    held,       \* holder's credit_notes
    enforce,    \* those it has the preimage of
    our_msat,   \* the provider's balance
    hout,       \* each HTLC's life at the provider
    got,        \* HTLCs in the holder's channeld
    pipe,       \* lightningd to channeld, at the provider
    replies,    \* channeld to lightningd, at the provider: HTLCs added
    pipeH,      \* lightningd to channeld, at the holder: notes only
    wire,       \* channeld to channeld
    mail,       \* lightningd to lightningd
    floor,      \* credit_floor of either channeld
    up,         \* connected, both channelds running
    cuts,
    crossed,    \* history: HTLCs between offer and reply at an issuecredit
    late,       \* history: notes whose preimage came after them
    refused     \* history: HTLCs the holder would not take

notes == <<credit, preimages, late>>
holder == <<held, enforce>>
links == <<pipe, replies, pipeH, wire, mail>>
vars == <<notes, holder, our_msat, hout, got, links, floor, up, cuts, crossed,
          refused>>

Init ==
    /\ credit = [p \in Payments |-> 0] /\ preimages = {} /\ late = {}
    /\ held = {} /\ enforce = {}
    /\ our_msat = Balance
    /\ hout = [h \in Htlcs |-> "none"] /\ got = {}
    /\ pipe = <<>> /\ replies = <<>> /\ pipeH = <<>>
    /\ wire = <<>> /\ mail = <<>>
    /\ floor = [provider |-> 0, holder |-> 0]
    /\ up = TRUE /\ cuts = 0
    /\ crossed = {} /\ refused = {}

-----------------------------------------------------------------------------
Amount(hs) == MapThenSumSet(LAMBDA h : Msat[h], hs)
In(states) == {h \in Htlcs : hout[h] \in states}
Minus(a, b) == IF a > b THEN a - b ELSE 0

(* channel_credit_latest(): the provider's highest, the holder's highest    *)
(* that it can enforce; 0 if none.                                          *)
Highest(ps) == Max({0} \cup {credit[p] : p \in ps})
Issued == Highest(Payments)
Enforceable == Highest(enforce)
ByCredit(c) == CHOOSE p \in Payments : credit[p] = c

(* HTLCs that connect_htlc_out() has put into htlcs_out. *)
htlcs_out == In({"out", "sent", "locked"})
(* HTLCs in the provider's channeld. *)
InChannel == In({"added", "out", "sent", "locked"})

(* Mutant: what the HTLCs in flight hold is spent a second time. *)
spendable_in_flight == Minus(our_msat, Reserve)

(* channel_amount_spendable() *)
channel_amount_spendable ==
    Minus(Minus(our_msat, Reserve), Amount(htlcs_out))

credit_note(p) == [credit |-> credit'[p], hash |-> p, pre |-> p \in preimages']

-----------------------------------------------------------------------------
(* wallet_credit_note_by_hash(): the payment has its note. *)
issued_before(p) == credit[p] # 0

(* json_issuecredit(), for a payment that has its note: the preimage is     *)
(* kept, and nothing is sent.                                               *)
issuecredit_again(p) ==
    /\ issued_before(p)
    /\ p \notin preimages
    /\ preimages' = preimages \cup {p}
    /\ late' = late \cup {p}
    /\ UNCHANGED <<credit, holder, our_msat, hout, got, links, floor, up, cuts,
                   crossed, refused>>

(* json_issuecredit() otherwise: credit_room() has to pay it; the note is   *)
(* saved, sent if the peer is connected, and handed to channeld.            *)
json_issuecredit(p, pre) ==
    /\ ~issued_before(p)
    /\ channel_amount_spendable >= Issued + Dust + Atoms[p]
    /\ credit' = [credit EXCEPT ![p] = Issued + Atoms[p]]
    /\ preimages' = IF pre THEN preimages \cup {p} ELSE preimages
    /\ mail' = IF up THEN Append(mail, credit_note(p)) ELSE mail
    /\ pipe' = IF up THEN Append(pipe, [type |-> "note", credit |-> credit'[p]])
               ELSE pipe
    /\ crossed' = crossed \cup In({"offered", "added"})
    /\ UNCHANGED <<late, holder, our_msat, hout, got, replies, pipeH, wire, floor,
                   up, cuts, refused>>

(* send_htlc_out(): refused if the balance as lightningd sees it would not  *)
(* pay the latest note any more.                                            *)
send_htlc_out(h) ==
    /\ up
    /\ hout[h] = "none"
    /\ Issued # 0 =>
         channel_amount_spendable >= Msat[h] + Issued + Dust
    /\ hout' = [hout EXCEPT ![h] = "offered"]
    /\ pipe' = Append(pipe, [type |-> "offer", htlc |-> h])
    /\ UNCHANGED <<notes, holder, our_msat, got, replies, pipeH, wire, mail, floor,
                   up, cuts, crossed, refused>>

(* add_htlc(): the sender is left its reserve, and the credit on top.       *)
room_above_reserve(hs, side) ==
    our_msat >= Amount(hs) + Reserve + floor[side]

(* Mutant: each note is taken to add to the ones before it. *)
raised_by(side, c) == [floor EXCEPT ![side] = @ + c]
(* handle_credit_note(): notes are cumulative, the floor only rises. *)
raised(side, c) == [floor EXCEPT ![side] = Max({@, c})]

(* handle_offer_htlc() *)
handle_offer_htlc(h) ==
    /\ IF room_above_reserve(InChannel \cup {h}, "provider")
       THEN /\ hout' = [hout EXCEPT ![h] = "added"]
            /\ replies' = Append(replies, h)
            /\ wire' = Append(wire, [type |-> "add", htlc |-> h])
       ELSE /\ hout' = [hout EXCEPT ![h] = "failed"]
            /\ UNCHANGED <<replies, wire>>
    /\ UNCHANGED floor

handle_credit_note(c) ==
    /\ floor' = raised("provider", c)
    /\ UNCHANGED <<hout, replies, wire>>

(* req_in() of the provider's channeld *)
ProviderIn ==
    /\ pipe # <<>>
    /\ \/ Head(pipe).type = "offer" /\ handle_offer_htlc(Head(pipe).htlc)
       \/ Head(pipe).type = "note" /\ handle_credit_note(Head(pipe).credit)
    /\ pipe' = Tail(pipe)
    /\ UNCHANGED <<notes, holder, our_msat, got, pipeH, mail, up, cuts,
                   crossed, refused>>

(* rcvd_htlc_reply(): the HTLC joins htlcs_out. *)
rcvd_htlc_reply ==
    /\ replies # <<>>
    /\ hout' = [hout EXCEPT ![Head(replies)] = "out"]
    /\ replies' = Tail(replies)
    /\ UNCHANGED <<notes, holder, our_msat, got, pipe, pipeH, wire, mail, floor,
                   up, cuts, crossed, refused>>

(* send_commit(), for which lightningd has read every reply: from here on   *)
(* the HTLC survives the connection.                                        *)
send_commit ==
    /\ In({"added", "out"}) # {}
    /\ hout' = [h \in Htlcs |-> IF hout[h] \in {"added", "out"} THEN "sent"
                                ELSE hout[h]]
    /\ replies' = <<>>
    /\ wire' = Append(wire, [type |-> "commit"])
    /\ UNCHANGED <<notes, holder, our_msat, got, pipe, pipeH, mail, floor, up,
                   cuts, crossed, refused>>

-----------------------------------------------------------------------------
(* The connection goes and both channelds with it: what is under way is     *)
(* lost, and an HTLC that is not committed fails with its channeld.         *)
Broken(kept) ==
    /\ up' = FALSE
    /\ pipe' = <<>> /\ replies' = <<>> /\ pipeH' = <<>>
    /\ wire' = <<>> /\ mail' = <<>>
    /\ floor' = [provider |-> 0, holder |-> 0]
    /\ hout' = [h \in Htlcs |-> IF hout[h] \in {"offered", "added", "out"}
                                THEN "failed" ELSE hout[h]]
    /\ got' = kept

(* HTLCs the holder has saved: their commitment has arrived. *)
Saved == got \cap {h \in Htlcs : hout[h] = "locked"}

(* credit_receive(): a valid note is kept; if it is the highest that can be *)
(* enforced, channeld is told.                                              *)
credit_receive ==
    /\ mail # <<>>
    /\ LET n == Head(mail) IN
         /\ held' = held \cup {n.hash}
         /\ enforce' = IF n.pre THEN enforce \cup {n.hash} ELSE enforce
         /\ pipeH' = IF n.pre /\ n.credit > Enforceable
                     THEN Append(pipeH, n.credit) ELSE pipeH
    /\ mail' = Tail(mail)
    /\ UNCHANGED <<notes, our_msat, hout, got, pipe, replies, wire, floor, up,
                   cuts, crossed, refused>>

(* The holder's channeld takes what lightningd says before what the peer    *)
(* says.                                                                    *)
HolderNote ==
    /\ pipeH # <<>>
    /\ floor' = raised("holder", Head(pipeH))
    /\ pipeH' = Tail(pipeH)
    /\ UNCHANGED <<notes, holder, our_msat, hout, got, pipe, replies, wire, mail,
                   up, cuts, crossed, refused>>

(* handle_peer_add_htlc() *)
handle_peer_add_htlc ==
    /\ pipeH = <<>> /\ wire # <<>>
    /\ Head(wire).type = "add"
    /\ LET h == Head(wire).htlc
           ok == room_above_reserve(got \cup {h}, "holder")
       IN  \/ /\ ok
              /\ got' = got \cup {h}
              /\ wire' = Tail(wire)
              /\ UNCHANGED <<hout, pipe, replies, pipeH, mail, floor, up,
                             refused>>
           \/ /\ ~ok
              /\ refused' = refused \cup {h}
              /\ Broken(Saved)
    /\ UNCHANGED <<notes, holder, our_msat, cuts, crossed>>

(* handle_peer_commit_sig(): what the commitment holds is the holder's to   *)
(* settle.                                                                  *)
handle_peer_commit_sig ==
    /\ pipeH = <<>> /\ wire # <<>>
    /\ Head(wire).type = "commit"
    /\ wire' = Tail(wire)
    /\ hout' = [h \in Htlcs |-> IF h \in got /\ hout[h] = "sent" THEN "locked"
                                ELSE hout[h]]
    /\ UNCHANGED <<notes, holder, our_msat, got, pipe, replies, pipeH, mail,
                   floor, up, cuts, crossed, refused>>

-----------------------------------------------------------------------------
(* The dance has removed an HTLC from both sides' commitments. *)
Resolve(h, fulfilled) ==
    /\ up
    /\ hout[h] = "locked"
    /\ hout' = [hout EXCEPT ![h] = IF fulfilled THEN "paid" ELSE "failed"]
    /\ our_msat' = IF fulfilled THEN our_msat - Msat[h] ELSE our_msat
    /\ got' = got \ {h}
    /\ UNCHANGED <<notes, holder, links, floor, up, cuts, crossed, refused>>

Disconnect ==
    /\ up
    /\ cuts < MaxCuts
    /\ cuts' = cuts + 1
    /\ Broken(Saved)
    /\ UNCHANGED <<notes, holder, our_msat, crossed, refused>>

(* Mutant: a note goes out when it is issued, and only then. *)
resent_never == <<>>
(* credit_channel_started(): the provider's latest note is sent again. *)
resent ==
    IF Issued = 0 THEN <<>>
    ELSE LET p == ByCredit(Issued)
         IN  <<[credit |-> Issued, hash |-> p, pre |-> p \in preimages]>>

(* peer_start_channeld() of both nodes: each hands its latest note to its   *)
(* channeld, and the provider's sends the unacknowledged HTLCs again.       *)
Reconnect ==
    /\ ~up
    /\ up' = TRUE
    /\ pipe' = IF Issued = 0 THEN <<>>
               ELSE <<[type |-> "note", credit |-> Issued]>>
    /\ pipeH' = IF Enforceable = 0 THEN <<>> ELSE <<Enforceable>>
    /\ mail' = resent
    /\ wire' = LET again == SetToSeq(In({"sent"}))
               IN  IF again = <<>> THEN <<>>
                   ELSE [i \in DOMAIN again |->
                           [type |-> "add", htlc |-> again[i]]]
                        \o <<[type |-> "commit"]>>
    /\ UNCHANGED <<notes, holder, our_msat, hout, got, replies, floor, cuts, crossed,
                   refused>>

Next ==
    \/ \E p \in Payments :
         issuecredit_again(p) \/ \E pre \in BOOLEAN : json_issuecredit(p, pre)
    \/ \E h \in Htlcs :
         \/ send_htlc_out(h)
         \/ \E fulfilled \in BOOLEAN : Resolve(h, fulfilled)
    \/ ProviderIn
    \/ rcvd_htlc_reply
    \/ send_commit
    \/ credit_receive
    \/ HolderNote
    \/ handle_peer_add_htlc
    \/ handle_peer_commit_sig
    \/ Disconnect
    \/ Reconnect

Spec == Init /\ [][Next]_vars

(* The daemons read what they are sent and connectd reconnects the peer. *)
CreditFairness ==
    /\ WF_vars(ProviderIn)
    /\ WF_vars(credit_receive) /\ WF_vars(HolderNote)
    /\ WF_vars(Reconnect)

-----------------------------------------------------------------------------
(* What the provider owes is covered: its balance less its HTLCs pays the   *)
(* latest note, up to the HTLCs that were on their way to channeld when a   *)
(* note was issued, which credit_room() does not see.                       *)
NotesBacked ==
    our_msat + Amount(crossed \cap (InChannel \cup In({"paid"})))
        >= Issued + Amount(InChannel) + (IF Issued = 0 THEN 0 ELSE Reserve)

(* The holder's channeld never refuses an HTLC that the provider's offered, *)
(* unless an offer crossed a note inside the provider.                      *)
HonestHtlcsTaken == refused # {} => crossed # {}

(* The holder gets to enforce a note issued with its preimage, and its      *)
(* channeld keeps to it, however often the connection goes: unless a later  *)
(* note has no preimage that was sent, or the holder keeps refusing HTLCs.  *)
NoteEnforced ==
    \A p \in Payments :
        (credit[p] = Issued /\ p \in preimages \ late) ~>
            \/ Enforceable >= credit[p] /\ floor.holder >= credit[p]
            \/ ByCredit(Issued) \notin preimages \ late
            \/ refused # {}
=============================================================================
