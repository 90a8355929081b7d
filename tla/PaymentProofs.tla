---------------------------- MODULE PaymentProofs ----------------------------
(* The credit a provider signs is covered by its balance, and an honest     *)
(* holder takes its HTLCs, for any payments, HTLCs and amounts, however the *)
(* queues between the four daemons interleave and break.  And a payment in  *)
(* parts is paid in full, once, and none of its parts is forgotten, for any *)
(* parts, amounts, onions and number of restarts.                           *)
EXTENDS Integers, Credit, HtlcSet, SetSums

HoutStates == {"none", "offered", "added", "out", "sent", "locked", "paid", "failed"}
PipeMsgs == [type : {"note"}, credit : Nat] \cup [type : {"offer"}, htlc : Htlcs]
Letters == [credit : Nat, hash : Payments, pre : BOOLEAN]
WireMsgs == [type : {"add"}, htlc : Htlcs] \cup [type : {"commit"}]

CreditTypeOK ==
    /\ credit \in [Payments -> Nat]
    /\ enforce \subseteq Payments
    /\ our_msat \in Nat
    /\ hout \in [Htlcs -> HoutStates]
    /\ got \subseteq Htlcs
    /\ pipe \in Seq(PipeMsgs)
    /\ replies \in Seq(Htlcs)
    /\ pipeH \in Seq(Nat)
    /\ wire \in Seq(WireMsgs)
    /\ mail \in Seq(Letters)
    /\ floor \in [provider : Nat, holder : Nat]
    /\ crossed \subseteq Htlcs

(* The HTLCs under way between the daemons are where the queues say: each   *)
(* once, offered before channeld has seen it, in the provider's channeld    *)
(* before the holder's.                                                     *)
IsOffer(m, h) == m.type = "offer" /\ m.htlc = h
IsAdd(m, h) == m.type = "add" /\ m.htlc = h
PipeAgrees ==
    \A h \in Htlcs, i \in DOMAIN pipe :
        IsOffer(pipe[i], h) =>
           hout[h] = "offered" /\ \A j \in DOMAIN pipe : IsOffer(pipe[j], h) => j = i
RepliesAgree == \A i \in DOMAIN replies : hout[replies[i]] \in {"added", "out"}
WireAgrees ==
    \A h \in Htlcs, i \in DOMAIN wire :
        IsAdd(wire[i], h) =>
           /\ hout[h] \in {"added", "out", "sent"} /\ h \notin got
           /\ \A j \in DOMAIN wire : IsAdd(wire[j], h) => j = i
GotAgrees == got \subseteq InChannel
QueuesAgree == PipeAgrees /\ RepliesAgree /\ WireAgrees /\ GotAgrees

(* The provider's channeld has the latest note before an offer that was     *)
(* made after it: only an offer that crossed a note may be behind it.       *)
IsNote(m) == m.type = "note" /\ m.credit >= Issued
NotesBefore ==
    /\ up => \/ floor.provider >= Issued
             \/ \E j \in DOMAIN pipe : IsNote(pipe[j])
    /\ \A i \in DOMAIN pipe :
         pipe[i].type = "offer" /\ pipe[i].htlc \notin crossed =>
            \/ floor.provider >= Issued
            \/ \E j \in 1..(i - 1) : IsNote(pipe[j])

(* The holder's channeld is told of no more than the provider has issued. *)
HolderKnows ==
    /\ floor.holder <= Issued
    /\ \A i \in DOMAIN pipeH : pipeH[i] <= Issued
    /\ \A i \in DOMAIN mail : mail[i].credit <= Issued

(* The balance pays the latest note beside the HTLCs that did not cross     *)
(* one; and always the HTLCs with the reserve on top.                       *)
NotesCovered ==
    our_msat + Amount(crossed \cap In({"paid"}))
        >= Issued + Amount(InChannel \ crossed) + (IF Issued = 0 THEN 0 ELSE Reserve)
HtlcsCovered == InChannel # {} => our_msat >= Amount(InChannel) + Reserve

(* Without a connection nothing is under way, and what the holder kept is   *)
(* committed.                                                               *)
DownQuiet ==
    ~up => /\ pipe = <<>> /\ wire = <<>>
           /\ In({"offered", "added", "out"}) = {}
           /\ got \subseteq In({"locked"})

CreditInv ==
    /\ CreditTypeOK
    /\ QueuesAgree
    /\ DownQuiet
    /\ NotesBefore
    /\ HolderKnows
    /\ NotesCovered
    /\ HtlcsCovered
    /\ HonestHtlcsTaken

-----------------------------------------------------------------------------
(* Amounts are sums over finite sets of HTLCs. *)
LEMMA AmountFacts ==
    ASSUME NEW S \in SUBSET Htlcs
    PROVE  /\ Amount(S) \in Nat
           /\ \A T \in SUBSET S :
                /\ Amount(T) \in Nat
                /\ Amount(T) <= Amount(S)
                /\ Amount(S) = Amount(T) + Amount(S \ T)
           /\ \A h \in S : Amount(S) = Msat[h] + Amount(S \ {h})
  <1>1. IsFiniteSet(S) /\ \A h \in S : Msat[h] \in Nat
    BY CreditAssumption, FS_Subset
  <1>2. \A T : Amount(T) = SumOver(Msat, T)
    BY DEF Amount, SumOver
  <1>3. SumOver(Msat, S) \in Nat /\ \A h \in S : SumOver(Msat, S) = Msat[h] + SumOver(Msat, S \ {h})
    BY <1>1, SumRemove
  <1>4. ASSUME NEW T \in SUBSET S
        PROVE  /\ SumOver(Msat, T) \in Nat
               /\ SumOver(Msat, T) <= SumOver(Msat, S)
               /\ SumOver(Msat, S) = SumOver(Msat, T) + SumOver(Msat, S \ T)
    <2>1. SumOver(Msat, T) \in Nat /\ SumOver(Msat, T) <= SumOver(Msat, S)
      BY <1>1, SumSubset
    <2>2. SumOver(Msat, S) = SumOver(Msat, T) + SumOver(Msat, S \ T)
      BY <1>1, SumUnion
    <2>3. QED
      BY <2>1, <2>2
  <1>5. QED
    BY <1>2, <1>3, <1>4

(* No HTLCs, no amount. *)
LEMMA AmountEmpty == Amount({}) = 0
  <1>1. Amount({}) = SumOver(Msat, {})
    BY DEF Amount, SumOver
  <1>2. QED
    BY <1>1, SumEmpty

(* The highest of some notes. *)
LEMMA HighestFacts ==
    ASSUME CreditTypeOK, NEW ps \in SUBSET Payments
    PROVE  /\ Highest(ps) \in Nat
           /\ \A p \in ps : credit[p] <= Highest(ps)
           /\ Highest(ps) = 0 \/ \E p \in ps : credit[p] = Highest(ps)
  <1>1. IsFiniteSet(ps) /\ \A p \in ps : credit[p] \in Nat
    BY CreditAssumption, FS_Subset DEF CreditTypeOK
  <1> DEFINE V == {0} \cup {credit[p] : p \in ps}
  <1>2. \A v : v \in V <=> v = 0 \/ \E p \in ps : v = credit[p]
    OBVIOUS
  <1>3. Highest(ps) = Max(V)
    BY DEF Highest
  <1> HIDE DEF V
  <1>4. QED
    BY <1>1, <1>2, <1>3, MaxOfValues

(* What the holder may enforce was issued. *)
LEMMA IssuedFacts ==
    ASSUME CreditTypeOK
    PROVE  /\ Issued \in Nat /\ Enforceable \in Nat /\ Enforceable <= Issued
           /\ \A p \in Payments : credit[p] <= Issued
           /\ Issued = 0 \/ \E p \in Payments : credit[p] = Issued
  <1>1. /\ Issued \in Nat
        /\ \A p \in Payments : credit[p] <= Issued
        /\ Issued = 0 \/ \E p \in Payments : credit[p] = Issued
    BY HighestFacts DEF Issued
  <1>2. /\ Enforceable \in Nat
        /\ Enforceable = 0 \/ \E p \in enforce : credit[p] = Enforceable
    BY HighestFacts DEF Enforceable, CreditTypeOK
  <1>3. QED
    BY <1>1, <1>2 DEF CreditTypeOK

(* Notes that do not change leave the highest as it was. *)
LEMMA IssuedStays ==
    ASSUME credit' = credit
    PROVE  Issued' = Issued
  BY DEF Issued, Highest

(* The sets of HTLCs by where they are. *)
LEMMA WhereFacts ==
    /\ InChannel \subseteq Htlcs /\ In({"paid"}) \subseteq Htlcs
    /\ htlcs_out \subseteq InChannel
    /\ InChannel \cap In({"paid"}) = {}
  BY DEF InChannel, In, htlcs_out

(* HTLCs that leave the channel without being paid leave the balance room. *)
LEMMA CoverStays ==
    ASSUME CreditInv, UNCHANGED <<credit, our_msat, crossed>>,
           InChannel' \subseteq InChannel, In({"paid"})' = In({"paid"})
    PROVE  NotesCovered' /\ HtlcsCovered'
  <1>1. Issued' = Issued
    BY IssuedStays
  <1>2. /\ Amount(InChannel') <= Amount(InChannel)
        /\ Amount(InChannel' \ crossed) <= Amount(InChannel \ crossed)
        /\ Amount(InChannel') \in Nat /\ Amount(InChannel) \in Nat
        /\ Amount(InChannel' \ crossed) \in Nat /\ Amount(InChannel \ crossed) \in Nat
        /\ Amount(crossed \cap In({"paid"})) \in Nat
    BY WhereFacts, AmountFacts DEF CreditInv, CreditTypeOK
  <1>3. /\ Amount(InChannel)' = Amount(InChannel')
        /\ Amount(InChannel \ crossed)' = Amount(InChannel' \ crossed)
        /\ Amount(crossed \cap In({"paid"}))' = Amount(crossed \cap In({"paid"}))
    OBVIOUS
  <1>4. Issued \in Nat /\ our_msat \in Nat /\ Reserve \in Nat
    BY IssuedFacts, CreditAssumption DEF CreditInv, CreditTypeOK
  <1>5. QED
    BY <1>1, <1>2, <1>3, <1>4 DEF CreditInv, NotesCovered, HtlcsCovered

(* What a queue holds after something is put into it ... *)
LEMMA AppendFacts ==
    ASSUME NEW X, NEW s \in Seq(X), NEW e \in X
    PROVE  /\ Append(s, e) \in Seq(X)
           /\ Len(s) \in Nat /\ DOMAIN s = 1..Len(s)
           /\ DOMAIN Append(s, e) = 1..(Len(s) + 1)
           /\ \A i \in DOMAIN s : Append(s, e)[i] = s[i]
           /\ Append(s, e)[Len(s) + 1] = e
  OBVIOUS

(* ... and after its head is taken out. *)
LEMMA TailFacts ==
    ASSUME NEW X, NEW s \in Seq(X), s # <<>>
    PROVE  /\ Tail(s) \in Seq(X)
           /\ Head(s) = s[1] /\ s[1] \in X
           /\ Len(s) \in Nat \ {0} /\ DOMAIN s = 1..Len(s)
           /\ DOMAIN Tail(s) = 1..(Len(s) - 1)
           /\ \A i \in DOMAIN Tail(s) : Tail(s)[i] = s[i + 1] /\ i + 1 \in DOMAIN s
  OBVIOUS

(* No HTLC and no note at first. *)
LEMMA CreditInitOK == Init => CreditInv
  <1>1. SUFFICES ASSUME Init PROVE CreditInv
    OBVIOUS
  <1>2. CreditTypeOK
    BY <1>1, CreditAssumption DEF Init, CreditTypeOK, HoutStates
  <1>3. Issued = 0
    BY <1>1, <1>2, IssuedFacts DEF Init
  <1>4. InChannel = {} /\ crossed = {} /\ got = {}
    BY <1>1 DEF Init, InChannel, In
  <1>5. Amount({}) = 0
    BY AmountEmpty
  <1>6. QueuesAgree /\ DownQuiet /\ NotesBefore /\ HolderKnows
    BY <1>1, <1>3, <1>4 DEF Init, DownQuiet, QueuesAgree, PipeAgrees, RepliesAgree, WireAgrees, GotAgrees,
           NotesBefore, HolderKnows
  <1>7. NotesCovered /\ HtlcsCovered
    <2>1. crossed \cap In({"paid"}) = {} /\ InChannel \ crossed = {}
      BY <1>4
    <2>2. QED
      BY <1>1, <1>3, <1>4, <1>5, <2>1, CreditAssumption
         DEF Init, NotesCovered, HtlcsCovered
  <1>8. HonestHtlcsTaken
    BY <1>1 DEF Init, HonestHtlcsTaken
  <1>9. QED
    BY <1>2, <1>6, <1>7, <1>8 DEF CreditInv

(* A preimage that comes after its note changes nothing of this. *)
LEMMA CreditUnchanged ==
    ASSUME CreditInv,
           UNCHANGED <<credit, enforce, our_msat, hout, got, links, floor, up,
                       crossed, refused>>
    PROVE  CreditInv'
  <1>1. Issued' = Issued
    BY IssuedStays
  <1>2. InChannel' = InChannel /\ In({"paid"})' = In({"paid"})
    BY DEF InChannel, In
  <1>3. NotesCovered' /\ HtlcsCovered'
    BY <1>2, CoverStays
  <1> USE DEF CreditInv, links
  <1>4. CreditTypeOK'
    BY DEF CreditTypeOK
  <1>5. /\ QueuesAgree' /\ DownQuiet' /\ NotesBefore' /\ HolderKnows'
        /\ HonestHtlcsTaken'
    BY <1>1, <1>2 DEF DownQuiet, In, QueuesAgree, PipeAgrees, RepliesAgree, WireAgrees, GotAgrees,
                      NotesBefore, IsNote, HolderKnows, HonestHtlcsTaken
  <1>6. QED
    BY <1>3, <1>4, <1>5

(* The connection goes, and what is not committed with it. *)
LEMMA BrokenOK ==
    ASSUME CreditInv, Broken(Saved),
           UNCHANGED <<credit, enforce, our_msat, crossed>>,
           refused' = refused \/ crossed # {}
    PROVE  CreditInv'
  <1> USE DEF CreditInv, Broken
  <1>1. Issued' = Issued
    BY IssuedStays
  <1>2. CreditTypeOK'
    BY DEF CreditTypeOK, HoutStates, Saved
  <1>3. InChannel' \subseteq InChannel /\ In({"paid"})' = In({"paid"})
    BY DEF InChannel, In, CreditTypeOK
  <1>4. NotesCovered' /\ HtlcsCovered'
    BY <1>3, CoverStays
  <1>5. got' \subseteq InChannel'
    BY DEF InChannel, In, Saved, CreditTypeOK
  <1>6. QueuesAgree' /\ DownQuiet' /\ NotesBefore'
    BY <1>5 DEF QueuesAgree, PipeAgrees, RepliesAgree, WireAgrees, GotAgrees,
                NotesBefore, DownQuiet, In, Saved, CreditTypeOK
  <1>7. HolderKnows' /\ HonestHtlcsTaken'
    <2>1. Issued \in Nat
      BY IssuedFacts
    <2>2. QED
      BY <1>1, <2>1 DEF HolderKnows, HonestHtlcsTaken
  <1>8. QED
    BY <1>2, <1>4, <1>6, <1>7

(* send_htlc_out(): the offer goes behind the notes issued before it. *)
LEMMA SendHtlcOutOK ==
    ASSUME CreditInv, NEW h \in Htlcs, send_htlc_out(h)
    PROVE  CreditInv'
  <1> USE DEF CreditInv, send_htlc_out
  <1>1. Issued' = Issued
    BY IssuedStays DEF notes
  <1>2. InChannel' = InChannel /\ In({"paid"})' = In({"paid"})
    BY DEF InChannel, In, CreditTypeOK
  <1>3. NotesCovered' /\ HtlcsCovered'
    BY <1>2, CoverStays DEF notes
  <1>4. CreditTypeOK'
    <2>1. [type |-> "offer", htlc |-> h] \in PipeMsgs
      BY DEF PipeMsgs
    <2>2. QED
      BY <2>1 DEF CreditTypeOK, HoutStates, notes, holder
  <1> DEFINE n == Len(pipe)
             m == [type |-> "offer", htlc |-> h]
  <1>5. /\ n \in Nat /\ DOMAIN pipe = 1..n /\ DOMAIN pipe' = 1..(n + 1)
        /\ \A i \in 1..n : pipe'[i] = pipe[i]
        /\ pipe'[n + 1] = m
        /\ m.type = "offer" /\ m.htlc = h
    <2>1. m \in PipeMsgs
      BY DEF PipeMsgs
    <2>2. QED
      BY <2>1, AppendFacts DEF CreditTypeOK
  <1> HIDE DEF n, m
  <1>6. QueuesAgree'
    <2>1. hout[h] = "none" /\ hout'[h] = "offered"
           /\ \A g \in Htlcs : g # h => hout'[g] = hout[g]
      BY DEF CreditTypeOK
    <2>2. PipeAgrees'
      BY <1>5, <2>1 DEF QueuesAgree, PipeAgrees, IsOffer
    <2>3. RepliesAgree'
      BY <2>1 DEF QueuesAgree, RepliesAgree, CreditTypeOK
    <2>4. WireAgrees' /\ GotAgrees'
      BY <1>2, <2>1 DEF QueuesAgree, WireAgrees, GotAgrees
    <2>5. QED
      BY <2>2, <2>3, <2>4 DEF QueuesAgree
  <1>7. NotesBefore'
    <2>1. Issued' = Issued /\ floor' = floor /\ up' = up /\ crossed' = crossed
      BY <1>1
    <2>2. (up => \/ floor.provider >= Issued
                 \/ \E j \in DOMAIN pipe : IsNote(pipe[j]))'
      BY <1>5, <2>1 DEF NotesBefore, IsNote
    <2>3. ASSUME NEW i \in DOMAIN pipe', pipe'[i].type = "offer", pipe'[i].htlc \notin crossed
          PROVE  \/ floor.provider >= Issued
                 \/ \E j \in 1..(i - 1) : IsNote(pipe[j])
      BY <1>5, <2>3 DEF NotesBefore
    <2>4. QED
      BY <1>5, <2>1, <2>2, <2>3 DEF NotesBefore, IsNote
  <1>8. DownQuiet' /\ HolderKnows' /\ HonestHtlcsTaken'
    BY <1>1 DEF DownQuiet, HolderKnows, HonestHtlcsTaken
  <1>9. QED
    BY <1>3, <1>4, <1>6, <1>7, <1>8

(* rcvd_htlc_reply() *)
LEMMA RcvdReplyOK ==
    ASSUME CreditInv, rcvd_htlc_reply
    PROVE  CreditInv'
  <1> USE DEF CreditInv, rcvd_htlc_reply
  <1>0. hout[Head(replies)] \in {"added", "out"} /\ Head(replies) \in Htlcs
    BY DEF QueuesAgree, RepliesAgree, CreditTypeOK
  <1>1. Issued' = Issued
    BY IssuedStays DEF notes
  <1>2. InChannel' = InChannel /\ In({"paid"})' = In({"paid"})
    BY <1>0 DEF InChannel, In, CreditTypeOK
  <1>3. NotesCovered' /\ HtlcsCovered'
    BY <1>2, CoverStays DEF notes
  <1>4. CreditTypeOK'
    BY <1>0 DEF CreditTypeOK, HoutStates, notes, holder
  <1>5. QueuesAgree'
    <2>1. RepliesAgree'
      BY <1>0 DEF QueuesAgree, RepliesAgree, CreditTypeOK
    <2>2. PipeAgrees' /\ WireAgrees' /\ GotAgrees'
      BY <1>0, <1>2 DEF QueuesAgree, PipeAgrees, WireAgrees, GotAgrees, CreditTypeOK
    <2>3. QED
      BY <2>1, <2>2 DEF QueuesAgree
  <1>6. DownQuiet'
    BY <1>0 DEF DownQuiet, In, CreditTypeOK
  <1>7. NotesBefore' /\ HolderKnows' /\ HonestHtlcsTaken'
    BY <1>1 DEF NotesBefore, IsNote, HolderKnows, HonestHtlcsTaken
  <1>8. QED
    BY <1>3, <1>4, <1>5, <1>6, <1>7

(* What channel_amount_spendable() leaves is not held by anything. *)
LEMMA SpendableFacts ==
    ASSUME our_msat \in Nat, Reserve \in Nat, Amount(htlcs_out) \in Nat,
           NEW n \in Nat \ {0}, channel_amount_spendable >= n
    PROVE  our_msat >= Reserve + Amount(htlcs_out) + n
  BY DEF channel_amount_spendable, Minus

(* json_issuecredit(): the new note is the highest, and credit_room() has   *)
(* looked at everything but the HTLCs that cross it.                        *)
LEMMA IssueCreditOK ==
    ASSUME CreditInv, NEW p \in Payments, NEW pre \in BOOLEAN,
           json_issuecredit(p, pre)
    PROVE  CreditInv'
  <1> USE DEF CreditInv
  <1>0. /\ channel_amount_spendable >= Issued + Dust + Atoms[p]
        /\ credit' = [credit EXCEPT ![p] = Issued + Atoms[p]]
        /\ mail' = IF up THEN Append(mail, credit_note(p)) ELSE mail
        /\ pipe' = IF up THEN Append(pipe, [type |-> "note", credit |-> credit'[p]])
                   ELSE pipe
        /\ crossed' = crossed \cup In({"offered", "added"})
        /\ UNCHANGED <<enforce, our_msat, hout, got, replies, pipeH, wire, floor,
                       up, refused>>
    BY DEF json_issuecredit, holder
  <1>1. Issued \in Nat /\ Atoms[p] \in Nat \ {0} /\ \A q \in Payments : credit[q] <= Issued
    BY IssuedFacts, CreditAssumption
  <1>2. credit' \in [Payments -> Nat] /\ credit'[p] = Issued + Atoms[p]
    BY <1>0, <1>1 DEF CreditTypeOK
  <1>3. Issued' = Issued + Atoms[p]
    <2> DEFINE V == {0} \cup {credit'[q] : q \in Payments}
    <2>1. \A v : v \in V <=> v = 0 \/ \E q \in Payments : v = credit'[q]
      OBVIOUS
    <2>2. Issued' = Max(V)
      BY DEF Issued, Highest
    <2> HIDE DEF V
    <2>3. /\ Max(V) \in Nat
          /\ \A q \in Payments : credit'[q] <= Max(V)
          /\ Max(V) = 0 \/ \E q \in Payments : Max(V) = credit'[q]
      <3>1. IsFiniteSet(Payments) /\ \A q \in Payments : credit'[q] \in Nat
        BY <1>2, CreditAssumption
      <3> HIDE DEF CreditInv
      <3>2. QED
        BY <2>1, <3>1, MaxOfValues
    <2>4. \A q \in Payments : credit'[q] <= Issued + Atoms[p]
      BY <1>0, <1>1 DEF CreditTypeOK
    <2>5. QED
      BY <1>1, <1>2, <2>2, <2>3, <2>4
  <1> DEFINE note == [type |-> "note", credit |-> Issued + Atoms[p]]
             letter == [credit |-> Issued + Atoms[p], hash |-> p, pre |-> p \in preimages']
  <1>4. /\ note \in PipeMsgs /\ note.type = "note" /\ note.credit = Issued'
        /\ letter \in Letters
        /\ letter.credit = Issued'
    BY <1>1, <1>3 DEF PipeMsgs, Letters
  <1>5. /\ mail' = IF up THEN Append(mail, letter) ELSE mail
        /\ pipe' = IF up THEN Append(pipe, note) ELSE pipe
    BY <1>0, <1>2 DEF credit_note
  <1> HIDE DEF note, letter
  <1>6. CreditTypeOK'
    <2>1. pipe' \in Seq(PipeMsgs) /\ mail' \in Seq(Letters)
      BY <1>4, <1>5 DEF CreditTypeOK
    <2>2. crossed' \subseteq Htlcs
      BY <1>0 DEF CreditTypeOK, In
    <2>3. QED
      BY <1>0, <1>2, <2>1, <2>2 DEF CreditTypeOK
  <1>7. /\ Len(pipe) \in Nat /\ DOMAIN pipe = 1..Len(pipe)
        /\ up => /\ DOMAIN pipe' = 1..(Len(pipe) + 1)
                 /\ \A i \in DOMAIN pipe : pipe'[i] = pipe[i]
                 /\ pipe'[Len(pipe) + 1] = note
    BY <1>4, <1>5, AppendFacts DEF CreditTypeOK
  <1>8. /\ Len(mail) \in Nat /\ DOMAIN mail = 1..Len(mail)
        /\ up => /\ DOMAIN mail' = 1..(Len(mail) + 1)
                 /\ \A i \in DOMAIN mail : mail'[i] = mail[i]
                 /\ mail'[Len(mail) + 1] = letter
    BY <1>4, <1>5, AppendFacts DEF CreditTypeOK
  <1>9. QueuesAgree'
    <2>1. PipeAgrees'
      BY <1>0, <1>4, <1>5, <1>7 DEF QueuesAgree, PipeAgrees, IsOffer
    <2>2. RepliesAgree' /\ WireAgrees' /\ GotAgrees'
      BY <1>0 DEF QueuesAgree, RepliesAgree, WireAgrees, GotAgrees, InChannel, In
    <2>3. QED
      BY <2>1, <2>2 DEF QueuesAgree
  <1>10. DownQuiet'
    BY <1>0, <1>5 DEF DownQuiet, In
  <1>11. NotesBefore'
    <2>1. ASSUME NEW i \in DOMAIN pipe', pipe'[i].type = "offer"
          PROVE  pipe'[i].htlc \in crossed'
      <3>1. i \in DOMAIN pipe /\ pipe'[i] = pipe[i]
        BY <1>4, <1>5, <1>7, <2>1
      <3>2. pipe[i].htlc \in Htlcs
        BY <2>1, <3>1 DEF CreditTypeOK, PipeMsgs
      <3>3. hout[pipe[i].htlc] = "offered"
        BY <2>1, <3>1, <3>2 DEF QueuesAgree, PipeAgrees, IsOffer
      <3>4. QED
        BY <1>0, <3>1, <3>2, <3>3 DEF In
    <2>2. up' => \E j \in DOMAIN pipe' : pipe'[j].type = "note" /\ pipe'[j].credit >= Issued'
      <3>1. SUFFICES ASSUME up
                     PROVE  \E j \in DOMAIN pipe' : pipe'[j].type = "note" /\ pipe'[j].credit >= Issued'
        BY <1>0
      <3>2. Len(pipe) + 1 \in DOMAIN pipe' /\ pipe'[Len(pipe) + 1] = note
        BY <1>7, <3>1
      <3>3. Issued' \in Nat
        BY <1>1, <1>3
      <3>4. QED
        BY <1>4, <3>2, <3>3
    <2>3. QED
      BY <2>1, <2>2 DEF NotesBefore, IsNote
  <1>12. HolderKnows'
    <2>1. \A i \in DOMAIN mail' : mail'[i].credit <= Issued'
      <3>1. ASSUME NEW i \in DOMAIN mail' PROVE mail'[i].credit <= Issued'
        <4>1. CASE i \in DOMAIN mail /\ mail'[i] = mail[i]
          <5>1. mail[i] \in Letters
            BY <4>1 DEF CreditTypeOK
          <5>2. mail[i].credit \in Nat
            BY <5>1 DEF Letters
          <5>3. mail[i].credit <= Issued
            BY <4>1 DEF HolderKnows
          <5>4. QED
            BY <1>1, <1>3, <4>1, <5>2, <5>3
        <4>2. CASE mail'[i] = letter
          BY <1>1, <1>3, <1>4, <4>2
        <4>3. QED
          BY <1>5, <1>8, <4>1, <4>2
      <3>2. QED
        BY <3>1
    <2>2. floor'.holder <= Issued' /\ \A i \in DOMAIN pipeH' : pipeH'[i] <= Issued'
      BY <1>0, <1>1, <1>3 DEF HolderKnows, CreditTypeOK
    <2>3. QED
      BY <2>1, <2>2 DEF HolderKnows
  <1>13. NotesCovered' /\ HtlcsCovered'
    <2>1. /\ InChannel' = InChannel /\ htlcs_out \subseteq Htlcs
          /\ InChannel \ crossed' \subseteq htlcs_out
          /\ crossed' \cap In({"paid"})' \subseteq Htlcs
      BY <1>0 DEF InChannel, In, htlcs_out
    <2>2. /\ Amount(InChannel \ crossed') <= Amount(htlcs_out)
          /\ Amount(InChannel \ crossed') \in Nat /\ Amount(htlcs_out) \in Nat
          /\ Amount(crossed' \cap In({"paid"})') \in Nat
      BY <2>1, AmountFacts
    <2>3. our_msat \in Nat /\ Reserve \in Nat /\ Dust \in Nat
      BY CreditAssumption DEF CreditTypeOK
    <2>4. our_msat >= Reserve + Amount(htlcs_out) + Issued + Dust + Atoms[p]
      BY <1>0, <1>1, <2>2, <2>3, SpendableFacts
    <2>5. /\ Amount(InChannel \ crossed)' = Amount(InChannel \ crossed')
          /\ Amount(crossed \cap In({"paid"}))' = Amount(crossed' \cap In({"paid"})')
          /\ Amount(InChannel)' = Amount(InChannel)
      BY <2>1
    <2>6. NotesCovered'
      <3>1. our_msat + Amount(crossed' \cap In({"paid"})')
              >= Issued + Atoms[p] + Amount(InChannel \ crossed') + Reserve
        BY <1>1, <2>2, <2>4, <2>3
      <3>2. Issued' # 0 /\ our_msat' = our_msat
        BY <1>0, <1>1, <1>3
      <3>3. QED
        BY <1>3, <2>5, <3>1, <3>2 DEF NotesCovered
    <2>7. HtlcsCovered'
      BY <1>0, <2>1, <2>5 DEF HtlcsCovered
    <2>8. QED
      BY <2>6, <2>7
  <1>14. HonestHtlcsTaken'
    BY <1>0 DEF HonestHtlcsTaken
  <1>15. QED
    BY <1>6, <1>9, <1>10, <1>11, <1>12, <1>13, <1>14
(* handle_credit_note() keeps the higher of its floor and the note. *)
LEMMA RaisedFacts ==
    ASSUME CreditTypeOK, NEW side \in {"provider", "holder"}, NEW c \in Nat,
           floor' = raised(side, c)
    PROVE  /\ floor' \in [provider : Nat, holder : Nat]
           /\ floor'[side] >= floor[side] /\ floor'[side] >= c
           /\ floor'[side] = floor[side] \/ floor'[side] = c
           /\ \A other \in {"provider", "holder"} \ {side} : floor'[other] = floor[other]
  <1> DEFINE V == {floor[side], c}
  <1>1. floor \in [provider : Nat, holder : Nat] /\ floor[side] \in Nat
    BY DEF CreditTypeOK
  <1>2. Max(V) \in V /\ \A v \in V : Max(V) >= v
    <2>1. \E v \in V : \A w \in V : v >= w
      BY <1>1
    <2>2. QED
      BY <2>1 DEF Max
  <1>3. floor' = [floor EXCEPT ![side] = Max(V)]
    BY DEF raised
  <1>4. Max(V) \in Nat /\ (Max(V) = floor[side] \/ Max(V) = c) /\ Max(V) >= floor[side] /\ Max(V) >= c
    BY <1>1, <1>2
  <1> HIDE DEF V
  <1>5. QED
    BY <1>1, <1>3, <1>4

(* The provider's channeld takes the head of its queue. *)
LEMMA NotesBeforePop ==
    ASSUME CreditInv, pipe # <<>>, pipe' = Tail(pipe),
           UNCHANGED <<credit, crossed, up>>,
           floor'.provider \in Nat, floor'.provider >= floor.provider,
           IsNote(pipe[1]) => floor'.provider >= Issued
    PROVE  NotesBefore'
  <1>1. Issued' = Issued /\ Issued \in Nat
    BY IssuedStays, IssuedFacts DEF CreditInv
  <1>2. floor.provider \in Nat
    BY DEF CreditInv, CreditTypeOK
  <1>3. /\ Len(pipe) \in Nat \ {0} /\ DOMAIN pipe = 1..Len(pipe)
        /\ DOMAIN pipe' = 1..(Len(pipe) - 1)
        /\ \A i \in DOMAIN pipe' : pipe'[i] = pipe[i + 1]
    BY TailFacts DEF CreditInv, CreditTypeOK
  <1>4. ASSUME NEW n \in Nat, n <= Len(pipe),
               floor.provider >= Issued \/ \E j \in 1..n : IsNote(pipe[j])
        PROVE  \/ floor'.provider >= Issued
               \/ \E j \in 1..(n - 1) : IsNote(pipe'[j])
    <2>1. CASE floor.provider >= Issued
      BY <1>1, <1>2, <2>1
    <2>2. CASE \E j \in 1..n : IsNote(pipe[j])
      <3>1. PICK j \in 1..n : IsNote(pipe[j])
        BY <2>2
      <3>2. CASE j = 1
        BY <3>1, <3>2
      <3>3. CASE j # 1
        <4>1. j - 1 \in 1..(n - 1) /\ j - 1 \in DOMAIN pipe' /\ (j - 1) + 1 = j
          BY <1>3, <1>4, <3>1, <3>3
        <4>2. pipe'[j - 1] = pipe[j]
          BY <1>3, <4>1
        <4>3. QED
          BY <3>1, <4>1, <4>2
      <3>4. QED
        BY <3>2, <3>3
    <2>3. QED
      BY <1>4, <2>1, <2>2
  <1>5. QED
    <2>1. (up => \/ floor.provider >= Issued
                 \/ \E j \in DOMAIN pipe : IsNote(pipe[j]))'
      <3>1. ASSUME up
            PROVE  floor'.provider >= Issued \/ \E j \in DOMAIN pipe' : IsNote(pipe'[j])
        <4>1. floor.provider >= Issued \/ \E j \in 1..Len(pipe) : IsNote(pipe[j])
          BY <1>3, <3>1 DEF CreditInv, NotesBefore
        <4>2. Len(pipe) \in Nat /\ Len(pipe) <= Len(pipe)
          BY <1>3
        <4>3. QED
          BY <1>3, <1>4, <4>1, <4>2
      <3>2. QED
        BY <1>1, <3>1 DEF IsNote
    <2>2. ASSUME NEW i \in DOMAIN pipe', pipe'[i].type = "offer", pipe'[i].htlc \notin crossed'
          PROVE  \/ floor'.provider >= Issued'
                 \/ \E j \in 1..(i - 1) : IsNote(pipe'[j])
      <3>1. i + 1 \in DOMAIN pipe /\ pipe'[i] = pipe[i + 1] /\ i \in Nat /\ i <= Len(pipe) /\ (i + 1) - 1 = i
        BY <1>3
      <3>2. floor.provider >= Issued \/ \E j \in 1..((i + 1) - 1) : IsNote(pipe[j])
        BY <2>2, <3>1 DEF CreditInv, NotesBefore
      <3>3. QED
        BY <1>1, <1>4, <3>1, <3>2
    <2>3. QED
      BY <1>1, <2>1, <2>2 DEF NotesBefore, IsNote

(* handle_credit_note() of the provider's channeld *)
LEMMA ProviderNoteOK ==
    ASSUME CreditInv, pipe # <<>>, Head(pipe).type = "note",
           handle_credit_note(Head(pipe).credit), pipe' = Tail(pipe),
           UNCHANGED <<notes, holder, our_msat, got, pipeH, mail, up, cuts,
                       crossed, refused>>
    PROVE  CreditInv'
  <1>0. /\ floor' = raised("provider", pipe[1].credit)
        /\ UNCHANGED <<credit, enforce, our_msat, hout, got, replies, wire, pipeH, mail,
                       up, crossed, refused>>
    BY TailFacts DEF handle_credit_note, notes, holder, CreditInv, CreditTypeOK
  <1>1. /\ Len(pipe) \in Nat \ {0} /\ DOMAIN pipe = 1..Len(pipe)
        /\ DOMAIN pipe' = 1..(Len(pipe) - 1)
        /\ \A i \in DOMAIN pipe' : pipe'[i] = pipe[i + 1] /\ i + 1 \in DOMAIN pipe
        /\ pipe' \in Seq(PipeMsgs) /\ pipe[1] \in PipeMsgs /\ pipe[1].type = "note"
    BY TailFacts DEF CreditInv, CreditTypeOK
  <1>2. pipe[1].credit \in Nat
    BY <1>1 DEF PipeMsgs
  <1>3. /\ floor' \in [provider : Nat, holder : Nat]
        /\ floor'.provider >= floor.provider /\ floor'.provider >= pipe[1].credit
        /\ floor'.holder = floor.holder
    BY <1>0, <1>2, RaisedFacts DEF CreditInv
  <1>4. Issued' = Issued /\ Issued \in Nat
    BY <1>0, IssuedStays, IssuedFacts DEF CreditInv
  <1>5. NotesBefore'
    <2>1. IsNote(pipe[1]) => floor'.provider >= Issued
      BY <1>2, <1>3, <1>4 DEF IsNote
    <2>2. floor'.provider \in Nat
      BY <1>3
    <2>3. QED
      BY <1>0, <1>3, <2>1, <2>2, NotesBeforePop
  <1>6. CreditTypeOK'
    BY <1>0, <1>1, <1>3 DEF CreditInv, CreditTypeOK
  <1>7. InChannel' = InChannel /\ In({"paid"})' = In({"paid"})
    BY <1>0 DEF InChannel, In
  <1>8. NotesCovered' /\ HtlcsCovered'
    BY <1>0, <1>7, CoverStays
  <1>9. QueuesAgree'
    <2>1. PipeAgrees'
      BY <1>0, <1>1 DEF CreditInv, QueuesAgree, PipeAgrees
    <2>2. RepliesAgree' /\ WireAgrees' /\ GotAgrees'
      BY <1>0, <1>7 DEF CreditInv, QueuesAgree, RepliesAgree, WireAgrees, GotAgrees
    <2>3. QED
      BY <2>1, <2>2 DEF QueuesAgree
  <1>10. DownQuiet' /\ HolderKnows' /\ HonestHtlcsTaken'
    BY <1>0, <1>3, <1>4 DEF CreditInv, DownQuiet, HolderKnows, HonestHtlcsTaken
  <1>11. QED
    BY <1>5, <1>6, <1>8, <1>9, <1>10 DEF CreditInv

(* handle_offer_htlc(): the offer of an HTLC that did not cross a note      *)
(* finds the floor at the latest note.                                      *)
LEMMA OfferOK ==
    ASSUME CreditInv, pipe # <<>>, Head(pipe).type = "offer",
           handle_offer_htlc(Head(pipe).htlc), pipe' = Tail(pipe),
           UNCHANGED <<notes, holder, our_msat, got, pipeH, mail, up, cuts,
                       crossed, refused>>
    PROVE  CreditInv'
  <1> DEFINE h == pipe[1].htlc
             ok == room_above_reserve(InChannel \cup {h}, "provider")
             add == [type |-> "add", htlc |-> h]
  <1>0. /\ UNCHANGED <<credit, enforce, our_msat, got, pipeH, mail, floor,
                       up, crossed, refused>>
        /\ ok => /\ hout' = [hout EXCEPT ![h] = "added"]
                 /\ replies' = Append(replies, h)
                 /\ wire' = Append(wire, add)
        /\ ~ok => /\ hout' = [hout EXCEPT ![h] = "failed"]
                  /\ UNCHANGED <<replies, wire>>
    BY TailFacts DEF handle_offer_htlc, notes, holder, CreditInv, CreditTypeOK
  <1>1. /\ Len(pipe) \in Nat \ {0} /\ DOMAIN pipe = 1..Len(pipe)
        /\ DOMAIN pipe' = 1..(Len(pipe) - 1)
        /\ \A i \in DOMAIN pipe' : pipe'[i] = pipe[i + 1] /\ i + 1 \in DOMAIN pipe
        /\ pipe' \in Seq(PipeMsgs) /\ pipe[1] \in PipeMsgs /\ pipe[1].type = "offer"
    BY TailFacts DEF CreditInv, CreditTypeOK
  <1>2. h \in Htlcs /\ add \in WireMsgs /\ add.type = "add" /\ add.htlc = h
    BY <1>1 DEF PipeMsgs, WireMsgs
  <1>3. /\ hout[h] = "offered"
        /\ \A i \in DOMAIN pipe : IsOffer(pipe[i], h) => i = 1
    <2>1. 1 \in DOMAIN pipe /\ IsOffer(pipe[1], h)
      BY <1>1 DEF IsOffer
    <2>2. QED
      BY <1>2, <2>1 DEF CreditInv, QueuesAgree, PipeAgrees
  <1> HIDE DEF h, ok, add
  <1>4. /\ hout' \in [Htlcs -> HoutStates]
        /\ hout'[h] = (IF ok THEN "added" ELSE "failed")
        /\ \A g \in Htlcs : g # h => hout'[g] = hout[g]
    BY <1>0, <1>2 DEF CreditInv, CreditTypeOK, HoutStates
  <1>5. h \notin got /\ h \notin InChannel
    BY <1>3 DEF CreditInv, QueuesAgree, GotAgrees, InChannel, In
  <1>6. /\ wire' \in Seq(WireMsgs) /\ replies' \in Seq(Htlcs)
        /\ Len(wire) \in Nat /\ DOMAIN wire = 1..Len(wire)
        /\ ok => /\ DOMAIN wire' = 1..(Len(wire) + 1)
                 /\ \A i \in DOMAIN wire : wire'[i] = wire[i]
                 /\ wire'[Len(wire) + 1] = add
        /\ Len(replies) \in Nat /\ DOMAIN replies = 1..Len(replies)
        /\ ok => /\ DOMAIN replies' = 1..(Len(replies) + 1)
                 /\ \A i \in DOMAIN replies : replies'[i] = replies[i]
                 /\ replies'[Len(replies) + 1] = h
    <2>1. wire \in Seq(WireMsgs) /\ replies \in Seq(Htlcs)
      BY DEF CreditInv, CreditTypeOK
    <2>2. /\ Append(wire, add) \in Seq(WireMsgs)
          /\ Len(wire) \in Nat /\ DOMAIN wire = 1..Len(wire)
          /\ DOMAIN Append(wire, add) = 1..(Len(wire) + 1)
          /\ \A i \in DOMAIN wire : Append(wire, add)[i] = wire[i]
          /\ Append(wire, add)[Len(wire) + 1] = add
      BY <1>2, <2>1, AppendFacts
    <2>3. /\ Append(replies, h) \in Seq(Htlcs)
          /\ Len(replies) \in Nat /\ DOMAIN replies = 1..Len(replies)
          /\ DOMAIN Append(replies, h) = 1..(Len(replies) + 1)
          /\ \A i \in DOMAIN replies : Append(replies, h)[i] = replies[i]
          /\ Append(replies, h)[Len(replies) + 1] = h
      BY <1>2, <2>1, AppendFacts
    <2>4. CASE ok
      BY <1>0, <2>2, <2>3, <2>4
    <2>5. CASE ~ok
      BY <1>0, <2>1, <2>2, <2>3, <2>5
    <2>6. QED
      BY <2>4, <2>5
  <1>7. CreditTypeOK'
    BY <1>0, <1>1, <1>4, <1>6 DEF CreditInv, CreditTypeOK
  <1>8. InChannel' = (IF ok THEN InChannel \cup {h} ELSE InChannel) /\ In({"paid"})' = In({"paid"})
    BY <1>2, <1>3, <1>4 DEF InChannel, In
  <1>9. Issued' = Issued /\ Issued \in Nat
    BY <1>0, IssuedStays, IssuedFacts DEF CreditInv
  <1>10. QueuesAgree'
    <2>1. PipeAgrees'
      BY <1>1, <1>3, <1>4 DEF CreditInv, QueuesAgree, PipeAgrees, IsOffer
    <2>2. RepliesAgree'
      <3>1. \A i \in DOMAIN replies : replies[i] \in Htlcs /\ hout'[replies[i]] \in {"added", "out"}
        <4>1. \A i \in DOMAIN replies : replies[i] \in Htlcs
          BY DEF CreditInv, CreditTypeOK
        <4>2. \A i \in DOMAIN replies : hout[replies[i]] \in {"added", "out"}
          BY DEF CreditInv, QueuesAgree, RepliesAgree
        <4>3. QED
          BY <1>3, <1>4, <4>1, <4>2
      <3>2. CASE ok
        BY <1>4, <1>6, <3>1, <3>2 DEF RepliesAgree
      <3>3. CASE ~ok
        BY <1>0, <3>1, <3>3 DEF RepliesAgree
      <3>4. QED
        BY <3>2, <3>3
    <2>3. WireAgrees'
      <3>1. \A i \in DOMAIN wire : ~IsAdd(wire[i], h)
        BY <1>2, <1>3 DEF CreditInv, QueuesAgree, WireAgrees
      <3>2. CASE ok
        <4>1. ASSUME NEW g \in Htlcs, NEW i \in DOMAIN wire', IsAdd(wire'[i], g)
              PROVE  /\ hout'[g] \in {"added", "out", "sent"} /\ g \notin got
                     /\ \A j \in DOMAIN wire' : IsAdd(wire'[j], g) => j = i
          <5>1. CASE g = h
            <6>1. \A j \in DOMAIN wire' : IsAdd(wire'[j], h) => j = Len(wire) + 1
              BY <1>6, <3>1, <3>2
            <6>2. QED
              BY <1>4, <1>5, <3>2, <4>1, <5>1, <6>1
          <5>2. CASE g # h
            <6>1. \A j \in DOMAIN wire' : IsAdd(wire'[j], g) => j \in DOMAIN wire /\ wire'[j] = wire[j]
              BY <1>2, <1>6, <3>2, <5>2 DEF IsAdd
            <6>2. QED
              BY <1>4, <4>1, <5>2, <6>1 DEF CreditInv, QueuesAgree, WireAgrees
          <5>3. QED
            BY <5>1, <5>2
        <4>2. QED
          BY <1>0, <4>1 DEF WireAgrees, IsAdd
      <3>3. CASE ~ok
        BY <1>0, <1>4, <3>1, <3>3 DEF CreditInv, QueuesAgree, WireAgrees
      <3>4. QED
        BY <3>2, <3>3
    <2>4. GotAgrees'
      BY <1>0, <1>8 DEF CreditInv, QueuesAgree, GotAgrees
    <2>5. QED
      BY <2>1, <2>2, <2>3, <2>4 DEF QueuesAgree
  <1>11. up /\ DownQuiet'
    BY <1>0 DEF CreditInv, DownQuiet
  <1>12. NotesBefore'
    <2>1. floor'.provider \in Nat /\ floor'.provider >= floor.provider
      BY <1>0 DEF CreditInv, CreditTypeOK
    <2>2. ~IsNote(pipe[1])
      BY <1>1 DEF IsNote
    <2>3. QED
      BY <1>0, <2>1, <2>2, NotesBeforePop
  <1>13. HolderKnows' /\ HonestHtlcsTaken'
    BY <1>0, <1>9 DEF CreditInv, HolderKnows, HonestHtlcsTaken
  <1>14. NotesCovered' /\ HtlcsCovered'
    <2>1. CASE ~ok
      BY <1>0, <1>8, <2>1, CoverStays
    <2>2. CASE ok
      <3> DEFINE IC == InChannel \cup {h}
      <3>1. /\ our_msat >= Amount(IC) + Reserve + floor.provider
            /\ our_msat \in Nat /\ Reserve \in Nat /\ floor.provider \in Nat
        BY <2>2, CreditAssumption DEF ok, room_above_reserve, CreditInv, CreditTypeOK
      <3>2. InChannel' = IC /\ IC \in SUBSET Htlcs /\ crossed \cap In({"paid"}) \in SUBSET Htlcs
        BY <1>2, <1>8, <2>2, WhereFacts
      <3> HIDE DEF IC
      <3>3. /\ Amount(IC) \in Nat /\ Amount(IC \ crossed) \in Nat
            /\ Amount(IC \ crossed) <= Amount(IC)
            /\ Amount(crossed \cap In({"paid"})) \in Nat
        BY <3>2, AmountFacts
      <3>4. /\ Amount(InChannel)' = Amount(IC)
            /\ Amount(InChannel \ crossed)' = Amount(IC \ crossed)
            /\ Amount(crossed \cap In({"paid"}))' = Amount(crossed \cap In({"paid"}))
        BY <1>0, <1>8, <3>2
      <3>5. HtlcsCovered'
        BY <1>0, <3>1, <3>3, <3>4 DEF HtlcsCovered
      <3>6. our_msat + Amount(crossed \cap In({"paid"}))
               >= Issued + Amount(IC \ crossed) + (IF Issued = 0 THEN 0 ELSE Reserve)
        <4>1. CASE h \in crossed
          <5>1. IC \ crossed = InChannel \ crossed
            BY <4>1 DEF IC
          <5>2. QED
            BY <5>1 DEF CreditInv, NotesCovered
        <4>2. CASE h \notin crossed
          <5>1. floor.provider >= Issued
            <6>1. 1 \in DOMAIN pipe /\ pipe[1].type = "offer" /\ pipe[1].htlc \notin crossed
              BY <1>1, <4>2 DEF h
            <6>2. floor.provider >= Issued \/ \E j \in 1..(1 - 1) : IsNote(pipe[j])
              BY <6>1 DEF CreditInv, NotesBefore
            <6>3. QED
              BY <6>2
          <5>2. QED
            BY <1>9, <3>1, <3>3, <5>1
        <4>3. QED
          BY <4>1, <4>2
      <3>7. NotesCovered'
        BY <1>0, <1>9, <3>4, <3>6 DEF NotesCovered
      <3>8. QED
        BY <3>5, <3>7
    <2>3. QED
      BY <2>1, <2>2
  <1>15. QED
    BY <1>7, <1>10, <1>11, <1>12, <1>13, <1>14 DEF CreditInv

(* req_in() *)
LEMMA ProviderInOK ==
    ASSUME CreditInv, ProviderIn
    PROVE  CreditInv'
  <1>1. CASE Head(pipe).type = "offer" /\ handle_offer_htlc(Head(pipe).htlc)
    BY <1>1, OfferOK DEF ProviderIn
  <1>2. CASE Head(pipe).type = "note" /\ handle_credit_note(Head(pipe).credit)
    BY <1>2, ProviderNoteOK DEF ProviderIn
  <1>3. QED
    BY <1>1, <1>2 DEF ProviderIn

(* send_commit() *)
LEMMA SendCommitOK ==
    ASSUME CreditInv, send_commit
    PROVE  CreditInv'
  <1> DEFINE m == [type |-> "commit"]
  <1>0. /\ hout' = [h \in Htlcs |-> IF hout[h] \in {"added", "out"} THEN "sent" ELSE hout[h]]
        /\ replies' = <<>> /\ wire' = Append(wire, m)
        /\ In({"added", "out"}) # {}
        /\ UNCHANGED <<credit, enforce, our_msat, got, pipe, pipeH, mail, floor, up,
                       crossed, refused>>
    BY DEF send_commit, notes, holder
  <1>1. /\ hout' \in [Htlcs -> HoutStates]
        /\ \A h \in Htlcs : IF hout[h] \in {"added", "out"} THEN hout'[h] = "sent" ELSE hout'[h] = hout[h]
    BY <1>0 DEF CreditInv, CreditTypeOK, HoutStates
  <1>2. m \in WireMsgs /\ m.type # "add"
    BY DEF WireMsgs
  <1> HIDE DEF m
  <1>3. /\ wire' \in Seq(WireMsgs)
        /\ Len(wire) \in Nat /\ DOMAIN wire = 1..Len(wire)
        /\ DOMAIN wire' = 1..(Len(wire) + 1)
        /\ \A i \in DOMAIN wire : wire'[i] = wire[i]
        /\ wire'[Len(wire) + 1] = m
    BY <1>0, <1>2, AppendFacts DEF CreditInv, CreditTypeOK
  <1>4. InChannel' = InChannel /\ In({"paid"})' = In({"paid"})
    BY <1>1 DEF InChannel, In
  <1>5. Issued' = Issued
    BY <1>0, IssuedStays
  <1>6. CreditTypeOK'
    BY <1>0, <1>1, <1>3 DEF CreditInv, CreditTypeOK
  <1>7. NotesCovered' /\ HtlcsCovered'
    BY <1>0, <1>4, CoverStays
  <1>8. QueuesAgree'
    <2>1. PipeAgrees'
      BY <1>0, <1>1 DEF CreditInv, QueuesAgree, PipeAgrees
    <2>2. RepliesAgree' /\ GotAgrees'
      BY <1>0, <1>4 DEF CreditInv, QueuesAgree, RepliesAgree, GotAgrees
    <2>3. WireAgrees'
      <3>1. \A h \in Htlcs, i \in DOMAIN wire' : IsAdd(wire'[i], h) => i \in DOMAIN wire /\ wire'[i] = wire[i]
        BY <1>2, <1>3 DEF IsAdd
      <3>2. ASSUME NEW h \in Htlcs, NEW i \in DOMAIN wire', IsAdd(wire'[i], h)
            PROVE  /\ hout'[h] \in {"added", "out", "sent"} /\ h \notin got
                   /\ \A j \in DOMAIN wire' : IsAdd(wire'[j], h) => j = i
        BY <1>1, <3>1, <3>2 DEF CreditInv, QueuesAgree, WireAgrees
      <3>3. QED
        BY <1>0, <3>2 DEF WireAgrees, IsAdd
    <2>4. QED
      BY <2>1, <2>2, <2>3 DEF QueuesAgree
  <1>9. DownQuiet'
    <2>1. up
      BY <1>0 DEF CreditInv, DownQuiet, In
    <2>2. QED
      BY <1>0, <2>1 DEF DownQuiet
  <1>10. NotesBefore' /\ HolderKnows' /\ HonestHtlcsTaken'
    BY <1>0, <1>5 DEF CreditInv, NotesBefore, IsNote, HolderKnows, HonestHtlcsTaken
  <1>11. QED
    BY <1>6, <1>7, <1>8, <1>9, <1>10 DEF CreditInv

(* credit_receive() *)
LEMMA CreditReceiveOK ==
    ASSUME CreditInv, credit_receive
    PROVE  CreditInv'
  <1> DEFINE n == mail[1]
  <1>0. /\ mail # <<>>
        /\ Head(mail) = n
        /\ enforce' = IF n.pre THEN enforce \cup {n.hash} ELSE enforce
        /\ pipeH' = IF n.pre /\ n.credit > Enforceable THEN Append(pipeH, n.credit) ELSE pipeH
        /\ mail' = Tail(mail)
        /\ UNCHANGED <<credit, our_msat, hout, got, pipe, replies, wire, floor, up,
                       crossed, refused>>
    <2>1. mail # <<>> /\ mail \in Seq(Letters)
      BY DEF credit_receive, CreditInv, CreditTypeOK
    <2>2. Head(mail) = mail[1]
      BY <2>1
    <2>3. QED
      BY <2>2 DEF credit_receive, notes
  <1>1. /\ mail' \in Seq(Letters) /\ n \in Letters /\ 1 \in DOMAIN mail
        /\ \A i \in DOMAIN mail' : mail'[i] = mail[i + 1] /\ i + 1 \in DOMAIN mail
    BY <1>0, TailFacts DEF CreditInv, CreditTypeOK
  <1>2. n.credit \in Nat /\ n.hash \in Payments /\ n.credit <= Issued
    BY <1>1 DEF Letters, CreditInv, HolderKnows
  <1> HIDE DEF n
  <1>3. /\ pipeH' \in Seq(Nat)
        /\ \A i \in DOMAIN pipeH' : (i \in DOMAIN pipeH /\ pipeH'[i] = pipeH[i]) \/ pipeH'[i] = n.credit
    <2>1. pipeH \in Seq(Nat)
      BY DEF CreditInv, CreditTypeOK
    <2>2. /\ Append(pipeH, n.credit) \in Seq(Nat)
          /\ \A i \in DOMAIN Append(pipeH, n.credit) :
                \/ i \in DOMAIN pipeH /\ Append(pipeH, n.credit)[i] = pipeH[i]
                \/ Append(pipeH, n.credit)[i] = n.credit
      BY <1>2, <2>1, AppendFacts
    <2>3. CASE pipeH' = pipeH
      BY <2>1, <2>3
    <2>4. CASE pipeH' = Append(pipeH, n.credit)
      BY <2>2, <2>4
    <2>5. QED
      BY <1>0, <2>3, <2>4
  <1>4. Issued' = Issued
    BY <1>0, IssuedStays
  <1>5. InChannel' = InChannel /\ In({"paid"})' = In({"paid"})
    BY <1>0 DEF InChannel, In
  <1>6. CreditTypeOK'
    BY <1>0, <1>1, <1>2, <1>3 DEF CreditInv, CreditTypeOK
  <1>7. NotesCovered' /\ HtlcsCovered'
    BY <1>0, <1>5, CoverStays
  <1>8. QueuesAgree'
    BY <1>0, <1>5 DEF CreditInv, QueuesAgree, PipeAgrees, RepliesAgree, WireAgrees, GotAgrees
  <1>9. DownQuiet' /\ NotesBefore' /\ HonestHtlcsTaken'
    BY <1>0, <1>4 DEF CreditInv, DownQuiet, In, NotesBefore, IsNote, HonestHtlcsTaken
  <1>10. HolderKnows'
    <2>1. \A i \in DOMAIN pipeH' : pipeH'[i] <= Issued
      BY <1>2, <1>3 DEF CreditInv, HolderKnows
    <2>2. \A i \in DOMAIN mail' : mail'[i].credit <= Issued
      BY <1>1 DEF CreditInv, HolderKnows
    <2>3. QED
      BY <1>0, <1>4, <2>1, <2>2 DEF CreditInv, HolderKnows
  <1>11. QED
    BY <1>6, <1>7, <1>8, <1>9, <1>10 DEF CreditInv

(* handle_credit_note() of the holder's channeld *)
LEMMA HolderNoteOK ==
    ASSUME CreditInv, HolderNote
    PROVE  CreditInv'
  <1>0. /\ pipeH # <<>> /\ pipeH' = Tail(pipeH)
        /\ floor' = raised("holder", pipeH[1])
        /\ UNCHANGED <<credit, enforce, our_msat, hout, got, pipe, replies, wire, mail,
                       up, crossed, refused>>
    BY TailFacts DEF HolderNote, notes, holder, CreditInv, CreditTypeOK
  <1>1. /\ pipeH' \in Seq(Nat) /\ pipeH[1] \in Nat /\ 1 \in DOMAIN pipeH
        /\ \A i \in DOMAIN pipeH' : pipeH'[i] = pipeH[i + 1] /\ i + 1 \in DOMAIN pipeH
    BY <1>0, TailFacts DEF CreditInv, CreditTypeOK
  <1>2. /\ floor' \in [provider : Nat, holder : Nat]
        /\ floor'.holder = floor.holder \/ floor'.holder = pipeH[1]
        /\ floor'.provider = floor.provider
    BY <1>0, <1>1, RaisedFacts DEF CreditInv
  <1>3. Issued' = Issued
    BY <1>0, IssuedStays
  <1>4. InChannel' = InChannel /\ In({"paid"})' = In({"paid"})
    BY <1>0 DEF InChannel, In
  <1>5. CreditTypeOK'
    BY <1>0, <1>1, <1>2 DEF CreditInv, CreditTypeOK
  <1>6. NotesCovered' /\ HtlcsCovered'
    BY <1>0, <1>4, CoverStays
  <1>7. QueuesAgree'
    BY <1>0, <1>4 DEF CreditInv, QueuesAgree, PipeAgrees, RepliesAgree, WireAgrees, GotAgrees
  <1>8. DownQuiet' /\ NotesBefore' /\ HonestHtlcsTaken'
    BY <1>0, <1>2, <1>3 DEF CreditInv, DownQuiet, In, NotesBefore, IsNote, HonestHtlcsTaken
  <1>9. HolderKnows'
    <2>1. floor'.holder <= Issued /\ \A i \in DOMAIN pipeH' : pipeH'[i] <= Issued
      BY <1>1, <1>2 DEF CreditInv, HolderKnows
    <2>2. QED
      BY <1>0, <1>3, <2>1 DEF CreditInv, HolderKnows
  <1>10. QED
    BY <1>5, <1>6, <1>7, <1>8, <1>9 DEF CreditInv

(* handle_peer_add_htlc() with room *)
LEMMA PeerAddOK ==
    ASSUME CreditInv, wire # <<>>, Head(wire).type = "add",
           got' = got \cup {Head(wire).htlc}, wire' = Tail(wire),
           UNCHANGED <<credit, enforce, our_msat, hout, pipe, replies, pipeH, mail,
                       floor, up, crossed, refused>>
    PROVE  CreditInv'
  <1> DEFINE h == wire[1].htlc
  <1>1. /\ Len(wire) \in Nat \ {0} /\ DOMAIN wire = 1..Len(wire)
        /\ DOMAIN wire' = 1..(Len(wire) - 1)
        /\ \A i \in DOMAIN wire' : wire'[i] = wire[i + 1] /\ i + 1 \in DOMAIN wire
        /\ wire' \in Seq(WireMsgs) /\ wire[1] \in WireMsgs /\ wire[1].type = "add"
        /\ got' = got \cup {h}
    BY TailFacts DEF CreditInv, CreditTypeOK
  <1>2. h \in Htlcs
    BY <1>1 DEF WireMsgs
  <1>3. /\ hout[h] \in {"added", "out", "sent"}
        /\ \A i \in DOMAIN wire : IsAdd(wire[i], h) => i = 1
    <2>1. 1 \in DOMAIN wire /\ IsAdd(wire[1], h)
      BY <1>1 DEF IsAdd
    <2>2. QED
      BY <1>2, <2>1 DEF CreditInv, QueuesAgree, WireAgrees
  <1> HIDE DEF h
  <1>4. InChannel' = InChannel /\ In({"paid"})' = In({"paid"}) /\ h \in InChannel
    BY <1>2, <1>3 DEF InChannel, In
  <1>5. Issued' = Issued
    BY IssuedStays
  <1>6. CreditTypeOK'
    BY <1>1, <1>2 DEF CreditInv, CreditTypeOK
  <1>7. NotesCovered' /\ HtlcsCovered'
    BY <1>4, CoverStays
  <1>8. QueuesAgree'
    <2>1. PipeAgrees' /\ RepliesAgree' /\ GotAgrees'
      BY <1>1, <1>4 DEF CreditInv, QueuesAgree, PipeAgrees, RepliesAgree, GotAgrees
    <2>2. ASSUME NEW g \in Htlcs, NEW i \in DOMAIN wire', IsAdd(wire'[i], g)
          PROVE  /\ hout[g] \in {"added", "out", "sent"} /\ g \notin got'
                 /\ \A j \in DOMAIN wire' : IsAdd(wire'[j], g) => j = i
      <3>1. i + 1 \in DOMAIN wire /\ IsAdd(wire[i + 1], g) /\ i + 1 # 1
        BY <1>1, <2>2
      <3>2. g # h
        BY <1>3, <3>1
      <3>3. /\ hout[g] \in {"added", "out", "sent"} /\ g \notin got
            /\ \A j \in DOMAIN wire : IsAdd(wire[j], g) => j = i + 1
        BY <3>1 DEF CreditInv, QueuesAgree, WireAgrees
      <3>4. QED
        BY <1>1, <3>2, <3>3
    <2>3. WireAgrees'
      BY <2>2 DEF WireAgrees, IsAdd
    <2>4. QED
      BY <2>1, <2>3 DEF QueuesAgree
  <1>9. DownQuiet' /\ NotesBefore' /\ HonestHtlcsTaken' /\ HolderKnows'
    BY <1>5 DEF CreditInv, DownQuiet, In, NotesBefore, IsNote, HonestHtlcsTaken, HolderKnows
  <1>10. QED
    BY <1>6, <1>7, <1>8, <1>9 DEF CreditInv

(* handle_peer_add_htlc() without: only when an offer has crossed a note,   *)
(* since otherwise the balance pays the latest note beside every HTLC in    *)
(* the provider's channeld, and the holder's knows of no more of either.    *)
LEMMA RefusalExcused ==
    ASSUME CreditInv, wire # <<>>, Head(wire).type = "add",
           ~room_above_reserve(got \cup {Head(wire).htlc}, "holder")
    PROVE  crossed # {}
  <1> DEFINE h == Head(wire).htlc
  <1>1. SUFFICES ASSUME crossed = {} PROVE FALSE
    OBVIOUS
  <1>2. Head(wire) = wire[1] /\ 1 \in DOMAIN wire /\ wire[1] \in WireMsgs
    BY TailFacts DEF CreditInv, CreditTypeOK
  <1>3. h \in Htlcs
    BY <1>2 DEF WireMsgs
  <1>4. hout[h] \in {"added", "out", "sent"}
    BY <1>2, <1>3 DEF CreditInv, QueuesAgree, WireAgrees, IsAdd
  <1>5. got \cup {h} \subseteq InChannel /\ h \in InChannel
    BY <1>3, <1>4 DEF CreditInv, QueuesAgree, GotAgrees, InChannel, In
  <1> HIDE DEF h
  <1>6. /\ Amount(got \cup {h}) <= Amount(InChannel)
        /\ Amount(got \cup {h}) \in Nat /\ Amount(InChannel) \in Nat
    BY <1>5, WhereFacts, AmountFacts
  <1>7. /\ floor.holder \in Nat /\ Issued \in Nat /\ floor.holder <= Issued
        /\ our_msat \in Nat /\ Reserve \in Nat
    BY IssuedFacts, CreditAssumption DEF CreditInv, CreditTypeOK, HolderKnows
  <1>8. our_msat >= Issued + Amount(InChannel) + Reserve
    <2>1. crossed \cap In({"paid"}) = {} /\ InChannel \ crossed = InChannel
      BY <1>1
    <2>2. our_msat + 0 >= Issued + Amount(InChannel) + (IF Issued = 0 THEN 0 ELSE Reserve)
      BY <2>1, AmountEmpty DEF CreditInv, NotesCovered
    <2>3. our_msat >= Amount(InChannel) + Reserve
      BY <1>5 DEF CreditInv, HtlcsCovered
    <2>4. QED
      BY <1>6, <1>7, <2>2, <2>3
  <1>9. room_above_reserve(got \cup {h}, "holder")
    BY <1>6, <1>7, <1>8 DEF room_above_reserve
  <1>10. QED
    BY <1>9 DEF h

(* handle_peer_add_htlc() *)
LEMMA PeerAddHtlcOK ==
    ASSUME CreditInv, handle_peer_add_htlc
    PROVE  CreditInv'
  <1> DEFINE h == Head(wire).htlc
             ok == room_above_reserve(got \cup {h}, "holder")
  <1>1. CASE ok
    <2>1. /\ got' = got \cup {h} /\ wire' = Tail(wire)
          /\ UNCHANGED <<hout, pipe, replies, pipeH, mail, floor, up, refused>>
      BY <1>1 DEF handle_peer_add_htlc
    <2>2. QED
      BY <2>1, PeerAddOK DEF handle_peer_add_htlc, notes, holder
  <1>2. CASE ~ok
    <2>1. Broken(Saved)
      BY <1>2 DEF handle_peer_add_htlc
    <2>2. crossed # {}
      BY <1>2, RefusalExcused DEF handle_peer_add_htlc
    <2>3. QED
      BY <2>1, <2>2, BrokenOK DEF handle_peer_add_htlc, notes, holder
  <1>3. QED
    BY <1>1, <1>2

(* handle_peer_commit_sig() *)
LEMMA PeerCommitSigOK ==
    ASSUME CreditInv, handle_peer_commit_sig
    PROVE  CreditInv'
  <1>0. /\ wire # <<>> /\ wire' = Tail(wire)
        /\ hout' = [h \in Htlcs |-> IF h \in got /\ hout[h] = "sent" THEN "locked" ELSE hout[h]]
        /\ UNCHANGED <<credit, enforce, our_msat, got, pipe, replies, pipeH, mail, floor,
                       up, crossed, refused>>
    BY DEF handle_peer_commit_sig, notes, holder
  <1>1. /\ Len(wire) \in Nat \ {0} /\ DOMAIN wire = 1..Len(wire)
        /\ DOMAIN wire' = 1..(Len(wire) - 1)
        /\ \A i \in DOMAIN wire' : wire'[i] = wire[i + 1] /\ i + 1 \in DOMAIN wire
        /\ wire' \in Seq(WireMsgs)
    BY <1>0, TailFacts DEF CreditInv, CreditTypeOK
  <1>2. /\ hout' \in [Htlcs -> HoutStates]
        /\ \A h \in Htlcs : IF h \in got /\ hout[h] = "sent" THEN hout'[h] = "locked"
                            ELSE hout'[h] = hout[h]
    BY <1>0 DEF CreditInv, CreditTypeOK, HoutStates
  <1>3. InChannel' = InChannel /\ In({"paid"})' = In({"paid"})
    BY <1>2 DEF InChannel, In
  <1>4. Issued' = Issued
    BY <1>0, IssuedStays
  <1>5. CreditTypeOK'
    BY <1>0, <1>1, <1>2 DEF CreditInv, CreditTypeOK
  <1>6. NotesCovered' /\ HtlcsCovered'
    BY <1>0, <1>3, CoverStays
  <1>7. QueuesAgree'
    <2>1. PipeAgrees'
      BY <1>0, <1>2 DEF CreditInv, QueuesAgree, PipeAgrees
    <2>2. RepliesAgree'
      <3>1. \A i \in DOMAIN replies : replies[i] \in Htlcs
        BY DEF CreditInv, CreditTypeOK
      <3>2. QED
        BY <1>0, <1>2, <3>1 DEF CreditInv, QueuesAgree, RepliesAgree
    <2>3. WireAgrees'
      BY <1>0, <1>1, <1>2 DEF CreditInv, QueuesAgree, WireAgrees, IsAdd
    <2>4. GotAgrees'
      BY <1>0, <1>3 DEF CreditInv, QueuesAgree, GotAgrees
    <2>5. QED
      BY <2>1, <2>2, <2>3, <2>4 DEF QueuesAgree
  <1>8. DownQuiet'
    BY <1>0 DEF CreditInv, DownQuiet
  <1>9. NotesBefore' /\ HonestHtlcsTaken' /\ HolderKnows'
    BY <1>0, <1>4 DEF CreditInv, NotesBefore, IsNote, HonestHtlcsTaken, HolderKnows
  <1>10. QED
    BY <1>5, <1>6, <1>7, <1>8, <1>9 DEF CreditInv

(* An HTLC is resolved: the balance and what it holds fall together. *)
LEMMA ResolveOK ==
    ASSUME CreditInv, NEW h \in Htlcs, NEW fulfilled \in BOOLEAN,
           Resolve(h, fulfilled)
    PROVE  CreditInv'
  <1>0. /\ up /\ hout[h] = "locked"
        /\ hout' = [hout EXCEPT ![h] = IF fulfilled THEN "paid" ELSE "failed"]
        /\ our_msat' = IF fulfilled THEN our_msat - Msat[h] ELSE our_msat
        /\ got' = got \ {h}
        /\ UNCHANGED <<credit, enforce, pipe, replies, pipeH, wire, mail, floor, up,
                       crossed, refused>>
    BY DEF Resolve, notes, holder, links
  <1>1. /\ hout' \in [Htlcs -> HoutStates]
        /\ hout'[h] = (IF fulfilled THEN "paid" ELSE "failed")
        /\ \A g \in Htlcs : g # h => hout'[g] = hout[g]
    BY <1>0 DEF CreditInv, CreditTypeOK, HoutStates
  <1>2. /\ InChannel' = InChannel \ {h} /\ h \in InChannel /\ InChannel \in SUBSET Htlcs
        /\ In({"paid"})' = (IF fulfilled THEN In({"paid"}) \cup {h} ELSE In({"paid"}))
        /\ h \notin In({"paid"})
    BY <1>0, <1>1 DEF InChannel, In
  <1>3. Issued' = Issued /\ Issued \in Nat
    BY <1>0, IssuedStays, IssuedFacts DEF CreditInv
  <1>4. /\ Msat[h] \in Nat /\ Reserve \in Nat /\ our_msat \in Nat
        /\ Amount(InChannel) \in Nat /\ Amount(InChannel \ {h}) \in Nat
        /\ Amount(InChannel) = Msat[h] + Amount(InChannel \ {h})
        /\ our_msat >= Amount(InChannel) + Reserve
    <2>1. InChannel # {} /\ InChannel \ {h} \in SUBSET InChannel
      BY <1>2
    <2>2. QED
      BY <1>2, <2>1, AmountFacts, CreditAssumption DEF CreditInv, CreditTypeOK, HtlcsCovered
  <1>5. our_msat' \in Nat
    BY <1>0, <1>4
  <1>6. CreditTypeOK'
    BY <1>0, <1>1, <1>5 DEF CreditInv, CreditTypeOK
  <1>7. NotesCovered' /\ HtlcsCovered'
    <2>1. CASE ~fulfilled
      BY <1>0, <1>2, <2>1, CoverStays
    <2>2. CASE fulfilled
      <3> DEFINE paid == In({"paid"})
      <3>1. /\ our_msat' = our_msat - Msat[h]
            /\ paid' = paid \cup {h} /\ paid \in SUBSET Htlcs
            /\ Amount(InChannel)' = Amount(InChannel \ {h})
            /\ Amount(InChannel \ crossed)' = Amount((InChannel \ {h}) \ crossed)
            /\ Amount(crossed \cap paid)' = Amount(crossed \cap (paid \cup {h}))
        BY <1>0, <1>2, <2>2, WhereFacts
      <3>2. HtlcsCovered'
        <4>1. our_msat - Msat[h] >= Amount(InChannel \ {h}) + Reserve
          BY <1>4
        <4>2. QED
          BY <3>1, <4>1 DEF HtlcsCovered
      <3>3. our_msat + Amount(crossed \cap paid)
               >= Issued + Amount(InChannel \ crossed) + (IF Issued = 0 THEN 0 ELSE Reserve)
        BY DEF CreditInv, NotesCovered
      <3>4. h \notin paid
        BY <1>2
      <3> HIDE DEF paid
      <3>5. /\ Amount(crossed \cap paid) \in Nat /\ Amount(InChannel \ crossed) \in Nat
            /\ Amount((InChannel \ {h}) \ crossed) \in Nat
            /\ Amount(crossed \cap (paid \cup {h})) \in Nat
        BY <1>2, <3>1, AmountFacts
      <3>6. (our_msat - Msat[h]) + Amount(crossed \cap (paid \cup {h}))
               >= Issued + Amount((InChannel \ {h}) \ crossed) + (IF Issued = 0 THEN 0 ELSE Reserve)
        <4> DEFINE cp == crossed \cap paid
                   cp2 == crossed \cap (paid \cup {h})
                   nc == InChannel \ crossed
                   nc2 == (InChannel \ {h}) \ crossed
                   R == IF Issued = 0 THEN 0 ELSE Reserve
        <4>1. /\ our_msat + Amount(cp) >= Issued + Amount(nc) + R
              /\ Amount(cp) \in Nat /\ Amount(cp2) \in Nat
              /\ Amount(nc) \in Nat /\ Amount(nc2) \in Nat /\ R \in Nat
          BY <1>4, <3>3, <3>5
        <4>2. /\ cp2 \in SUBSET Htlcs /\ nc \in SUBSET Htlcs
              /\ h \in crossed => nc2 = nc /\ h \in cp2 /\ cp2 \ {h} = cp
              /\ h \notin crossed => cp2 = cp /\ h \in nc /\ nc \ {h} = nc2
          BY <1>2, <3>1, <3>4
        <4> HIDE DEF cp, cp2, nc, nc2, R
        <4>3. /\ h \in crossed => Amount(cp2) = Msat[h] + Amount(cp)
              /\ h \notin crossed => Amount(nc) = Msat[h] + Amount(nc2)
          BY <4>2, AmountFacts
        <4>4. (our_msat - Msat[h]) + Amount(cp2) >= Issued + Amount(nc2) + R
          <5>1. CASE h \in crossed
            BY <1>3, <1>4, <4>1, <4>2, <4>3, <5>1
          <5>2. CASE h \notin crossed
            BY <1>3, <1>4, <4>1, <4>2, <4>3, <5>2
          <5>3. QED
            BY <5>1, <5>2
        <4>5. QED
          BY <4>4 DEF cp2, nc2, R
      <3>7. NotesCovered'
        BY <1>3, <3>1, <3>6 DEF NotesCovered, paid
      <3>8. QED
        BY <3>2, <3>7
    <2>3. QED
      BY <2>1, <2>2
  <1>8. QueuesAgree'
    <2>1. PipeAgrees'
      BY <1>0, <1>1 DEF CreditInv, QueuesAgree, PipeAgrees
    <2>2. RepliesAgree'
      <3>1. \A i \in DOMAIN replies : replies[i] \in Htlcs
        BY DEF CreditInv, CreditTypeOK
      <3>2. QED
        BY <1>0, <1>1, <3>1 DEF CreditInv, QueuesAgree, RepliesAgree
    <2>3. WireAgrees'
      BY <1>0, <1>1 DEF CreditInv, QueuesAgree, WireAgrees
    <2>4. GotAgrees'
      BY <1>0, <1>2 DEF CreditInv, QueuesAgree, GotAgrees
    <2>5. QED
      BY <2>1, <2>2, <2>3, <2>4 DEF QueuesAgree
  <1>9. DownQuiet'
    BY <1>0 DEF DownQuiet
  <1>10. NotesBefore' /\ HonestHtlcsTaken' /\ HolderKnows'
    BY <1>0, <1>3 DEF CreditInv, NotesBefore, IsNote, HonestHtlcsTaken, HolderKnows
  <1>11. QED
    BY <1>6, <1>7, <1>8, <1>9, <1>10 DEF CreditInv

(* The HTLCs sent again are each sent once. *)
LEMMA SentAgain ==
    ASSUME NEW S \in SUBSET Htlcs
    PROVE  \E n \in Nat : /\ SetToSeq(S) \in [1..n -> S]
                          /\ \A i, j \in 1..n : SetToSeq(S)[i] = SetToSeq(S)[j] => i = j
  <1> DEFINE n == Cardinality(S)
  <1>1. IsFiniteSet(S)
    BY CreditAssumption, FS_Subset
  <1>2. n \in Nat /\ ExistsBijection(1..n, S)
    BY <1>1, FS_CardinalityType
  <1>3. \E f \in [1..n -> S] : IsInjective(f)
    BY <1>2 DEF ExistsBijection, Bijection, Injection
  <1>4. SetToSeq(S) \in [1..n -> S] /\ IsInjective(SetToSeq(S))
    BY <1>3 DEF SetToSeq
  <1>5. QED
    BY <1>2, <1>4 DEF IsInjective

(* The connection is back: both channelds start from the latest notes. *)
LEMMA ReconnectOK ==
    ASSUME CreditInv, Reconnect
    PROVE  CreditInv'
  <1> DEFINE again == SetToSeq(In({"sent"}))
             adds == [i \in DOMAIN again |-> [type |-> "add", htlc |-> again[i]]]
             commit == [type |-> "commit"]
             note == [type |-> "note", credit |-> Issued]
             letter == [credit |-> Issued, hash |-> ByCredit(Issued), pre |-> ByCredit(Issued) \in preimages]
  <1>0. /\ ~up /\ up' = TRUE
        /\ pipe' = IF Issued = 0 THEN <<>> ELSE <<note>>
        /\ pipeH' = IF Enforceable = 0 THEN <<>> ELSE <<Enforceable>>
        /\ mail' = IF Issued = 0 THEN <<>> ELSE <<letter>>
        /\ wire' = IF again = <<>> THEN <<>> ELSE adds \o <<commit>>
        /\ UNCHANGED <<credit, enforce, our_msat, hout, got, replies, floor, crossed, refused>>
    BY DEF Reconnect, resent, notes, holder
  <1>1. /\ Issued' = Issued /\ Issued \in Nat /\ Enforceable \in Nat /\ Enforceable <= Issued
        /\ Issued # 0 => ByCredit(Issued) \in Payments
    BY <1>0, IssuedStays, IssuedFacts DEF CreditInv, ByCredit
  <1>2. /\ note \in PipeMsgs /\ note.type = "note" /\ note.credit = Issued
        /\ Issued # 0 => letter \in Letters
        /\ letter.credit = Issued
        /\ commit \in WireMsgs /\ commit.type = "commit"
    BY <1>1 DEF PipeMsgs, Letters, WireMsgs
  <1> HIDE DEF note, letter, commit
  <1>3. PICK n \in Nat : /\ again \in [1..n -> In({"sent"})]
                         /\ \A i, j \in 1..n : again[i] = again[j] => i = j
    <2>1. In({"sent"}) \in SUBSET Htlcs
      BY DEF In
    <2>2. QED
      BY <2>1, SentAgain
  <1> HIDE DEF again
  <1>4. /\ adds \in Seq(WireMsgs) /\ Len(adds) = n
        /\ \A i \in 1..n : adds[i].type = "add" /\ adds[i].htlc = again[i]
    <2>1. \A i \in 1..n : again[i] \in Htlcs
      BY <1>3 DEF In
    <2>2. adds \in [1..n -> WireMsgs]
      BY <1>3, <2>1 DEF WireMsgs
    <2>3. \A i \in 1..n : adds[i].type = "add" /\ adds[i].htlc = again[i]
      BY <1>3
    <2> HIDE DEF adds
    <2>4. QED
      BY <2>2, <2>3
  <1> HIDE DEF adds
  <1>5. /\ wire' \in Seq(WireMsgs)
        /\ \A i \in DOMAIN wire' :
              \/ i \in 1..n /\ wire'[i] = adds[i]
              \/ wire'[i] = commit
    <2>1. CASE wire' = <<>>
      BY <2>1
    <2>2. CASE wire' = adds \o <<commit>>
      <3>1. /\ adds \o <<commit>> \in Seq(WireMsgs)
            /\ \A i \in DOMAIN (adds \o <<commit>>) :
                  \/ i \in 1..n /\ (adds \o <<commit>>)[i] = adds[i]
                  \/ (adds \o <<commit>>)[i] = commit
        BY <1>2, <1>4
      <3>2. QED
        BY <2>2, <3>1
    <2>3. QED
      BY <1>0, <2>1, <2>2
  <1>6. InChannel' = InChannel /\ In({"paid"})' = In({"paid"})
    BY <1>0 DEF InChannel, In
  <1>7. CreditTypeOK'
    <2>1. pipe' \in Seq(PipeMsgs) /\ pipeH' \in Seq(Nat) /\ mail' \in Seq(Letters)
      BY <1>0, <1>1, <1>2
    <2>2. QED
      BY <1>0, <1>5, <2>1 DEF CreditInv, CreditTypeOK
  <1>8. NotesCovered' /\ HtlcsCovered'
    BY <1>0, <1>6, CoverStays
  <1>9. QueuesAgree'
    <2>1. PipeAgrees'
      BY <1>0, <1>2 DEF PipeAgrees, IsOffer
    <2>2. RepliesAgree' /\ GotAgrees'
      BY <1>0, <1>6 DEF CreditInv, QueuesAgree, RepliesAgree, GotAgrees
    <2>3. ASSUME NEW h \in Htlcs, NEW i \in DOMAIN wire', IsAdd(wire'[i], h)
          PROVE  /\ hout[h] \in {"added", "out", "sent"} /\ h \notin got
                 /\ \A j \in DOMAIN wire' : IsAdd(wire'[j], h) => j = i
      <3>1. \A j \in DOMAIN wire' : IsAdd(wire'[j], h) => j \in 1..n /\ again[j] = h
        BY <1>2, <1>4, <1>5 DEF IsAdd
      <3>2. hout[h] = "sent"
        BY <1>3, <2>3, <3>1 DEF In
      <3>3. h \notin got
        BY <1>0, <3>2 DEF CreditInv, DownQuiet, In
      <3>4. QED
        BY <1>3, <2>3, <3>1, <3>2, <3>3
    <2>4. WireAgrees'
      BY <1>0, <2>3 DEF WireAgrees, IsAdd
    <2>5. QED
      BY <2>1, <2>2, <2>4 DEF QueuesAgree
  <1>10. DownQuiet'
    BY <1>0 DEF DownQuiet
  <1>11. NotesBefore'
    <2>1. CASE Issued = 0
      BY <1>0, <1>1, <2>1 DEF NotesBefore, CreditInv, CreditTypeOK
    <2>2. CASE Issued # 0
      <3>1. pipe' = <<note>> /\ DOMAIN pipe' = {1} /\ pipe'[1] = note
        BY <1>0, <2>2
      <3>2. QED
        BY <1>1, <1>2, <3>1 DEF NotesBefore, IsNote
    <2>3. QED
      BY <2>1, <2>2
  <1>12. HolderKnows'
    BY <1>0, <1>1, <1>2 DEF CreditInv, HolderKnows
  <1>13. HonestHtlcsTaken'
    BY <1>0 DEF CreditInv, HonestHtlcsTaken
  <1>14. QED
    BY <1>7, <1>8, <1>9, <1>10, <1>11, <1>12, <1>13 DEF CreditInv

-----------------------------------------------------------------------------
(* Every step keeps the invariant. *)
LEMMA CreditStepOK == CreditInv /\ [Next]_vars => CreditInv'
  <1>1. SUFFICES ASSUME CreditInv, [Next]_vars PROVE CreditInv'
    OBVIOUS
  <1>2. CASE UNCHANGED vars
    BY <1>1, <1>2, CreditUnchanged DEF vars, notes, holder, links
  <1>3. ASSUME NEW p \in Payments, issuecredit_again(p) PROVE CreditInv'
    BY <1>1, <1>3, CreditUnchanged DEF issuecredit_again, holder, links
  <1>4. ASSUME NEW p \in Payments, NEW pre \in BOOLEAN, json_issuecredit(p, pre)
        PROVE  CreditInv'
    BY <1>1, <1>4, IssueCreditOK
  <1>5. ASSUME NEW h \in Htlcs, send_htlc_out(h) PROVE CreditInv'
    BY <1>1, <1>5, SendHtlcOutOK
  <1>6. ASSUME NEW h \in Htlcs, NEW fulfilled \in BOOLEAN, Resolve(h, fulfilled)
        PROVE  CreditInv'
    BY <1>1, <1>6, ResolveOK
  <1>7. CASE Disconnect
    BY <1>1, <1>7, BrokenOK DEF Disconnect, notes, holder
  <1>8. CASE Reconnect
    BY <1>1, <1>8, ReconnectOK
  <1>9. CASE ProviderIn
    BY <1>1, <1>9, ProviderInOK
  <1>10. CASE rcvd_htlc_reply
    BY <1>1, <1>10, RcvdReplyOK
  <1>11. CASE send_commit
    BY <1>1, <1>11, SendCommitOK
  <1>12. CASE credit_receive
    BY <1>1, <1>12, CreditReceiveOK
  <1>13. CASE HolderNote
    BY <1>1, <1>13, HolderNoteOK
  <1>14. CASE handle_peer_add_htlc
    BY <1>1, <1>14, PeerAddHtlcOK
  <1>15. CASE handle_peer_commit_sig
    BY <1>1, <1>15, PeerCommitSigOK
  <1>16. QED
    BY <1>1, <1>2, <1>3, <1>4, <1>5, <1>6, <1>7, <1>8, <1>9, <1>10, <1>11, <1>12,
       <1>13, <1>14, <1>15 DEF Next

(* The invariant holds of every behaviour of the credit channel. *)
LEMMA CreditInvHolds == Spec => []CreditInv
  BY CreditInitOK, CreditStepOK, PTL DEF Spec

(* The HTLCs that crossed a note count on either side of NotesBacked. *)
LEMMA CoveredIsBacked == CreditInv => NotesBacked
  <1>1. SUFFICES ASSUME CreditInv PROVE NotesBacked
    OBVIOUS
  <1> DEFINE IC == InChannel
             paid == In({"paid"})
             both == crossed \cap (IC \cup paid)
  <1>2. IC \in SUBSET Htlcs /\ paid \in SUBSET Htlcs /\ IC \cap paid = {} /\ crossed \in SUBSET Htlcs
    BY <1>1, WhereFacts DEF CreditInv, CreditTypeOK
  <1>3. /\ our_msat + Amount(crossed \cap paid)
             >= Issued + Amount(IC \ crossed) + (IF Issued = 0 THEN 0 ELSE Reserve)
        /\ our_msat \in Nat /\ Issued \in Nat /\ Reserve \in Nat
    BY <1>1, IssuedFacts, CreditAssumption DEF CreditInv, CreditTypeOK, NotesCovered
  <1>4. NotesBacked <=> our_msat + Amount(both)
                          >= Issued + Amount(IC) + (IF Issued = 0 THEN 0 ELSE Reserve)
    BY DEF NotesBacked
  <1> HIDE DEF IC, paid, both
  <1>5. both \in SUBSET Htlcs /\ both \ (crossed \cap paid) = crossed \cap IC /\ crossed \cap paid \in SUBSET both
    BY <1>2 DEF both
  <1>6. /\ Amount(both) = Amount(crossed \cap paid) + Amount(crossed \cap IC)
        /\ Amount(crossed \cap paid) \in Nat /\ Amount(crossed \cap IC) \in Nat
    <2>1. Amount(both) = Amount(crossed \cap paid) + Amount(both \ (crossed \cap paid))
      BY <1>5, AmountFacts
    <2>2. crossed \cap paid \in SUBSET Htlcs /\ crossed \cap IC \in SUBSET Htlcs
      BY <1>2
    <2>3. QED
      BY <1>5, <2>1, <2>2, AmountFacts
  <1>7. /\ Amount(IC) = Amount(crossed \cap IC) + Amount(IC \ crossed)
        /\ Amount(IC \ crossed) \in Nat
    <2>1. crossed \cap IC \in SUBSET IC /\ IC \ (crossed \cap IC) = IC \ crossed /\ IC \ crossed \in SUBSET Htlcs
      BY <1>2
    <2>2. Amount(IC) = Amount(crossed \cap IC) + Amount(IC \ (crossed \cap IC))
      BY <1>2, <2>1, AmountFacts
    <2>3. QED
      BY <2>1, <2>2, AmountFacts
  <1>8. QED
    BY <1>3, <1>4, <1>6, <1>7

(* What the provider owes is covered: whatever the order in which notes,    *)
(* offers, replies and commitments pass between the daemons, its balance    *)
(* less its HTLCs pays the latest note and the reserve, up to the HTLCs     *)
(* that credit_room() did not see.                                          *)
THEOREM NotesAreBacked == Spec => []NotesBacked
  BY CreditInvHolds, CoveredIsBacked, PTL

(* Where no offer has crossed a note, the holder's channeld refuses none of *)
(* the HTLCs the provider's has offered.                                    *)
THEOREM HolderTakesHtlcs == Spec => []HonestHtlcsTaken
  <1>1. CreditInv => HonestHtlcsTaken
    BY DEF CreditInv
  <1>2. QED
    BY <1>1, CreditInvHolds, PTL

-----------------------------------------------------------------------------
(* The parts of a payment. *)

HtlcStates == {"none", "ready", "failed", "fulfilled", "gone"}

SetRecords == [parts : SUBSET Parts, so_far : Nat, total : Nat,
               asset : Assets \cup {NoAsset}, timer : BOOLEAN]
HookCalls == [by : Parts \cup {OnChain}, on : BOOLEAN]

SetTypeOK ==
    /\ sc \in Scenario
    /\ hin \in [Parts -> HtlcStates]
    /\ waiting \subseteq Parts
    /\ set \in SetRecords
    /\ hooks \subseteq HookCalls

(* The set counts each part it holds once, its parts agree with it, and it  *)
(* lost its timer when it was complete.  Calls about a set that is gone     *)
(* know that it is.                                                         *)
SetCounts ==
    /\ set.so_far = SumOf(set.parts)
    /\ waiting \cap set.parts = {}
    /\ set.parts = {} => \A h \in hooks : ~h.on
    /\ set.parts # {} =>
         /\ set.total >= sc.msat
         /\ ~set.timer => set_complete(set)
    /\ \A p \in set.parts :
         sc.onion[p].total = set.total /\ sc.onion[p].asset = set.asset

(* What was paid was paid in full: the part of PaidInFull about the past. *)
ReleasedInFull ==
    With("fulfilled") # {} =>
        /\ invoice \in {"paid", "deleted"}
        /\ \E a \in Assets : \A p \in With("fulfilled") : sc.onion[p].asset = a
        /\ \A p \in With("fulfilled") :
             /\ SumOf(With("fulfilled")) >= sc.onion[p].total
             /\ sc.onion[p].total >= sc.msat

SetInv == SetTypeOK /\ SetCounts /\ ReleasedInFull /\ NoPartForgotten

(* The sums of a payment are the sums of SetSums. *)
LEMMA SumOfIsSum == \A ps : SumOf(ps) = SumOver(Msats, ps)
  BY DEF SumOf, SumOver

(* A step that keeps the onions keeps the sums. *)
LEMMA SumsStay ==
    ASSUME sc'.onion = sc.onion
    PROVE  \A ps : SumOf(ps)' = SumOf(ps)
  <1>1. Msats' = Msats
    BY DEF Msats
  <1>2. TAKE ps
  <1>3. SumOf(ps)' = SumOver(Msats', ps)
    BY DEF SumOf, SumOver, MapThenSumSet, MapThenFoldSet
  <1>4. QED
    BY <1>1, <1>3, SumOfIsSum

(* What a part adds to the sum of a set it is not in. *)
LEMMA SumOfAdd ==
    ASSUME SetTypeOK, NEW ps \in SUBSET Parts, NEW p \in Parts \ ps
    PROVE  /\ SumOf(ps) \in Nat
           /\ SumOf(ps \cup {p}) = SumOf(ps) + sc.onion[p].msat
  <1>1. IsFiniteSet(ps)
    BY HtlcSetAssumption, FS_Subset
  <1>2. \A q \in Parts : Msats[q] \in Nat /\ Msats[q] = sc.onion[q].msat
    BY HtlcSetAssumption DEF SetTypeOK, Scenario, Onions, Msats
  <1>3. SumOver(Msats, ps) \in Nat
    BY <1>1, <1>2, SumRemove
  <1>4. SumOver(Msats, ps \cup {p}) = SumOver(Msats, ps) + Msats[p]
    BY <1>1, <1>2, SumAdd
  <1>5. QED
    BY <1>2, <1>3, <1>4, SumOfIsSum

(* No part at first, and none is paid. *)
LEMMA SetInitOK == SetInit => SetInv
  <1>1. SUFFICES ASSUME SetInit PROVE SetInv
    OBVIOUS
  <1>2. SumOf({}) = 0
    BY SumOfIsSum, SumEmpty
  <1>3. SetTypeOK
    BY <1>1, HtlcSetAssumption DEF SetInit, SetTypeOK, NoSet, HtlcStates, SetRecords
  <1>4. SetCounts /\ NoPartForgotten /\ ReleasedInFull
    BY <1>1, <1>2 DEF SetInit, SetCounts, NoSet, NoPartForgotten, ReleasedInFull, With
  <1>5. QED
    BY <1>3, <1>4 DEF SetInv

(* What was released stays so, while no part is added to it. *)
LEMMA ReleasedStays ==
    ASSUME SetInv, sc' \in Scenario, sc'.onion = sc.onion, sc'.msat = sc.msat,
           With("fulfilled")' = With("fulfilled"),
           invoice \in {"paid", "deleted"} => invoice' \in {"paid", "deleted"}
    PROVE  ReleasedInFull'
  BY SumsStay DEF SetInv, ReleasedInFull

(* A part comes in, or is refused before it joins a set. *)
LEMMA SinglePartOK ==
    ASSUME SetInv, NEW p \in Parts,
           \/ peer_accepted_htlc(p)
           \/ handle_localpay_fails(p)
           \/ htlc_set_add_refused(p)
    PROVE  SetInv'
  <1> USE DEF SetInv, peer_accepted_htlc, handle_localpay_fails,
              htlc_set_add_refused, Settle
  <1>1. UNCHANGED <<sc, invoice, set, hooks>>
    OBVIOUS
  <1>2. SetTypeOK'
    BY <1>1 DEF SetTypeOK, HtlcStates
  <1>3. With("fulfilled")' = With("fulfilled")
    BY DEF With, SetTypeOK
  <1>4. ReleasedInFull'
    BY <1>1, <1>3, ReleasedStays DEF SetTypeOK
  <1>5. NoPartForgotten'
    BY <1>1 DEF NoPartForgotten, With, SetTypeOK, SetCounts
  <1>6. SetCounts'
    <2>1. SumOf(set.parts)' = SumOf(set.parts)
      BY <1>1, SumsStay
    <2>2. waiting' \cap set.parts = {}
      BY DEF SetCounts, NoPartForgotten, With
    <2>3. QED
      BY <1>1, <2>1, <2>2 DEF SetCounts, set_complete
  <1>7. QED
    BY <1>2, <1>4, <1>5, <1>6

(* The invoice expires or is deleted, or a transaction pays it. *)
LEMMA InvoiceStepOK ==
    ASSUME SetInv,
           \/ trigger_expiration
           \/ json_delinvoice
           \/ invoice_check_onchain_payment
    PROVE  SetInv'
  <1> USE DEF SetInv, trigger_expiration, json_delinvoice,
              invoice_check_onchain_payment
  <1>1. /\ UNCHANGED <<hin, waiting, set>>
        /\ hooks' \subseteq hooks \cup {[by |-> OnChain, on |-> FALSE]}
        /\ hooks \subseteq hooks'
        /\ sc' \in Scenario /\ sc'.onion = sc.onion /\ sc'.msat = sc.msat
    BY DEF SetTypeOK, Scenario
  <1>2. SetTypeOK'
    <2>1. hooks' \subseteq HookCalls
      <3>1. [by |-> OnChain, on |-> FALSE] \in HookCalls
        BY DEF HookCalls
      <3>2. QED
        BY <1>1, <3>1 DEF SetTypeOK
    <2>2. QED
      BY <1>1, <2>1 DEF SetTypeOK
  <1>3. ReleasedInFull'
    <2>1. With("fulfilled")' = With("fulfilled")
      BY <1>1 DEF With
    <2>2. invoice \in {"paid", "deleted"} => invoice' \in {"paid", "deleted"}
      OBVIOUS
    <2>3. QED
      BY <1>1, <2>1, <2>2, ReleasedStays
  <1>4. \A h \in hooks' : h.on => h \in hooks
    BY <1>1
  <1>5. NoPartForgotten'
    BY <1>1, <1>4 DEF NoPartForgotten, With
  <1>6. SetCounts'
    <2>1. SumOf(set.parts)' = SumOf(set.parts)
      BY <1>1, SumsStay
    <2>2. QED
      BY <1>1, <1>4, <2>1 DEF SetCounts, set_complete
  <1>7. QED
    BY <1>2, <1>3, <1>5, <1>6

(* The set goes: its parts, and others in ps, are settled, and calls about  *)
(* it are told.                                                             *)
LEMMA SetFreedOK ==
    ASSUME SetInv, sc' = sc, NEW rest \in SUBSET hooks, FreeSet(rest),
           NEW ps, set.parts \subseteq ps, waiting' = waiting \ ps,
           hin' \in [Parts -> HtlcStates],
           \A p \in Parts : hin'[p] = "ready" <=> hin[p] = "ready" /\ p \notin ps
    PROVE  SetTypeOK' /\ SetCounts' /\ NoPartForgotten'
  <1> USE DEF SetInv
  <1>1. set' = NoSet /\ \A h \in hooks' : ~h.on
    BY DEF FreeSet, SetTypeOK, HookCalls
  <1>2. hooks' \subseteq HookCalls
    <2>1. SUFFICES ASSUME NEW h \in hooks' PROVE h \in HookCalls
      OBVIOUS
    <2>2. PICK g \in hooks : h = [g EXCEPT !.on = FALSE]
      BY DEF FreeSet
    <2>3. g \in HookCalls
      BY DEF SetTypeOK
    <2>4. QED
      BY <2>2, <2>3 DEF HookCalls
  <1>3. SetTypeOK'
    BY <1>1, <1>2 DEF SetTypeOK, NoSet, SetRecords
  <1>4. SetCounts'
    <2>1. SumOf(set.parts)' = 0
      <3>1. set'.parts = {}
        BY <1>1 DEF NoSet
      <3>2. SumOf(set.parts)' = SumOf({})
        BY <3>1, SumsStay
      <3>3. QED
        BY <3>2, SumOfIsSum, SumEmpty
    <2>2. QED
      BY <1>1, <2>1 DEF SetCounts, NoSet
  <1>5. NoPartForgotten'
    BY <1>1 DEF NoPartForgotten, NoSet, With
  <1>6. QED
    BY <1>3, <1>4, <1>5

(* htlc_set_fail(): the set fails, with a part that was about to join it or *)
(* without.                                                                 *)
LEMMA SetFailsOK ==
    ASSUME SetInv, NEW rest \in SUBSET hooks, NEW new \in SUBSET Parts,
           UNCHANGED <<sc, invoice>>, waiting' = waiting \ new,
           htlc_set_fail(set.parts \cup new, rest)
    PROVE  SetInv'
  <1>1. waiting' = waiting \ (set.parts \cup new)
    BY DEF SetInv, SetCounts
  <1>2. SetTypeOK' /\ SetCounts' /\ NoPartForgotten'
    <2>1. hin' \in [Parts -> HtlcStates]
      BY DEF SetInv, SetTypeOK, htlc_set_fail, Settle, HtlcStates
    <2>2. \A p \in Parts : hin'[p] = "ready" <=>
                             hin[p] = "ready" /\ p \notin set.parts \cup new
      BY DEF SetInv, SetTypeOK, htlc_set_fail, Settle
    <2>3. QED
      BY <1>1, <2>1, <2>2, SetFreedOK DEF htlc_set_fail
  <1>3. With("fulfilled")' = With("fulfilled")
    BY DEF SetInv, SetTypeOK, With, htlc_set_fail, Settle
  <1>4. ReleasedInFull'
    BY <1>3, ReleasedStays DEF SetInv, SetTypeOK
  <1>5. QED
    BY <1>2, <1>4 DEF SetInv

(* What keeps the set and the parts keeps the invariant, if only calls that *)
(* do not concern the set are answered.                                     *)
LEMMA CallAnsweredOK ==
    ASSUME SetInv, NEW h \in hooks, ~h.on, hooks' = hooks \ {h},
           UNCHANGED <<sc, hin, set, waiting>>,
           invoice \in {"paid", "deleted"} => invoice' \in {"paid", "deleted"}
    PROVE  SetInv'
  <1>1. With("fulfilled")' = With("fulfilled")
    BY DEF With
  <1>2. ReleasedInFull'
    BY <1>1, ReleasedStays DEF SetInv, SetTypeOK
  <1>3. SetTypeOK'
    BY DEF SetInv, SetTypeOK
  <1>4. SumOf(set.parts)' = SumOf(set.parts)
    BY SumsStay
  <1>5. SetCounts'
    BY <1>4 DEF SetInv, SetCounts, set_complete
  <1>6. NoPartForgotten'
    BY DEF SetInv, NoPartForgotten, With
  <1>7. QED
    BY <1>2, <1>3, <1>5, <1>6 DEF SetInv

(* invoice_payment_hooks_done(), where the set is paid: it was complete     *)
(* when the plugins were asked, its parts agree on the total, which is what *)
(* the invoice asks for, and nothing had been paid before.                  *)
LEMMA SetPaidOK ==
    ASSUME SetInv, NEW h \in hooks, h.on, invoice = "unpaid", invoice' = "paid",
           Settle(set.parts, "fulfilled"), FreeSet(hooks \ {h}),
           UNCHANGED <<sc, waiting>>
    PROVE  SetInv'
  <1>1. waiting' = waiting \ set.parts
    BY DEF SetInv, SetCounts
  <1>2. SetTypeOK' /\ SetCounts' /\ NoPartForgotten'
    <2>1. hin' \in [Parts -> HtlcStates]
      BY DEF SetInv, SetTypeOK, Settle, HtlcStates
    <2>2. \A p \in Parts : hin'[p] = "ready" <=> hin[p] = "ready" /\ p \notin set.parts
      BY DEF SetInv, SetTypeOK, Settle
    <2>3. QED
      BY <1>1, <2>1, <2>2, SetFreedOK
  <1>3. set.parts # {} /\ set_complete(set) /\ set.total >= sc.msat
    BY DEF SetInv, SetCounts, NoPartForgotten
  <1>4. With("fulfilled")' = set.parts
    <2>1. With("fulfilled") = {}
      BY DEF SetInv, ReleasedInFull
    <2>2. \A p \in set.parts : p \in Parts /\ hin[p] = "ready"
      BY DEF SetInv, NoPartForgotten, With
    <2>3. QED
      BY <2>1, <2>2 DEF With, Settle
  <1>5. SumOf(set.parts) >= set.total
    BY <1>3 DEF SetInv, SetCounts, set_complete
  <1>6. SumOf(With("fulfilled"))' = SumOf(set.parts)
    BY <1>4, SumsStay
  <1>7. set.asset \in Assets
    BY <1>3 DEF SetInv, SetCounts, SetTypeOK, Scenario, Onions, SetRecords
  <1>8. ReleasedInFull'
    BY <1>3, <1>4, <1>5, <1>6, <1>7 DEF SetInv, SetCounts, ReleasedInFull
  <1>9. QED
    BY <1>2, <1>8 DEF SetInv

(* The plugins answer. *)
LEMMA HookAnswersOK ==
    ASSUME SetInv, HookAnswers
    PROVE  SetInv'
  <1>1. PICK h \in hooks : invoice_payment_hooks_done(h) \/ invoice_payment_refused(h)
    BY DEF HookAnswers
  <1>2. hooks \ {h} \in SUBSET hooks /\ {} \in SUBSET Parts
        /\ set.parts \cup {} = set.parts /\ waiting = waiting \ {}
    OBVIOUS
  <1>3. CASE h.on /\ invoice_payment_hooks_done(h) /\ invoice = "unpaid"
    BY <1>3, SetPaidOK DEF invoice_payment_hooks_done, invoices_resolve
  <1>4. CASE h.on /\ ~(invoice_payment_hooks_done(h) /\ invoice = "unpaid")
    <2>1. UNCHANGED <<sc, invoice, waiting>> /\ htlc_set_fail(set.parts, hooks \ {h})
      BY <1>1, <1>4 DEF invoice_payment_hooks_done, invoices_resolve,
                        invoice_payment_refused
    <2>2. htlc_set_fail(set.parts \cup {}, hooks \ {h})
      BY <1>2, <2>1
    <2>3. QED
      BY <1>2, <2>1, <2>2, SetFailsOK
  <1>5. CASE ~h.on
    BY <1>1, <1>5, CallAnsweredOK DEF invoice_payment_hooks_done, invoices_resolve,
                                      invoice_payment_refused
  <1>6. QED
    BY <1>3, <1>4, <1>5

(* The timer of the set goes off. *)
LEMMA TimeoutOK ==
    ASSUME SetInv, timeout_htlc_set
    PROVE  SetInv'
  <1>1. {} \in SUBSET Parts /\ set.parts \cup {} = set.parts /\ waiting = waiting \ {}
    OBVIOUS
  <1>2. htlc_set_fail(set.parts \cup {}, hooks) /\ UNCHANGED <<sc, invoice, waiting>>
    BY <1>1 DEF timeout_htlc_set
  <1>3. QED
    BY <1>1, <1>2, SetFailsOK

(* htlc_set_add_(), where the whole set fails. *)
LEMMA AddFailsOK ==
    ASSUME SetInv, NEW p \in Parts, htlc_set_add_fails(p)
    PROVE  SetInv'
  <1>1. with_part(p).parts = set.parts \cup {p}
    BY DEF SetInv, SetTypeOK, with_part
  <1>2. /\ htlc_set_fail(set.parts \cup {p}, hooks)
        /\ UNCHANGED <<sc, invoice>> /\ waiting' = waiting \ {p}
    BY <1>1 DEF htlc_set_add_fails
  <1>3. QED
    BY <1>2, SetFailsOK

(* The HTLC goes with its channel: the others of its set were all "ready".  *)
LEMMA HtlcTimesOutOK ==
    ASSUME SetInv, NEW p \in Parts, HtlcTimesOut(p)
    PROVE  SetInv'
  <1>1. \A q \in set.parts : q \in Parts /\ hin[q] = "ready"
    BY DEF SetInv, NoPartForgotten, With
  <1>2. hin' \in [Parts -> HtlcStates] /\ With("fulfilled")' = With("fulfilled")
    BY <1>1 DEF SetInv, SetTypeOK, HtlcTimesOut, htlc_set_inpay_destroyed,
                HtlcStates, With
  <1>3. UNCHANGED <<sc, invoice>> /\ waiting' = waiting \ {p}
    BY DEF HtlcTimesOut
  <1>4. ReleasedInFull'
    BY <1>2, <1>3, ReleasedStays DEF SetInv, SetTypeOK
  <1>5. CASE p \in set.parts
    <2>1. waiting' = waiting \ set.parts
      BY <1>3, <1>5 DEF SetInv, SetCounts
    <2>2. \A q \in Parts : hin'[q] = "ready" <=> hin[q] = "ready" /\ q \notin set.parts
      BY <1>5 DEF HtlcTimesOut, htlc_set_inpay_destroyed
    <2>3. FreeSet(hooks)
      BY <1>5 DEF HtlcTimesOut, htlc_set_inpay_destroyed
    <2>4. SetTypeOK' /\ SetCounts' /\ NoPartForgotten'
      BY <1>2, <1>3, <2>1, <2>2, <2>3, SetFreedOK
    <2>5. QED
      BY <1>4, <2>4 DEF SetInv
  <1>6. CASE p \notin set.parts
    <2>1. UNCHANGED <<set, hooks>> /\ hin' = [hin EXCEPT ![p] = "gone"]
      BY <1>6 DEF HtlcTimesOut, htlc_set_inpay_destroyed
    <2>2. SetTypeOK'
      BY <1>2, <1>3, <2>1 DEF SetInv, SetTypeOK
    <2>3. SumOf(set.parts)' = SumOf(set.parts)
      BY <1>3, <2>1, SumsStay
    <2>4. SetCounts'
      BY <1>3, <2>1, <2>3 DEF SetInv, SetCounts, set_complete
    <2>5. NoPartForgotten'
      BY <1>3, <1>6, <2>1 DEF SetInv, SetTypeOK, NoPartForgotten, With
    <2>6. QED
      BY <1>4, <2>2, <2>4, <2>5 DEF SetInv
  <1>7. QED
    BY <1>5, <1>6

(* lightningd starts again: every part that waits does so for its hook. *)
LEMMA RestartOK ==
    ASSUME SetInv, Restart
    PROVE  SetInv'
  <1>1. /\ set' = NoSet /\ hooks' = {} /\ waiting' = htlcs_resubmit
        /\ UNCHANGED <<invoice, hin>>
        /\ sc' \in Scenario /\ sc'.onion = sc.onion /\ sc'.msat = sc.msat
    BY DEF Restart, SetInv, SetTypeOK, Scenario
  <1>2. SetTypeOK'
    BY <1>1 DEF SetInv, SetTypeOK, NoSet, htlcs_resubmit, SetRecords
  <1>3. With("fulfilled")' = With("fulfilled") /\ With("ready")' = With("ready")
    BY <1>1 DEF With
  <1>4. ReleasedInFull'
    BY <1>1, <1>3, ReleasedStays
  <1>5. SumOf(set.parts)' = 0
    <2>1. set'.parts = {}
      BY <1>1 DEF NoSet
    <2>2. SumOf(set.parts)' = SumOf({})
      BY <1>1, <2>1, SumsStay
    <2>3. QED
      BY <2>2, SumOfIsSum, SumEmpty
  <1>6. SetCounts'
    BY <1>1, <1>5 DEF SetCounts, NoSet
  <1>7. NoPartForgotten'
    BY <1>1, <1>3 DEF NoPartForgotten, NoSet, With, htlcs_resubmit
  <1>8. QED
    BY <1>2, <1>4, <1>6, <1>7 DEF SetInv

(* htlc_set_add_(): the part joins the set, which starts with its timer and *)
(* loses it when it is complete and the plugins are asked.                  *)
LEMMA AddOK ==
    ASSUME SetInv, NEW p \in Parts, htlc_set_add(p)
    PROVE  SetInv'
  <1> DEFINE s == with_part(p)
             o == sc.onion[p]
  <1>1. o \in Onions /\ sc.msat \in Nat /\ MaxMsat \in Nat
    BY HtlcSetAssumption DEF SetInv, SetTypeOK, Scenario
  <1>2. /\ p \in waiting /\ waiting' = waiting \ {p} /\ UNCHANGED <<sc, invoice, hin>>
        /\ part_fits(o) /\ o.total = s.total
    BY DEF htlc_set_add
  <1>3. p \notin set.parts
    BY <1>2 DEF SetInv, SetCounts
  <1>4. /\ s.parts = set.parts \cup {p}
        /\ s.so_far = SumOf(set.parts \cup {p})
    <2>1. SumOf(set.parts) \in Nat /\ SumOf(set.parts \cup {p}) = SumOf(set.parts) + o.msat
      BY <1>3, SumOfAdd DEF SetInv, SetTypeOK, SetRecords
    <2>2. CASE set.parts = {}
      <3>1. SumOf(set.parts) = 0
        BY <2>2, SumOfIsSum, SumEmpty
      <3>2. QED
        BY <1>1, <2>1, <2>2, <3>1 DEF with_part, Onions
    <2>3. CASE set.parts # {}
      BY <2>1, <2>3 DEF with_part, SetInv, SetTypeOK, SetCounts
    <2>4. QED
      BY <2>2, <2>3
  <1>5. /\ s \in SetRecords
        /\ s.total >= sc.msat
        /\ \A q \in s.parts : sc.onion[q].total = s.total /\ sc.onion[q].asset = s.asset
    <2>1. CASE set.parts = {}
      BY <1>1, <1>2, <2>1 DEF with_part, Onions, part_fits, invoice_check_payment, SetRecords
    <2>2. CASE set.parts # {}
      <3>1. s = [set EXCEPT !.parts = @ \cup {p}, !.so_far = @ + o.msat]
        BY <2>2 DEF with_part
      <3>2. o.msat \in Nat
        BY <1>1 DEF Onions
      <3> HIDE DEF s, o
      <3>3. s = [parts |-> set.parts \cup {p}, so_far |-> set.so_far + o.msat,
                 total |-> set.total, asset |-> set.asset, timer |-> set.timer]
        BY <3>1 DEF SetInv, SetTypeOK, SetRecords
      <3>4. s \in SetRecords
        BY <3>2, <3>3 DEF SetInv, SetTypeOK, SetRecords
      <3>5. o.asset = set.asset /\ set.total >= sc.msat
        BY <1>2, <2>2 DEF part_fits, SetInv, SetCounts
      <3>6. QED
        BY <1>2, <3>3, <3>4, <3>5 DEF SetInv, SetCounts, o
    <2>3. QED
      BY <2>1, <2>2
  <1>6. s.timer <=> ~\E h \in hooks : h.on
    BY DEF with_part, SetInv, SetTypeOK, SetCounts, NoPartForgotten
  <1> HIDE DEF s, o
  <1>7. /\ set' \in SetRecords
        /\ set'.parts = s.parts /\ set'.so_far = s.so_far
        /\ set'.total = s.total /\ set'.asset = s.asset
        /\ ~set'.timer => set_complete(set')
        /\ set'.timer <=> ~\E h \in hooks' : h.on
        /\ hooks' \subseteq HookCalls
    <2>1. CASE set_complete(s)
      <3>1. /\ set' = [s EXCEPT !.timer = FALSE]
            /\ hooks' = hooks \cup {[by |-> p, on |-> TRUE]}
        BY <2>1 DEF htlc_set_add, s
      <3>2. [by |-> p, on |-> TRUE] \in HookCalls
        BY DEF HookCalls
      <3>3. hooks' \subseteq HookCalls
        BY <3>1, <3>2 DEF SetInv, SetTypeOK
      <3>4. \E h \in hooks' : h.on
        <4>1. [by |-> p, on |-> TRUE].on
          OBVIOUS
        <4>2. QED
          BY <3>1, <4>1
      <3>5. QED
        BY <1>5, <2>1, <3>1, <3>3, <3>4 DEF set_complete, SetRecords
    <2>2. CASE ~set_complete(s)
      <3>1. set' = s /\ hooks' = hooks
        BY <2>2 DEF htlc_set_add, s
      <3>2. s.timer
        <4>1. CASE set.parts = {}
          BY <4>1 DEF s, with_part
        <4>2. CASE set.parts # {}
          <5>1. s.timer = set.timer /\ s.total = set.total /\ s.so_far = set.so_far + o.msat
            BY <4>2 DEF s, o, with_part, SetInv, SetTypeOK, SetRecords
          <5>2. s.timer \/ set_complete(set)
            BY <4>2, <5>1 DEF SetInv, SetCounts
          <5>3. o.msat \in Nat /\ set.so_far \in Nat /\ set.total \in Nat
            BY <1>1 DEF Onions, SetInv, SetTypeOK, SetRecords
          <5>4. QED
            BY <2>2, <5>1, <5>2, <5>3 DEF set_complete
        <4>3. QED
          BY <4>1, <4>2
      <3>3. QED
        BY <1>5, <1>6, <3>1, <3>2 DEF SetInv, SetTypeOK
    <2>3. QED
      BY <2>1, <2>2
  <1>8. SetTypeOK'
    BY <1>2, <1>7 DEF SetInv, SetTypeOK
  <1>9. SumOf(set.parts)' = set'.so_far
    <2>1. SumOf(set.parts)' = SumOf(set.parts \cup {p})
      BY <1>2, <1>4, <1>7, SumsStay
    <2>2. QED
      BY <1>4, <1>7, <2>1
  <1>10. SetCounts'
    <2>1. waiting' \cap set'.parts = {} /\ set'.parts # {}
      BY <1>2, <1>4, <1>7 DEF SetInv, SetCounts
    <2>2. QED
      BY <1>2, <1>5, <1>7, <1>9, <2>1 DEF SetCounts
  <1>11. NoPartForgotten'
    <2>1. With("ready")' = waiting' \cup set'.parts
      BY <1>2, <1>4, <1>7 DEF SetInv, NoPartForgotten, With
    <2>2. QED
      BY <1>7, <2>1 DEF NoPartForgotten
  <1>12. ReleasedInFull'
    <2>1. With("fulfilled")' = With("fulfilled")
      BY <1>2 DEF With
    <2>2. QED
      BY <1>2, <2>1, ReleasedStays DEF SetInv, SetTypeOK
  <1>13. QED
    BY <1>8, <1>10, <1>11, <1>12 DEF SetInv

(* Every step keeps the invariant. *)
LEMMA SetStepOK ==
    ASSUME SetInv, [SetNext]_set_vars
    PROVE  SetInv'
  <1>1. CASE SetNext
    BY <1>1, SinglePartOK, AddFailsOK, AddOK, HtlcTimesOutOK, TimeoutOK,
       HookAnswersOK, InvoiceStepOK, RestartOK DEF SetNext, LocalPay
  <1>2. CASE UNCHANGED set_vars
    <2>1. UNCHANGED <<sc, invoice, hin, waiting, set, hooks>>
      BY <1>2 DEF set_vars
    <2>2. With("fulfilled")' = With("fulfilled") /\ With("ready")' = With("ready")
      BY <2>1 DEF With
    <2>3. SetTypeOK' /\ NoPartForgotten'
      BY <2>1, <2>2 DEF SetInv, SetTypeOK, NoPartForgotten
    <2>4. SumOf(set.parts)' = SumOf(set.parts)
      BY <2>1, SumsStay
    <2>5. SetCounts'
      BY <2>1, <2>4 DEF SetInv, SetCounts, set_complete
    <2>6. ReleasedInFull'
      BY <2>1, <2>2, ReleasedStays DEF SetInv, SetTypeOK
    <2>7. QED
      BY <2>3, <2>5, <2>6 DEF SetInv
  <1>3. QED
    BY <1>1, <1>2

(* The invariant holds in every state. *)
LEMMA SetInvHolds == SetSpec => []SetInv
  <1>1. SetInv /\ [SetNext]_set_vars => SetInv'
    BY SetStepOK
  <1>2. QED
    BY <1>1, SetInitOK, PTL DEF SetSpec

(* A preimage is released only against the whole amount of the invoice, in  *)
(* one asset, and the invoice is then marked paid.                          *)
THEOREM SetPaidInFull == SetSpec => []PaidInFull
  <1>1. SetInv => PaidInFull
    <2>1. SUFFICES ASSUME SetInv PROVE PaidInFull
      OBVIOUS
    <2>2. ASSUME With("fulfilled") # {}
          PROVE  Cardinality({sc.onion[p].asset : p \in With("fulfilled")}) = 1
      <3>1. PICK a \in Assets : \A p \in With("fulfilled") : sc.onion[p].asset = a
        BY <2>1, <2>2 DEF SetInv, ReleasedInFull
      <3>2. {sc.onion[p].asset : p \in With("fulfilled")} = {a}
        BY <2>2, <3>1
      <3>3. QED
        BY <3>2, FS_Singleton
    <2>3. QED
      BY <2>1, <2>2 DEF SetInv, SetCounts, ReleasedInFull, PaidInFull
  <1>2. QED
    BY <1>1, SetInvHolds, PTL

(* No part of a payment is held with nobody left to settle it. *)
THEOREM NobodyForgotten == SetSpec => []NoPartForgotten
  <1>1. SetInv => NoPartForgotten
    BY DEF SetInv
  <1>2. QED
    BY <1>1, SetInvHolds, PTL

(* Only invoice_payment_hooks_done() releases preimages, and only while the *)
(* invoice is unpaid; a part that was released stays so.                    *)
LEMMA PaidOnceStep ==
    ASSUME SetInv, SetNext, invoice # "unpaid"
    PROVE  With("fulfilled")' = With("fulfilled")
  <1> USE DEF With, Settle, htlc_set_fail
  <1>1. hin \in [Parts -> HtlcStates]
    BY DEF SetInv, SetTypeOK
  <1>2. \A q \in set.parts : q \in Parts /\ hin[q] = "ready"
    BY DEF SetInv, NoPartForgotten
  <1>3. ASSUME NEW p \in Parts, peer_accepted_htlc(p) \/ LocalPay(p)
        PROVE  With("fulfilled")' = With("fulfilled")
    BY <1>1, <1>3 DEF peer_accepted_htlc, LocalPay, handle_localpay_fails,
                      htlc_set_add_refused, htlc_set_add_fails, htlc_set_add
  <1>4. ASSUME NEW p \in Parts, HtlcTimesOut(p)
        PROVE  With("fulfilled")' = With("fulfilled")
    BY <1>1, <1>2, <1>4 DEF HtlcTimesOut, htlc_set_inpay_destroyed
  <1>5. ASSUME HookAnswers
        PROVE  With("fulfilled")' = With("fulfilled")
    BY <1>1, <1>5 DEF HookAnswers, invoice_payment_hooks_done,
                      invoices_resolve, invoice_payment_refused
  <1>6. CASE \/ timeout_htlc_set \/ trigger_expiration \/ json_delinvoice
             \/ invoice_check_onchain_payment \/ Restart
    BY <1>1, <1>6 DEF timeout_htlc_set, trigger_expiration, json_delinvoice,
                      invoice_check_onchain_payment, Restart
  <1>7. QED
    BY <1>3, <1>4, <1>5, <1>6 DEF SetNext

(* However parts, plugins, expiry and restarts interleave, no further part  *)
(* is fulfilled once the invoice is not unpaid.                             *)
THEOREM InvoicePaidOnce == SetSpec => PaidOnce
  <1> DEFINE Same == invoice # "unpaid" =>
               {p \in Parts : hin'[p] = "fulfilled"} = With("fulfilled")
  <1>1. SetInv /\ [SetNext]_set_vars => [Same]_set_vars
    BY PaidOnceStep DEF With
  <1>2. QED
    BY <1>1, SetInvHolds, PTL DEF SetSpec, PaidOnce
=============================================================================
