--------------------------- MODULE ClosingProofs ----------------------------
(* Two closingds agree on one fee and lightningd keeps the transaction that *)
(* pays it, for any fees, steps and minima, however often the negotiation   *)
(* is cut off, timed out and done again.  Then Forward: the HTLCs that      *)
(* lightningd passes on.                                                    *)
EXTENDS Closing, Forward, TLAPS

Pcs == {"off", "starting", "first", "quick", "rounds", "done", "over"}
Ranges == [min : Int, max : Int]
Feeranges == [min : Int, max : Int, higher : Nodes]
Daemons == [pc : Pcs, quick : BOOLEAN, bounds : Ranges, ours : Int,
            theirs : Int, feerange : Feeranges]
Offer == [fee : Int, range : Ranges]
Kept == [kind : {"commitment", "close"}, fee : Int]

ClosingTypeOK ==
    /\ plan \in PlanRecords
    /\ d \in [Nodes -> Daemons]
    /\ wire \in [Nodes -> Seq(Offer)]
    /\ last_tx \in [Nodes -> Kept]
    /\ connected \in BOOLEAN

(* closingd runs; it has made no offer in this session; it waits for the    *)
(* answer to one.                                                           *)
Running(n) == d[n].pc \notin {"off", "starting"}
NotYet(n) == d[n].pc = "starting" \/ (n = Accepter /\ d[n].pc = "first")
Waiting(n) == d[n].pc \in {"quick", "rounds"}

(* The offer is passed to and fro: at most one is under way, and it is the  *)
(* last one its sender made.  Without a connection nobody negotiates.       *)
OneOffer ==
    /\ \A n \in Nodes : Len(wire[n]) <= 1
    /\ wire[Opener] = <<>> \/ wire[Accepter] = <<>>
    /\ ~connected => \A n \in Nodes : wire[n] = <<>> /\ (d[n].pc = "off" \/ Ended(n))
LastOffer(n) ==
    wire[Peer(n)] # <<>> /\ d[n].pc # "off" =>
        /\ ~NotYet(n)
        /\ Head(wire[Peer(n)]) = closing_signed(d[n])
        /\ (Waiting(n) \/ Ended(n)) /\ d[Peer(n)].pc # "off" => d[n].theirs = d[Peer(n)].ours
        /\ n = Opener /\ d[n].pc = "first" => d[Accepter].pc = "off" \/ NotYet(Accepter)

(* Nobody is done before both have made an offer, and the opener is first. *)
InTurn ==
    /\ \A n \in Nodes : NotYet(n) => /\ wire[Peer(n)] = <<>>
                                     /\ ~Ended(Peer(n)) /\ ~Waiting(Peer(n))
    /\ d[Opener].pc = "starting" =>
         wire[Opener] = <<>> /\ (d[Accepter].pc = "off" \/ NotYet(Accepter))

(* Who waits has not agreed; who is done has, with nothing left to read,    *)
(* and its peer has too once it has read what it was sent.                  *)
DoneIsAgreed(n) ==
    /\ Waiting(n) => d[n].ours # d[n].theirs
    /\ Ended(n) => /\ d[n].ours = d[n].theirs
                   /\ wire[n] = <<>>
                   /\ wire[Peer(n)] = <<>> /\ d[Peer(n)].pc # "off" =>
                        Ended(Peer(n)) /\ d[Peer(n)].ours = d[n].ours

(* With ranges on both sides every offer is within the range of its sender. *)
AllQuick == \A n \in Nodes : use_quickclose(n)
InRange(n) ==
    /\ Running(n) => /\ d[n].bounds.min <= d[n].bounds.max
                     /\ d[n].quick = use_quickclose(n)
    /\ AllQuick /\ Running(n) => /\ d[n].pc # "rounds"
                                 /\ amount_in_range(d[n].ours, d[n].bounds)
    /\ AllQuick /\ wire[n] # <<>> => Head(wire[n]).range # NoRange

ClosingInv ==
    /\ ClosingTypeOK
    /\ OneOffer
    /\ InTurn
    /\ \A n \in Nodes : LastOffer(n) /\ DoneIsAgreed(n) /\ InRange(n)
    /\ AgreedIsKept

-----------------------------------------------------------------------------
(* The two nodes. *)
LEMMA PeerFacts ==
    /\ Opener \in Nodes /\ Accepter \in Nodes /\ Opener # Accepter
    /\ Peer(Opener) = Accepter /\ Peer(Accepter) = Opener
    /\ \A n \in Nodes : /\ Peer(n) \in Nodes /\ Peer(n) # n /\ Peer(Peer(n)) = n
                        /\ \A m \in Nodes : m = n \/ m = Peer(n)
                        /\ n = Opener \/ n = Accepter
  BY ClosingAssumption DEF Nodes, Peer

(* The larger of two ... *)
LEMMA MaxOfTwo ==
    ASSUME NEW a \in Int, NEW b \in Int
    PROVE  /\ Max({a, b}) \in Int /\ Max({a, b}) >= a /\ Max({a, b}) >= b
           /\ Max({a, b}) = a \/ Max({a, b}) = b
  <1>1. \E v \in {a, b} : \A w \in {a, b} : v >= w
    OBVIOUS
  <1>2. Max({a, b}) \in {a, b} /\ \A w \in {a, b} : Max({a, b}) >= w
    BY <1>1 DEF Max
  <1>3. QED
    BY <1>2

(* ... and the smaller. *)
LEMMA MinOfTwo ==
    ASSUME NEW a \in Int, NEW b \in Int
    PROVE  /\ Min({a, b}) \in Int /\ Min({a, b}) <= a /\ Min({a, b}) <= b
           /\ Min({a, b}) = a \/ Min({a, b}) = b
  <1>1. \E v \in {a, b} : \A w \in {a, b} : v <= w
    OBVIOUS
  <1>2. Min({a, b}) \in {a, b} /\ \A w \in {a, b} : Min({a, b}) <= w
    BY <1>1 DEF Min
  <1>3. QED
    BY <1>2

(* A closingd that is not there. *)
LEMMA OffFacts ==
    /\ Off \in Daemons /\ Off.pc = "off"
    /\ Starting \in Daemons /\ Starting.pc = "starting"
  <1>1. NoRange \in Ranges
    BY DEF NoRange, Ranges
  <1>2. [min |-> 0, max |-> 0, higher |-> Opener] \in Feeranges
    BY PeerFacts DEF Feeranges
  <1>3. Off \in Daemons /\ Off.pc = "off"
    BY <1>1, <1>2 DEF Off, Daemons, Pcs
  <1>4. Starting = [Off EXCEPT !.pc = "starting"]
    BY DEF Starting
  <1>5. Starting \in Daemons /\ Starting.pc = "starting"
    BY <1>3, <1>4 DEF Daemons, Pcs
  <1>6. QED
    BY <1>3, <1>5

(* The negotiation has not begun. *)
LEMMA ClosingInitOK == Init => ClosingInv
  <1>1. SUFFICES ASSUME Init PROVE ClosingInv
    OBVIOUS
  <1>2. \A n \in Nodes : d[n].pc = "starting" /\ wire[n] = <<>> /\ Peer(n) \in Nodes
    BY <1>1, OffFacts, PeerFacts DEF Init
  <1>3. ClosingTypeOK
    BY <1>1, OffFacts, ClosingAssumption DEF Init, ClosingTypeOK, Kept, Commitment
  <1>4. OneOffer /\ InTurn
    BY <1>1, <1>2, PeerFacts DEF Init, OneOffer, InTurn, NotYet, Waiting, Ended
  <1>5. \A n \in Nodes : LastOffer(n) /\ DoneIsAgreed(n) /\ InRange(n)
    BY <1>2 DEF LastOffer, DoneIsAgreed, InRange, Running, Waiting, Ended
  <1>6. AgreedIsKept
    BY <1>2 DEF AgreedIsKept, Ended
  <1>7. QED
    BY <1>3, <1>4, <1>5, <1>6 DEF ClosingInv

(* A step of no concern to the negotiation. *)
LEMMA ClosingUnchanged ==
    ASSUME ClosingInv, UNCHANGED <<plan, d, wire, last_tx, connected>>
    PROVE  ClosingInv'
  BY DEF ClosingInv, ClosingTypeOK, OneOffer, InTurn, LastOffer, DoneIsAgreed, InRange,
         AgreedIsKept, NotYet, Waiting, Ended, Running, AllQuick, use_quickclose

(* The connection goes: what is agreed stays so. *)
LEMMA HungUpOK ==
    ASSUME ClosingInv, connected' = FALSE, wire' = [n \in Nodes |-> <<>>],
           d' \in [Nodes -> Daemons], last_tx' \in [Nodes -> Kept],
           \A n \in Nodes : \/ d'[n] = Off
                            \/ Ended(n) /\ d'[n] = d[n] /\ last_tx'[n] = last_tx[n],
           plan' \in PlanRecords, plan'.step = plan.step, plan'.floor = plan.floor
    PROVE  ClosingInv'
  <1>1. \A n \in Nodes : wire'[n] = <<>> /\ Peer(n) \in Nodes
    BY PeerFacts
  <1>2. ClosingTypeOK'
    <2>1. <<>> \in Seq(Offer)
      OBVIOUS
    <2>2. wire' \in [Nodes -> Seq(Offer)]
      BY <2>1
    <2>3. QED
      BY <2>2 DEF ClosingTypeOK
  <1>3. \A n \in Nodes : d'[n].pc \in {"off", "done", "over"}
    BY OffFacts DEF Ended
  <1>4. OneOffer' /\ InTurn'
    BY <1>1, <1>3, PeerFacts DEF OneOffer, InTurn, NotYet, Ended
  <1>5. ASSUME NEW n \in Nodes PROVE LastOffer(n)' /\ DoneIsAgreed(n)' /\ InRange(n)'
    <2>1. LastOffer(n)'
      BY <1>1 DEF LastOffer
    <2>2. CASE d'[n] = Off
      BY <1>1, <2>1, <2>2, OffFacts DEF DoneIsAgreed, InRange, Waiting, Ended, Running
    <2>3. CASE Ended(n) /\ d'[n] = d[n]
      <3>1. /\ wire[n] = <<>> /\ d[n].ours = d[n].theirs
            /\ wire[Peer(n)] = <<>> /\ d[Peer(n)].pc # "off" =>
                        Ended(Peer(n)) /\ d[Peer(n)].ours = d[n].ours
        BY <2>3 DEF ClosingInv, DoneIsAgreed
      <3>2. d'[Peer(n)].pc = "off" \/ (Ended(Peer(n)) /\ d'[Peer(n)] = d[Peer(n)])
        BY <1>1, OffFacts
      <3>3. Ended(Peer(n)) => wire[Peer(n)] = <<>> /\ d[Peer(n)].pc # "off"
        BY <1>1 DEF ClosingInv, DoneIsAgreed, Ended
      <3>4. DoneIsAgreed(n)'
        BY <1>1, <2>3, <3>1, <3>2, <3>3 DEF DoneIsAgreed, Waiting, Ended
      <3>5. InRange(n)'
        BY <1>1, <2>3 DEF ClosingInv, InRange, AllQuick, use_quickclose, Running, Ended
      <3>6. QED
        BY <2>1, <3>4, <3>5
    <2>4. QED
      BY <2>2, <2>3
  <1>6. AgreedIsKept'
    <2>1. ASSUME NEW n \in Nodes, Ended(n)', d'[n].ours >= Max({d'[n].bounds.min, plan'.floor[n]})
          PROVE  last_tx'[n] = Close(d'[n].ours)
      <3>1. Ended(n) /\ d'[n] = d[n] /\ last_tx'[n] = last_tx[n]
        BY <2>1, OffFacts DEF Ended
      <3>2. QED
        BY <2>1, <3>1 DEF ClosingInv, AgreedIsKept
    <2>2. QED
      BY <2>1 DEF AgreedIsKept
  <1>7. QED
    BY <1>2, <1>4, <1>5, <1>6 DEF ClosingInv

(* lightningd gives up on its closingd; the peer does not know yet. *)
LEMMA NodeOffOK ==
    ASSUME ClosingInv, NEW n \in Nodes, d' = [d EXCEPT ![n] = Off],
           UNCHANGED <<plan, last_tx, connected, wire>>
    PROVE  ClosingInv'
  <1>1. ClosingTypeOK'
    BY OffFacts DEF ClosingInv, ClosingTypeOK
  <1>2. d'[n] = Off /\ d'[n].pc = "off" /\ \A m \in Nodes : m # n => d'[m] = d[m]
    BY OffFacts DEF ClosingInv, ClosingTypeOK
  <1>3. OneOffer'
    BY <1>2 DEF ClosingInv, OneOffer, Ended
  <1>4. InTurn'
    BY <1>2, PeerFacts DEF ClosingInv, InTurn, NotYet, Ended, Waiting
  <1>5. ASSUME NEW m \in Nodes PROVE LastOffer(m)' /\ DoneIsAgreed(m)' /\ InRange(m)'
    <2>1. CASE m = n
      BY <1>2, <2>1 DEF ClosingInv, LastOffer, DoneIsAgreed, InRange, Running, Waiting, Ended,
                        AllQuick, use_quickclose
    <2>2. CASE m # n
      <3>1. d'[m] = d[m] /\ Peer(m) = n /\ m = Peer(n)
        BY <1>2, <2>2, PeerFacts
      <3>2. LastOffer(m)'
        <4>1. d'[Accepter] = d[Accepter] \/ d'[Accepter].pc = "off"
          BY <1>2, PeerFacts
        <4>2. QED
          BY <1>2, <3>1, <4>1 DEF ClosingInv, LastOffer, NotYet, Waiting, Ended
      <3>3. DoneIsAgreed(m)' /\ InRange(m)'
        BY <1>2, <3>1 DEF ClosingInv, DoneIsAgreed, InRange, Running, Waiting, Ended,
                          AllQuick, use_quickclose
      <3>4. QED
        BY <3>2, <3>3
    <2>3. QED
      BY <2>1, <2>2
  <1>6. AgreedIsKept'
    BY <1>2 DEF ClosingInv, AgreedIsKept, Ended
  <1>7. QED
    BY <1>1, <1>3, <1>4, <1>5, <1>6 DEF ClosingInv

(* lightningd has read that closingd is done. *)
LEMMA CompleteOK ==
    ASSUME ClosingInv, NEW n \in Nodes, d[n].pc = "done", d' = [d EXCEPT ![n].pc = "over"],
           UNCHANGED <<plan, last_tx, connected, wire>>
    PROVE  ClosingInv'
  <1>1. d[n] \in Daemons /\ d \in [Nodes -> Daemons]
    BY DEF ClosingInv, ClosingTypeOK
  <1>2. /\ d'[n] \in Daemons /\ d'[n].pc = "over" /\ d'[n].ours = d[n].ours /\ d'[n].theirs = d[n].theirs
        /\ d'[n].bounds = d[n].bounds /\ d'[n].quick = d[n].quick
        /\ \A m \in Nodes : m # n => d'[m] = d[m]
    BY <1>1 DEF Daemons, Pcs
  <1>3. ClosingTypeOK'
    BY <1>1, <1>2 DEF ClosingInv, ClosingTypeOK
  <1>4. OneOffer'
    BY <1>2 DEF ClosingInv, OneOffer, Ended
  <1>5. \A m \in Nodes : /\ NotYet(m)' <=> NotYet(m)
                         /\ Ended(m)' <=> Ended(m)
                         /\ Waiting(m)' <=> Waiting(m)
                         /\ Running(m)' <=> Running(m)
                         /\ d'[m].pc = "off" <=> d[m].pc = "off"
                         /\ d'[m].pc = "starting" <=> d[m].pc = "starting"
                         /\ d'[m].pc = "first" <=> d[m].pc = "first"
                         /\ d'[m].pc = "rounds" <=> d[m].pc = "rounds"
                         /\ d'[m].ours = d[m].ours /\ d'[m].theirs = d[m].theirs
                         /\ d'[m].bounds = d[m].bounds /\ d'[m].quick = d[m].quick
                         /\ closing_signed(d'[m]) = closing_signed(d[m])
    BY <1>2 DEF NotYet, Ended, Waiting, Running, closing_signed
  <1>6. InTurn'
    BY <1>5, PeerFacts DEF ClosingInv, InTurn
  <1>7. ASSUME NEW m \in Nodes PROVE LastOffer(m)' /\ DoneIsAgreed(m)' /\ InRange(m)'
    BY <1>5, PeerFacts DEF ClosingInv, LastOffer, DoneIsAgreed, InRange, AllQuick, use_quickclose
  <1>8. AgreedIsKept'
    BY <1>5 DEF ClosingInv, AgreedIsKept
  <1>9. QED
    BY <1>3, <1>4, <1>6, <1>7, <1>8 DEF ClosingInv

(* A new connection: both closingds are started. *)
LEMMA NewSessionOK ==
    ASSUME ClosingInv, ~connected, connected' = TRUE, d' = [n \in Nodes |-> Starting],
           UNCHANGED <<plan, last_tx, wire>>
    PROVE  ClosingInv'
  <1>1. \A n \in Nodes : d'[n].pc = "starting" /\ wire'[n] = <<>> /\ Peer(n) \in Nodes
    BY OffFacts, PeerFacts DEF ClosingInv, OneOffer
  <1>2. ClosingTypeOK'
    BY OffFacts DEF ClosingInv, ClosingTypeOK
  <1>3. OneOffer' /\ InTurn'
    BY <1>1, PeerFacts DEF ClosingInv, OneOffer, InTurn, NotYet, Waiting, Ended
  <1>4. \A n \in Nodes : LastOffer(n)' /\ DoneIsAgreed(n)' /\ InRange(n)'
    BY <1>1 DEF LastOffer, DoneIsAgreed, InRange, Running, Waiting, Ended
  <1>5. AgreedIsKept'
    BY <1>1 DEF AgreedIsKept, Ended
  <1>6. QED
    BY <1>2, <1>3, <1>4, <1>5 DEF ClosingInv

-----------------------------------------------------------------------------
(* The one offer that is read. *)
LEMMA OfferFacts ==
    ASSUME ClosingInv, NEW n \in Nodes, wire[n] # <<>>
    PROVE  /\ Head(wire[n]) \in Offer /\ Head(wire[n]).fee \in Int /\ Head(wire[n]).range \in Ranges
           /\ Tail(wire[n]) = <<>>
           /\ wire[Peer(n)] = <<>>
  <1>1. wire[n] \in Seq(Offer) /\ Len(wire[n]) <= 1
    BY DEF ClosingInv, ClosingTypeOK, OneOffer
  <1>2. Head(wire[n]) \in Offer /\ Tail(wire[n]) = <<>>
    BY <1>1
  <1>3. Head(wire[n]).fee \in Int /\ Head(wire[n]).range \in Ranges
    BY <1>2 DEF Offer
  <1>4. wire[Peer(n)] = <<>>
    BY PeerFacts DEF ClosingInv, OneOffer
  <1>5. QED
    BY <1>2, <1>3, <1>4

(* What closing_signed() says. *)
LEMMA SignedFacts ==
    ASSUME NEW e \in Daemons
    PROVE  /\ closing_signed(e) \in Offer /\ closing_signed(e).fee = e.ours
           /\ e.quick => closing_signed(e).range = e.bounds
           /\ e.ours \in Int /\ e.bounds.min \in Int /\ e.bounds.max \in Int
           /\ e.pc \in Pcs /\ e.bounds \in Ranges
  <1>1. NoRange \in Ranges
    BY DEF NoRange, Ranges
  <1>2. QED
    BY <1>1 DEF closing_signed, Daemons, Offer, Ranges

(* lightningd keeps what closingd agrees to. *)
LEMMA KeptOK ==
    ASSUME ClosingInv, NEW n \in Nodes, NEW e \in Daemons, e.theirs \in Int,
           d' = [d EXCEPT ![n] = e], e.bounds = d[n].bounds,
           e.pc \in {"done", "over"} => e.ours = e.theirs,
           last_tx' = Saved(n, e.theirs), plan' = plan
    PROVE  AgreedIsKept' /\ last_tx' \in [Nodes -> Kept]
  <1>1. /\ d[n] \in Daemons /\ last_tx \in [Nodes -> Kept] /\ d \in [Nodes -> Daemons]
        /\ plan.floor[n] \in Int
    BY DEF ClosingInv, ClosingTypeOK, PlanRecords
  <1>2. Close(e.theirs) \in Kept
    BY DEF Close, Kept
  <1>3. /\ last_tx' \in [Nodes -> Kept]
        /\ \A m \in Nodes : m # n => last_tx'[m] = last_tx[m] /\ d'[m] = d[m]
        /\ d'[n] = e
        /\ e.theirs >= d[n].bounds.min /\ e.theirs >= plan.floor[n] => last_tx'[n] = Close(e.theirs)
    BY <1>1, <1>2 DEF Saved, closing_fee_is_acceptable
  <1>4. ASSUME NEW m \in Nodes, Ended(m)', d'[m].ours >= Max({d'[m].bounds.min, plan.floor[m]})
        PROVE  last_tx'[m] = Close(d'[m].ours)
    <2>1. CASE m # n
      BY <1>3, <1>4, <2>1 DEF ClosingInv, AgreedIsKept, Ended
    <2>2. CASE m = n
      <3>1. e.ours = e.theirs /\ e.ours \in Int
        BY <1>3, <1>4, <2>2, SignedFacts DEF Ended
      <3>2. d[n].bounds.min \in Int
        BY <1>1, SignedFacts
      <3>3. /\ Max({d[n].bounds.min, plan.floor[n]}) \in Int
            /\ Max({d[n].bounds.min, plan.floor[n]}) >= d[n].bounds.min
            /\ Max({d[n].bounds.min, plan.floor[n]}) >= plan.floor[n]
        BY <1>1, <3>2, MaxOfTwo
      <3>4. e.ours >= Max({d[n].bounds.min, plan.floor[n]})
        BY <1>3, <1>4, <2>2
      <3>5. e.theirs >= d[n].bounds.min /\ e.theirs >= plan.floor[n]
        BY <1>1, <3>1, <3>2, <3>3, <3>4
      <3>6. QED
        BY <1>3, <2>2, <3>1, <3>5
    <2>3. QED
      BY <2>1, <2>2
  <1>5. QED
    BY <1>3, <1>4 DEF AgreedIsKept

(* closingd's state once it has read an offer and goes on. *)
Told(n, e) ==
    /\ e \in Daemons
    /\ e.pc \in {"quick", "rounds", "done"}
    /\ e.pc = "done" <=> e.ours = e.theirs
    /\ e.theirs = Head(wire[n]).fee
    /\ e.bounds = d[n].bounds /\ e.quick = d[n].quick
    /\ AllQuick => e.pc # "rounds" /\ amount_in_range(e.ours, e.bounds)

(* It agrees and says nothing: the peer has ended its loop on this fee. *)
LEMMA SilentOK ==
    ASSUME ClosingInv, NEW n \in Nodes, wire[n] # <<>>, Running(n), ~Ended(n), ~NotYet(n),
           NEW e, Told(n, e), e.pc = "done", e.ours = d[n].ours,
           say_nothing(n, e, Tail(wire[n])),
           last_tx' = Saved(n, e.theirs), plan' = plan
    PROVE  ClosingInv'
  <1> DEFINE p == Peer(n)
  <1>1. p \in Nodes /\ p # n /\ Peer(p) = n /\ \A m \in Nodes : m = n \/ m = p
    BY PeerFacts
  <1>2. /\ e \in Daemons /\ e.ours = e.theirs /\ e.theirs = Head(wire[n]).fee
        /\ e.bounds = d[n].bounds /\ e.quick = d[n].quick
    BY DEF Told
  <1>3. d' = [d EXCEPT ![n] = e] /\ wire' = [wire EXCEPT ![n] = <<>>] /\ connected' = connected
    BY OfferFacts DEF say_nothing
  <1>4. /\ d' \in [Nodes -> Daemons] /\ d'[n] = e /\ d'[p] = d[p] /\ d[n] \in Daemons /\ d[p] \in Daemons
        /\ wire'[n] = <<>> /\ wire'[p] = <<>>
        /\ wire' \in [Nodes -> Seq(Offer)]
    <2>1. wire[p] = <<>> /\ <<>> \in Seq(Offer)
      BY OfferFacts
    <2>2. QED
      BY <1>1, <1>2, <1>3, <2>1 DEF ClosingInv, ClosingTypeOK
  <1>5. AgreedIsKept' /\ last_tx' \in [Nodes -> Kept]
    <2>1. e.theirs \in Int
      BY <1>2, OfferFacts
    <2>2. QED
      BY <1>2, <1>3, <2>1, KeptOK
  <1>6. d[p].pc # "off" => Ended(p) /\ d[p].ours = e.ours
    <2>1. SUFFICES ASSUME d[p].pc # "off" PROVE Ended(p) /\ d[p].ours = e.ours
      OBVIOUS
    <2>2. /\ ~NotYet(p) /\ Head(wire[n]) = closing_signed(d[p])
          /\ Waiting(p) \/ Ended(p) => d[p].theirs = d[n].ours
          /\ p = Opener /\ d[p].pc = "first" => d[Accepter].pc = "off" \/ NotYet(Accepter)
      <3>1. LastOffer(p)
        BY <1>1 DEF ClosingInv
      <3>2. d[n].pc # "off"
        BY DEF Running
      <3>3. QED
        BY <1>1, <2>1, <3>1, <3>2 DEF LastOffer
    <2>3. d[p].ours = e.ours
      BY <1>2, <1>4, <2>2, SignedFacts
    <2>4. Waiting(p) \/ Ended(p)
      <3>1. d[p].pc \in Pcs /\ d[p].pc # "starting"
        BY <1>4, <2>2, SignedFacts DEF NotYet
      <3>2. d[p].pc # "first"
        <4>1. CASE p = Accepter
          BY <2>2, <4>1 DEF NotYet
        <4>2. CASE p = Opener
          <5>1. n = Accepter
            BY <1>1, <4>2, PeerFacts
          <5>2. QED
            BY <2>2, <4>2, <5>1 DEF Running
        <4>3. QED
          BY <1>1, <4>1, <4>2, PeerFacts
      <3>3. QED
        BY <2>1, <3>1, <3>2 DEF Pcs, Waiting, Ended
    <2>5. ~Waiting(p)
      BY <1>1, <2>2, <2>3 DEF ClosingInv, DoneIsAgreed
    <2>6. QED
      BY <2>3, <2>4, <2>5
  <1> HIDE DEF p
  <1>7. ClosingTypeOK'
    BY <1>3, <1>4, <1>5 DEF ClosingInv, ClosingTypeOK
  <1>8. \A m \in Nodes : wire'[m] = <<>> /\ ~NotYet(m)' /\ d'[m].pc # "starting" /\ Peer(m) \in Nodes
    BY <1>1, <1>4, <1>6, PeerFacts DEF NotYet, Ended
  <1>9. OneOffer' /\ InTurn'
    <2>1. connected
      BY DEF ClosingInv, OneOffer
    <2>2. QED
      BY <1>3, <1>8, <2>1, PeerFacts DEF OneOffer, InTurn
  <1>10. ASSUME NEW m \in Nodes PROVE LastOffer(m)' /\ DoneIsAgreed(m)' /\ InRange(m)'
    <2>1. LastOffer(m)'
      BY <1>8 DEF LastOffer
    <2>2. CASE m = n
      <3>1. DoneIsAgreed(m)'
        BY <1>1, <1>2, <1>4, <1>6, <2>2 DEF DoneIsAgreed, Waiting, Ended, p
      <3>2. InRange(m)'
        BY <1>2, <1>4, <2>2 DEF ClosingInv, InRange, Running, AllQuick, use_quickclose
      <3>3. QED
        BY <2>1, <3>1, <3>2
    <2>3. CASE m = p
      <3>1. DoneIsAgreed(m)'
        BY <1>1, <1>2, <1>4, <1>6, <2>3 DEF ClosingInv, DoneIsAgreed, Waiting, Ended
      <3>2. InRange(m)'
        BY <1>1, <1>4, <2>3 DEF ClosingInv, InRange, Running, AllQuick, use_quickclose
      <3>3. QED
        BY <2>1, <3>1, <3>2
    <2>4. QED
      BY <1>1, <2>2, <2>3
  <1>11. QED
    BY <1>5, <1>7, <1>9, <1>10 DEF ClosingInv

(* It answers: the peer has not ended its loop. *)
LEMMA ReplyOK ==
    ASSUME ClosingInv, NEW n \in Nodes, wire[n] # <<>>, Running(n), ~Ended(n),
           NotYet(n) \/ d[n].ours # Head(wire[n]).fee,
           NEW e, Told(n, e), send_offer(n, e, Tail(wire[n])),
           last_tx' = Saved(n, e.theirs), plan' = plan
    PROVE  ClosingInv'
  <1> DEFINE p == Peer(n)
             s == closing_signed(e)
  <1>1. p \in Nodes /\ p # n /\ Peer(p) = n /\ \A m \in Nodes : m = n \/ m = p
    BY PeerFacts
  <1>2. /\ e \in Daemons /\ e.theirs = Head(wire[n]).fee
        /\ e.pc \in {"quick", "rounds", "done"} /\ (e.pc = "done" <=> e.ours = e.theirs)
        /\ e.bounds = d[n].bounds /\ e.quick = d[n].quick
        /\ AllQuick => e.pc # "rounds" /\ amount_in_range(e.ours, e.bounds)
    BY DEF Told
  <1>3. s \in Offer /\ s.fee = e.ours /\ (e.quick => s.range = e.bounds)
    BY <1>2, SignedFacts
  <1> HIDE DEF s
  <1>4. /\ d' = [d EXCEPT ![n] = e] /\ connected' = connected
        /\ wire' = [wire EXCEPT ![n] = <<>>, ![p] = Append(@, s)]
    BY OfferFacts DEF send_offer, s
  <1>5. /\ d' \in [Nodes -> Daemons] /\ d'[n] = e /\ d'[p] = d[p] /\ d[n] \in Daemons /\ d[p] \in Daemons
        /\ wire'[n] = <<>> /\ wire'[p] = <<s>>
        /\ wire' \in [Nodes -> Seq(Offer)]
        /\ <<s>> # <<>> /\ Head(<<s>>) = s /\ Len(<<s>>) = 1
    <2>1. wire[p] = <<>> /\ <<>> \in Seq(Offer) /\ Append(<<>>, s) = <<s>> /\ <<s>> \in Seq(Offer)
      BY <1>3, OfferFacts
    <2>2. wire'[n] = <<>> /\ wire'[p] = <<s>> /\ wire' \in [Nodes -> Seq(Offer)]
      BY <1>1, <1>4, <2>1 DEF ClosingInv, ClosingTypeOK
    <2>3. QED
      BY <1>1, <1>2, <1>4, <2>2 DEF ClosingInv, ClosingTypeOK
  <1>6. AgreedIsKept' /\ last_tx' \in [Nodes -> Kept]
    <2>1. e.theirs \in Int
      BY <1>2, OfferFacts
    <2>2. QED
      BY <1>2, <1>4, <2>1, KeptOK
  <1>7. /\ ~NotYet(p) /\ ~Ended(p)
        /\ d[p].pc # "off" => d[p].ours = e.theirs
    <2>1. CASE d[p].pc = "off"
      BY <2>1 DEF NotYet, Ended
    <2>2. CASE d[p].pc # "off"
      <3>1. /\ ~NotYet(p) /\ Head(wire[n]) = closing_signed(d[p])
            /\ Waiting(p) \/ Ended(p) => d[p].theirs = d[n].ours
        <4>1. LastOffer(p) /\ d[n].pc # "off"
          BY <1>1 DEF ClosingInv, Running
        <4>2. QED
          BY <1>1, <2>2, <4>1 DEF LastOffer
      <3>2. d[p].ours = e.theirs
        BY <1>2, <1>5, <3>1, SignedFacts
      <3>3. ~Ended(p)
        <4>1. NotYet(n) => ~Ended(p)
          BY DEF ClosingInv, InTurn
        <4>2. Ended(p) => d[p].ours = d[p].theirs
          BY <1>1 DEF ClosingInv, DoneIsAgreed
        <4>3. QED
          BY <1>2, <3>1, <3>2, <4>1, <4>2
      <3>4. QED
        BY <3>1, <3>2, <3>3
    <2>3. QED
      BY <2>1, <2>2
  <1>8. ClosingTypeOK'
    BY <1>4, <1>5, <1>6 DEF ClosingInv, ClosingTypeOK
  <1> HIDE DEF p
  <1>9. OneOffer'
    <2>1. \A m \in Nodes : Len(wire'[m]) <= 1
      <3>1. Len(wire'[n]) <= 1 /\ Len(wire'[p]) <= 1
        BY <1>5
      <3>2. QED
        BY <1>1, <3>1, Zenon
    <2>2. wire'[Opener] = <<>> \/ wire'[Accepter] = <<>>
      BY <1>5, PeerFacts
    <2>3. connected
      BY DEF ClosingInv, OneOffer
    <2>4. QED
      BY <1>4, <2>1, <2>2, <2>3 DEF OneOffer
  <1>10. InTurn'
    <2>1. \A m \in Nodes : ~NotYet(m)' /\ d'[m].pc # "starting"
      BY <1>1, <1>2, <1>5, <1>7 DEF NotYet
    <2>2. QED
      BY <2>1, PeerFacts DEF InTurn
  <1>11. LastOffer(n)' /\ DoneIsAgreed(n)' /\ InRange(n)'
    <2>1. LastOffer(n)'
      BY <1>2, <1>5, <1>7 DEF LastOffer, NotYet, p, s
    <2>2. DoneIsAgreed(n)'
      BY <1>2, <1>5 DEF DoneIsAgreed, Waiting, Ended, p
    <2>3. InRange(n)'
      BY <1>2, <1>5 DEF ClosingInv, InRange, Running, AllQuick, use_quickclose
    <2>4. QED
      BY <2>1, <2>2, <2>3
  <1>12. LastOffer(p)' /\ DoneIsAgreed(p)' /\ InRange(p)'
    <2>1. LastOffer(p)'
      BY <1>1, <1>5 DEF LastOffer
    <2>2. DoneIsAgreed(p)'
      BY <1>1, <1>5, <1>7 DEF ClosingInv, DoneIsAgreed, Waiting, Ended
    <2>3. AllQuick => s.range # NoRange
      <3>1. d[n].bounds.min <= d[n].bounds.max /\ d[n].quick = use_quickclose(n)
        BY DEF ClosingInv, InRange
      <3>2. e.bounds # NoRange
        BY <1>2, <3>1 DEF NoRange
      <3>3. QED
        BY <1>2, <1>3, <3>1, <3>2 DEF AllQuick
    <2>4. InRange(p)'
      BY <1>1, <1>5, <2>3 DEF ClosingInv, InRange, Running, AllQuick, use_quickclose
    <2>5. QED
      BY <2>1, <2>2, <2>4
  <1>13. QED
    BY <1>1, <1>6, <1>8, <1>9, <1>10, <1>11, <1>12 DEF ClosingInv

(* closingd hangs up, with or without the offer it was sent being kept. *)
LEMMA WarnOK ==
    ASSUME ClosingInv, NEW n \in Nodes, ~Ended(n), NEW f \in Int, peer_failed_warn(n),
           last_tx' = last_tx \/ last_tx' = Saved(n, f), plan' = plan
    PROVE  ClosingInv'
  <1>1. d \in [Nodes -> Daemons] /\ last_tx \in [Nodes -> Kept] /\ plan \in PlanRecords
    BY DEF ClosingInv, ClosingTypeOK
  <1>2. /\ connected' = FALSE /\ wire' = [m \in Nodes |-> <<>>]
        /\ d' = [Disconnected EXCEPT ![n] = Off]
    BY DEF peer_failed_warn, Hangup
  <1>3. /\ d' \in [Nodes -> Daemons] /\ d'[n] = Off
        /\ \A m \in Nodes : m # n => d'[m] = Off \/ (Ended(m) /\ d'[m] = d[m])
    BY <1>1, <1>2, OffFacts DEF Disconnected, Ended
  <1>4. last_tx' \in [Nodes -> Kept] /\ \A m \in Nodes : m # n => last_tx'[m] = last_tx[m]
    <2>1. Close(f) \in Kept
      BY DEF Close, Kept
    <2>2. QED
      BY <1>1, <2>1 DEF Saved
  <1>5. \A m \in Nodes : \/ d'[m] = Off
                         \/ Ended(m) /\ d'[m] = d[m] /\ last_tx'[m] = last_tx[m]
    BY <1>3, <1>4
  <1>6. QED
    BY <1>1, <1>2, <1>3, <1>4, <1>5, HungUpOK

-----------------------------------------------------------------------------
(* The fee closingd starts from is within its bounds. *)
LEMMA BoundsFacts ==
    ASSUME NEW n \in Nodes, NEW r \in [min : Nat, desired : Nat, max : Nat]
    PROVE  LET b == calc_fee_bounds(n, r)
           IN  /\ b.min \in Int /\ b.max \in Int /\ b.desired \in Int
               /\ b.min <= b.max /\ b.min <= b.desired /\ b.desired <= b.max
  BY ClosingAssumption DEF calc_fee_bounds, Clamp

(* closingd starts, and the opener makes the first offer. *)
LEMMA StartOK ==
    ASSUME ClosingInv, NEW n \in Nodes, peer_start_closingd(n)
    PROVE  ClosingInv'
  <1> DEFINE p == Peer(n)
  <1>1. p \in Nodes /\ p # n /\ Peer(p) = n /\ \A m \in Nodes : m = n \/ m = p
    BY PeerFacts
  <1>2. PICK r \in plan.fees[n] :
           LET b == calc_fee_bounds(n, r)
               e == [Off EXCEPT !.pc = "first", !.quick = use_quickclose(n),
                                !.bounds = [min |-> b.min, max |-> b.max],
                                !.ours = b.desired]
           IN  IF n = Opener THEN Offers(n, e, wire[n]) ELSE say_nothing(n, e, wire[n])
    BY DEF peer_start_closingd
  <1> DEFINE b == calc_fee_bounds(n, r)
             e == [Off EXCEPT !.pc = "first", !.quick = use_quickclose(n),
                              !.bounds = [min |-> b.min, max |-> b.max],
                              !.ours = b.desired]
             s == closing_signed(e)
  <1>3. /\ d[n].pc = "starting" /\ last_tx' = last_tx /\ plan' = plan
        /\ d \in [Nodes -> Daemons] /\ d[p] \in Daemons /\ wire \in [Nodes -> Seq(Offer)]
    BY <1>1 DEF peer_start_closingd, ClosingInv, ClosingTypeOK
  <1>4. r \in [min : Nat, desired : Nat, max : Nat]
    BY DEF ClosingInv, ClosingTypeOK, PlanRecords
  <1>5. /\ b.min \in Int /\ b.max \in Int /\ b.desired \in Int
        /\ b.min <= b.max /\ b.min <= b.desired /\ b.desired <= b.max
    BY <1>4, BoundsFacts
  <1> HIDE DEF b
  <1>6. use_quickclose(n) \in BOOLEAN
    BY DEF use_quickclose
  <1>7. /\ e \in Daemons /\ e.pc = "first" /\ e.quick = use_quickclose(n)
        /\ e.bounds.min <= e.bounds.max /\ amount_in_range(e.ours, e.bounds)
    BY <1>5, <1>6, OffFacts DEF Daemons, Ranges, Pcs, amount_in_range
  <1>8. IF n = Opener THEN Offers(n, e, wire[n]) ELSE say_nothing(n, e, wire[n])
    BY <1>2 DEF b
  <1> HIDE DEF e
  <1>9. s \in Offer /\ s.fee = e.ours /\ (e.quick => s.range = e.bounds)
    BY <1>7, SignedFacts
  <1>10. AllQuick => s.range # NoRange
    <2>1. e.bounds # NoRange
      BY <1>7 DEF NoRange
    <2>2. QED
      BY <1>7, <1>9, <2>1 DEF AllQuick
  <1>11. wire[p] = <<>> /\ ~Ended(p) /\ ~Waiting(p)
    BY <1>3 DEF ClosingInv, InTurn, NotYet
  <1> HIDE DEF s
  <1>12. CASE ~Affordable(e.ours) /\ peer_failed_warn(n)
    <2>1. ~Ended(n) /\ 0 \in Int
      BY <1>3 DEF Ended
    <2>2. QED
      BY <1>3, <1>12, <2>1, WarnOK
  <1>13. CASE n = Opener /\ send_offer(n, e, wire[n])
    <2>1. wire[n] = <<>> /\ p = Accepter /\ (d[p].pc = "off" \/ NotYet(p))
      BY <1>3, <1>13, PeerFacts DEF ClosingInv, InTurn
    <2>2. /\ d' = [d EXCEPT ![n] = e] /\ connected' = connected
          /\ wire' = [wire EXCEPT ![n] = <<>>, ![p] = Append(@, s)]
      BY <1>13, <2>1 DEF send_offer, s
    <2>3. /\ d' \in [Nodes -> Daemons] /\ d'[n] = e /\ d'[p] = d[p]
          /\ wire'[n] = <<>> /\ wire'[p] = <<s>> /\ wire' \in [Nodes -> Seq(Offer)]
          /\ <<s>> # <<>> /\ Head(<<s>>) = s /\ Len(<<s>>) = 1
      <3>1. Append(<<>>, s) = <<s>> /\ <<s>> \in Seq(Offer) /\ <<>> \in Seq(Offer)
        BY <1>9
      <3>2. wire'[n] = <<>> /\ wire'[p] = <<s>> /\ wire' \in [Nodes -> Seq(Offer)]
        BY <1>1, <1>3, <1>11, <2>2, <3>1
      <3>3. QED
        BY <1>1, <1>3, <1>7, <2>2, <3>2
    <2>4. ClosingTypeOK'
      BY <1>3, <2>2, <2>3 DEF ClosingInv, ClosingTypeOK
    <2>5. OneOffer'
      <3>1. Len(wire'[n]) = 0 /\ Len(wire'[p]) = 1
        BY <2>3
      <3>2. connected
        BY <1>3 DEF ClosingInv, OneOffer, Ended
      <3>3. QED
        BY <1>1, <1>13, <2>1, <2>2, <2>3, <3>1, <3>2 DEF OneOffer
    <2> HIDE DEF p
    <2>6. InTurn'
      BY <1>1, <1>7, <1>11, <1>13, <2>1, <2>3, PeerFacts DEF InTurn, NotYet, Ended, Waiting
    <2>7. LastOffer(n)' /\ DoneIsAgreed(n)' /\ InRange(n)'
      <3>1. LastOffer(n)'
        BY <1>7, <1>13, <2>1, <2>3, PeerFacts DEF LastOffer, NotYet, Waiting, Ended, s, p
      <3>2. DoneIsAgreed(n)' /\ InRange(n)'
        BY <1>3, <1>7, <2>3 DEF DoneIsAgreed, InRange, Waiting, Ended, Running, AllQuick, use_quickclose
      <3>3. QED
        BY <3>1, <3>2
    <2>8. LastOffer(p)' /\ DoneIsAgreed(p)' /\ InRange(p)'
      <3>1. LastOffer(p)' /\ DoneIsAgreed(p)'
        BY <1>1, <1>11, <2>3 DEF LastOffer, DoneIsAgreed, Waiting, Ended
      <3>2. InRange(p)'
        BY <1>1, <1>3, <1>10, <2>3 DEF ClosingInv, InRange, Running, AllQuick, use_quickclose
      <3>3. QED
        BY <3>1, <3>2
    <2>9. AgreedIsKept'
      BY <1>1, <1>7, <1>11, <2>3 DEF AgreedIsKept, Ended
    <2>10. QED
      BY <1>1, <2>4, <2>5, <2>6, <2>7, <2>8, <2>9 DEF ClosingInv
  <1>14. CASE n = Accepter /\ say_nothing(n, e, wire[n])
    <2>1. d' = [d EXCEPT ![n] = e] /\ connected' = connected /\ wire' = wire
      BY <1>3, <1>14 DEF say_nothing
    <2>2. d' \in [Nodes -> Daemons] /\ d'[n] = e /\ d'[p] = d[p]
      BY <1>1, <1>3, <1>7, <2>1
    <2>3. ClosingTypeOK' /\ OneOffer'
      <3>1. connected
        BY <1>3 DEF ClosingInv, OneOffer, Ended
      <3>2. QED
        BY <1>3, <2>1, <2>2, <3>1 DEF ClosingInv, ClosingTypeOK, OneOffer
    <2>4. p = Opener /\ NotYet(n) /\ NotYet(n)'
      BY <1>3, <1>7, <1>14, <2>2, PeerFacts DEF NotYet
    <2> HIDE DEF p
    <2>5. InTurn'
      BY <1>1, <1>11, <1>14, <2>1, <2>2, <2>4, PeerFacts DEF ClosingInv, InTurn, NotYet, Ended, Waiting
    <2>6. LastOffer(n)' /\ DoneIsAgreed(n)' /\ InRange(n)'
      <3>1. LastOffer(n)' /\ DoneIsAgreed(n)'
        BY <1>7, <1>11, <2>1, <2>2 DEF LastOffer, DoneIsAgreed, Waiting, Ended, p
      <3>2. InRange(n)'
        BY <1>3, <1>7, <2>1, <2>2 DEF ClosingInv, InRange, Running, AllQuick, use_quickclose
      <3>3. QED
        BY <3>1, <3>2
    <2>7. LastOffer(p)' /\ DoneIsAgreed(p)' /\ InRange(p)'
      <3>1. LastOffer(p)'
        BY <1>1, <1>11, <1>14, <2>1, <2>2, <2>4 DEF ClosingInv, LastOffer, NotYet, Waiting, Ended
      <3>2. DoneIsAgreed(p)' /\ InRange(p)'
        BY <1>1, <1>3, <1>11, <2>1, <2>2 DEF ClosingInv, DoneIsAgreed, InRange, Waiting, Ended,
                                             Running, AllQuick, use_quickclose
      <3>3. QED
        BY <3>1, <3>2
    <2>8. AgreedIsKept'
      BY <1>1, <1>7, <1>11, <2>2 DEF AgreedIsKept, Ended
    <2>9. QED
      BY <1>1, <2>3, <2>5, <2>6, <2>7, <2>8 DEF ClosingInv
  <1>15. QED
    BY <1>8, <1>12, <1>13, <1>14, PeerFacts DEF Offers

-----------------------------------------------------------------------------
(* closingd's arithmetic stays within the integers. *)
LEMMA FeerangeFacts ==
    ASSUME NEW fr \in Feeranges, NEW f \in Int, NEW side
    PROVE  adjust_feerange(fr, f, side) \in Feeranges
  <1>1. fr.min \in Int /\ fr.max \in Int /\ f - 1 \in Int /\ f + 1 \in Int
    BY DEF Feeranges
  <1>2. QED
    BY <1>1 DEF adjust_feerange, Feeranges

(* What the next offer is, is a fee. *)
LEMMA OfferInt ==
    ASSUME ClosingInv, NEW n \in Nodes, NEW fr \in Feeranges, NEW theirs \in Int, NEW min \in Int
    PROVE  adjust_offer(n, fr, theirs, min) \in Int
  <1> DEFINE lo == Max({fr.min, min})
             by == StepSat(plan.step[n], fr.max - lo)
  <1>1. fr.min \in Int /\ fr.max \in Int
    BY DEF Feeranges
  <1>2. lo \in Int
    BY <1>1, MaxOfTwo
  <1>3. plan.step[n].by \in Int
    BY DEF ClosingInv, ClosingTypeOK, PlanRecords
  <1>4. by \in Int
    <2>1. ASSUME NEW x \in Int, NEW y \in Int PROVE (x * y) \div 100 \in Int
      <3>1. x * y \in Int
        OBVIOUS
      <3>2. QED
        BY <3>1
    <2>2. fr.max - lo \in Int
      BY <1>1, <1>2
    <2>3. QED
      BY <1>3, <2>1, <2>2 DEF StepSat
  <1> HIDE DEF lo, by
  <1>5. Max({fr.max - by, lo}) \in Int
    <2>1. fr.max - by \in Int
      BY <1>1, <1>4
    <2>2. QED
      BY <1>2, <2>1, MaxOfTwo
  <1>6. Min({lo + by, fr.max}) \in Int
    <2>1. lo + by \in Int
      BY <1>2, <1>4
    <2>2. QED
      BY <1>1, <2>1, MinOfTwo
  <1>7. adjust_offer(n, fr, theirs, min) \in
           {theirs, -1, Max({fr.max - by, lo}), Min({lo + by, fr.max})}
    BY DEF adjust_offer, lo, by
  <1>8. QED
    BY <1>5, <1>6, <1>7

(* closingd as it is when it has read the offer under way. *)
Heard(n, e) ==
    /\ e \in Daemons
    /\ e.pc = d[n].pc /\ e.ours = d[n].ours /\ e.theirs = Head(wire[n]).fee
    /\ e.bounds = d[n].bounds /\ e.quick = d[n].quick

(* Its two ways to go on: to answer, ... *)
LEMMA OffersOK ==
    ASSUME ClosingInv, NEW n \in Nodes, wire[n] # <<>>, Running(n), ~Ended(n),
           NotYet(n) \/ d[n].ours # Head(wire[n]).fee,
           NEW e, Told(n, e), Offers(n, e, Tail(wire[n])),
           last_tx' = Saved(n, e.theirs), plan' = plan
    PROVE  ClosingInv'
  <1>1. CASE send_offer(n, e, Tail(wire[n]))
    BY <1>1, ReplyOK
  <1>2. CASE peer_failed_warn(n)
    <2>1. e.theirs \in Int
      BY OfferFacts DEF Told
    <2>2. QED
      BY <1>2, <2>1, WarnOK
  <1>3. QED
    BY <1>1, <1>2 DEF Offers

(* ... or to end its loop at once. *)
LEMMA AgreedOK ==
    ASSUME ClosingInv, NEW n \in Nodes, wire[n] # <<>>, Running(n), ~Ended(n), ~NotYet(n),
           NEW e, Heard(n, e), e.ours = e.theirs,
           say_nothing(n, Finished(e), Tail(wire[n])),
           last_tx' = Saved(n, e.theirs), plan' = plan
    PROVE  ClosingInv'
  <1> DEFINE g == Finished(e)
  <1>1. /\ g \in Daemons /\ g.pc = "done" /\ g.ours = e.ours /\ g.theirs = e.theirs
        /\ g.bounds = e.bounds /\ g.quick = e.quick
    BY DEF Heard, Finished, Daemons, Pcs
  <1> HIDE DEF g
  <1>2. AllQuick => amount_in_range(g.ours, g.bounds)
    BY <1>1 DEF ClosingInv, InRange, Heard
  <1>3. Told(n, g)
    BY <1>1, <1>2 DEF Told, Heard
  <1>4. g.ours = d[n].ours /\ say_nothing(n, g, Tail(wire[n])) /\ last_tx' = Saved(n, g.theirs)
    BY <1>1 DEF Heard, g
  <1>5. QED
    BY <1>1, <1>3, <1>4, SilentOK

(* With ranges: one answer within both, or none. *)
LEMMA QuickCloseOK ==
    ASSUME ClosingInv, NEW n \in Nodes, wire[n] # <<>>, d[n].pc = "first",
           NEW e, Heard(n, e),
           do_quickclose(n, e, Head(wire[n]).range, Tail(wire[n])),
           last_tx' = Saved(n, e.theirs), plan' = plan
    PROVE  ClosingInv'
  <1> DEFINE range == Head(wire[n]).range
             overlap == get_overlap(e.bounds, range)
             f == Clamp(e.ours, overlap.min, overlap.max)
             got == Tail(wire[n])
  <1>1. Running(n) /\ ~Ended(n) /\ (n = Opener => ~NotYet(n)) /\ (n = Accepter => NotYet(n))
    BY PeerFacts DEF Running, Ended, NotYet
  <1>2. /\ e \in Daemons /\ e.ours \in Int /\ e.theirs \in Int
        /\ e.bounds.min \in Int /\ e.bounds.max \in Int
        /\ range.min \in Int /\ range.max \in Int
    BY OfferFacts, SignedFacts DEF Heard, Ranges
  <1> HIDE DEF range
  <1>3. /\ overlap.min \in Int /\ overlap.max \in Int
        /\ overlap.min >= e.bounds.min /\ overlap.max <= e.bounds.max
    <2>1. overlap.min = Max({e.bounds.min, range.min}) /\ overlap.max = Min({e.bounds.max, range.max})
      BY DEF get_overlap
    <2> HIDE DEF overlap
    <2>2. overlap.min \in Int /\ overlap.min >= e.bounds.min
      BY <1>2, <2>1, MaxOfTwo
    <2>3. overlap.max \in Int /\ overlap.max <= e.bounds.max
      BY <1>2, <2>1, MinOfTwo
    <2>4. QED
      BY <2>2, <2>3
  <1> HIDE DEF overlap
  <1>4. ASSUME NEW x \in Int, amount_in_range(x, overlap) PROVE amount_in_range(x, e.bounds)
    BY <1>2, <1>3, <1>4 DEF amount_in_range
  <1>5. CASE peer_failed_warn(n)
    BY <1>1, <1>2, <1>5, WarnOK
  <1>6. CASE n = Opener /\ e.ours = e.theirs /\ say_nothing(n, Finished(e), got)
    BY <1>1, <1>6, AgreedOK
  <1>7. CASE /\ n = Opener /\ amount_in_range(e.theirs, overlap) /\ e.ours # e.theirs
             /\ send_offer(n, Finished([e EXCEPT !.ours = e.theirs]), got)
    <2> DEFINE g == Finished([e EXCEPT !.ours = e.theirs])
    <2>1. /\ g \in Daemons /\ g.pc = "done" /\ g.ours = e.theirs /\ g.theirs = e.theirs
          /\ g.bounds = e.bounds /\ g.quick = e.quick
      BY <1>2 DEF Finished, Daemons, Pcs
    <2>2. send_offer(n, g, got)
      BY <1>7
    <2> HIDE DEF g
    <2>3. amount_in_range(g.ours, g.bounds)
      BY <1>2, <1>4, <1>7, <2>1
    <2>4. Told(n, g) /\ d[n].ours # Head(wire[n]).fee
      BY <1>7, <2>1, <2>3 DEF Told, Heard
    <2>5. QED
      BY <1>1, <2>1, <2>2, <2>4, ReplyOK
  <1>8. CASE /\ n = Accepter /\ overlap.min <= overlap.max
             /\ Offers(n, [e EXCEPT !.ours = f, !.pc = IF f = e.theirs THEN "done" ELSE "quick"], got)
    <2> DEFINE g == [e EXCEPT !.ours = f, !.pc = IF f = e.theirs THEN "done" ELSE "quick"]
    <2>1. f \in Int /\ amount_in_range(f, overlap)
      BY <1>2, <1>3, <1>8 DEF Clamp, amount_in_range
    <2>2. Offers(n, g, got)
      BY <1>8
    <2> HIDE DEF f
    <2>3. /\ g \in Daemons /\ g.pc \in {"done", "quick"} /\ (g.pc = "done" <=> g.ours = g.theirs)
          /\ g.ours = f /\ g.theirs = e.theirs
          /\ g.bounds = e.bounds /\ g.quick = e.quick
      BY <1>2, <2>1 DEF Daemons, Pcs
    <2> HIDE DEF g
    <2>4. amount_in_range(g.ours, g.bounds)
      BY <1>4, <2>1, <2>3
    <2>5. Told(n, g)
      BY <2>3, <2>4 DEF Told, Heard
    <2>6. QED
      BY <1>1, <1>8, <2>2, <2>3, <2>5, OffersOK
  <1>9. QED
    BY <1>5, <1>6, <1>7, <1>8 DEF do_quickclose, range, overlap

(* A round without ranges: what the step leaves, or nothing if that is too  *)
(* low.                                                                     *)
LEMMA OurRoundOK ==
    ASSUME ClosingInv, NEW n \in Nodes, wire[n] # <<>>, Running(n), ~Ended(n), ~NotYet(n),
           ~AllQuick, NEW e, Heard(n, e), our_round(n, e, Tail(wire[n])),
           last_tx' = Saved(n, e.theirs), plan' = plan
    PROVE  ClosingInv'
  <1> DEFINE fr == adjust_feerange(e.feerange, e.theirs, Peer(n))
             f == adjust_offer(n, fr, e.theirs, e.bounds.min)
             gr == adjust_feerange(fr, f, n)
             got == Tail(wire[n])
  <1>1. /\ e \in Daemons /\ e.ours \in Int /\ e.theirs \in Int /\ e.bounds.min \in Int
        /\ e.feerange \in Feeranges
    BY OfferFacts, SignedFacts DEF Heard, Daemons
  <1>2. fr \in Feeranges
    BY <1>1, FeerangeFacts
  <1>3. f \in Int
    BY <1>1, <1>2, OfferInt
  <1>4. gr \in Feeranges
    BY <1>2, <1>3, FeerangeFacts
  <1>5. CASE e.ours = e.theirs /\ say_nothing(n, Finished(e), got)
    BY <1>5, AgreedOK
  <1>6. CASE peer_failed_warn(n)
    BY <1>1, <1>6, WarnOK
  <1>7. CASE /\ e.ours # e.theirs
             /\ Offers(n, [e EXCEPT !.ours = f, !.feerange = gr,
                                    !.pc = IF f = e.theirs THEN "done" ELSE "rounds"], got)
    <2> DEFINE g == [e EXCEPT !.ours = f, !.feerange = gr,
                              !.pc = IF f = e.theirs THEN "done" ELSE "rounds"]
    <2>1. Offers(n, g, got)
      BY <1>7
    <2> HIDE DEF f, gr
    <2>2. /\ g \in Daemons /\ g.pc \in {"done", "rounds"} /\ (g.pc = "done" <=> g.ours = g.theirs)
          /\ g.theirs = e.theirs /\ g.bounds = e.bounds /\ g.quick = e.quick
      BY <1>1, <1>3, <1>4 DEF Daemons, Pcs
    <2> HIDE DEF g
    <2>3. Told(n, g) /\ d[n].ours # Head(wire[n]).fee
      BY <1>7, <2>2 DEF Told, Heard
    <2>4. QED
      BY <2>1, <2>2, <2>3, OffersOK
  <1>8. QED
    BY <1>5, <1>6, <1>7 DEF our_round

(* The first round. *)
LEMMA StartRoundsOK ==
    ASSUME ClosingInv, NEW n \in Nodes, wire[n] # <<>>, d[n].pc = "first",
           ~AllQuick, NEW e, Heard(n, e), start_rounds(n, e, Tail(wire[n])),
           last_tx' = Saved(n, e.theirs), plan' = plan
    PROVE  ClosingInv'
  <1> DEFINE fr == init_feerange(n, e.ours, e.theirs, e.bounds.max)
             or == adjust_feerange(fr, e.ours, n)
             ar == adjust_feerange(adjust_feerange(fr, e.theirs, Opener), e.ours, n)
             got == Tail(wire[n])
  <1>1. Running(n) /\ ~Ended(n) /\ (n = Opener => ~NotYet(n)) /\ (n = Accepter => NotYet(n))
    BY PeerFacts DEF Running, Ended, NotYet
  <1>2. e \in Daemons /\ e.ours \in Int /\ e.theirs \in Int /\ e.bounds.max \in Int
    BY OfferFacts, SignedFacts DEF Heard
  <1>3. fr \in Feeranges
    BY <1>2, PeerFacts DEF init_feerange, Feeranges
  <1>4. or \in Feeranges /\ ar \in Feeranges
    BY <1>2, <1>3, FeerangeFacts
  <1>5. CASE n = Opener /\ our_round(n, [e EXCEPT !.feerange = or], got)
    <2> DEFINE g == [e EXCEPT !.feerange = or]
    <2>1. our_round(n, g, got)
      BY <1>5
    <2> HIDE DEF or
    <2>2. Heard(n, g) /\ g.theirs = e.theirs
      BY <1>2, <1>4 DEF Heard, Daemons
    <2> HIDE DEF g
    <2>3. QED
      BY <1>1, <1>5, <2>1, <2>2, OurRoundOK
  <1>6. CASE /\ n = Accepter
             /\ Offers(n, [e EXCEPT !.feerange = ar,
                                    !.pc = IF e.ours = e.theirs THEN "done" ELSE "rounds"], got)
    <2> DEFINE g == [e EXCEPT !.feerange = ar,
                              !.pc = IF e.ours = e.theirs THEN "done" ELSE "rounds"]
    <2>1. Offers(n, g, got)
      BY <1>6
    <2> HIDE DEF ar
    <2>2. /\ g \in Daemons /\ g.pc \in {"done", "rounds"} /\ (g.pc = "done" <=> g.ours = g.theirs)
          /\ g.theirs = e.theirs /\ g.bounds = e.bounds /\ g.quick = e.quick
      BY <1>2, <1>4 DEF Daemons, Pcs
    <2> HIDE DEF g
    <2>3. Told(n, g)
      BY <2>2 DEF Told, Heard
    <2>4. QED
      BY <1>1, <1>6, <2>1, <2>2, <2>3, OffersOK
  <1>7. QED
    BY <1>5, <1>6 DEF start_rounds

(* Whatever the offer, closingd's answer keeps the invariant. *)
LEMMA ReceiveOfferOK ==
    ASSUME ClosingInv, NEW n \in Nodes, receive_offer(n)
    PROVE  ClosingInv'
  <1> DEFINE m == Head(wire[n])
             e == [d[n] EXCEPT !.theirs = m.fee]
             got == Tail(wire[n])
  <1>1. /\ d[n].pc \in {"first", "quick", "rounds"} /\ wire[n] # <<>> /\ plan' = plan
        /\ \/ peer_failed_warn(n) /\ last_tx' = last_tx
           \/ /\ last_tx' = Saved(n, m.fee)
              /\ \/ /\ e.pc = "first" /\ e.quick /\ m.range # NoRange
                    /\ do_quickclose(n, e, m.range, got)
                 \/ /\ e.pc = "first" /\ ~(e.quick /\ m.range # NoRange)
                    /\ start_rounds(n, e, got)
                 \/ /\ e.pc = "quick" /\ e.ours = e.theirs
                    /\ say_nothing(n, Finished(e), got)
                 \/ peer_failed_warn(n)
                 \/ /\ e.pc = "rounds"
                    /\ our_round(n, e, got)
    BY DEF receive_offer
  <1>2. m.fee \in Int
    BY <1>1, OfferFacts
  <1>3. d[n] \in Daemons
    BY DEF ClosingInv, ClosingTypeOK
  <1> HIDE DEF m
  <1>4. Heard(n, e) /\ e.theirs = m.fee
    BY <1>2, <1>3 DEF Heard, Daemons, m
  <1> HIDE DEF e
  <1>5. Running(n) /\ ~Ended(n) /\ (d[n].pc # "first" => ~NotYet(n))
    BY <1>1 DEF Running, Ended, NotYet
  <1>6. CASE peer_failed_warn(n) /\ (last_tx' = last_tx \/ last_tx' = Saved(n, m.fee))
    BY <1>1, <1>2, <1>5, <1>6, WarnOK
  <1>7. CASE last_tx' = Saved(n, m.fee) /\ d[n].pc = "first" /\ do_quickclose(n, e, m.range, got)
    BY <1>1, <1>4, <1>7, QuickCloseOK DEF m
  <1>8. CASE /\ last_tx' = Saved(n, m.fee) /\ d[n].pc = "first"
             /\ ~(e.quick /\ m.range # NoRange) /\ start_rounds(n, e, got)
    <2>1. ~AllQuick
      <3>1. d[n].quick = use_quickclose(n) /\ (AllQuick => m.range # NoRange)
        BY <1>1, <1>5 DEF ClosingInv, InRange, m
      <3>2. QED
        BY <1>4, <1>8, <3>1 DEF AllQuick, Heard
    <2>2. QED
      BY <1>1, <1>4, <1>8, <2>1, StartRoundsOK
  <1>9. CASE /\ last_tx' = Saved(n, m.fee) /\ d[n].pc = "quick" /\ e.ours = e.theirs
             /\ say_nothing(n, Finished(e), got)
    BY <1>1, <1>4, <1>5, <1>9, AgreedOK
  <1>10. CASE last_tx' = Saved(n, m.fee) /\ d[n].pc = "rounds" /\ our_round(n, e, got)
    <2>1. ~AllQuick
      BY <1>5, <1>10 DEF ClosingInv, InRange
    <2>2. QED
      BY <1>1, <1>4, <1>5, <1>10, <2>1, OurRoundOK
  <1>11. e.pc = d[n].pc
    BY <1>4 DEF Heard
  <1>12. QED
    BY <1>1, <1>6, <1>7, <1>8, <1>9, <1>10, <1>11

-----------------------------------------------------------------------------
(* Every step of either node, of its lightningd and of the connection. *)
LEMMA ClosingStepOK == ClosingInv /\ [Next]_vars => ClosingInv'
  <1>1. SUFFICES ASSUME ClosingInv, [Next]_vars PROVE ClosingInv'
    OBVIOUS
  <1>2. d \in [Nodes -> Daemons] /\ last_tx \in [Nodes -> Kept] /\ plan \in PlanRecords
    BY <1>1 DEF ClosingInv, ClosingTypeOK
  <1>3. /\ Disconnected \in [Nodes -> Daemons]
        /\ \A m \in Nodes : Disconnected[m] = Off \/ (Ended(m) /\ Disconnected[m] = d[m])
    BY <1>2, OffFacts DEF Disconnected, Ended
  <1>4. ASSUME NEW n \in Nodes
        PROVE  LET D == [Disconnected EXCEPT ![n] = Off]
               IN  /\ D \in [Nodes -> Daemons]
                   /\ \A m \in Nodes : D[m] = Off \/ (Ended(m) /\ D[m] = d[m])
    BY <1>3, OffFacts
  <1>5. CASE UNCHANGED vars
    BY <1>1, <1>5, ClosingUnchanged DEF vars
  <1>6. ASSUME NEW n \in Nodes, peer_start_closingd(n) PROVE ClosingInv'
    BY <1>1, <1>6, StartOK
  <1>7. ASSUME NEW n \in Nodes, receive_offer(n) PROVE ClosingInv'
    BY <1>1, <1>7, ReceiveOfferOK
  <1>8. ASSUME NEW n \in Nodes, peer_closing_complete(n) PROVE ClosingInv'
    <2>1. d[n].pc = "done" /\ d' = [d EXCEPT ![n].pc = "over"]
          /\ UNCHANGED <<plan, last_tx, connected, wire>>
      BY <1>8 DEF peer_closing_complete
    <2>2. QED
      BY <1>1, <2>1, CompleteOK
  <1>9. ASSUME NEW n \in Nodes, close_command_timeout(n) \/ funding_spent(n) PROVE ClosingInv'
    <2>1. d' = [d EXCEPT ![n] = Off] /\ UNCHANGED <<plan, last_tx, connected, wire>>
      BY <1>9 DEF close_command_timeout, funding_spent
    <2>2. QED
      BY <1>1, <2>1, NodeOffOK
  <1>10. ASSUME NEW n \in Nodes, handle_peer_spoke(n) PROVE ClosingInv'
    <2>1. /\ d' = [Disconnected EXCEPT ![Peer(n)] = Off] /\ connected' = FALSE
          /\ wire' = [m \in Nodes |-> <<>>] /\ plan' = plan /\ last_tx' = last_tx
      BY <1>10 DEF handle_peer_spoke, Hangup
    <2>2. Peer(n) \in Nodes
      BY PeerFacts
    <2>3. /\ d' \in [Nodes -> Daemons]
          /\ \A m \in Nodes : \/ d'[m] = Off
                              \/ Ended(m) /\ d'[m] = d[m] /\ last_tx'[m] = last_tx[m]
      BY <1>4, <2>1, <2>2
    <2>4. QED
      BY <1>1, <1>2, <2>1, <2>3, HungUpOK
  <1>11. ASSUME NEW n \in Nodes, Restart(n) PROVE ClosingInv'
    <2>1. /\ d' = [Disconnected EXCEPT ![n] = Off] /\ connected' = FALSE
          /\ wire' = [m \in Nodes |-> <<>>] /\ last_tx' = last_tx
          /\ plan' = [plan EXCEPT !.restarts = @ - 1] /\ plan.restarts > 0
      BY <1>11 DEF Restart, Hangup
    <2>2. plan.restarts - 1 \in Nat
      BY <1>2, <2>1 DEF PlanRecords
    <2>3. plan' \in PlanRecords /\ plan'.step = plan.step /\ plan'.floor = plan.floor
      BY <1>2, <2>1, <2>2 DEF PlanRecords
    <2>4. /\ d' \in [Nodes -> Daemons]
          /\ \A m \in Nodes : \/ d'[m] = Off
                              \/ Ended(m) /\ d'[m] = d[m] /\ last_tx'[m] = last_tx[m]
      BY <1>4, <2>1
    <2>5. QED
      BY <1>1, <1>2, <2>1, <2>3, <2>4, HungUpOK
  <1>12. CASE Cut
    <2>1. /\ d' = Disconnected /\ connected' = FALSE
          /\ wire' = [m \in Nodes |-> <<>>] /\ last_tx' = last_tx
          /\ plan' = [plan EXCEPT !.cuts = @ - 1] /\ plan.cuts > 0
      BY <1>12 DEF Cut, Hangup
    <2>2. plan.cuts - 1 \in Nat
      BY <1>2, <2>1 DEF PlanRecords
    <2>3. plan' \in PlanRecords /\ plan'.step = plan.step /\ plan'.floor = plan.floor
      BY <1>2, <2>1, <2>2 DEF PlanRecords
    <2>4. /\ d' \in [Nodes -> Daemons]
          /\ \A m \in Nodes : \/ d'[m] = Off
                              \/ Ended(m) /\ d'[m] = d[m] /\ last_tx'[m] = last_tx[m]
      BY <1>3, <2>1
    <2>5. QED
      BY <1>1, <1>2, <2>1, <2>3, <2>4, HungUpOK
  <1>13. CASE peer_connected
    <2>1. CASE connected' = TRUE /\ d' = [n \in Nodes |-> Starting]
      <3>1. ~connected /\ UNCHANGED <<plan, last_tx, wire>>
        BY <1>13 DEF peer_connected
      <3>2. QED
        BY <1>1, <2>1, <3>1, NewSessionOK
    <2>2. CASE UNCHANGED <<connected, d>>
      <3>1. UNCHANGED <<plan, last_tx, wire>>
        BY <1>13 DEF peer_connected
      <3>2. QED
        BY <1>1, <2>2, <3>1, ClosingUnchanged
    <2>3. QED
      BY <1>13, <2>1, <2>2 DEF peer_connected
  <1>14. CASE Mine
    BY <1>1, <1>14, ClosingUnchanged DEF Mine
  <1>15. QED
    BY <1>1, <1>5, <1>6, <1>7, <1>8, <1>9, <1>10, <1>11, <1>12, <1>13, <1>14 DEF Next, Daemon

(* The negotiation is one exchange of offers, each the answer to the last,  *)
(* in every session, whatever cuts it off.                                  *)
THEOREM ClosingInvHolds == Spec => []ClosingInv
  <1>1. Init => ClosingInv
    BY ClosingInitOK
  <1>2. ClosingInv /\ [Next]_vars => ClosingInv'
    BY ClosingStepOK
  <1>3. QED
    BY <1>1, <1>2, PTL DEF Spec

(* SameFee for every choice of fees, steps and minima: two closingds that   *)
(* end their loops (closingd.c, do_quickclose() and the rounds of main())   *)
(* do so on the same fee, with no offer left unread, and within both ranges *)
(* when both nodes gave one.                                                *)
THEOREM ClosingsAgree == Spec => []SameFee
  <1>1. ClosingInv => SameFee
    <2>1. SUFFICES ASSUME ClosingInv PROVE SameFee
      OBVIOUS
    <2>2. \A n \in Nodes : DoneIsAgreed(n) /\ InRange(n)
      BY <2>1 DEF ClosingInv
    <2>3. (\A n \in Nodes : Ended(n)) => d[Opener].ours = d[Accepter].ours
      BY <2>2, PeerFacts DEF DoneIsAgreed, Ended
    <2>4. ASSUME NEW n \in Nodes, Ended(n)
          PROVE  /\ d[n].ours = d[n].theirs /\ wire[n] = <<>>
                 /\ AllQuick => amount_in_range(d[n].ours, d[n].bounds)
      BY <2>2, <2>4 DEF DoneIsAgreed, InRange, Ended, Running
    <2>5. QED
      BY <2>3, <2>4 DEF SameFee, AllQuick
  <1>2. QED
    BY <1>1, ClosingInvHolds, PTL

(* AgreedIsKept for every choice of fees, steps and minima: the transaction *)
(* that lightningd saved last (peer_received_closing_signature()) is the    *)
(* one closingd agreed on, after any number of cuts and restarts.           *)
THEOREM AgreedTxKept == Spec => []AgreedIsKept
  <1>1. ClosingInv => AgreedIsKept
    BY DEF ClosingInv
  <1>2. QED
    BY <1>1, ClosingInvHolds, PTL

-----------------------------------------------------------------------------
(* A forwarding node is paid for what it pays and forwards an HTLC once, for *)
(* any number of HTLCs, any expiries and deadlines and any number of deaths *)
(* of its daemons.                                                          *)

HinStates == {"none", "ready", "fulfilled", "failed", "paid", "returned", "timedout"}
HoutStates == {"none", "gone"} \cup Offering \cup Rows

ForwardTypeOK ==
    /\ hin \in [Htlcs -> HinStates]
    /\ hout \in [Htlcs -> HoutStates]
    /\ sends \in [Htlcs -> Nat]
    /\ waiting \subseteq Htlcs
    /\ took \subseteq Htlcs
    /\ abandoned \subseteq Htlcs

(* The states an HTLC's two ends may be in together.  The preimage has come *)
(* back exactly when the incoming one is being paid, unless the node gave   *)
(* it up, the previous node took it back, or the outgoing one, failed       *)
(* before, was claimed on chain; one that is not being removed has an       *)
(* outgoing one that is still undecided, or none.                           *)
EndsAgree(h) ==
    /\ hin[h] = "none" => hout[h] = "none"
    /\ hin[h] = "ready" => hout[h] \in {"none", "committed", "failing"} \cup Offering
    /\ hin[h] \in {"fulfilled", "paid"} => h \in took
    /\ hout[h] \in Offering => hin[h] \in {"ready", "timedout"}
    /\ hout[h] \in {"committed", "failing"} =>
         hin[h] \in {"ready", "timedout"} \/ h \in abandoned
    /\ hout[h] = "fulfilled" => h \in took
    /\ h \in took =>
         \/ /\ hout[h] \in {"fulfilled", "gone"}
            /\ hin[h] \in {"fulfilled", "paid", "timedout"} \/ h \in abandoned
         \/ hout[h] = "failing" /\ out = "onchain"
    /\ h \in abandoned => hin[h] \in {"failed", "returned"}

(* What was sent to the next node is told by the outgoing HTLC alone, which *)
(* a committed one's row in the database keeps across restarts; what waits  *)
(* to be forwarded has none.                                                *)
SentIsKnown(h) ==
    /\ h \in waiting => hin[h] = "ready" /\ hout[h] = "none"
    /\ sends[h] = IF hout[h] \in {"none"} \cup Offering THEN 0 ELSE 1

ForwardInv ==
    /\ ForwardTypeOK
    /\ fault = "none"
    /\ ~(out = "onchain" /\ owner)
    /\ \A h \in Htlcs : EndsAgree(h) /\ SentIsKnown(h)

(* Nothing is under way when the node starts. *)
LEMMA ForwardInitOK == ForwardInit => ForwardInv
  BY DEF ForwardInit, ForwardInv, ForwardTypeOK, EndsAgree, SentIsKnown, HinStates,
         HoutStates, Rows, Offering

(* An HTLC that comes in, is forwarded or refused, or is committed to the   *)
(* next node.  What waits, and what channeld refuses, has no preimage: the  *)
(* assertion of fail_in_htlc() holds.                                       *)
LEMMA ForwardingOK ==
    ASSUME ForwardInv, NEW h \in Htlcs,
           peer_accepted_htlc(h) \/ HookAnswers(h) \/ OutReplies(h)
    PROVE  ForwardInv'
  <1> USE DEF ForwardInv, ForwardTypeOK, EndsAgree, SentIsKnown, HinStates,
              HoutStates, Rows, Offering, chans, hist
  <1>1. CASE peer_accepted_htlc(h)
    BY <1>1 DEF peer_accepted_htlc
  <1>2. CASE forward_htlc(h)
    BY <1>2 DEF forward_htlc
  <1>3. CASE forward_htlc_fails(h)
    <2>1. hin[h] = "ready" /\ hout[h] = "none"
      BY <1>3 DEF forward_htlc_fails
    <2>2. fault' = "none" /\ hin' = failed({h})
      BY <1>3, <2>1 DEF forward_htlc_fails, fail_in_htlc
    <2>3. /\ waiting' = waiting \ {h}
          /\ UNCHANGED <<hout, out, owner, took, sends, abandoned>>
      BY <1>3 DEF forward_htlc_fails
    <2>4. QED
      BY <2>1, <2>2, <2>3 DEF failed
  <1>4. CASE rcvd_htlc_reply(h)
    BY <1>4 DEF rcvd_htlc_reply
  <1>5. CASE rcvd_htlc_reply_fails(h)
    <2>1. hin[h] # "fulfilled" /\ hout[h] = "offered"
      BY <1>5 DEF rcvd_htlc_reply_fails
    <2>2. fault' = "none" /\ hin' = failed({h})
      BY <1>5, <2>1 DEF rcvd_htlc_reply_fails, fail_in_htlc
    <2>3. /\ hout' = [hout EXCEPT ![h] = "none"]
          /\ UNCHANGED <<waiting, out, owner, took, sends, abandoned>>
      BY <1>5 DEF rcvd_htlc_reply_fails
    <2>4. QED
      BY <2>1, <2>2, <2>3 DEF failed
  <1>6. CASE update_out_htlc_commit(h)
    BY <1>6 DEF update_out_htlc_commit
  <1>7. QED
    BY <1>1, <1>2, <1>3, <1>4, <1>5, <1>6 DEF HookAnswers, OutReplies

(* A committed HTLC is settled by the next node, on its channel or on chain, *)
(* and the incoming one by the previous node.                               *)
LEMMA SettlingOK ==
    ASSUME ForwardInv, NEW h \in Htlcs,
           \/ peer_fulfilled_our_htlc(h)
           \/ peer_failed_our_htlc(h)
           \/ remove_htlc_out(h)
           \/ OutResolves(h)
           \/ remove_htlc_in(h)
    PROVE  ForwardInv'
  <1> USE DEF ForwardInv, ForwardTypeOK, EndsAgree, SentIsKnown, HinStates,
              HoutStates, Rows, Offering, chans, hist
  <1>1. CASE peer_fulfilled_our_htlc(h)
    BY <1>1 DEF peer_fulfilled_our_htlc, fulfill_our_htlc_out
  <1>2. CASE onchain_fulfilled_htlc(h)
    <2>1. CASE hout[h] = "failing"
      BY <1>2, <2>1 DEF onchain_fulfilled_htlc
    <2>2. CASE hout[h] = "committed"
      BY <1>2, <2>2 DEF onchain_fulfilled_htlc, fulfill_our_htlc_out
    <2>3. QED
      BY <1>2, <2>1, <2>2 DEF onchain_fulfilled_htlc
  <1>3. CASE peer_failed_our_htlc(h)
    BY <1>3 DEF peer_failed_our_htlc
  <1>4. CASE remove_htlc_out(h)
    <2>1. CASE hout[h] = "failing"
      <3>1. hin[h] # "fulfilled"
        BY <2>1
      <3>2. fault' = "none" /\ hin' = failed({h})
        BY <1>4, <2>1, <3>1 DEF remove_htlc_out, fail_in_htlc
      <3>3. /\ hout' = [hout EXCEPT ![h] = "gone"]
            /\ UNCHANGED <<waiting, out, owner, took, sends, abandoned>>
        BY <1>4 DEF remove_htlc_out
      <3>4. h \notin took
        BY <1>4, <2>1 DEF remove_htlc_out
      <3>5. QED
        BY <2>1, <3>2, <3>3, <3>4 DEF failed
    <2>2. CASE hout[h] = "fulfilled"
      BY <1>4, <2>2 DEF remove_htlc_out
    <2>3. QED
      BY <1>4, <2>1, <2>2 DEF remove_htlc_out
  <1>5. CASE onchain_failed_our_htlc(h)
    BY <1>5 DEF onchain_failed_our_htlc, failed
  <1>6. CASE remove_htlc_in(h)
    BY <1>6 DEF remove_htlc_in
  <1>7. QED
    BY <1>1, <1>2, <1>3, <1>4, <1>5, <1>6 DEF OutResolves

(* The outgoing channel and its channeld come and go, the node restarts:    *)
(* the HTLCs that go with channeld were never committed, and a restart      *)
(* replays only those.                                                      *)
LEMMA ChannelStepOK ==
    ASSUME ForwardInv,
           \/ OutChanneldDies \/ OutReconnects \/ OutShutsDown
           \/ OutGoesOnchain \/ InGoesOnchain \/ LightningdRestarts
    PROVE  ForwardInv'
  <1> USE DEF ForwardInv, ForwardTypeOK, EndsAgree, SentIsKnown, HinStates,
              HoutStates, Rows, Offering, chans, hist
  <1>1. CASE OutChanneldDies
    <2>1. \A h \in Dying : hin[h] # "fulfilled" /\ h \notin took
      BY DEF Dying
    <2>2. fault' = "none" /\ hin' = failed(Dying)
      <3>1. /\ hin' = failed(Dying)
            /\ fault' = IF \E h \in Dying : hin[h] = "fulfilled"
                        THEN "preimage" ELSE fault
        BY <1>1 DEF OutChanneldDies, fail_in_htlc
      <3>2. QED
        BY <2>1, <3>1
    <2>3. /\ hout' = [h \in Htlcs |-> IF h \in Dying THEN "none" ELSE hout[h]]
          /\ owner' = FALSE /\ out' = out
          /\ UNCHANGED <<waiting, took, sends, abandoned>>
      BY <1>1 DEF OutChanneldDies, destroy_hout_subd_died
    <2>4. QED
      BY <2>1, <2>2, <2>3 DEF Dying, failed
  <1>2. CASE OutReconnects
    BY <1>2 DEF OutReconnects
  <1>3. CASE OutShutsDown
    BY <1>3 DEF OutShutsDown
  <1>4. CASE OutGoesOnchain
    <2>1. \A h \in Dying : hin[h] # "fulfilled" /\ h \notin took
      BY DEF Dying
    <2>2. fault' = "none" /\ hin' = failed(Dying)
      <3>1. /\ hin' = failed(Dying)
            /\ fault' = IF \E h \in Dying : hin[h] = "fulfilled"
                        THEN "preimage" ELSE fault
        BY <1>4 DEF OutGoesOnchain, fail_in_htlc
      <3>2. QED
        BY <2>1, <3>1
    <2>3. /\ hout' = [h \in Htlcs |-> IF h \in Dying THEN "none" ELSE hout[h]]
          /\ owner' = FALSE /\ out' = "onchain"
          /\ UNCHANGED <<waiting, took, sends, abandoned>>
      BY <1>4 DEF OutGoesOnchain, destroy_hout_subd_died
    <2>4. QED
      BY <2>1, <2>2, <2>3 DEF Dying, failed
  <1>5. CASE InGoesOnchain
    BY <1>5 DEF InGoesOnchain
  <1>6. CASE LightningdRestarts
    BY <1>6 DEF LightningdRestarts, unconnected_htlcs_in
  <1>7. QED
    BY <1>1, <1>2, <1>3, <1>4, <1>5, <1>6

(* A block: the HTLCs whose channeld it kills were not committed, and those *)
(* it gives up were not being removed.                                      *)
LEMMA NewBlockOK ==
    ASSUME ForwardInv, NewBlock
    PROVE  ForwardInv'
  <1> USE DEF ForwardInv, ForwardTypeOK, EndsAgree, SentIsKnown, HinStates,
              HoutStates, Rows, Offering
  <1>1. PICK dying \in {{}, Dying}, gives_up \in SUBSET Htlcs :
          /\ hout' = [h \in Htlcs |-> IF h \in dying THEN "none" ELSE hout[h]]
          /\ hin' = failed(dying \cup gives_up)
          /\ abandoned' = abandoned \cup gives_up
          /\ \A h \in gives_up : hout[h] = "committed" /\ hin[h] = "ready"
    <2> DEFINE late == past_deadline(height')
               fails == late # {} /\ can_add_htlc(out)
               dying == IF fails THEN Dying ELSE {}
               gives_up == {h \in late : consider_failing_incoming(h, height')}
    <2>1. dying \in {{}, Dying} /\ gives_up \in SUBSET Htlcs
      BY DEF past_deadline
    <2>2. /\ hout' = [h \in Htlcs |-> IF h \in dying THEN "none" ELSE hout[h]]
          /\ hin' = failed(dying \cup gives_up)
          /\ abandoned' = abandoned \cup gives_up
      BY DEF NewBlock, htlcs_notify_new_block, destroy_hout_subd_died
    <2>3. \A h \in gives_up : hout[h] = "committed" /\ hin[h] = "ready"
      BY DEF consider_failing_incoming
    <2> HIDE DEF dying, gives_up
    <2>4. QED
      BY <2>1, <2>2, <2>3
  <1>2. UNCHANGED <<waiting, took, sends, fault>>
    BY DEF NewBlock
  <1>3. /\ ~(out' = "onchain" /\ owner')
        /\ out = "onchain" => out' = "onchain"
    BY DEF NewBlock, htlcs_notify_new_block
  <1>4. QED
    BY <1>1, <1>2, <1>3 DEF Dying, failed

(* Every step keeps the invariant, and so does one that changes nothing. *)
LEMMA ForwardStepOK ==
    ASSUME ForwardInv, [ForwardNext]_forward_vars
    PROVE  ForwardInv'
  <1>1. CASE ForwardNext
    BY <1>1, ForwardingOK, SettlingOK, ChannelStepOK, NewBlockOK DEF ForwardNext
  <1>2. CASE UNCHANGED forward_vars
    BY <1>2 DEF forward_vars, chans, hist, ForwardInv, ForwardTypeOK, EndsAgree, SentIsKnown
  <1>3. QED
    BY <1>1, <1>2

(* The invariant holds in every state of a forwarding node. *)
LEMMA ForwardInvHolds == ForwardSpec => []ForwardInv
  <1>1. ForwardInit => ForwardInv
    BY ForwardInitOK
  <1>2. ForwardInv /\ [ForwardNext]_forward_vars => ForwardInv'
    BY ForwardStepOK
  <1>3. QED
    BY <1>1, <1>2, PTL DEF ForwardSpec

(* A forwarding node is paid for what it pays, except where the code gives  *)
(* an HTLC up (consider_failing_incoming()), the previous node has timed it *)
(* out on chain, or the next node claims on chain an HTLC it had failed     *)
(* (which onchain_fulfilled_htlc() skips); and fail_in_htlc() never meets a *)
(* preimage.                                                                *)
THEOREM NodeIsPaidThrough == ForwardSpec => []PaidThrough
  <1>1. ForwardInv => PaidThrough
    BY DEF ForwardInv, ForwardTypeOK, EndsAgree, PaidThrough,
           ClaimedAfterFailing, HoutStates, Rows, Offering
  <1>2. QED
    BY <1>1, ForwardInvHolds, PTL

(* Across any number of restarts, replays and dying channelds, an HTLC is   *)
(* committed to the next node at most once.                                 *)
THEOREM HtlcForwardedOnce == ForwardSpec => []ForwardedOnce
  <1>1. ForwardInv => ForwardedOnce
    BY DEF ForwardInv, SentIsKnown, ForwardedOnce
  <1>2. QED
    BY <1>1, ForwardInvHolds, PTL
=============================================================================
