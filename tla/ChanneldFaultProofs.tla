------------------------ MODULE ChanneldFaultProofs -------------------------
(* Which error paths of Channeld can be taken: no balance of either node    *)
(* goes below zero, and no daemon fails on anything but a limit of the      *)
(* channel.                                                                 *)
EXTENDS ChanneldKeepProofs

-----------------------------------------------------------------------------
(* What each kind of HTLC under way does to a balance.                      *)

(* Sets of states apart from each other count apart. *)
LEMMA NetSplit ==
    ASSUME NEW c, c.htlcs \in HtlcMaps, NEW I, NEW J, NEW I2, NEW J2,
           I \cap I2 = {}, J \cap J2 = {}, NEW s
    PROVE  Net(c, I \cup I2, J \cup J2, s) = Net(c, I, J, s) + Net(c, I2, J2, s)
  <1>1. /\ Brings(c, I \cup I2, s) = Brings(c, I, s) \cup Brings(c, I2, s)
        /\ Brings(c, I, s) \cap Brings(c, I2, s) = {}
    BY DEF Brings
  <1>2. /\ Drops(c, J \cup J2, s) = Drops(c, J, s) \cup Drops(c, J2, s)
        /\ Drops(c, J, s) \cap Drops(c, J2, s) = {}
    BY DEF Drops
  <1>3. /\ Brings(c, I, s) \subseteq DOMAIN c.htlcs /\ Brings(c, I2, s) \subseteq DOMAIN c.htlcs
        /\ Drops(c, J, s) \subseteq DOMAIN c.htlcs /\ Drops(c, J2, s) \subseteq DOMAIN c.htlcs
    BY DEF Brings, Drops
  <1> DEFINE a == SumAmounts(c, Brings(c, I, s))
             a2 == SumAmounts(c, Brings(c, I2, s))
             b == SumAmounts(c, Drops(c, J, s))
             b2 == SumAmounts(c, Drops(c, J2, s))
  <1>4. SumAmounts(c, Brings(c, I \cup I2, s)) = a + a2
    BY <1>1, <1>3, AmountsUnion
  <1>5. SumAmounts(c, Drops(c, J \cup J2, s)) = b + b2
    BY <1>2, <1>3, AmountsUnion
  <1>6. a \in Nat /\ a2 \in Nat /\ b \in Nat /\ b2 \in Nat
    BY NetType
  <1>7. /\ Net(c, I \cup I2, J \cup J2, s) = (b + b2) - (a + a2)
        /\ Net(c, I, J, s) = b - a /\ Net(c, I2, J2, s) = b2 - a2
    BY <1>4, <1>5 DEF Net
  <1> HIDE DEF a, a2, b, b2
  <1>8. QED
    BY <1>6, <1>7

(* No HTLC, no change. *)
LEMMA NetNone ==
    ASSUME NEW c, NEW I, NEW J, NEW s,
           \A h : h \in DOMAIN c.htlcs => Where(c, h) \notin I \cup J
    PROVE  Net(c, I, J, s) = 0
  <1>1. Brings(c, I, s) = {} /\ Drops(c, J, s) = {}
    BY DEF Brings, Drops
  <1>2. QED
    BY <1>1, AmountsNone DEF Net

(* An HTLC costs the side that offers it. *)
LEMMA NetSigns ==
    ASSUME NEW c, c.htlcs \in HtlcMaps, NEW I, NEW J
    PROVE  /\ I \subseteq 0..9 => Net(c, I, J, "remote") >= 0
           /\ I \subseteq 10..19 => Net(c, I, J, "local") >= 0
  <1>1. \A h \in DOMAIN c.htlcs : h[1] = htlc_state_owner(Where(c, h))
    BY WhereType
  <1>0. /\ \A i \in 0..9 : htlc_state_owner(i) # "remote"
        /\ \A i \in 10..19 : htlc_state_owner(i) # "local"
    BY DEF htlc_state_owner, RCVD_ADD_HTLC
  <1>2. I \subseteq 0..9 => Brings(c, I, "remote") = {}
    BY <1>0, <1>1 DEF Brings
  <1>3. I \subseteq 10..19 => Brings(c, I, "local") = {}
    BY <1>0, <1>1 DEF Brings
  <1>4. ASSUME NEW s, Brings(c, I, s) = {}
        PROVE  Net(c, I, J, s) >= 0
    <2> DEFINE b == SumAmounts(c, Drops(c, J, s))
    <2>1. b \in Nat /\ Net(c, I, J, s) = b - 0
      BY <1>4, NetType, AmountsNone DEF Net
    <2> HIDE DEF b
    <2>2. QED
      BY <2>1
  <1>5. QED
    BY <1>2, <1>3, <1>4

(* HTLCs that stay where they were. *)
LEMMA NetKept ==
    ASSUME NEW c, c.htlcs \in HtlcMaps, NEW c2, c2.htlcs \in HtlcMaps, NEW I, NEW J,
           I \cup J \subseteq 0..19,
           \A h : Where(c, h) \in I \cup J \/ Where(c2, h) \in I \cup J =>
                    /\ Where(c2, h) = Where(c, h)
                    /\ c2.htlcs[h].amount = c.htlcs[h].amount
                    /\ c2.htlcs[h].r = c.htlcs[h].r
    PROVE  \A s : Net(c2, I, J, s) = Net(c, I, J, s)
  <1> TAKE s
  <1>1. \A h : /\ h \in DOMAIN c.htlcs <=> Where(c, h) # NoHtlc
               /\ h \in DOMAIN c2.htlcs <=> Where(c2, h) # NoHtlc
    BY WhereType
  <1>2. NoHtlc \notin I \cup J
    BY DEF NoHtlc
  <1>3. \A h : h \in Brings(c2, I, s) <=> h \in Brings(c, I, s)
    BY <1>1, <1>2 DEF Brings
  <1>4. \A h : h \in Drops(c2, J, s) <=> h \in Drops(c, J, s)
    BY <1>1, <1>2 DEF Drops, Winner
  <1>5. /\ \A h \in Brings(c, I, s) : Amount(c2, h) = Amount(c, h)
        /\ \A h \in Drops(c, J, s) : Amount(c2, h) = Amount(c, h)
    BY DEF Brings, Drops, Amount
  <1>6. IsFiniteSet(Brings(c, I, s)) /\ IsFiniteSet(Drops(c, J, s))
    BY NetType
  <1>7. /\ SumAmounts(c2, Brings(c, I, s)) = SumAmounts(c, Brings(c, I, s))
        /\ SumAmounts(c2, Drops(c, J, s)) = SumAmounts(c, Drops(c, J, s))
    BY <1>5, <1>6, AmountsSame
  <1>8. Brings(c2, I, s) = Brings(c, I, s) /\ Drops(c2, J, s) = Drops(c, J, s)
    BY <1>3, <1>4
  <1>9. QED
    BY <1>7, <1>8 DEF Net

(* An HTLC put elsewhere does not count. *)
LEMMA NetPut ==
    ASSUME NEW c, c.htlcs \in HtlcMaps, NEW c2, c2.htlcs \in HtlcMaps, NEW h, NEW i,
           Put(c, c2, h, i), NEW I, NEW J, I \cup J \subseteq 0..19,
           i \notin I \cup J, Where(c, h) \notin I \cup J
    PROVE  \A s : Net(c2, I, J, s) = Net(c, I, J, s)
  <1>1. \A g : g \in DOMAIN c.htlcs <=> Where(c, g) # NoHtlc
    BY WhereType
  <1>2. NoHtlc \notin I \cup J
    BY DEF NoHtlc
  <1>3. \A g : Where(c, g) \in I \cup J \/ Where(c2, g) \in I \cup J =>
                    /\ Where(c2, g) = Where(c, g)
                    /\ c2.htlcs[g].amount = c.htlcs[g].amount
                    /\ c2.htlcs[g].r = c.htlcs[g].r
    BY <1>1, <1>2 DEF Put
  <1>4. QED
    BY <1>3, NetKept

(* A removal pays one side or the other. *)
LEMMA NetPays ==
    ASSUME NEW c, c.htlcs \in HtlcMaps, NEW c2, c2.htlcs \in HtlcMaps, NEW h, NEW j,
           Put(c, c2, h, j), NEW I, j \in 0..19, j \notin I, I \subseteq 0..19,
           h \in DOMAIN c.htlcs, Where(c, h) \notin I \cup {j}
    PROVE  \A s : Net(c2, I, {j}, s) >= Net(c, I, {j}, s)
  <1> TAKE s
  <1>1. \A g : /\ g \in DOMAIN c.htlcs <=> Where(c, g) # NoHtlc
               /\ g \in DOMAIN c2.htlcs <=> Where(c2, g) # NoHtlc
    BY WhereType
  <1>2. NoHtlc \notin I \cup {j}
    BY DEF NoHtlc
  <1>3. Brings(c2, I, s) = Brings(c, I, s)
    <2>1. \A g : g \in Brings(c2, I, s) <=> g \in Brings(c, I, s)
      BY <1>1, <1>2 DEF Brings, Put
    <2>2. QED
      BY <2>1
  <1>4. Drops(c, {j}, s) \subseteq Drops(c2, {j}, s)
    BY <1>1, <1>2 DEF Drops, Put, Winner
  <1> DEFINE D == Drops(c, {j}, s)
             E == Drops(c2, {j}, s) \ D
             G == Brings(c, I, s)
  <1>5. /\ \A g \in G : Amount(c2, g) = Amount(c, g)
        /\ \A g \in D : Amount(c2, g) = Amount(c, g)
    BY DEF Brings, Drops, Amount, Put
  <1>6. IsFiniteSet(G) /\ IsFiniteSet(D)
    BY NetType
  <1> HIDE DEF D, G
  <1>7. SumAmounts(c2, G) = SumAmounts(c, G) /\ SumAmounts(c2, D) = SumAmounts(c, D)
    BY <1>5, <1>6, AmountsSame
  <1>8. /\ Drops(c2, {j}, s) = D \cup E /\ D \cap E = {}
        /\ D \subseteq DOMAIN c2.htlcs /\ E \subseteq DOMAIN c2.htlcs
    BY <1>4 DEF Drops, D
  <1> HIDE DEF E
  <1>9. SumAmounts(c2, Drops(c2, {j}, s)) = SumAmounts(c2, D) + SumAmounts(c2, E)
    BY <1>8, AmountsUnion
  <1>10. SumAmounts(c2, D) \in Nat /\ SumAmounts(c2, E) \in Nat
    BY <1>8, AmountsType
  <1>11. SumAmounts(c, G) \in Nat
    BY NetType DEF G
  <1> DEFINE b == SumAmounts(c, G)
             d == SumAmounts(c2, D)
             e == SumAmounts(c2, E)
  <1>12. Net(c2, I, {j}, s) = (d + e) - b /\ Net(c, I, {j}, s) = d - b
    BY <1>3, <1>7, <1>9 DEF Net, G, D
  <1> HIDE DEF b, d, e
  <1>13. b \in Nat /\ d \in Nat /\ e \in Nat
    BY <1>10, <1>11 DEF b, d, e
  <1>14. QED
    BY <1>12, <1>13

-----------------------------------------------------------------------------
(* No balance goes below zero.  What the updates under way are worth to a   *)
(* side: ours that no commitment has, those we have signed for, those that  *)
(* the peer has acknowledged; the peer's that no commitment has, and those  *)
(* that our commitment has and the peer's has not.                          *)
NewOurs(c, s) == Net(c, {0}, {15}, s)
SentOurs(c, s) == Net(c, {1}, {16}, s)
AckedOurs(c, s) == Net(c, {2}, {17}, s)
NewTheirs(c, s) == Net(c, {10}, {5}, s)
AckedTheirs(c, s) == Net(c, {12}, {7}, s)

(* What a side has when just what both nodes have acknowledged is counted. *)
Base(c, s) == c.owed["local"][s] + AckedOurs(c, s)

(* Neither view, nor what both have acknowledged, is below zero, and a side *)
(* can pay for all that it has offered.  The two views differ by what one   *)
(* of them has yet to take in.                                              *)
Solvent(c) ==
    /\ \A v, s \in Sides : c.owed[v][s] >= 0
    /\ \A s \in Sides :
         /\ Base(c, s) >= 0
         /\ Base(c, s) + SentOurs(c, s) = c.owed["remote"][s] + AckedTheirs(c, s)
    /\ Base(c, "remote") + NewTheirs(c, "remote") >= 0
    /\ c.owed["remote"]["local"] + AckedTheirs(c, "local") + NewOurs(c, "local") >= 0

(* These are integers, and what a side does not pay for is not negative. *)
LEMMA WorthType ==
    ASSUME NEW c, GoodChan(c)
    PROVE  /\ \A s \in Sides : /\ c.owed["local"][s] \in Int /\ c.owed["remote"][s] \in Int
                               /\ NewOurs(c, s) \in Int /\ SentOurs(c, s) \in Int
                               /\ AckedOurs(c, s) \in Int /\ NewTheirs(c, s) \in Int
                               /\ AckedTheirs(c, s) \in Int
           /\ NewOurs(c, "remote") >= 0 /\ SentOurs(c, "remote") >= 0
           /\ NewTheirs(c, "local") >= 0 /\ AckedTheirs(c, "local") >= 0
           /\ "local" \in Sides /\ "remote" \in Sides
  <1>1. c.htlcs \in HtlcMaps /\ c.owed \in Balances
    BY DEF GoodChan, ChanRecs
  <1>2. "local" \in Sides /\ "remote" \in Sides
    BY DEF Sides
  <1>3. \A s \in Sides : c.owed["local"][s] \in Int /\ c.owed["remote"][s] \in Int
    BY <1>1, <1>2 DEF Balances
  <1>4. \A I, J, s : Net(c, I, J, s) \in Int
    BY <1>1, NetType
  <1>5. /\ {0} \subseteq 0..9 /\ {1} \subseteq 0..9 /\ {10} \subseteq 10..19
        /\ {12} \subseteq 10..19
    OBVIOUS
  <1>6. /\ NewOurs(c, "remote") >= 0 /\ SentOurs(c, "remote") >= 0
        /\ NewTheirs(c, "local") >= 0 /\ AckedTheirs(c, "local") >= 0
    BY <1>1, <1>5, NetSigns DEF NewOurs, SentOurs, NewTheirs, AckedTheirs
  <1>7. QED
    BY <1>2, <1>3, <1>4, <1>6 DEF NewOurs, SentOurs, AckedOurs, NewTheirs, AckedTheirs

(* send_commit() counts all that the peer's next commitment will have. *)
LEMMA SolventSent ==
    ASSUME NEW c, GoodChan(c), Solvent(c), NEW c2, GoodChan(c2),
           \A s \in Sides :
             /\ c2.owed["local"][s] = c.owed["local"][s]
             /\ c2.owed["remote"][s] = c.owed["remote"][s] + (AckedTheirs(c, s) + NewOurs(c, s))
             /\ SentOurs(c, s) = 0 /\ SentOurs(c2, s) = NewOurs(c, s)
             /\ NewOurs(c2, s) = 0 /\ AckedTheirs(c2, s) = 0
             /\ AckedOurs(c2, s) = AckedOurs(c, s) /\ NewTheirs(c2, s) = NewTheirs(c, s)
    PROVE  Solvent(c2)
  <1>1. "local" \in Sides /\ "remote" \in Sides
    BY DEF Sides
  <1>2. ASSUME NEW s \in Sides
        PROVE  /\ c2.owed["local"][s] >= 0 /\ c2.owed["remote"][s] >= 0 /\ Base(c2, s) >= 0
               /\ Base(c2, s) + SentOurs(c2, s) = c2.owed["remote"][s] + AckedTheirs(c2, s)
               /\ Base(c2, s) = Base(c, s)
    <2>1. Base(c2, s) = Base(c, s)
      BY DEF Base
    <2>2. c2.owed["local"][s] >= 0
      BY <1>1 DEF Solvent
    <2> DEFINE r == c.owed["remote"][s]
               t == AckedTheirs(c, s)
               o == NewOurs(c, s)
               b == Base(c, s)
    <2>3. r \in Int /\ t \in Int /\ o \in Int /\ b \in Int
      BY WorthType DEF Base
    <2>4. b + 0 = r + t /\ r >= 0 /\ b >= 0
      BY <1>1 DEF Solvent
    <2>5. s = "remote" => o >= 0
      BY WorthType
    <2>6. s = "local" => r + t + o >= 0
      BY DEF Solvent
    <2>7. s = "local" \/ s = "remote"
      BY DEF Sides
    <2>8. /\ c2.owed["remote"][s] = r + (t + o) /\ Base(c2, s) = b
          /\ SentOurs(c2, s) = o /\ AckedTheirs(c2, s) = 0
      BY <2>1
    <2> HIDE DEF r, t, o, b
    <2>9. r + (t + o) >= 0 /\ b + o = (r + (t + o)) + 0
      BY <2>3, <2>4, <2>5, <2>6, <2>7
    <2>10. QED
      BY <2>1, <2>2, <2>4, <2>8, <2>9
  <1>3. Base(c2, "remote") + NewTheirs(c2, "remote") >= 0
    BY <1>1, <1>2 DEF Solvent
  <1>4. c2.owed["remote"]["local"] + AckedTheirs(c2, "local") + NewOurs(c2, "local") >= 0
    <2>1. /\ c2.owed["remote"]["local"] \in Int /\ AckedTheirs(c2, "local") = 0
          /\ NewOurs(c2, "local") = 0 /\ c2.owed["remote"]["local"] >= 0
      BY <1>1, <1>2, WorthType
    <2> DEFINE r == c2.owed["remote"]["local"]
    <2> HIDE DEF r
    <2>2. r \in Int /\ r >= 0 => r + 0 + 0 >= 0
      OBVIOUS
    <2>3. QED
      BY <2>1, <2>2 DEF r
  <1>5. \A v, s \in Sides : c2.owed[v][s] >= 0
    BY <1>2 DEF Sides
  <1>6. QED
    BY <1>2, <1>3, <1>4, <1>5 DEF Solvent

(* handle_peer_revoke_and_ack() has what we signed acknowledged. *)
LEMMA SolventAcked ==
    ASSUME NEW c, GoodChan(c), Solvent(c), NEW c2, GoodChan(c2), c2.owed = c.owed,
           \A s \in Sides :
             /\ AckedOurs(c2, s) = AckedOurs(c, s) + SentOurs(c, s) /\ SentOurs(c2, s) = 0
             /\ NewOurs(c2, s) = NewOurs(c, s) /\ AckedTheirs(c2, s) = AckedTheirs(c, s)
             /\ NewTheirs(c2, s) = NewTheirs(c, s)
    PROVE  Solvent(c2)
  <1>1. "local" \in Sides /\ "remote" \in Sides
    BY DEF Sides
  <1>2. ASSUME NEW s \in Sides
        PROVE  /\ Base(c2, s) >= 0 /\ Base(c2, s) = Base(c, s) + SentOurs(c, s)
               /\ Base(c2, s) + SentOurs(c2, s) = c2.owed["remote"][s] + AckedTheirs(c2, s)
    <2> DEFINE l == c.owed["local"][s]
               r == c.owed["remote"][s]
               t == AckedTheirs(c, s)
               a == AckedOurs(c, s)
               o == SentOurs(c, s)
    <2>1. l \in Int /\ r \in Int /\ t \in Int /\ a \in Int /\ o \in Int
      BY WorthType
    <2>2. (l + a) + o = r + t /\ r >= 0 /\ l + a >= 0
      BY <1>1 DEF Solvent, Base
    <2>3. /\ s = "remote" => o >= 0
          /\ s = "local" => t >= 0
          /\ s = "local" \/ s = "remote"
      BY WorthType DEF Sides
    <2>4. /\ c2.owed["remote"][s] = r /\ Base(c2, s) = l + (a + o) /\ Base(c, s) = l + a
          /\ SentOurs(c2, s) = 0 /\ AckedTheirs(c2, s) = t /\ SentOurs(c, s) = o
      BY DEF Base
    <2> HIDE DEF l, r, t, a, o
    <2>5. l + (a + o) >= 0 /\ l + (a + o) = (l + a) + o /\ (l + (a + o)) + 0 = r + t
      BY <2>1, <2>2, <2>3
    <2>6. QED
      BY <2>4, <2>5
  <1>3. Base(c2, "remote") + NewTheirs(c2, "remote") >= 0
    <2> DEFINE b == Base(c, "remote")
               t == NewTheirs(c, "remote")
               o == SentOurs(c, "remote")
    <2>1. b \in Int /\ t \in Int /\ o \in Int /\ o >= 0 /\ b + t >= 0
      BY <1>1, WorthType DEF Base, Solvent
    <2>2. Base(c2, "remote") = b + o /\ NewTheirs(c2, "remote") = t
      BY <1>1, <1>2
    <2> HIDE DEF b, t, o
    <2>3. b + o + t >= 0
      BY <2>1
    <2>4. QED
      BY <2>2, <2>3
  <1>4. c2.owed["remote"]["local"] + AckedTheirs(c2, "local") + NewOurs(c2, "local") >= 0
    BY <1>1 DEF Solvent
  <1>5. QED
    BY <1>2, <1>3, <1>4 DEF Solvent

(* handle_peer_commit_sig() counts all that our next commitment will have. *)
LEMMA SolventTook ==
    ASSUME NEW c, GoodChan(c), Solvent(c), NEW c2, GoodChan(c2),
           \A s \in Sides :
             /\ c2.owed["local"][s] = c.owed["local"][s] + (AckedOurs(c, s) + NewTheirs(c, s))
             /\ c2.owed["remote"][s] = c.owed["remote"][s]
             /\ AckedOurs(c2, s) = 0 /\ NewTheirs(c2, s) = 0
             /\ AckedTheirs(c2, s) = AckedTheirs(c, s) + NewTheirs(c, s)
             /\ SentOurs(c2, s) = SentOurs(c, s) /\ NewOurs(c2, s) = NewOurs(c, s)
    PROVE  Solvent(c2)
  <1>1. "local" \in Sides /\ "remote" \in Sides
    BY DEF Sides
  <1>2. ASSUME NEW s \in Sides
        PROVE  /\ c2.owed["local"][s] >= 0 /\ c2.owed["remote"][s] >= 0 /\ Base(c2, s) >= 0
               /\ Base(c2, s) + SentOurs(c2, s) = c2.owed["remote"][s] + AckedTheirs(c2, s)
    <2> DEFINE l == c.owed["local"][s]
               r == c.owed["remote"][s]
               t == AckedTheirs(c, s)
               p == NewTheirs(c, s)
               a == AckedOurs(c, s)
               o == SentOurs(c, s)
    <2>1. l \in Int /\ r \in Int /\ t \in Int /\ a \in Int /\ o \in Int /\ p \in Int
      BY WorthType
    <2>2. (l + a) + o = r + t /\ r >= 0 /\ l + a >= 0
      BY <1>1 DEF Solvent, Base
    <2>3. /\ s = "remote" => (l + a) + p >= 0
          /\ s = "local" => p >= 0
          /\ s = "local" \/ s = "remote"
      BY WorthType DEF Sides, Solvent, Base
    <2>4. /\ c2.owed["local"][s] = l + (a + p) /\ c2.owed["remote"][s] = r
          /\ Base(c2, s) = l + (a + p) + 0
          /\ SentOurs(c2, s) = o /\ AckedTheirs(c2, s) = t + p
      BY DEF Base
    <2> HIDE DEF l, r, t, p, a, o
    <2>5. l + (a + p) >= 0 /\ l + (a + p) + 0 >= 0 /\ (l + (a + p) + 0) + o = r + (t + p)
      BY <2>1, <2>2, <2>3
    <2>6. QED
      BY <2>2, <2>4, <2>5
  <1>3. Base(c2, "remote") + NewTheirs(c2, "remote") >= 0
    <2> DEFINE b == Base(c2, "remote")
    <2>1. b \in Int /\ b >= 0 /\ NewTheirs(c2, "remote") = 0
      BY <1>1, <1>2, WorthType DEF Base
    <2> HIDE DEF b
    <2>2. b + 0 >= 0
      BY <2>1
    <2>3. QED
      BY <2>1, <2>2 DEF b
  <1>4. c2.owed["remote"]["local"] + AckedTheirs(c2, "local") + NewOurs(c2, "local") >= 0
    <2> DEFINE r == c.owed["remote"]["local"]
               t == AckedTheirs(c, "local")
               p == NewTheirs(c, "local")
               o == NewOurs(c, "local")
    <2>1. r \in Int /\ t \in Int /\ p \in Int /\ o \in Int /\ p >= 0 /\ r + t + o >= 0
      BY <1>1, WorthType DEF Solvent
    <2>2. /\ c2.owed["remote"]["local"] = r /\ AckedTheirs(c2, "local") = t + p
          /\ NewOurs(c2, "local") = o
      BY <1>1
    <2> HIDE DEF r, t, p, o
    <2>3. r + (t + p) + o >= 0
      BY <2>1
    <2>4. QED
      BY <2>2, <2>3
  <1>5. \A v, s \in Sides : c2.owed[v][s] >= 0
    BY <1>2 DEF Sides
  <1>6. QED
    BY <1>2, <1>3, <1>4, <1>5 DEF Solvent

(* What the next commitment on either side will bring. *)
LEMMA NextWorth ==
    ASSUME NEW c, GoodChan(c), NEW s
    PROVE  /\ Net(c, {0, 12}, {7, 15}, s) = AckedTheirs(c, s) + NewOurs(c, s)
           /\ Net(c, {2, 10}, {5, 17}, s) = AckedOurs(c, s) + NewTheirs(c, s)
  <1>1. c.htlcs \in HtlcMaps
    BY DEF GoodChan, ChanRecs
  <1>2. /\ {12} \cup {0} = {0, 12} /\ {7} \cup {15} = {7, 15}
        /\ {2} \cup {10} = {2, 10} /\ {17} \cup {5} = {5, 17}
    OBVIOUS
  <1>3. {12} \cap {0} = {} /\ {7} \cap {15} = {} /\ {2} \cap {10} = {} /\ {17} \cap {5} = {}
    OBVIOUS
  <1>4. Net(c, {12} \cup {0}, {7} \cup {15}, s) = Net(c, {12}, {7}, s) + Net(c, {0}, {15}, s)
    BY <1>1, <1>3, NetSplit
  <1>5. Net(c, {2} \cup {10}, {17} \cup {5}, s) = Net(c, {2}, {17}, s) + Net(c, {10}, {5}, s)
    BY <1>1, <1>3, NetSplit
  <1>6. QED
    BY <1>2, <1>4, <1>5 DEF AckedTheirs, NewOurs, AckedOurs, NewTheirs

(* balance_after(): what add_htlc() compares with the reserve. *)
LEMMA BalanceAfter ==
    ASSUME NEW c, GoodChan(c), NEW s \in Sides
    PROVE  /\ balance_after(c, "remote", s)
                = c.owed["remote"][s] + (AckedTheirs(c, s) + NewOurs(c, s))
           /\ balance_after(c, "local", s)
                = c.owed["local"][s] + (AckedOurs(c, s) + NewTheirs(c, s))
  <1>1. c \in ChanRecs /\ c.htlcs \in HtlcMaps /\ "local" \in Sides /\ "remote" \in Sides
    BY DEF GoodChan, ChanRecs, Sides
  <1>2. \A h \in DOMAIN c.htlcs : Where(c, h) = State(c, h)
    BY DEF Where, State
  <1>3. /\ \A h : h \in adding(c, "remote") <=> h \in DOMAIN c.htlcs /\ Where(c, h) \in {0, 12}
        /\ \A h : h \in removing(c, "remote") <=> h \in DOMAIN c.htlcs /\ Where(c, h) \in {7, 15}
    <2>1. /\ \A i : i \in Pending("remote") /\ i \in Committed("remote") <=> i \in {7, 15}
          /\ \A i : i \in Pending("remote") /\ i \notin Committed("remote") <=> i \in {0, 12}
      BY DEF Pending, Committed
    <2>2. QED
      BY <1>2, <2>1 DEF adding, removing, committed
  <1>4. /\ \A h : h \in adding(c, "local") <=> h \in DOMAIN c.htlcs /\ Where(c, h) \in {2, 10}
        /\ \A h : h \in removing(c, "local") <=> h \in DOMAIN c.htlcs /\ Where(c, h) \in {5, 17}
    <2>1. /\ \A i : i \in Pending("local") /\ i \in Committed("local") <=> i \in {5, 17}
          /\ \A i : i \in Pending("local") /\ i \notin Committed("local") <=> i \in {2, 10}
      BY DEF Pending, Committed
    <2>2. QED
      BY <1>2, <2>1 DEF adding, removing, committed
  <1>5. ASSUME NEW v \in Sides
        PROVE  /\ balance_after(c, v, s) = c.owed[v][s] + add_delta(c, adding(c, v), s)
                                             + remove_delta(c, removing(c, v), s)
    <2>1. adding(c, v) \subseteq DOMAIN c.htlcs /\ removing(c, v) \subseteq DOMAIN c.htlcs
      BY DEF adding, removing, committed
    <2> DEFINE a == SumAmounts(c, {h \in adding(c, v) : h[1] = s})
               b == SumAmounts(c, {h \in removing(c, v) :
                                     s = IF c.htlcs[h].r = "fulfill" THEN Other(h[1]) ELSE h[1]})
               o == c.owed[v][s]
    <2>2. a \in Nat /\ b \in Nat
      <3>1. /\ {h \in adding(c, v) : h[1] = s} \subseteq DOMAIN c.htlcs
            /\ {h \in removing(c, v) :
                  s = IF c.htlcs[h].r = "fulfill" THEN Other(h[1]) ELSE h[1]} \subseteq DOMAIN c.htlcs
        BY <2>1
      <3>2. QED
        BY <1>1, <3>1, AmountsType
    <2>3. o \in Int
      BY <1>1 DEF ChanRecs, Balances
    <2>4. /\ add_delta(c, adding(c, v), s) = -a /\ remove_delta(c, removing(c, v), s) = b
          /\ balance_after(c, v, s) = o + remove_delta(c, removing(c, v), s)
                                        + add_delta(c, adding(c, v), s)
      BY DEF add_delta, remove_delta, balance_after
    <2> HIDE DEF a, b, o
    <2>5. o + b + (-a) = o + (-a) + b
      BY <2>2, <2>3
    <2>6. QED
      BY <2>4, <2>5 DEF o
  <1>6. balance_after(c, "remote", s) = c.owed["remote"][s] + Net(c, {0, 12}, {7, 15}, s)
    <2>1. ASSUME NEW E, NEW L, NEW f, "remote" \in Sides, c \in ChanRecs,
                 \A h : h \in E <=> h \in DOMAIN c.htlcs /\ Where(c, h) \in {0, 12},
                 \A h : h \in L <=> h \in DOMAIN c.htlcs /\ Where(c, h) \in {7, 15},
                 f = c.owed["remote"][s] + add_delta(c, E, s) + remove_delta(c, L, s)
          PROVE  f = c.owed["remote"][s] + Net(c, {0, 12}, {7, 15}, s)
      BY <2>1, DeltaIs
    <2> DEFINE b == balance_after(c, "remote", s)
               E == adding(c, "remote")
               L == removing(c, "remote")
    <2>2. b = c.owed["remote"][s] + add_delta(c, E, s) + remove_delta(c, L, s)
      BY <1>1, <1>5
    <2>3. /\ \A h : h \in E <=> h \in DOMAIN c.htlcs /\ Where(c, h) \in {0, 12}
          /\ \A h : h \in L <=> h \in DOMAIN c.htlcs /\ Where(c, h) \in {7, 15}
      BY <1>3
    <2> HIDE DEF b, E, L
    <2>4. b = c.owed["remote"][s] + Net(c, {0, 12}, {7, 15}, s)
      BY <1>1, <2>1, <2>2, <2>3
    <2>5. QED
      BY <2>4 DEF b
  <1>7. balance_after(c, "local", s) = c.owed["local"][s] + Net(c, {2, 10}, {5, 17}, s)
    <2>1. ASSUME NEW E, NEW L, NEW f, "local" \in Sides, c \in ChanRecs,
                 \A h : h \in E <=> h \in DOMAIN c.htlcs /\ Where(c, h) \in {2, 10},
                 \A h : h \in L <=> h \in DOMAIN c.htlcs /\ Where(c, h) \in {5, 17},
                 f = c.owed["local"][s] + add_delta(c, E, s) + remove_delta(c, L, s)
          PROVE  f = c.owed["local"][s] + Net(c, {2, 10}, {5, 17}, s)
      BY <2>1, DeltaIs
    <2> DEFINE b == balance_after(c, "local", s)
               E == adding(c, "local")
               L == removing(c, "local")
    <2>2. b = c.owed["local"][s] + add_delta(c, E, s) + remove_delta(c, L, s)
      BY <1>1, <1>5
    <2>3. /\ \A h : h \in E <=> h \in DOMAIN c.htlcs /\ Where(c, h) \in {2, 10}
          /\ \A h : h \in L <=> h \in DOMAIN c.htlcs /\ Where(c, h) \in {5, 17}
      BY <1>4
    <2> HIDE DEF b, E, L
    <2>4. b = c.owed["local"][s] + Net(c, {2, 10}, {5, 17}, s)
      BY <1>1, <2>1, <2>2, <2>3
    <2>5. QED
      BY <2>4 DEF b
  <1>8. QED
    BY <1>6, <1>7, NextWorth

(* An update leaves what is acknowledged. *)
LEMMA SolventStays ==
    ASSUME NEW c, Solvent(c), NEW c2, c2.owed = c.owed,
           \A s \in Sides :
             /\ AckedOurs(c2, s) = AckedOurs(c, s) /\ SentOurs(c2, s) = SentOurs(c, s)
             /\ AckedTheirs(c2, s) = AckedTheirs(c, s),
           Base(c2, "remote") + NewTheirs(c2, "remote") >= 0,
           c2.owed["remote"]["local"] + AckedTheirs(c2, "local") + NewOurs(c2, "local") >= 0
    PROVE  Solvent(c2)
  BY DEF Solvent, Base

(* An HTLC is put into a state in which no commitment has the update. *)
LEMMA WorthPut ==
    ASSUME NEW c, GoodChan(c), NEW c2, GoodChan(c2), NEW h, NEW i, Put(c, c2, h, i),
           i \in {0, 5, 10, 15}, Where(c, h) \in {4, 14, NoHtlc}, NEW s
    PROVE  /\ AckedOurs(c2, s) = AckedOurs(c, s) /\ SentOurs(c2, s) = SentOurs(c, s)
           /\ AckedTheirs(c2, s) = AckedTheirs(c, s)
           /\ i \notin {0, 15} => NewOurs(c2, s) = NewOurs(c, s)
           /\ i \notin {5, 10} => NewTheirs(c2, s) = NewTheirs(c, s)
           /\ i = 15 /\ h \in DOMAIN c.htlcs => NewOurs(c2, s) >= NewOurs(c, s)
           /\ i = 5 /\ h \in DOMAIN c.htlcs => NewTheirs(c2, s) >= NewTheirs(c, s)
  <1>1. c.htlcs \in HtlcMaps /\ c2.htlcs \in HtlcMaps
    BY DEF GoodChan, ChanRecs
  <1>2. ASSUME NEW a \in 0..19, NEW b \in 0..19, a \notin {4, 14}, b \notin {4, 14}, i \notin {a, b}
        PROVE  Net(c2, {a}, {b}, s) = Net(c, {a}, {b}, s)
    <2> DEFINE I == {a}
               J == {b}
    <2>1. /\ I \cup J \subseteq 0..19 /\ i \notin I \cup J
          /\ Where(c, h) \notin I \cup J
      BY <1>2 DEF NoHtlc
    <2> HIDE DEF I, J
    <2>2. Net(c2, I, J, s) = Net(c, I, J, s)
      BY <1>1, <2>1, NetPut
    <2>3. QED
      BY <2>2 DEF I, J
  <1>3. /\ AckedOurs(c2, s) = AckedOurs(c, s) /\ SentOurs(c2, s) = SentOurs(c, s)
        /\ AckedTheirs(c2, s) = AckedTheirs(c, s)
    BY <1>2 DEF AckedOurs, SentOurs, AckedTheirs
  <1>4. i \notin {0, 15} => NewOurs(c2, s) = NewOurs(c, s)
    BY <1>2 DEF NewOurs
  <1>5. i \notin {5, 10} => NewTheirs(c2, s) = NewTheirs(c, s)
    BY <1>2 DEF NewTheirs
  <1>6. ASSUME i = 15, h \in DOMAIN c.htlcs
        PROVE  NewOurs(c2, s) >= NewOurs(c, s)
    <2>1. /\ Put(c, c2, h, 15) /\ 15 \in 0..19 /\ 15 \notin {0} /\ {0} \subseteq 0..19
          /\ Where(c, h) \notin {0} \cup {15}
      BY <1>6 DEF NoHtlc
    <2>2. QED
      BY <1>1, <1>6, <2>1, NetPays DEF NewOurs
  <1>7. ASSUME i = 5, h \in DOMAIN c.htlcs
        PROVE  NewTheirs(c2, s) >= NewTheirs(c, s)
    <2>1. /\ Put(c, c2, h, 5) /\ 5 \in 0..19 /\ 5 \notin {10} /\ {10} \subseteq 0..19
          /\ Where(c, h) \notin {10} \cup {5}
      BY <1>7 DEF NoHtlc
    <2>2. QED
      BY <1>1, <1>7, <2>1, NetPays DEF NewTheirs
  <1>8. QED
    BY <1>3, <1>4, <1>5, <1>6, <1>7

(* send_commit() leaves a solvent channel. *)
LEMMA SolventSends ==
    ASSUME NEW n \in Nodes, NEW x, NodeType(n, x), Last(x), Solvent(x.c),
           NEW y, NodeType(n, y), NEW out, SendsCommit(n, x, y, out)
    PROVE  Solvent(y.c)
  <1>1. /\ \A h : Where(y.c, h) = Sent(Where(x.c, h))
        /\ SameHtlcs(x.c, y.c)
    BY CommitMoves
  <1>2. PICK c1 : Commits(n, x, y, out, c1)
    BY SentCommit
  <1>3. /\ GoodChan(c1) /\ c1.htlcs = x.c.htlcs /\ c1.owed = x.c.owed
        /\ y.c = channel_sending_commit(c1)
    BY <1>2 DEF Commits
  <1> DEFINE c == x.c
             c2 == y.c
  <1>4. GoodChan(c) /\ GoodChan(c2) /\ c.htlcs \in HtlcMaps /\ c2.htlcs \in HtlcMaps
    BY DEF NodeType, GoodChan, ChanRecs
  <1>5. \A h : Where(c, h) \notin {1, 8, 13, 16}
    BY DEF Last, SendsCommit
  <1>6. \A h : /\ h \in DOMAIN c.htlcs <=> Where(c, h) # NoHtlc
               /\ h \in DOMAIN c2.htlcs <=> Where(c2, h) # NoHtlc
    BY <1>4, WhereType
  <1>7. /\ c2.owed["local"] = c.owed["local"]
        /\ \A s \in Sides : c2.owed["remote"][s] = c.owed["remote"][s]
                                                     + Net(c1, {0, 12}, {7, 15}, s)
    BY <1>3, OwedStays, OwedMoves
  <1>8. \A h : Where(c2, h) = Sent(Where(c, h))
    BY <1>1
  <1>9. SameHtlcs(c, c2) /\ Solvent(c)
    BY <1>1
  <1>10. \A s : Net(c1, {0, 12}, {7, 15}, s) = Net(c, {0, 12}, {7, 15}, s)
    <2>1. \A h : Where(c1, h) = Where(c, h)
      BY <1>3 DEF Where
    <2>2. SameHtlcs(c, c1) /\ c1.htlcs \in HtlcMaps
      BY <1>3, <1>4 DEF SameHtlcs
    <2>3. QED
      BY <1>3, <1>4, <2>1, <2>2, NetSame
  <1> HIDE DEF c, c2
  <1>11. ASSUME NEW s \in Sides
         PROVE  /\ SentOurs(c, s) = 0 /\ SentOurs(c2, s) = NewOurs(c, s)
                /\ NewOurs(c2, s) = 0 /\ AckedTheirs(c2, s) = 0
                /\ AckedOurs(c2, s) = AckedOurs(c, s) /\ NewTheirs(c2, s) = NewTheirs(c, s)
    <2>1. SentOurs(c, s) = 0
      BY <1>5, NetNone DEF SentOurs
    <2>2. \A h : h \in DOMAIN c2.htlcs => Where(c2, h) \notin {0, 15, 12, 7}
      BY <1>8 DEF Sent
    <2>3. NewOurs(c2, s) = 0 /\ AckedTheirs(c2, s) = 0
      BY <2>2, NetNone DEF NewOurs, AckedTheirs
    <2>4. SentOurs(c2, s) = NewOurs(c, s)
      <3>1. /\ \A h : h \in DOMAIN c2.htlcs /\ Where(c2, h) \in {1} <=>
                      h \in DOMAIN c.htlcs /\ Where(c, h) \in {0}
            /\ \A h : h \in DOMAIN c2.htlcs /\ Where(c2, h) \in {16} <=>
                      h \in DOMAIN c.htlcs /\ Where(c, h) \in {15}
        BY <1>5, <1>6, <1>8 DEF Sent, NoHtlc
      <3>2. QED
        BY <1>4, <1>9, <3>1, NetSame DEF SentOurs, NewOurs
    <2>5. AckedOurs(c2, s) = AckedOurs(c, s)
      <3>1. /\ \A h : h \in DOMAIN c2.htlcs /\ Where(c2, h) \in {2} <=>
                      h \in DOMAIN c.htlcs /\ Where(c, h) \in {2}
            /\ \A h : h \in DOMAIN c2.htlcs /\ Where(c2, h) \in {17} <=>
                      h \in DOMAIN c.htlcs /\ Where(c, h) \in {17}
        BY <1>5, <1>6, <1>8 DEF Sent, NoHtlc
      <3>2. QED
        BY <1>4, <1>9, <3>1, NetSame DEF AckedOurs
    <2>6. NewTheirs(c2, s) = NewTheirs(c, s)
      <3>1. /\ \A h : h \in DOMAIN c2.htlcs /\ Where(c2, h) \in {10} <=>
                      h \in DOMAIN c.htlcs /\ Where(c, h) \in {10}
            /\ \A h : h \in DOMAIN c2.htlcs /\ Where(c2, h) \in {5} <=>
                      h \in DOMAIN c.htlcs /\ Where(c, h) \in {5}
        BY <1>5, <1>6, <1>8 DEF Sent, NoHtlc
      <3>2. QED
        BY <1>4, <1>9, <3>1, NetSame DEF NewTheirs
    <2>7. QED
      BY <2>1, <2>3, <2>4, <2>5, <2>6
  <1>12. \A s \in Sides : /\ c2.owed["local"][s] = c.owed["local"][s]
                          /\ c2.owed["remote"][s] = c.owed["remote"][s]
                                                     + (AckedTheirs(c, s) + NewOurs(c, s))
    <2>1. \A s : Net(c, {0, 12}, {7, 15}, s) = AckedTheirs(c, s) + NewOurs(c, s)
      BY <1>4, NextWorth
    <2>2. QED
      BY <1>7, <1>10, <2>1
  <1>13. Solvent(c2)
    BY <1>4, <1>9, <1>11, <1>12, SolventSent
  <1>14. QED
    BY <1>13 DEF c2

(* So does handle_peer_revoke_and_ack(). *)
LEMMA SolventAcks ==
    ASSUME NEW n \in Nodes, NEW x, NodeType(n, x), Solvent(x.c),
           NEW y, NodeType(n, y), NEW out, GotRevoke(n, x, y, out)
    PROVE  Solvent(y.c)
  <1> DEFINE c == x.c
             c2 == y.c
  <1>1. /\ \A h : Where(c2, h) = Acked(Where(c, h))
        /\ SameHtlcs(c, c2) /\ Solvent(c)
    BY AckMoves
  <1>2. GoodChan(c) /\ GoodChan(c2) /\ c.htlcs \in HtlcMaps /\ c2.htlcs \in HtlcMaps
        /\ c.owed \in Balances /\ c2.owed \in Balances
    BY DEF NodeType, GoodChan, ChanRecs
  <1>3. c2 = channel_rcvd_revoke_and_ack(c)
    BY DEF GotRevoke
  <1>4. \A h : /\ h \in DOMAIN c.htlcs <=> Where(c, h) # NoHtlc
               /\ h \in DOMAIN c2.htlcs <=> Where(c2, h) # NoHtlc
    BY <1>2, WhereType
  <1> HIDE DEF c, c2
  <1>5. c2.owed = c.owed
    <2>1. /\ \A s \in Sides : c2.owed["local"][s] = c.owed["local"][s]
          /\ c2.owed["remote"] = c.owed["remote"]
      BY <1>2, <1>3, OwedMoves, OwedStays
    <2>2. c2.owed["local"] = c.owed["local"]
      BY <1>2, <2>1 DEF Balances, Sides
    <2>3. QED
      BY <1>2, <2>1, <2>2 DEF Balances, Sides
  <1>6. ASSUME NEW s \in Sides
        PROVE  /\ AckedOurs(c2, s) = AckedOurs(c, s) + SentOurs(c, s) /\ SentOurs(c2, s) = 0
               /\ NewOurs(c2, s) = NewOurs(c, s) /\ AckedTheirs(c2, s) = AckedTheirs(c, s)
               /\ NewTheirs(c2, s) = NewTheirs(c, s)
    <2>1. SentOurs(c2, s) = 0
      <3>1. \A h : h \in DOMAIN c2.htlcs => Where(c2, h) \notin {1, 16}
        BY <1>1, <1>4 DEF Acked, NoHtlc
      <3>2. QED
        BY <3>1, NetNone DEF SentOurs
    <2>2. AckedOurs(c2, s) = AckedOurs(c, s) + SentOurs(c, s)
      <3>1. /\ \A h : h \in DOMAIN c2.htlcs /\ Where(c2, h) \in {2} <=>
                      h \in DOMAIN c.htlcs /\ Where(c, h) \in {2} \cup {1}
            /\ \A h : h \in DOMAIN c2.htlcs /\ Where(c2, h) \in {17} <=>
                      h \in DOMAIN c.htlcs /\ Where(c, h) \in {17} \cup {16}
        BY <1>1, <1>4 DEF Acked, NoHtlc
      <3>2. Net(c2, {2}, {17}, s) = Net(c, {2} \cup {1}, {17} \cup {16}, s)
        BY <1>1, <1>2, <3>1, NetSame
      <3>3. {2} \cap {1} = {} /\ {17} \cap {16} = {}
        OBVIOUS
      <3>4. Net(c, {2} \cup {1}, {17} \cup {16}, s) = Net(c, {2}, {17}, s) + Net(c, {1}, {16}, s)
        BY <1>2, <3>3, NetSplit
      <3>5. QED
        BY <3>2, <3>4 DEF AckedOurs, SentOurs
    <2>3. NewOurs(c2, s) = NewOurs(c, s)
      <3>1. /\ \A h : h \in DOMAIN c2.htlcs /\ Where(c2, h) \in {0} <=>
                      h \in DOMAIN c.htlcs /\ Where(c, h) \in {0}
            /\ \A h : h \in DOMAIN c2.htlcs /\ Where(c2, h) \in {15} <=>
                      h \in DOMAIN c.htlcs /\ Where(c, h) \in {15}
        BY <1>1, <1>4 DEF Acked, NoHtlc
      <3>2. QED
        BY <1>1, <1>2, <3>1, NetSame DEF NewOurs
    <2>4. AckedTheirs(c2, s) = AckedTheirs(c, s)
      <3>1. /\ \A h : h \in DOMAIN c2.htlcs /\ Where(c2, h) \in {12} <=>
                      h \in DOMAIN c.htlcs /\ Where(c, h) \in {12}
            /\ \A h : h \in DOMAIN c2.htlcs /\ Where(c2, h) \in {7} <=>
                      h \in DOMAIN c.htlcs /\ Where(c, h) \in {7}
        BY <1>1, <1>4 DEF Acked, NoHtlc
      <3>2. QED
        BY <1>1, <1>2, <3>1, NetSame DEF AckedTheirs
    <2>5. NewTheirs(c2, s) = NewTheirs(c, s)
      <3>1. /\ \A h : h \in DOMAIN c2.htlcs /\ Where(c2, h) \in {10} <=>
                      h \in DOMAIN c.htlcs /\ Where(c, h) \in {10}
            /\ \A h : h \in DOMAIN c2.htlcs /\ Where(c2, h) \in {5} <=>
                      h \in DOMAIN c.htlcs /\ Where(c, h) \in {5}
        BY <1>1, <1>4 DEF Acked, NoHtlc
      <3>2. QED
        BY <1>1, <1>2, <3>1, NetSame DEF NewTheirs
    <2>6. QED
      BY <2>1, <2>2, <2>3, <2>4, <2>5
  <1>7. Solvent(c2)
    BY <1>1, <1>2, <1>5, <1>6, SolventAcked
  <1>8. QED
    BY <1>7 DEF c2

(* And handle_peer_commit_sig(). *)
LEMMA SolventTakes ==
    ASSUME NEW n \in Nodes, NEW x, NodeType(n, x), Store(x.c, x.d), Solvent(x.c),
           NEW y, NodeType(n, y), NEW out, GotCommit(n, x, y, out)
    PROVE  Solvent(y.c)
  <1> DEFINE c == x.c
             c2 == y.c
             c1 == channel_rcvd_commit(c)
  <1>1. /\ \A h : Where(c2, h) = Took(Where(c, h))
        /\ SameHtlcs(c, c2) /\ Solvent(c)
    BY TookMoves
  <1>2. GoodChan(c) /\ GoodChan(c2) /\ c.htlcs \in HtlcMaps /\ c2.htlcs \in HtlcMaps
    BY DEF NodeType, GoodChan, ChanRecs
  <1>3. c2 = channel_sending_revoke_and_ack(c1) /\ GoodChan(c1)
    <2>1. <<"local", rcvd_commit_states>> \in Steps
      BY DEF Steps
    <2>2. QED
      BY <1>2, <2>1, ChangeGood DEF GotCommit, channel_rcvd_commit
  <1>4. \A h : /\ h \in DOMAIN c.htlcs <=> Where(c, h) # NoHtlc
               /\ h \in DOMAIN c2.htlcs <=> Where(c2, h) # NoHtlc
    BY <1>2, WhereType
  <1>5. /\ \A s \in Sides : c1.owed["local"][s]
                              = c.owed["local"][s] + Net(c, {2, 10}, {5, 17}, s)
        /\ c1.owed["remote"] = c.owed["remote"]
    BY <1>2, OwedMoves, OwedStays
  <1>6. \A h : Where(c, h) \notin {3, 6, 11, 18}
    BY DEF Store, Rest
  <1> HIDE DEF c, c1, c2
  <1>7. c2.owed["local"] = c1.owed["local"] /\ c2.owed["remote"] = c1.owed["remote"]
    BY <1>3, OwedStays
  <1>8. \A s \in Sides : /\ c2.owed["local"][s] = c.owed["local"][s]
                                                    + (AckedOurs(c, s) + NewTheirs(c, s))
                         /\ c2.owed["remote"][s] = c.owed["remote"][s]
    <2>1. \A s : Net(c, {2, 10}, {5, 17}, s) = AckedOurs(c, s) + NewTheirs(c, s)
      BY <1>2, NextWorth
    <2>2. \A s \in Sides : /\ c2.owed["local"][s] = c1.owed["local"][s]
                            /\ c2.owed["remote"][s] = c.owed["remote"][s]
      BY <1>5, <1>7
    <2>3. QED
      BY <1>5, <2>1, <2>2
  <1>9. ASSUME NEW s \in Sides
        PROVE  /\ AckedOurs(c2, s) = 0 /\ NewTheirs(c2, s) = 0
               /\ AckedTheirs(c2, s) = AckedTheirs(c, s) + NewTheirs(c, s)
               /\ SentOurs(c2, s) = SentOurs(c, s) /\ NewOurs(c2, s) = NewOurs(c, s)
    <2>1. AckedOurs(c2, s) = 0 /\ NewTheirs(c2, s) = 0
      <3>1. \A h : h \in DOMAIN c2.htlcs => Where(c2, h) \notin {2, 17, 10, 5}
        BY <1>1, <1>4 DEF Took, NoHtlc
      <3>2. QED
        BY <3>1, NetNone DEF AckedOurs, NewTheirs
    <2>2. AckedTheirs(c2, s) = AckedTheirs(c, s) + NewTheirs(c, s)
      <3>1. \A h : /\ Where(c, h) \in (0..19) \cup {NoHtlc}
                   /\ Where(c, h) \notin {3, 6, 11, 18}
        BY <1>2, <1>6, WhereType DEF NoHtlc
      <3>2. /\ \A h : h \in DOMAIN c2.htlcs /\ Where(c2, h) \in {12} <=>
                      h \in DOMAIN c.htlcs /\ Where(c, h) \in {12} \cup {10}
            /\ \A h : h \in DOMAIN c2.htlcs /\ Where(c2, h) \in {7} <=>
                      h \in DOMAIN c.htlcs /\ Where(c, h) \in {7} \cup {5}
        BY <1>1, <1>4, <3>1 DEF Took, NoHtlc
      <3>3. Net(c2, {12}, {7}, s) = Net(c, {12} \cup {10}, {7} \cup {5}, s)
        BY <1>1, <1>2, <3>2, NetSame
      <3>4. {12} \cap {10} = {} /\ {7} \cap {5} = {}
        OBVIOUS
      <3>5. Net(c, {12} \cup {10}, {7} \cup {5}, s) = Net(c, {12}, {7}, s) + Net(c, {10}, {5}, s)
        BY <1>2, <3>4, NetSplit
      <3>6. QED
        BY <3>3, <3>5 DEF AckedTheirs, NewTheirs
    <2>3. SentOurs(c2, s) = SentOurs(c, s)
      <3>1. /\ \A h : h \in DOMAIN c2.htlcs /\ Where(c2, h) \in {1} <=>
                      h \in DOMAIN c.htlcs /\ Where(c, h) \in {1}
            /\ \A h : h \in DOMAIN c2.htlcs /\ Where(c2, h) \in {16} <=>
                      h \in DOMAIN c.htlcs /\ Where(c, h) \in {16}
        BY <1>1, <1>4 DEF Took, NoHtlc
      <3>2. QED
        BY <1>1, <1>2, <3>1, NetSame DEF SentOurs
    <2>4. NewOurs(c2, s) = NewOurs(c, s)
      <3>1. /\ \A h : h \in DOMAIN c2.htlcs /\ Where(c2, h) \in {0} <=>
                      h \in DOMAIN c.htlcs /\ Where(c, h) \in {0}
            /\ \A h : h \in DOMAIN c2.htlcs /\ Where(c2, h) \in {15} <=>
                      h \in DOMAIN c.htlcs /\ Where(c, h) \in {15}
        BY <1>1, <1>4 DEF Took, NoHtlc
      <3>2. QED
        BY <1>1, <1>2, <3>1, NetSame DEF NewOurs
    <2>5. QED
      BY <2>1, <2>2, <2>3, <2>4
  <1>10. Solvent(c2)
    BY <1>1, <1>2, <1>8, <1>9, SolventTook
  <1>11. QED
    BY <1>10 DEF c2

(* add_htlc() leaves the side that offers with what it owes. *)
LEMMA RoomLeft ==
    ASSUME NEW c, GoodChan(c), NEW s \in Sides, NEW k \in Nat, NEW a \in Nat,
           add_htlc_ok(c, s, k, a)
    PROVE  /\ balance_after(new_htlc(c, s, k, a), Other(s), s) >= 0
           /\ <<s, k>> \notin DOMAIN c.htlcs
  <1> DEFINE d == new_htlc(c, s, k, a)
             v == Other(s)
             b == balance_after(d, v, s)
             o == d.owed[v][s]
             room == room_above_reserve(d, v, s)
  <1>1. GoodChan(d) /\ v \in {"local", "remote"}
    BY NewHtlc DEF Other
  <1>2. b \in Int
    <2>1. /\ \A t \in Sides : /\ d.owed["local"][t] \in Int /\ d.owed["remote"][t] \in Int
                              /\ NewOurs(d, t) \in Int /\ AckedOurs(d, t) \in Int
                              /\ NewTheirs(d, t) \in Int /\ AckedTheirs(d, t) \in Int
      BY <1>1, WorthType
    <2>2. /\ balance_after(d, "remote", s)
                = d.owed["remote"][s] + (AckedTheirs(d, s) + NewOurs(d, s))
          /\ balance_after(d, "local", s)
                = d.owed["local"][s] + (AckedOurs(d, s) + NewTheirs(d, s))
      BY <1>1, BalanceAfter
    <2> HIDE DEF d
    <2>3. balance_after(d, "remote", s) \in Int /\ balance_after(d, "local", s) \in Int
      BY <2>1, <2>2
    <2>4. QED
      BY <1>1, <2>3
  <1>3. room >= 0 /\ <<s, k>> \notin DOMAIN c.htlcs
    BY DEF add_htlc_ok
  <1>4. room = IF o <= 0 THEN -1 ELSE IF b < 0 THEN -1 ELSE b - Reserve
    BY DEF room_above_reserve
  <1> HIDE DEF b, o, room
  <1>5. b >= 0
    BY <1>2, <1>3, <1>4
  <1>6. QED
    BY <1>3, <1>5 DEF b

(* The channel adds an HTLC only where there is room for it. *)
Room(c, c2) ==
    \A s \in Sides, k \in Nat :
        <<s, k>> \in DOMAIN c2.htlcs /\ <<s, k>> \notin DOMAIN c.htlcs =>
            balance_after(c2, Other(s), s) >= 0

(* Every step of a node keeps it solvent. *)
LEMMA SolventStep ==
    ASSUME NEW n \in Nodes, NEW x, NodeType(n, x), Keeps(n, x), Own(x), Solvent(x.c),
           NEW y, NodeType(n, y), NEW out, NodeStep(n, x, y, out), Room(x.c, y.c),
           GotAdd(n, x, y, out) => <<"remote", Head(x.q).id>> \notin DOMAIN x.c.htlcs
    PROVE  Solvent(y.c)
  <1>1. Store(x.c, x.d) /\ Last(x)
    BY DEF Keeps, Own
  <1> DEFINE c == x.c
             c2 == y.c
  <1>2. GoodChan(c) /\ GoodChan(c2) /\ c \in ChanRecs /\ c.htlcs \in HtlcMaps
        /\ c2.htlcs \in HtlcMaps
    BY DEF NodeType, GoodChan, ChanRecs
  <1>3. CASE Quiet(n, x, y, out) \/ SavesResolution(n, x, y, out) \/ Answers(n, x, y, out)
    <2>1. y.c = x.c
      BY <1>3 DEF Quiet, SavesResolution, Answers
    <2>2. QED
      BY <2>1
  <1>4. ASSUME NEW h, NEW i, Put(c, c2, h, i), c2.owed = c.owed, i \in {0, 5, 10, 15},
               Where(c, h) \in {4, 14, NoHtlc},
               i \in {5, 15} => h \in DOMAIN c.htlcs,
               i = 0 => balance_after(c2, "remote", "local") >= 0,
               i = 10 => balance_after(c2, "local", "remote") >= 0
        PROVE  Solvent(y.c)
    <2> HIDE DEF c, c2
    <2>1. "local" \in Sides /\ "remote" \in Sides
      BY DEF Sides
    <2>2. ASSUME NEW s \in Sides
          PROVE  /\ AckedOurs(c2, s) = AckedOurs(c, s) /\ SentOurs(c2, s) = SentOurs(c, s)
                 /\ AckedTheirs(c2, s) = AckedTheirs(c, s)
                 /\ i \notin {0, 15} => NewOurs(c2, s) = NewOurs(c, s)
                 /\ i \notin {5, 10} => NewTheirs(c2, s) = NewTheirs(c, s)
                 /\ i = 15 => NewOurs(c2, s) >= NewOurs(c, s)
                 /\ i = 5 => NewTheirs(c2, s) >= NewTheirs(c, s)
      BY <1>2, <1>4, WorthPut
    <2>3. Solvent(c)
      BY DEF c
    <2>4. Base(c2, "remote") + NewTheirs(c2, "remote") >= 0
      <3> DEFINE b == Base(c, "remote")
                 t == NewTheirs(c, "remote")
                 t2 == NewTheirs(c2, "remote")
      <3>1. b \in Int /\ t \in Int /\ t2 \in Int /\ b + t >= 0
        BY <1>2, <2>1, <2>3, WorthType DEF Base, Solvent
      <3>2. Base(c2, "remote") = b
        BY <1>4, <2>1, <2>2 DEF Base
      <3>3. i # 10 => t2 >= t
        <4>1. i \in {0, 15} => t2 = t
          BY <2>1, <2>2
        <4>2. i = 5 => t2 >= t
          BY <2>1, <2>2
        <4> HIDE DEF t, t2
        <4>3. t2 = t => t2 >= t
          BY <3>1
        <4>4. QED
          BY <1>4, <4>1, <4>2, <4>3
      <3>4. CASE i # 10
        <4> HIDE DEF b, t, t2
        <4>1. b + t2 >= 0
          BY <3>1, <3>3, <3>4
        <4>2. QED
          BY <3>2, <4>1 DEF t2
      <3>5. CASE i = 10
        <4> DEFINE l == c2.owed["local"]["remote"]
                   a == AckedOurs(c2, "remote")
        <4>1. balance_after(c2, "local", "remote") = l + (a + t2) /\ l \in Int /\ a \in Int
          BY <1>2, <2>1, BalanceAfter, WorthType
        <4>2. l + (a + t2) >= 0
          BY <1>4, <3>5, <4>1
        <4>3. Base(c2, "remote") = l + a
          BY DEF Base
        <4> HIDE DEF l, a, t2
        <4>4. (l + a) + t2 >= 0
          BY <3>1, <4>1, <4>2
        <4>5. QED
          BY <4>3, <4>4 DEF t2
      <3>6. QED
        BY <3>4, <3>5
    <2>5. c2.owed["remote"]["local"] + AckedTheirs(c2, "local") + NewOurs(c2, "local") >= 0
      <3> DEFINE r == c2.owed["remote"]["local"]
                 t == AckedTheirs(c2, "local")
                 o == NewOurs(c, "local")
                 o2 == NewOurs(c2, "local")
      <3>1. r \in Int /\ t \in Int /\ o \in Int /\ o2 \in Int
        BY <1>2, <2>1, WorthType
      <3>2. r + t + o >= 0
        BY <1>4, <2>1, <2>2, <2>3 DEF Solvent
      <3>3. i # 0 => o2 >= o
        <4>1. i \in {5, 10} => o2 = o
          BY <2>1, <2>2
        <4>2. i = 15 => o2 >= o
          BY <2>1, <2>2
        <4> HIDE DEF o, o2
        <4>3. o2 = o => o2 >= o
          BY <3>1
        <4>4. QED
          BY <1>4, <4>1, <4>2, <4>3
      <3>4. i = 0 => r + (t + o2) >= 0
        <4>1. balance_after(c2, "remote", "local") = r + (t + o2)
          BY <1>2, <2>1, BalanceAfter
        <4>2. QED
          BY <1>4, <4>1
      <3> HIDE DEF r, t, o, o2
      <3>5. r + t + o2 >= 0
        BY <3>1, <3>2, <3>3, <3>4
      <3>6. QED
        BY <3>5 DEF r, t, o2
    <2>6. Solvent(c2)
      BY <1>4, <2>2, <2>3, <2>4, <2>5, SolventStays
    <2>7. QED
      BY <2>6 DEF c2
  <1>5. CASE Offers(n, x, y, out)
    <2> DEFINE h == <<"local", x.p.htlcId>>
    <2>1. Where(x.c, h) = NoHtlc /\ Put(x.c, y.c, h, 0) /\ h \in DOMAIN y.c.htlcs
      BY <1>1, <1>5, OfferPuts
    <2>2. y.c.owed = x.c.owed /\ h \notin DOMAIN x.c.htlcs /\ x.p.htlcId \in Nat
      BY <1>2, <1>5, UpdateOwed DEF Offers, NodeType, PeerRecs
    <2>3. "local" \in Sides /\ Other("local") = "remote"
      BY DEF Sides, Other
    <2>4. balance_after(y.c, "remote", "local") >= 0
      BY <2>1, <2>2, <2>3 DEF Room
    <2> HIDE DEF h
    <2>5. QED
      BY <1>4, <2>1, <2>2, <2>4
  <1>6. CASE GotAdd(n, x, y, out)
    <2> DEFINE h == <<"remote", Head(x.q).id>>
    <2>1. Where(x.c, h) = NoHtlc /\ Put(x.c, y.c, h, 10) /\ Head(x.q).id \in Nat
      BY <1>1, <1>6, AddPuts
    <2>2. y.c.owed = x.c.owed /\ h \notin DOMAIN x.c.htlcs
      BY <1>2, <1>6, UpdateOwed DEF GotAdd
    <2>3. "remote" \in Sides /\ Other("remote") = "local"
      BY DEF Sides, Other
    <2>4. h \in DOMAIN y.c.htlcs
      BY <2>1 DEF Put, Where, NoHtlc
    <2>5. balance_after(y.c, "local", "remote") >= 0
      BY <2>1, <2>2, <2>3, <2>4 DEF Room
    <2> HIDE DEF h
    <2>6. QED
      BY <1>4, <2>1, <2>2, <2>5
  <1>7. CASE Resolves(n, x, y, out)
    <2>1. PICK k \in Nat : Where(x.c, <<"remote", k>>) = 14 /\ Put(x.c, y.c, <<"remote", k>>, 15)
      BY <1>1, <1>7, ResolvePuts
    <2> DEFINE h == <<"remote", k>>
    <2>2. y.c.owed = x.c.owed /\ h \in DOMAIN x.c.htlcs
      BY <1>2, <1>7, <2>1, UpdateOwed DEF Resolves, Where, NoHtlc
    <2>3. Where(x.c, h) = 14 /\ Put(x.c, y.c, h, 15)
      BY <2>1
    <2> HIDE DEF h
    <2>4. QED
      BY <1>4, <2>2, <2>3
  <1>8. CASE GotRemove(n, x, y, out)
    <2> DEFINE h == <<"local", Head(x.q).id>>
    <2>1. \/ y.c = x.c
          \/ Where(x.c, h) = 4 /\ Put(x.c, y.c, h, 5)
      BY <1>1, <1>8, RemovePuts
    <2>2. y.c.owed = x.c.owed
      BY <1>2, <1>8, UpdateOwed DEF GotRemove
    <2>3. Where(x.c, h) = 4 => h \in DOMAIN x.c.htlcs
      BY DEF Where, NoHtlc
    <2> HIDE DEF h
    <2>4. CASE y.c = x.c
      BY <2>4
    <2>5. CASE Where(x.c, h) = 4 /\ Put(x.c, y.c, h, 5)
      BY <1>4, <2>2, <2>3, <2>5
    <2>6. QED
      BY <2>1, <2>4, <2>5
  <1>9. CASE GotFee(n, x, y, out)
    <2>1. /\ \A h : Where(y.c, h) = Where(x.c, h)
          /\ SameHtlcs(x.c, y.c) /\ y.c.owed = x.c.owed
      <3>1. Idles(x, y, out)
        BY <1>9, IdleSteps
      <3>2. y.c.owed = x.c.owed
        BY <1>2, <1>9, UpdateOwed DEF GotFee
      <3>3. QED
        BY <3>1, <3>2 DEF Idles, Still
    <2> HIDE DEF c, c2
    <2>2. ASSUME NEW I, NEW J, NEW s
          PROVE  Net(y.c, I, J, s) = Net(x.c, I, J, s)
      <3>1. \A h : h \in DOMAIN x.c.htlcs <=> h \in DOMAIN y.c.htlcs
        BY <1>2, <2>1, WhereType DEF c, c2
      <3>2. QED
        BY <1>2, <2>1, <3>1, NetSame DEF c, c2
    <2>3. \A s \in Sides :
            /\ AckedOurs(y.c, s) = AckedOurs(x.c, s) /\ SentOurs(y.c, s) = SentOurs(x.c, s)
            /\ AckedTheirs(y.c, s) = AckedTheirs(x.c, s)
            /\ NewOurs(y.c, s) = NewOurs(x.c, s) /\ NewTheirs(y.c, s) = NewTheirs(x.c, s)
      BY <2>2 DEF AckedOurs, SentOurs, AckedTheirs, NewOurs, NewTheirs
    <2>4. "local" \in Sides /\ "remote" \in Sides
      BY DEF Sides
    <2>5. Base(y.c, "remote") + NewTheirs(y.c, "remote") >= 0
      BY <2>1, <2>3, <2>4 DEF Solvent, Base
    <2>6. y.c.owed["remote"]["local"] + AckedTheirs(y.c, "local") + NewOurs(y.c, "local") >= 0
      BY <2>1, <2>3, <2>4 DEF Solvent
    <2>7. QED
      BY <2>1, <2>3, <2>5, <2>6, SolventStays
  <1>10. CASE SendsCommit(n, x, y, out)
    BY <1>1, <1>10, SolventSends
  <1>11. CASE GotCommit(n, x, y, out)
    BY <1>1, <1>11, SolventTakes
  <1>12. CASE GotRevoke(n, x, y, out)
    BY <1>12, SolventAcks
  <1>13. QED
    BY <1>3, <1>5, <1>6, <1>7, <1>8, <1>9, <1>10, <1>11, <1>12 DEF NodeStep

(* Nothing but an HTLC offered or received adds to a channel. *)
LEMMA NoneNew ==
    ASSUME KeepInv, Next
    PROVE  \/ \E n \in Nodes : handle_offer_htlc(n) \/ handle_peer_add_htlc(n)
           \/ \A m \in Nodes : DOMAIN chan'[m].htlcs \subseteq DOMAIN chan[m].htlcs
  <1>1. /\ TypeInv /\ chan = [m \in Nodes |-> chan[m]]
        /\ \A m \in Nodes : GoodChan(chan[m]) /\ chan[m] \in ChanRecs /\ db[m] \in DbRecs
    BY KeptNode DEF KeepInv, LinkInv, TypeInv, Shape, GoodChan
  <1>2. ASSUME chan' = chan
        PROVE  \A m \in Nodes : DOMAIN chan'[m].htlcs \subseteq DOMAIN chan[m].htlcs
    BY <1>2
  <1>3. ASSUME NEW n \in Nodes, NEW c2, chan' = [chan EXCEPT ![n] = c2],
               DOMAIN c2.htlcs \subseteq DOMAIN chan[n].htlcs
        PROVE  \A m \in Nodes : DOMAIN chan'[m].htlcs \subseteq DOMAIN chan[m].htlcs
    <2>1. \A m \in Nodes : chan'[m] = IF m = n THEN c2 ELSE chan[m]
      BY <1>1, <1>3
    <2>2. QED
      BY <1>3, <2>1
  <1>4. ASSUME BreakConnection
        PROVE  \A m \in Nodes : DOMAIN chan'[m].htlcs \subseteq DOMAIN chan[m].htlcs
    <2> SUFFICES ASSUME NEW m \in Nodes
                 PROVE  DOMAIN chan'[m].htlcs \subseteq DOMAIN chan[m].htlcs
      OBVIOUS
    <2>1. /\ GoodChan(chan[m]) /\ chan[m].opener = OpenerSide(m) /\ db[m] \in DbRecs
          /\ db[m].fee[last_fee_state(OpenerSide(m))] # 0 /\ Store(chan[m], db[m])
      BY KeptNode
    <2>2. chan'[m] = RestoredChannel(m, db[m])
      BY <1>4 DEF BreakConnection
    <2>3. RestoredChannel(m, db[m]).htlcs = db[m].htlcs
      BY <2>1, StoreRestored
    <2>4. DOMAIN db[m].htlcs \subseteq DOMAIN chan[m].htlcs
      BY <2>1, RowsKept DEF Store
    <2>5. QED
      BY <2>2, <2>3, <2>4
  <1>5. ASSUME NEW c, GoodChan(c), NEW view, NEW states, <<view, states>> \in Steps
        PROVE  DOMAIN change_htlcs(c, view, states).htlcs \subseteq DOMAIN c.htlcs
    BY <1>5, ChangeFields DEF GoodChan
  <1>6. /\ <<"remote", sending_commit_states>> \in Steps
        /\ <<"local", rcvd_revoke_states>> \in Steps
        /\ <<"local", rcvd_commit_states>> \in Steps
        /\ <<"remote", sending_revoke_states>> \in Steps
    BY DEF Steps
  <1>7. CASE Environment
    <2>1. CASE Disconnect
      BY <1>4, <2>1 DEF Disconnect
    <2>2. CASE ~Disconnect
      <3>1. chan' = chan
        BY <1>7, <2>2 DEF Environment, FeeratesChange, Reconnect, LightningdOfferHtlc,
                          LightningdResolveHtlc, LightningdClose, LightningdGotShutdown
      <3>2. QED
        BY <1>2, <3>1
    <2>3. QED
      BY <2>1, <2>2
  <1>8. ASSUME NEW n \in Nodes, MasterIn(n) \/ CommitTimer(n), ~handle_offer_htlc(n)
        PROVE  \A m \in Nodes : DOMAIN chan'[m].htlcs \subseteq DOMAIN chan[m].htlcs
    <2>1. CASE handle_resolution(n)
      <3>1. PICK h \in DOMAIN chan[n].htlcs : \E r :
              chan' = [chan EXCEPT ![n] = remove_htlc(chan[n], h, r)]
        BY <2>1 DEF handle_resolution
      <3>2. \A r : DOMAIN remove_htlc(chan[n], h, r).htlcs = DOMAIN chan[n].htlcs \cup {h}
        BY <1>1 DEF remove_htlc, with_htlc, ChanRecs
      <3>3. QED
        BY <1>3, <3>1, <3>2
    <2>2. CASE send_commit(n)
      <3> DEFINE c1 == with_fee_update(n)
                 c2 == channel_sending_commit(c1)
      <3>1. GoodChan(c1) /\ c1.htlcs = chan[n].htlcs
        BY <1>1, WithFeeUpdate
      <3>2. chan' = [chan EXCEPT ![n] = c2]
        BY <2>2 DEF send_commit
      <3>3. DOMAIN c2.htlcs \subseteq DOMAIN c1.htlcs
        BY <1>5, <1>6, <3>1 DEF channel_sending_commit
      <3> HIDE DEF c1, c2
      <3>4. QED
        BY <1>3, <3>1, <3>2, <3>3
    <2>3. CASE handle_feerates(n) \/ handle_shutdown_cmd(n) \/ send_commit_not_now(n)
                 \/ send_commit_nothing(n)
      <3>1. chan' = chan
        BY <2>3 DEF handle_feerates, handle_shutdown_cmd, send_commit_not_now,
                    send_commit_nothing
      <3>2. QED
        BY <1>2, <3>1
    <2>4. QED
      BY <1>8, <2>1, <2>2, <2>3 DEF MasterIn, CommitTimer
  <1>9. ASSUME NEW n \in Nodes, PeerIn(n), ~handle_peer_add_htlc(n)
        PROVE  \A m \in Nodes : DOMAIN chan'[m].htlcs \subseteq DOMAIN chan[m].htlcs
    <2>1. CASE handle_peer_remove_htlc(n)
      <3>1. CASE chan' = chan
        BY <1>2, <3>1
      <3>2. CASE \E h \in DOMAIN chan[n].htlcs : \E r :
                    chan' = [chan EXCEPT ![n] = remove_htlc(chan[n], h, r)]
        <4>1. PICK h \in DOMAIN chan[n].htlcs : \E r :
                chan' = [chan EXCEPT ![n] = remove_htlc(chan[n], h, r)]
          BY <3>2
        <4>2. \A r : DOMAIN remove_htlc(chan[n], h, r).htlcs = DOMAIN chan[n].htlcs \cup {h}
          BY <1>1 DEF remove_htlc, with_htlc, ChanRecs
        <4>3. QED
          BY <1>3, <4>1, <4>2
      <3>3. QED
        BY <2>1, <3>1, <3>2 DEF handle_peer_remove_htlc, remove_htlc_ok
    <2>2. CASE handle_peer_feechange(n)
      <3> DEFINE rate == Head(net[n]).rate
                 c2 == channel_update_feerate(chan[n], rate)
      <3>1. chan' = [chan EXCEPT ![n] = c2]
        BY <2>2 DEF handle_peer_feechange
      <3>2. c2.htlcs = chan[n].htlcs
        BY <1>1 DEF channel_update_feerate, ChanRecs
      <3> HIDE DEF c2
      <3>3. QED
        BY <1>3, <3>1, <3>2
    <2>3. CASE handle_peer_commit_sig(n)
      <3> DEFINE c1 == channel_rcvd_commit(chan[n])
                 c2 == channel_sending_revoke_and_ack(c1)
      <3>1. chan' = [chan EXCEPT ![n] = c2]
        BY <2>3 DEF handle_peer_commit_sig
      <3>2. GoodChan(c1) /\ DOMAIN c1.htlcs \subseteq DOMAIN chan[n].htlcs
        BY <1>1, <1>5, <1>6, ChangeGood DEF channel_rcvd_commit
      <3>3. DOMAIN c2.htlcs \subseteq DOMAIN c1.htlcs
        BY <1>5, <1>6, <3>2 DEF channel_sending_revoke_and_ack
      <3> HIDE DEF c1, c2
      <3>4. QED
        BY <1>3, <3>1, <3>2, <3>3
    <2>4. CASE handle_peer_revoke_and_ack(n)
      <3> DEFINE c2 == channel_rcvd_revoke_and_ack(chan[n])
      <3>1. chan' = [chan EXCEPT ![n] = c2]
        BY <2>4 DEF handle_peer_revoke_and_ack
      <3>2. DOMAIN c2.htlcs \subseteq DOMAIN chan[n].htlcs
        BY <1>1, <1>5, <1>6 DEF channel_rcvd_revoke_and_ack
      <3> HIDE DEF c2
      <3>3. QED
        BY <1>3, <3>1, <3>2
    <2>5. CASE reject_empty_commit_sig(n)
      BY <1>4, <2>5 DEF reject_empty_commit_sig
    <2>6. CASE handle_peer_shutdown(n) \/ peer_reconnect(n)
      <3>1. chan' = chan
        BY <2>6 DEF handle_peer_shutdown, peer_reconnect
      <3>2. QED
        BY <1>2, <3>1
    <2>7. CASE closingd_in(n)
      BY <1>2, <1>4, <2>7 DEF closingd_in
    <2>8. QED
      BY <1>9, <2>1, <2>2, <2>3, <2>4, <2>5, <2>6, <2>7 DEF PeerIn
  <1>10. QED
    BY <1>7, <1>8, <1>9 DEF Next

(* What is offered, and what is received without a fault, has room. *)
LEMMA RoomOffered ==
    ASSUME KeepInv, NEW n \in Nodes, handle_offer_htlc(n)
    PROVE  \A m \in Nodes : Room(chan[m], chan'[m])
  <1>1. /\ chan = [m \in Nodes |-> chan[m]] /\ GoodChan(chan[n])
        /\ peer[n].htlcId \in Nat /\ pipe[n].offer \in Nat
    BY KeptNode DEF KeepInv, LinkInv, TypeInv, Shape, NodeType, Node, PeerRecs, PipeRecs
  <1>2. CASE chan' = chan
    BY <1>2 DEF Room
  <1> DEFINE k == peer[n].htlcId
             a == pipe[n].offer
             c2 == new_htlc(chan[n], "local", k, a)
  <1>3. CASE add_htlc_ok(chan[n], "local", k, a) /\ chan' = [chan EXCEPT ![n] = c2]
    <2>1. "local" \in Sides /\ Other("local") = "remote"
      BY DEF Sides, Other
    <2>2. balance_after(c2, "remote", "local") >= 0
      <3>1. k \in Nat /\ a \in Nat /\ add_htlc_ok(chan[n], "local", k, a)
        BY <1>1, <1>3
      <3> HIDE DEF k, a
      <3>2. QED
        BY <1>1, <2>1, <3>1, RoomLeft
    <2>3. DOMAIN c2.htlcs = DOMAIN chan[n].htlcs \cup {<<"local", k>>}
      <3>1. chan[n] \in ChanRecs
        BY <1>1 DEF GoodChan
      <3> HIDE DEF k, a
      <3>2. QED
        BY <3>1 DEF new_htlc, with_htlc, ChanRecs
    <2>4. \A m \in Nodes : chan'[m] = IF m = n THEN c2 ELSE chan[m]
      BY <1>1, <1>3
    <2> HIDE DEF c2
    <2>5. Room(chan[n], c2)
      BY <2>1, <2>2, <2>3 DEF Room
    <2>6. QED
      BY <2>4, <2>5 DEF Room
  <1>4. QED
    BY <1>2, <1>3 DEF handle_offer_htlc

(* And what is received. *)
LEMMA RoomReceived ==
    ASSUME KeepInv, NEW n \in Nodes, handle_peer_add_htlc(n)
    PROVE  /\ \A m \in Nodes : chan'[m].owed = chan[m].owed
           /\ fault' = "none" => \A m \in Nodes : Room(chan[m], chan'[m])
  <1> DEFINE k == Head(net[n]).id
             a == Head(net[n]).amount
             c2 == new_htlc(chan[n], "remote", k, a)
  <1>1. /\ chan = [m \in Nodes |-> chan[m]] /\ GoodChan(chan[n]) /\ chan[n] \in ChanRecs
        /\ net[n] \in Seq(Msgs) /\ net[n] # << >> /\ Head(net[n]).type = "add"
    BY KeptNode DEF KeepInv, LinkInv, TypeInv, Shape, NodeType, Node, GoodChan,
                    handle_peer_add_htlc, Receives
  <1>2. k \in Nat /\ a \in Nat
    <2>1. Head(net[n]) \in Msgs
      BY <1>1
    <2>2. QED
      BY <1>1, <2>1, MsgFields
  <1>3. "remote" \in Sides /\ Other("remote") = "local"
    BY DEF Sides, Other
  <1>4. /\ chan' = [chan EXCEPT ![n] = c2]
        /\ fault' = "none" => add_htlc_ok(chan[n], "remote", k, a)
    BY DEF handle_peer_add_htlc
  <1>5. DOMAIN c2.htlcs = DOMAIN chan[n].htlcs \cup {<<"remote", k>>} /\ c2.owed = chan[n].owed
    <2> HIDE DEF k, a
    <2>1. QED
      BY <1>1 DEF new_htlc, with_htlc, ChanRecs
  <1>6. \A m \in Nodes : chan'[m] = IF m = n THEN c2 ELSE chan[m]
    BY <1>1, <1>4
  <1>7. ASSUME fault' = "none"
        PROVE  \A m \in Nodes : Room(chan[m], chan'[m])
    <2>1. balance_after(c2, "local", "remote") >= 0
      BY <1>1, <1>2, <1>3, <1>4, <1>7, RoomLeft
    <2> HIDE DEF c2
    <2>2. Room(chan[n], c2)
      BY <1>3, <1>5, <2>1 DEF Room
    <2>3. QED
      BY <1>6, <2>2 DEF Room
  <1>8. \A m \in Nodes : chan'[m].owed = chan[m].owed
    <2> HIDE DEF c2
    <2>1. QED
      BY <1>5, <1>6
  <1>9. QED
    BY <1>7, <1>8

(* A restart forgets what was promised and not committed, no more. *)
LEMMA SolventBreak ==
    ASSUME NEW n \in Nodes, NEW x, NodeType(n, x), Store(x.c, x.d), Nums(x), Solvent(x.c),
           NEW y, NodeType(n, y), Breaks(n, x, y)
    PROVE  Solvent(y.c)
  <1> DEFINE c == x.c
             c2 == y.c
  <1>1. /\ \A h : Kept(Where(c, h), Where(c2, h))
        /\ \A h \in DOMAIN c2.htlcs :
             /\ h \in DOMAIN c.htlcs
             /\ c2.htlcs[h].amount = c.htlcs[h].amount
             /\ Where(c2, h) = Where(c, h) => c2.htlcs[h].r = c.htlcs[h].r
    <2>1. \A h : Kept(Where(x.c, h), Where(y.c, h))
      BY BreakMoves
    <2>2. \A h \in DOMAIN y.c.htlcs : h \in DOMAIN x.c.htlcs
      BY BreakMoves
    <2>3. \A h \in DOMAIN y.c.htlcs : y.c.htlcs[h].amount = x.c.htlcs[h].amount
      BY BreakMoves
    <2>4. \A h \in DOMAIN y.c.htlcs :
             Where(y.c, h) = Where(x.c, h) => y.c.htlcs[h].r = x.c.htlcs[h].r
      BY BreakMoves
    <2>5. QED
      BY <2>1, <2>2, <2>3, <2>4
  <1>2. GoodChan(c) /\ GoodChan(c2) /\ c.htlcs \in HtlcMaps /\ c2.htlcs \in HtlcMaps
    BY DEF NodeType, GoodChan, ChanRecs
  <1>3. c2.owed = c.owed /\ Solvent(c)
    <2>1. /\ x.c.opener = OpenerSide(n) /\ x.d \in DbRecs
          /\ x.d.fee[last_fee_state(OpenerSide(n))] # 0 /\ y.c = RestoredChannel(n, x.d)
      BY DEF NodeType, Breaks
    <2>2. RestoredChannel(n, x.d).owed = x.c.owed
      BY <1>2, <2>1, StoreRestored
    <2>3. QED
      BY <2>1, <2>2
  <1> HIDE DEF c, c2
  <1>4. \A h : h \in DOMAIN c2.htlcs <=> Where(c2, h) # NoHtlc
    BY <1>2, WhereType
  <1>5. "local" \in Sides /\ "remote" \in Sides
    BY DEF Sides
  <1>6. ASSUME NEW I, NEW J, I \subseteq {1, 2, 12}, J \subseteq {7, 16, 17}, NEW s
        PROVE  Net(c2, I, J, s) = Net(c, I, J, s)
    <2>1. I \cup J \subseteq 0..19
      BY <1>6
    <2>2. ASSUME NEW h, Where(c, h) \in I \cup J \/ Where(c2, h) \in I \cup J
          PROVE  /\ Where(c2, h) = Where(c, h)
                 /\ c2.htlcs[h].amount = c.htlcs[h].amount
                 /\ c2.htlcs[h].r = c.htlcs[h].r
      <3>1. Where(c2, h) = Where(c, h) /\ Where(c2, h) # NoHtlc
        BY <1>1, <1>6, <2>2 DEF Kept, NoHtlc
      <3>2. QED
        BY <1>1, <1>4, <3>1
    <2>3. QED
      BY <1>2, <2>1, <2>2, NetKept
  <1>7. \A s \in Sides :
          /\ AckedOurs(c2, s) = AckedOurs(c, s) /\ SentOurs(c2, s) = SentOurs(c, s)
          /\ AckedTheirs(c2, s) = AckedTheirs(c, s)
    <2>1. \A s : /\ Net(c2, {2}, {17}, s) = Net(c, {2}, {17}, s)
                 /\ Net(c2, {1}, {16}, s) = Net(c, {1}, {16}, s)
                 /\ Net(c2, {12}, {7}, s) = Net(c, {12}, {7}, s)
      <3>1. /\ {1} \subseteq {1, 2, 12} /\ {2} \subseteq {1, 2, 12} /\ {12} \subseteq {1, 2, 12}
            /\ {7} \subseteq {7, 16, 17} /\ {16} \subseteq {7, 16, 17}
            /\ {17} \subseteq {7, 16, 17}
        OBVIOUS
      <3>2. QED
        BY <1>6, <3>1, Zenon
    <2>2. QED
      BY <2>1 DEF AckedOurs, SentOurs, AckedTheirs
  <1>8. \A h : Where(c2, h) \notin {0, 5, 10}
    BY <1>1 DEF Kept, NoHtlc
  <1>9. Base(c2, "remote") + NewTheirs(c2, "remote") >= 0
    <2>1. NewTheirs(c2, "remote") = 0
      BY <1>8, NetNone DEF NewTheirs
    <2> DEFINE b == Base(c2, "remote")
    <2>2. b \in Int /\ b >= 0
      BY <1>2, <1>3, <1>5, <1>7, WorthType DEF Base, Solvent
    <2> HIDE DEF b
    <2>3. b + 0 >= 0
      BY <2>2
    <2>4. QED
      BY <2>1, <2>3 DEF b
  <1>10. c2.owed["remote"]["local"] + AckedTheirs(c2, "local") + NewOurs(c2, "local") >= 0
    <2> DEFINE r == c2.owed["remote"]["local"]
               t == AckedTheirs(c2, "local")
               o == NewOurs(c2, "local")
               I == {0}
               I2 == {}
               J == {15}
    <2>1. r \in Int /\ t \in Int /\ o \in Int /\ t >= 0 /\ r >= 0
      BY <1>2, <1>3, <1>5, WorthType DEF Solvent
    <2>2. o >= 0
      <3>1. /\ \A h : h \in DOMAIN c2.htlcs /\ Where(c2, h) \in I <=>
                      h \in DOMAIN c2.htlcs /\ Where(c2, h) \in I2
            /\ SameHtlcs(c2, c2) /\ I2 \subseteq 10..19
        BY <1>8 DEF SameHtlcs
      <3>2. o = Net(c2, I, J, "local")
        BY DEF NewOurs
      <3> HIDE DEF I, I2, J, o
      <3>3. Net(c2, I, J, "local") = Net(c2, I2, J, "local")
        BY <1>2, <3>1, NetSame
      <3>4. Net(c2, I2, J, "local") >= 0
        BY <1>2, <3>1, NetSigns
      <3>5. QED
        BY <3>2, <3>3, <3>4
    <2> HIDE DEF r, t, o
    <2>3. r + t + o >= 0
      BY <2>1, <2>2
    <2>4. QED
      BY <2>3 DEF r, t, o
  <1>11. Solvent(c2)
    BY <1>3, <1>7, <1>9, <1>10, SolventStays
  <1>12. QED
    BY <1>11 DEF c2

(* At first. *)
LEMMA SolventInit ==
    ASSUME Init, NEW n \in Nodes
    PROVE  Solvent(chan[n])
  <1>1. /\ Keeps(n, Node(n)) /\ \A h : Where(Node(n).c, h) = NoHtlc
    BY KeepsInit
  <1>2. NodeType(n, Node(n))
    BY TypeInit DEF TypeInv
  <1>3. /\ Node(n).c = chan[n] /\ Node(n).d = db[n]
    BY DEF Node
  <1> DEFINE c == chan[n]
             our == db[n].our
  <1>4. /\ our = IF n = A THEN OpenerMsat ELSE Funding - OpenerMsat
        /\ OpenerMsat \in 0..Funding /\ Funding \in Nat
    BY ChanneldAssumption DEF Init, InitDb
  <1>5. our \in Int /\ \A s \in Sides : Share(our, s) \in Int /\ Share(our, s) >= 0
    <2> HIDE DEF our
    <2>1. our \in Int /\ our >= 0 /\ Funding - our \in Int /\ Funding - our >= 0
      BY <1>4
    <2>2. QED
      BY <2>1 DEF Share
  <1>6. c.htlcs \in HtlcMaps /\ GoodChan(c) /\ Balanced(c, our)
    BY <1>1, <1>2, <1>3 DEF NodeType, GoodChan, ChanRecs, Keeps, Store
  <1>7. DOMAIN c.htlcs = {}
    <2>1. \A h : h \notin DOMAIN c.htlcs
      BY <1>1, <1>3, <1>6, WhereType
    <2>2. QED
      BY <2>1
  <1>8. \A v, s \in Sides : c.owed[v][s] = Share(our, s)
    <2> HIDE DEF c, our
    <2>1. QED
      BY <1>5, <1>6, <1>7, EmptyBalances
  <1> HIDE DEF c, our
  <1>9. "local" \in Sides /\ "remote" \in Sides
    BY DEF Sides
  <1>10. \A I, J, s : Net(c, I, J, s) = 0
    BY <1>7, NetNone
  <1>11. \A s : /\ AckedOurs(c, s) = 0 /\ SentOurs(c, s) = 0 /\ AckedTheirs(c, s) = 0
                /\ NewOurs(c, s) = 0 /\ NewTheirs(c, s) = 0
    BY <1>10 DEF AckedOurs, SentOurs, AckedTheirs, NewOurs, NewTheirs
  <1>12. \A v, s \in Sides : c.owed[v][s] >= 0 /\ c.owed[v][s] \in Int
    BY <1>5, <1>8
  <1>13. ASSUME NEW s \in Sides
         PROVE  /\ Base(c, s) >= 0 /\ Base(c, s) \in Int
                /\ Base(c, s) + SentOurs(c, s) = c.owed["remote"][s] + AckedTheirs(c, s)
    <2> DEFINE l == c.owed["local"][s]
               r == c.owed["remote"][s]
    <2>1. l = r /\ l \in Int /\ l >= 0
      BY <1>8, <1>9, <1>12
    <2>2. Base(c, s) = l + 0 /\ SentOurs(c, s) = 0 /\ AckedTheirs(c, s) = 0
      BY <1>11 DEF Base
    <2> HIDE DEF l
    <2>3. l + 0 >= 0 /\ l + 0 \in Int /\ (l + 0) + 0 = l + 0
      BY <2>1
    <2>4. QED
      BY <2>1, <2>2, <2>3 DEF l
  <1>14. Base(c, "remote") + NewTheirs(c, "remote") >= 0
    <2> DEFINE b == Base(c, "remote")
    <2>1. b \in Int /\ b >= 0 /\ NewTheirs(c, "remote") = 0
      BY <1>9, <1>11, <1>13
    <2> HIDE DEF b
    <2>2. b + 0 >= 0
      BY <2>1
    <2>3. QED
      BY <2>1, <2>2 DEF b
  <1>15. c.owed["remote"]["local"] + AckedTheirs(c, "local") + NewOurs(c, "local") >= 0
    <2> DEFINE b == c.owed["remote"]["local"]
    <2>1. b \in Int /\ b >= 0 /\ AckedTheirs(c, "local") = 0 /\ NewOurs(c, "local") = 0
      BY <1>9, <1>11, <1>12
    <2> HIDE DEF b
    <2>2. b + 0 + 0 >= 0
      BY <2>1
    <2>3. QED
      BY <2>1, <2>2 DEF b
  <1>16. Solvent(c)
    BY <1>12, <1>13, <1>14, <1>15 DEF Solvent
  <1>17. QED
    BY <1>16 DEF c

(* No daemon acts after a fault. *)
LEMMA NextRuns ==
    ASSUME Next
    PROVE  fault = "none"
  <1>1. CASE Environment
    BY <1>1 DEF Environment, FeeratesChange, Disconnect, Reconnect, LightningdOfferHtlc,
                LightningdResolveHtlc, LightningdClose, LightningdGotShutdown, Running
  <1>2. ASSUME NEW n \in Nodes, MasterIn(n) \/ CommitTimer(n)
        PROVE  fault = "none"
    BY <1>2 DEF MasterIn, CommitTimer, handle_offer_htlc, handle_resolution, handle_feerates,
                handle_shutdown_cmd, send_commit_not_now, send_commit_nothing, send_commit,
                Running
  <1>3. ASSUME NEW n \in Nodes, PeerIn(n)
        PROVE  fault = "none"
    BY <1>3 DEF PeerIn, handle_peer_add_htlc, handle_peer_remove_htlc, handle_peer_feechange,
                handle_peer_commit_sig, reject_empty_commit_sig, handle_peer_revoke_and_ack,
                handle_peer_shutdown, peer_reconnect, closingd_in, Receives, Running
  <1>4. QED
    BY <1>1, <1>2, <1>3 DEF Next

(* A solvent channel has no negative balance. *)
LEMMA SolventNot ==
    ASSUME NEW c, GoodChan(c), \A v, s \in Sides : c.owed[v][s] >= 0
    PROVE  ~underflow(c)
  <1>1. \A v, s \in Sides : c.owed[v][s] \in Int
    BY DEF GoodChan, ChanRecs, Balances
  <1>2. \A v, s \in Sides : ~(c.owed[v][s] < 0)
    BY <1>1
  <1>3. QED
    BY <1>2 DEF underflow

(* Every view of every node stays above zero, also where a daemon has taken *)
(* an error path; until one has, all that is under way can be paid.         *)
SolventInv ==
    /\ KeepInv
    /\ \A n \in Nodes : /\ \A v, s \in Sides : chan[n].owed[v][s] >= 0
                        /\ fault = "none" => Solvent(chan[n])

(* When there is room for what is added, all stay solvent. *)
LEMMA SolventAll ==
    ASSUME KeepInv, \A n \in Nodes : Solvent(chan[n]), [Next]_vars,
           \A m \in Nodes : Room(chan[m], chan'[m])
    PROVE  \A n \in Nodes : Solvent(chan'[n])
  <1>1. TypeInv' /\ Steps3
    BY TypeStep DEF LinkInv, KeepInv
  <1>2. ASSUME NEW n \in Nodes
        PROVE  /\ Peer(n) \in Nodes /\ Peer(Peer(n)) = n
               /\ NodeType(n, Node(n)) /\ NodeType(Peer(n), Node(Peer(n)))
               /\ NodeType(n, Node(n)') /\ Nums(Node(n))
               /\ Link(Node(n), Node(Peer(n))) /\ Link(Node(Peer(n)), Node(n))
               /\ Keeps(n, Node(n)) /\ Own(Node(n)) /\ Own(Node(Peer(n)))
               /\ Fresh(Node(n), Node(Peer(n))) /\ Fresh(Node(Peer(n)), Node(n))
    BY <1>1, TwoNodes DEF KeepInv, LinkInv, TypeInv
  <1>3. \A n \in Nodes : Solvent(Node(n).c) /\ Room(Node(n).c, Node(n)'.c)
    BY DEF Node
  <1>4. SUFFICES \A n \in Nodes : Solvent(Node(n)'.c)
    BY DEF Node
  <1>5. CASE \E n \in Nodes : \E out \in Seq(Msgs) :
               NodeStep(n, Node(n), Node(n)', out) /\ Hears(Node(Peer(n)), Node(Peer(n))', out)
    <2>1. PICK n \in Nodes, out \in Seq(Msgs) :
               NodeStep(n, Node(n), Node(n)', out) /\ Hears(Node(Peer(n)), Node(Peer(n))', out)
      BY <1>5
    <2> DEFINE x == Node(n)
               z == Node(Peer(n))
               y == Node(n)'
               w == Node(Peer(n))'
               m == Peer(n)
    <2>2. /\ m \in Nodes /\ NodeType(n, x) /\ NodeType(m, z) /\ NodeType(n, y)
          /\ Link(x, z) /\ Link(z, x) /\ Keeps(n, x) /\ Own(x) /\ Own(z)
          /\ Fresh(x, z) /\ Fresh(z, x) /\ NodeStep(n, x, y, out) /\ Hears(z, w, out)
          /\ Solvent(x.c) /\ Solvent(z.c) /\ Room(x.c, y.c)
      BY <1>2, <1>3, <2>1
    <2> HIDE DEF x, y, z, w, m
    <2>3. GotAdd(n, x, y, out) => <<"remote", Head(x.q).id>> \notin DOMAIN x.c.htlcs
      BY <2>2, FreshStep
    <2>4. Solvent(y.c)
      BY <2>2, <2>3, SolventStep
    <2>5. Solvent(w.c)
      BY <2>2 DEF Hears
    <2>6. \A k \in Nodes : k = n \/ k = Peer(n)
      BY TwoNodes
    <2>7. QED
      BY <2>4, <2>5, <2>6 DEF y, w
  <1>6. CASE \A n \in Nodes : Breaks(n, Node(n), Node(n)')
    <2> SUFFICES ASSUME NEW n \in Nodes
                 PROVE  Solvent(Node(n)'.c)
      OBVIOUS
    <2> DEFINE x == Node(n)
               y == Node(n)'
    <2>1. /\ NodeType(n, x) /\ NodeType(n, y) /\ Nums(x) /\ Keeps(n, x) /\ Solvent(x.c)
          /\ Breaks(n, x, y)
      BY <1>2, <1>3, <1>6
    <2> HIDE DEF x, y
    <2>2. Store(x.c, x.d)
      BY <2>1 DEF Keeps
    <2>3. Solvent(y.c)
      BY <2>1, <2>2, SolventBreak
    <2>4. QED
      BY <2>3 DEF y
  <1>7. CASE \A n \in Nodes : Reopens(Node(n), Node(n)', Node(Peer(n)))
    BY <1>3, <1>7 DEF Reopens
  <1>8. CASE \A n \in Nodes : Node(n)' = Node(n)
    BY <1>3, <1>8
  <1>9. QED
    BY <1>1, <1>5, <1>6, <1>7, <1>8 DEF Steps3

(* In every step. *)
LEMMA SolventNext ==
    ASSUME SolventInv, [Next]_vars
    PROVE  SolventInv'
  <1>1. KeepInv /\ KeepInv'
    BY KeepNext DEF SolventInv
  <1>2. ASSUME NEW n \in Nodes
        PROVE  chan[n].owed \in Balances /\ GoodChan(chan'[n])
    BY <1>1 DEF KeepInv, LinkInv, TypeInv, NodeType, Node, GoodChan, ChanRecs
  <1>3. CASE UNCHANGED vars
    BY <1>1, <1>3 DEF vars, SolventInv
  <1>4. CASE Next
    <2>1. \A n \in Nodes : Solvent(chan[n])
      BY <1>4, NextRuns DEF SolventInv
    <2>2. ASSUME \A m \in Nodes : Room(chan[m], chan'[m])
          PROVE  SolventInv'
      <3>1. \A n \in Nodes : Solvent(chan'[n])
        BY <1>1, <2>1, <2>2, SolventAll
      <3>2. \A n \in Nodes : \A v, s \in Sides : chan'[n].owed[v][s] >= 0
        BY <3>1 DEF Solvent
      <3>3. QED
        BY <1>1, <3>1, <3>2 DEF SolventInv
    <2>3. ASSUME NEW n \in Nodes, handle_offer_htlc(n)
          PROVE  SolventInv'
      BY <1>1, <2>2, <2>3, RoomOffered
    <2>4. ASSUME NEW n \in Nodes, handle_peer_add_htlc(n)
          PROVE  SolventInv'
      <3>1. /\ \A m \in Nodes : chan'[m].owed = chan[m].owed
            /\ fault' = "none" => \A m \in Nodes : Room(chan[m], chan'[m])
        BY <1>1, <2>4, RoomReceived
      <3>2. CASE fault' = "none"
        BY <2>2, <3>1, <3>2
      <3>3. CASE fault' # "none"
        <4>1. \A m \in Nodes : \A v, s \in Sides : chan'[m].owed[v][s] >= 0
          BY <3>1 DEF SolventInv
        <4>2. QED
          BY <1>1, <3>3, <4>1 DEF SolventInv
      <3>4. QED
        BY <3>2, <3>3
    <2>5. CASE \A m \in Nodes : DOMAIN chan'[m].htlcs \subseteq DOMAIN chan[m].htlcs
      <3>1. \A m \in Nodes : Room(chan[m], chan'[m])
        BY <2>5 DEF Room
      <3>2. QED
        BY <2>2, <3>1
    <2>6. QED
      BY <1>1, <1>4, <2>3, <2>4, <2>5, NoneNew
  <1>5. QED
    BY <1>3, <1>4

(* No view of the channel ever has a negative balance, on either node: the  *)
(* amounts that change_htlcs() takes from owed[] are there, and so are      *)
(* those that adjust_balance() takes in a restart.                          *)
NoOverdraft == \A n \in Nodes : ~underflow(chan[n])

(* NoOverdraft for every capacity and every reserve, however updates of     *)
(* both sides, removals, restarts and retransmissions interleave, although  *)
(* add_htlc() looks at one view only and counts removals that no            *)
(* commitment has yet.                                                      *)
THEOREM NeverOverdrawn == Spec => []NoOverdraft
  <1>1. Init => SolventInv
    <2> SUFFICES ASSUME Init
                 PROVE  SolventInv
      OBVIOUS
    <2>1. \A n \in Nodes : Solvent(chan[n])
      BY SolventInit
    <2>2. KeepInv
      BY KeepInit
    <2>3. QED
      BY <2>1, <2>2 DEF SolventInv, Solvent
  <1>2. SolventInv /\ [Next]_vars => SolventInv'
    BY SolventNext
  <1>3. SolventInv => NoOverdraft
    <2> SUFFICES ASSUME SolventInv, NEW n \in Nodes
                 PROVE  ~underflow(chan[n])
      BY DEF NoOverdraft
    <2>1. KeepInv /\ \A v, s \in Sides : chan[n].owed[v][s] >= 0
      BY DEF SolventInv
    <2>2. GoodChan(chan[n])
      BY <2>1, KeptNode
    <2>3. QED
      BY <2>1, <2>2, SolventNot
  <1>4. QED
    BY <1>1, <1>2, <1>3, PTL DEF Spec

-----------------------------------------------------------------------------
(* Which error paths can be taken.  The first of several checks that fail   *)
(* is one of them.                                                          *)
LEMMA FaultTwo ==
    ASSUME NEW S, "none" \in S, NEW a1, NEW a2, NEW s1, NEW s2, a1 => s1 \in S, a2 => s2 \in S
    PROVE  FirstFault(<< <<a1, s1>>, <<a2, s2>> >>) \in S
  <1> DEFINE cs == << <<a1, s1>>, <<a2, s2>> >>
             hits == {i \in DOMAIN cs : cs[i][1]}
  <1>1. hits = {i \in 1..2 : (i = 1 /\ a1) \/ (i = 2 /\ a2)}
    OBVIOUS
  <1>2. FirstFault(cs) = IF hits = {} THEN "none" ELSE cs[Min(hits)][2]
    BY DEF FirstFault
  <1> HIDE DEF hits
  <1>3. a1 => Min(hits) = 1
    BY <1>1 DEF Min
  <1>4. ~a1 /\ a2 => Min(hits) = 2
    BY <1>1 DEF Min
  <1>5. hits # {} => a1 \/ a2
    BY <1>1
  <1>6. QED
    BY <1>2, <1>3, <1>4, <1>5

(* Three checks. *)
LEMMA FaultThree ==
    ASSUME NEW S, "none" \in S, NEW a1, NEW a2, NEW a3, NEW s1, NEW s2, NEW s3,
           a1 => s1 \in S, a2 => s2 \in S, a3 => s3 \in S
    PROVE  FirstFault(<< <<a1, s1>>, <<a2, s2>>, <<a3, s3>> >>) \in S
  <1> DEFINE cs == << <<a1, s1>>, <<a2, s2>>, <<a3, s3>> >>
             hits == {i \in DOMAIN cs : cs[i][1]}
  <1>1. hits = {i \in 1..3 : (i = 1 /\ a1) \/ (i = 2 /\ a2) \/ (i = 3 /\ a3)}
    OBVIOUS
  <1>2. FirstFault(cs) = IF hits = {} THEN "none" ELSE cs[Min(hits)][2]
    BY DEF FirstFault
  <1> HIDE DEF hits
  <1>3. a1 => Min(hits) = 1
    BY <1>1 DEF Min
  <1>4. ~a1 /\ a2 => Min(hits) = 2
    BY <1>1 DEF Min
  <1>5. ~a1 /\ ~a2 /\ a3 => Min(hits) = 3
    BY <1>1 DEF Min
  <1>6. hits # {} => a1 \/ a2 \/ a3
    BY <1>1
  <1>7. QED
    BY <1>2, <1>3, <1>4, <1>5, <1>6

(* Four. *)
LEMMA FaultFour ==
    ASSUME NEW S, "none" \in S, NEW a1, NEW a2, NEW a3, NEW a4,
           NEW s1, NEW s2, NEW s3, NEW s4,
           a1 => s1 \in S, a2 => s2 \in S, a3 => s3 \in S, a4 => s4 \in S
    PROVE  FirstFault(<< <<a1, s1>>, <<a2, s2>>, <<a3, s3>>, <<a4, s4>> >>) \in S
  <1> DEFINE cs == << <<a1, s1>>, <<a2, s2>>, <<a3, s3>>, <<a4, s4>> >>
             hits == {i \in DOMAIN cs : cs[i][1]}
  <1>1. hits = {i \in 1..4 : (i = 1 /\ a1) \/ (i = 2 /\ a2) \/ (i = 3 /\ a3) \/ (i = 4 /\ a4)}
    OBVIOUS
  <1>2. FirstFault(cs) = IF hits = {} THEN "none" ELSE cs[Min(hits)][2]
    BY DEF FirstFault
  <1> HIDE DEF hits
  <1>3. a1 => Min(hits) = 1
    BY <1>1 DEF Min
  <1>4. ~a1 /\ a2 => Min(hits) = 2
    BY <1>1 DEF Min
  <1>5. ~a1 /\ ~a2 /\ a3 => Min(hits) = 3
    BY <1>1 DEF Min
  <1>6. ~a1 /\ ~a2 /\ ~a3 /\ a4 => Min(hits) = 4
    BY <1>1 DEF Min
  <1>7. hits # {} => a1 \/ a2 \/ a3 \/ a4
    BY <1>1
  <1>8. QED
    BY <1>2, <1>3, <1>4, <1>5, <1>6, <1>7

(* None of five. *)
LEMMA FaultNone ==
    ASSUME NEW a1, NEW a2, NEW a3, NEW a4, NEW a5, ~a1, ~a2, ~a3, ~a4, ~a5,
           NEW s1, NEW s2, NEW s3, NEW s4, NEW s5
    PROVE  FirstFault(<< <<a1, s1>>, <<a2, s2>>, <<a3, s3>>, <<a4, s4>>, <<a5, s5>> >>) = "none"
  BY DEF FirstFault

(* While a commitment is not revoked, the HTLCs that lightningd saved with  *)
(* it are there and where it put them.                                      *)
Resends(x) ==
    x.p.revs # x.p.nextR - 1 => \A h \in x.d.lastSent : Where(x.c, h) \in {1, 8, 13, 16}

(* A revocation answers the last commitment, and carries its number. *)
LEMMA RevokeDue ==
    ASSUME NEW x, NEW z, LinkType(x), LinkType(z), LinkNums(x, z), LinkNums(z, x),
           x.q # << >>, Head(x.q).type = "revoke"
    PROVE  x.p.revs = x.p.nextR - 2 /\ Head(x.q).num = x.p.nextR - 2
  <1>1. /\ x.q \in Seq(Msgs) /\ x.p.revs \in Nat /\ x.p.nextR \in Nat /\ z.p.nextL \in Nat
    BY DEF LinkType, PeerRecs
  <1>2. 1 \in DOMAIN x.q /\ Head(x.q) = x.q[1] /\ Head(x.q) \in Msgs
    BY <1>1
  <1>3. Has(x.q, OfType("revoke"))
    BY <1>2 DEF Has, OfType
  <1>4. x.p.revs = z.p.nextL - 2 /\ ~Has(x.q, RevokeNot(z.p.nextL - 2))
    BY <1>3 DEF LinkNums
  <1>5. Head(x.q).num = z.p.nextL - 2
    BY <1>2, <1>4 DEF Has, RevokeNot
  <1>6. z.p.nextL <= x.p.nextR /\ x.p.nextR <= x.p.revs + 2
    BY DEF LinkNums
  <1> DEFINE a == x.p.revs
             b == x.p.nextR
             c == z.p.nextL
  <1> HIDE DEF a, b, c
  <1>7. a = c - 2 /\ c <= b /\ b <= a + 2 /\ a \in Nat /\ b \in Nat /\ c \in Nat
    BY <1>1, <1>4, <1>6 DEF a, b, c
  <1>8. a = b - 2 /\ c - 2 = b - 2
    BY <1>7
  <1>9. QED
    BY <1>5, <1>8 DEF a, b, c

(* Every step of a node keeps what it would send again. *)
LEMMA ResendsStep ==
    ASSUME NEW n \in Nodes, NEW x, NodeType(n, x), NEW y, NodeType(n, y), NEW out,
           NodeStep(n, x, y, out), Keeps(n, x), Resends(x),
           NEW z, LinkType(z), LinkNums(x, z), LinkNums(z, x),
           GotAdd(n, x, y, out) => <<"remote", Head(x.q).id>> \notin DOMAIN x.c.htlcs
    PROVE  Resends(y)
  <1>1. /\ x.p \in PeerRecs /\ x.d \in DbRecs /\ y.p \in PeerRecs /\ Store(x.c, x.d)
        /\ x.c.htlcs \in HtlcMaps /\ LinkType(x)
    BY DEF NodeType, Keeps, GoodChan, ChanRecs, LinkType
  <1>2. ASSUME SameNums(x.p, y.p), y.d.lastSent = x.d.lastSent,
               \A h : Where(x.c, h) \in {1, 8, 13, 16} => Where(y.c, h) = Where(x.c, h)
        PROVE  Resends(y)
    BY <1>2 DEF Resends, SameNums
  <1>3. ASSUME SameNums(x.p, y.p), y.d.lastSent = x.d.lastSent, NEW h, NEW i,
               Put(x.c, y.c, h, i), Where(x.c, h) \in {4, 14, NoHtlc}
        PROVE  Resends(y)
    <2>1. \A g : Where(x.c, g) \in {1, 8, 13, 16} => g # h
      BY <1>3 DEF NoHtlc
    <2>2. QED
      BY <1>2, <1>3, <2>1 DEF Put
  <1>5. CASE Quiet(n, x, y, out) \/ SavesResolution(n, x, y, out) \/ GotFee(n, x, y, out)
    <2>1. Idles(x, y, out)
      BY <1>5, IdleSteps
    <2>2. QED
      BY <1>2, <2>1 DEF Idles, Still, SameIds
  <1>6. CASE Offers(n, x, y, out)
    <2> DEFINE h == <<"local", x.p.htlcId>>
    <2>1. Where(x.c, h) = NoHtlc /\ Put(x.c, y.c, h, 0)
      BY <1>1, <1>6, OfferPuts
    <2>2. SameNums(x.p, y.p) /\ y.d.lastSent = x.d.lastSent
      BY <1>1, <1>6 DEF Offers, SameNums
    <2> HIDE DEF h
    <2>3. QED
      BY <1>3, <2>1, <2>2
  <1>7. CASE Resolves(n, x, y, out)
    <2>1. PICK k \in Nat : Where(x.c, <<"remote", k>>) = 14 /\ Put(x.c, y.c, <<"remote", k>>, 15)
      BY <1>1, <1>7, ResolvePuts
    <2>2. SameNums(x.p, y.p) /\ y.d.lastSent = x.d.lastSent
      BY <1>1, <1>7 DEF Resolves, PeerKeeps, SameNums
    <2>3. QED
      BY <1>3, <2>1, <2>2
  <1>8. CASE GotAdd(n, x, y, out)
    <2> DEFINE h == <<"remote", Head(x.q).id>>
    <2>1. Where(x.c, h) = NoHtlc /\ Put(x.c, y.c, h, 10)
      BY <1>1, <1>8, AddPuts
    <2>2. SameNums(x.p, y.p) /\ y.d.lastSent = x.d.lastSent
      BY <1>1, <1>8 DEF GotAdd, SameNums
    <2> HIDE DEF h
    <2>3. QED
      BY <1>3, <2>1, <2>2
  <1>9. CASE GotRemove(n, x, y, out)
    <2> DEFINE h == <<"local", Head(x.q).id>>
    <2>1. y.c = x.c \/ (Where(x.c, h) = 4 /\ Put(x.c, y.c, h, 5))
      BY <1>1, <1>9, RemovePuts
    <2>2. SameNums(x.p, y.p) /\ y.d.lastSent = x.d.lastSent
      BY <1>1, <1>9 DEF GotRemove, PeerKeeps, SameNums
    <2> HIDE DEF h
    <2>3. QED
      BY <1>2, <1>3, <2>1, <2>2
  <1>10. CASE SendsCommit(n, x, y, out)
    <2>1. /\ \A h : Where(y.c, h) = Sent(Where(x.c, h))
          /\ y.d.lastSent = Unsent(x.c)
      BY <1>10, CommitMoves
    <2>2. \A h \in Unsent(x.c) : Sent(Where(x.c, h)) \in {1, 8, 13, 16}
      BY DEF Unsent, Sent
    <2>3. QED
      BY <2>1, <2>2 DEF Resends
  <1>11. CASE GotCommit(n, x, y, out)
    <2>1. /\ \A h : Where(y.c, h) = Took(Where(x.c, h))
          /\ y.d.lastSent = x.d.lastSent
      BY <1>1, <1>11, TookMoves
    <2>2. y.p.nextR = x.p.nextR /\ y.p.revs = x.p.revs
      BY <1>11 DEF GotCommit
    <2>3. \A i \in {1, 8, 13, 16} : Took(i) = i
      BY DEF Took
    <2>4. QED
      BY <2>1, <2>2, <2>3 DEF Resends
  <1>12. CASE GotRevoke(n, x, y, out)
    <2>1. x.q # << >> /\ Head(x.q).type = "revoke"
      BY <1>12 DEF GotRevoke, Reads
    <2>2. x.p.revs = x.p.nextR - 2
      BY <1>1, <2>1, RevokeDue
    <2>3. y.p.nextR = x.p.nextR /\ y.p.revs = x.p.revs + 1
      BY <1>12 DEF GotRevoke
    <2>4. y.p.revs = y.p.nextR - 1
      BY <1>1, <2>2, <2>3 DEF PeerRecs
    <2>5. QED
      BY <2>4 DEF Resends
  <1>13. CASE Answers(n, x, y, out)
    <2>1. y.c = x.c /\ SameNums(x.p, y.p) /\ y.d.lastSent = x.d.lastSent
      BY <1>1, <1>13 DEF Answers, PeerKeeps, SameNums
    <2>2. QED
      BY <1>2, <2>1
  <1>14. QED
    BY <1>5, <1>6, <1>7, <1>8, <1>9, <1>10, <1>11, <1>12, <1>13 DEF NodeStep

(* So does a cut. *)
LEMMA ResendsBreak ==
    ASSUME NEW n \in Nodes, NEW x, NodeType(n, x), Keeps(n, x), Nums(x), Resends(x),
           NEW y, Breaks(n, x, y)
    PROVE  Resends(y)
  <1>0. Store(x.c, x.d)
    BY DEF Keeps
  <1>1. \A h : Kept(Where(x.c, h), Where(y.c, h))
    BY <1>0, BreakMoves
  <1>2. SameNums(x.p, y.p)
    BY <1>0, BreakMoves
  <1>3. y.d = x.d
    BY <1>0, BreakMoves
  <1>4. \A h : Where(x.c, h) \in {1, 8, 13, 16} => Where(y.c, h) = Where(x.c, h)
    BY <1>1 DEF Kept, NoHtlc
  <1>5. QED
    BY <1>2, <1>3, <1>4 DEF Resends, SameNums

(* So it is in every step. *)
LEMMA ResendsNext ==
    ASSUME KeepInv, \A n \in Nodes : Resends(Node(n)), [Next]_vars
    PROVE  \A n \in Nodes : Resends(Node(n)')
  <1>1. TypeInv' /\ Steps3
    BY TypeStep DEF LinkInv, KeepInv
  <1>2. ASSUME NEW n \in Nodes
        PROVE  /\ Peer(n) \in Nodes /\ Peer(Peer(n)) = n
               /\ NodeType(n, Node(n)) /\ NodeType(Peer(n), Node(Peer(n)))
               /\ NodeType(n, Node(n)') /\ Nums(Node(n))
               /\ Link(Node(n), Node(Peer(n))) /\ Link(Node(Peer(n)), Node(n))
               /\ Keeps(n, Node(n)) /\ Own(Node(n)) /\ Own(Node(Peer(n)))
               /\ Fresh(Node(n), Node(Peer(n))) /\ Fresh(Node(Peer(n)), Node(n))
    BY <1>1, TwoNodes DEF KeepInv, LinkInv, TypeInv
  <1>5. CASE \E n \in Nodes : \E out \in Seq(Msgs) :
               NodeStep(n, Node(n), Node(n)', out) /\ Hears(Node(Peer(n)), Node(Peer(n))', out)
    <2>1. PICK n \in Nodes, out \in Seq(Msgs) :
               NodeStep(n, Node(n), Node(n)', out) /\ Hears(Node(Peer(n)), Node(Peer(n))', out)
      BY <1>5
    <2> DEFINE x == Node(n)
               z == Node(Peer(n))
               y == Node(n)'
               w == Node(Peer(n))'
               m == Peer(n)
    <2>2. /\ m \in Nodes /\ NodeType(n, x) /\ NodeType(m, z) /\ NodeType(n, y)
          /\ Link(x, z) /\ Link(z, x) /\ Keeps(n, x) /\ Own(x) /\ Own(z)
          /\ Fresh(x, z) /\ Fresh(z, x) /\ NodeStep(n, x, y, out) /\ Hears(z, w, out)
          /\ Resends(x) /\ Resends(z)
      BY <1>2, <2>1
    <2> HIDE DEF x, y, z, w, m
    <2>3. GotAdd(n, x, y, out) => <<"remote", Head(x.q).id>> \notin DOMAIN x.c.htlcs
      BY <2>2, FreshStep
    <2>4. LinkType(z) /\ LinkNums(x, z) /\ LinkNums(z, x)
      BY <2>2 DEF NodeType, LinkType, Link
    <2>5. Resends(y)
      BY <2>2, <2>3, <2>4, ResendsStep
    <2>6. Resends(w)
      BY <2>2 DEF Hears, Resends
    <2>7. \A k \in Nodes : k = n \/ k = Peer(n)
      BY TwoNodes
    <2>8. QED
      BY <2>5, <2>6, <2>7 DEF y, w
  <1>6. CASE \A n \in Nodes : Breaks(n, Node(n), Node(n)')
    <2> SUFFICES ASSUME NEW n \in Nodes
                 PROVE  Resends(Node(n)')
      OBVIOUS
    <2>1. /\ NodeType(n, Node(n)) /\ Nums(Node(n)) /\ Keeps(n, Node(n)) /\ Resends(Node(n))
          /\ Breaks(n, Node(n), Node(n)')
      BY <1>2, <1>6
    <2>2. QED
      BY <2>1, ResendsBreak
  <1>7. CASE \A n \in Nodes : Reopens(Node(n), Node(n)', Node(Peer(n)))
    <2> SUFFICES ASSUME NEW n \in Nodes
                 PROVE  Resends(Node(n)')
      OBVIOUS
    <2> DEFINE x == Node(n)
               y == Node(n)'
    <2>1. Reopens(x, y, Node(Peer(n))) /\ Resends(x) /\ x.p \in PeerRecs
      BY <1>2, <1>7 DEF NodeType
    <2> HIDE DEF x, y
    <2>2. y.c = x.c /\ y.d = x.d /\ y.p.revs = x.p.revs /\ y.p.nextR = x.p.nextR
      BY <2>1 DEF Reopens, PeerRecs
    <2>3. Resends(y)
      BY <2>1, <2>2 DEF Resends
    <2>4. QED
      BY <2>3 DEF y
  <1>8. CASE \A n \in Nodes : Node(n)' = Node(n)
    BY <1>8
  <1>9. QED
    BY <1>1, <1>5, <1>6, <1>7, <1>8 DEF Steps3

(* What lightningd has of an HTLC that a commitment or a revocation moves.  *)
LEMMA OldIs ==
    ASSUME NEW c, c.htlcs \in HtlcMaps, NEW d, d.htlcs \in HtlcMaps, Rows(c, d),
           NEW h \in DOMAIN c.htlcs
    PROVE  /\ Where(c, h) \notin {5, 14} => OldState(d, h) = Where(c, h)
           /\ Where(c, h) = 5 => OldState(d, h) = 4
  <1> DEFINE s == Where(c, h)
             t == Where(d, h)
  <1>1. Row(s, t) /\ s \in 0..20 /\ s # NoHtlc /\ h[1] = htlc_state_owner(s)
    BY WhereType DEF Rows
  <1>2. /\ h \in DOMAIN d.htlcs <=> t # NoHtlc
        /\ h \in DOMAIN d.htlcs => t = d.htlcs[h].state
    BY WhereType DEF Where
  <1>3. OldState(d, h) = IF t # NoHtlc THEN t ELSE IF h[1] = "local" THEN 0 ELSE 10
    BY <1>2 DEF OldState, SENT_ADD_HTLC, RCVD_ADD_HTLC
  <1> HIDE DEF s, t
  <1>4. CASE t = NoHtlc
    <2>1. s \in {0, 10}
      BY <1>1, <1>4 DEF Row, NoHtlc
    <2>2. OldState(d, h) = s
      BY <1>1, <1>3, <1>4, <2>1 DEF htlc_state_owner, RCVD_ADD_HTLC
    <2>3. QED
      BY <2>1, <2>2 DEF s
  <1>5. CASE t # NoHtlc
    <2>1. OldState(d, h) = t
      BY <1>3, <1>5
    <2>2. (s \notin {5, 14} => t = s) /\ (s = 5 => t = 4)
      BY <1>1, <1>5 DEF Row
    <2>3. QED
      BY <2>1, <2>2 DEF s
  <1>6. QED
    BY <1>4, <1>5

(* lightningd takes the states that send_commit() tells it. *)
LEMMA UpdatesSent ==
    ASSUME NEW c, GoodChan(c), NEW d \in DbRecs, Rows(c, d),
           NEW c1, GoodChan(c1), c1.htlcs = c.htlcs
    PROVE  HtlcUpdatesOk(d, channel_sending_commit(c1), moving(c1, sending_commit_states), 1)
  <1> DEFINE c2 == channel_sending_commit(c1)
             mv == moving(c1, sending_commit_states)
  <1>1. c.htlcs \in HtlcMaps /\ d.htlcs \in HtlcMaps
    BY DEF GoodChan, ChanRecs, DbRecs
  <1>2. /\ \A h : Where(c2, h) = Sent(Where(c1, h))
        /\ mv = {h \in DOMAIN c1.htlcs : Where(c1, h) \in {0, 7, 12, 15}}
    BY WhereSent
  <1>3. \A h : Where(c1, h) = Where(c, h)
    BY DEF Where
  <1> HIDE DEF c2, mv
  <1>4. SUFFICES ASSUME NEW h \in mv
                 PROVE  state_update_ok(OldState(d, h),
                          IF h \in DOMAIN c2.htlcs THEN State(c2, h)
                          ELSE IF h[1] = "local" THEN RCVD_REMOVE_ACK_REVOCATION
                                                 ELSE SENT_REMOVE_ACK_REVOCATION, 1)
    BY DEF HtlcUpdatesOk, c2, mv
  <1> DEFINE s == Where(c, h)
  <1>5. h \in DOMAIN c.htlcs /\ s \in {0, 7, 12, 15} /\ Where(c2, h) = s + 1
    BY <1>2, <1>3 DEF Sent
  <1>6. OldState(d, h) = s
    BY <1>1, <1>5, OldIs
  <1> HIDE DEF s
  <1>7. h \in DOMAIN c2.htlcs /\ State(c2, h) = s + 1
    BY <1>5 DEF Where, NoHtlc, State
  <1>8. state_update_ok(s, s + 1, 1)
    BY <1>5 DEF state_update_ok, expected_state, RCVD_REMOVE_HTLC
  <1>9. QED
    BY <1>6, <1>7, <1>8

(* And those of a revocation. *)
LEMMA UpdatesAcked ==
    ASSUME NEW c, GoodChan(c), NEW d \in DbRecs, Rows(c, d)
    PROVE  HtlcUpdatesOk(d, channel_rcvd_revoke_and_ack(c), moving(c, rcvd_revoke_states), 1)
  <1> DEFINE c2 == channel_rcvd_revoke_and_ack(c)
             mv == moving(c, rcvd_revoke_states)
  <1>1. c.htlcs \in HtlcMaps /\ d.htlcs \in HtlcMaps
    BY DEF GoodChan, ChanRecs, DbRecs
  <1>2. /\ \A h : Where(c2, h) = Acked(Where(c, h))
        /\ mv = {h \in DOMAIN c.htlcs : Where(c, h) \in {1, 8, 13, 16}}
    BY WhereAcked
  <1>3. GoodChan(c2)
    <2>1. <<"local", rcvd_revoke_states>> \in Steps
      BY DEF Steps
    <2>2. QED
      BY <2>1, ChangeGood DEF channel_rcvd_revoke_and_ack
  <1> HIDE DEF c2, mv
  <1>4. SUFFICES ASSUME NEW h \in mv
                 PROVE  state_update_ok(OldState(d, h),
                          IF h \in DOMAIN c2.htlcs THEN State(c2, h)
                          ELSE IF h[1] = "local" THEN RCVD_REMOVE_ACK_REVOCATION
                                                 ELSE SENT_REMOVE_ACK_REVOCATION, 1)
    BY DEF HtlcUpdatesOk, c2, mv
  <1> DEFINE s == Where(c, h)
  <1>5. /\ h \in DOMAIN c.htlcs /\ s \in {1, 8, 13, 16} /\ Where(c2, h) = Acked(s)
        /\ h[1] = htlc_state_owner(s)
    BY <1>1, <1>2, WhereType
  <1>6. OldState(d, h) = s
    BY <1>1, <1>5, OldIs
  <1>7. h \in DOMAIN c2.htlcs <=> Acked(s) # NoHtlc
    <2>1. c2.htlcs \in HtlcMaps
      BY <1>3 DEF GoodChan, ChanRecs
    <2>2. QED
      BY <1>5, <2>1, WhereType
  <1> HIDE DEF s
  <1>8. CASE s = 8
    <2>1. h \notin DOMAIN c2.htlcs
      BY <1>7, <1>8 DEF Acked
    <2>2. h[1] = "local"
      BY <1>5, <1>8 DEF htlc_state_owner, RCVD_ADD_HTLC
    <2>3. state_update_ok(8, RCVD_REMOVE_ACK_REVOCATION, 1)
      BY DEF state_update_ok, expected_state, RCVD_REMOVE_HTLC, RCVD_REMOVE_ACK_REVOCATION
    <2>4. QED
      BY <1>6, <1>8, <2>1, <2>2, <2>3
  <1>9. CASE s # 8
    <2>1. Acked(s) = s + 1 /\ Acked(s) # NoHtlc
      BY <1>5, <1>9 DEF Acked, NoHtlc
    <2>2. h \in DOMAIN c2.htlcs /\ State(c2, h) = s + 1
      BY <1>5, <1>7, <2>1 DEF Where, State
    <2>3. state_update_ok(s, s + 1, 1)
      BY <1>5 DEF state_update_ok, expected_state, RCVD_REMOVE_HTLC
    <2>4. QED
      BY <1>6, <2>2, <2>3
  <1>10. QED
    BY <1>8, <1>9

(* And of a commitment received, with the revocation that answers it. *)
LEMMA UpdatesTook ==
    ASSUME NEW c, GoodChan(c), Rest(c), NEW d \in DbRecs, Rows(c, d),
           NEW c2, GoodChan(c2), c2 = channel_sending_revoke_and_ack(channel_rcvd_commit(c))
    PROVE  HtlcUpdatesOk(d, c2, moving(c, rcvd_commit_states), 2)
  <1> DEFINE mv == moving(c, rcvd_commit_states)
  <1>1. c.htlcs \in HtlcMaps /\ d.htlcs \in HtlcMaps /\ c2.htlcs \in HtlcMaps
    BY DEF GoodChan, ChanRecs, DbRecs
  <1>2. /\ \A h : Where(c2, h) = Took(Where(c, h))
        /\ mv = {h \in DOMAIN c.htlcs : Where(c, h) \in {2, 5, 10, 17}}
    BY WhereTook
  <1> HIDE DEF mv
  <1>4. SUFFICES ASSUME NEW h \in mv
                 PROVE  state_update_ok(OldState(d, h),
                          IF h \in DOMAIN c2.htlcs THEN State(c2, h)
                          ELSE IF h[1] = "local" THEN RCVD_REMOVE_ACK_REVOCATION
                                                 ELSE SENT_REMOVE_ACK_REVOCATION, 2)
    BY DEF HtlcUpdatesOk, mv
  <1> DEFINE s == Where(c, h)
  <1>5. /\ h \in DOMAIN c.htlcs /\ s \in {2, 5, 10, 17} /\ Where(c2, h) = Took(s)
        /\ h[1] = htlc_state_owner(s)
    BY <1>1, <1>2, WhereType
  <1>6. OldState(d, h) = IF s = 5 THEN 4 ELSE s
    BY <1>1, <1>5, OldIs
  <1>7. h \in DOMAIN c2.htlcs <=> Took(s) # NoHtlc
    BY <1>1, <1>5, WhereType
  <1> HIDE DEF s
  <1>8. CASE s = 17
    <2>1. h \notin DOMAIN c2.htlcs
      BY <1>7, <1>8 DEF Took
    <2>2. h[1] = "remote"
      BY <1>5, <1>8 DEF htlc_state_owner, RCVD_ADD_HTLC
    <2>3. state_update_ok(17, SENT_REMOVE_ACK_REVOCATION, 2)
      BY DEF state_update_ok, expected_state, RCVD_REMOVE_HTLC, SENT_REMOVE_ACK_REVOCATION
    <2>4. QED
      BY <1>6, <1>8, <2>1, <2>2, <2>3
  <1>9. CASE s # 17
    <2>1. Took(s) = s + 2 /\ Took(s) # NoHtlc
      BY <1>5, <1>9 DEF Took, NoHtlc
    <2>2. h \in DOMAIN c2.htlcs /\ State(c2, h) = s + 2
      BY <1>5, <1>7, <2>1 DEF Where, State
    <2>3. state_update_ok(IF s = 5 THEN 4 ELSE s, s + 2, 2)
      BY <1>5, <1>9 DEF state_update_ok, expected_state, RCVD_REMOVE_HTLC, RCVD_REMOVE_COMMIT
    <2>4. QED
      BY <1>6, <2>2, <2>3
  <1>10. QED
    BY <1>8, <1>9

(* The ids in a commitment follow those that lightningd has saved. *)
LEMMA IdsFollow ==
    ASSUME NEW x, GoodChan(x.c), x.d \in DbRecs, x.p \in PeerRecs, Ids(x),
           NEW c1, GoodChan(c1), c1.htlcs = x.c.htlcs
    PROVE  ids_in_order(x.d, channel_sending_commit(c1), moving(c1, sending_commit_states))
  <1> DEFINE c2 == channel_sending_commit(c1)
             mv == moving(c1, sending_commit_states)
             new == {g \in mv : State(c2, g) = SENT_ADD_COMMIT}
             ids == {h[2] : h \in new}
             a == x.d.htlcId
             b == x.p.htlcId
  <1>1. x.c.htlcs \in HtlcMaps /\ a \in Nat /\ b \in Nat
    BY DEF GoodChan, ChanRecs, DbRecs, PeerRecs
  <1>2. /\ \A h : Where(c2, h) = Sent(Where(c1, h))
        /\ mv = {h \in DOMAIN c1.htlcs : Where(c1, h) \in {0, 7, 12, 15}}
    BY WhereSent
  <1>3. \A h : Where(c1, h) = Where(x.c, h)
    BY DEF Where
  <1>4. a <= b /\ \A k \in Nat : Where(x.c, <<"local", k>>) = 0 <=> a <= k /\ k < b
    BY DEF Ids, Mine
  <1>5. ids_in_order(x.d, c2, mv) <=> (ids # {} => Max(ids) = a + Cardinality(ids) - 1)
    BY DEF ids_in_order
  <1> HIDE DEF c2, mv, a, b
  <1>6. \A g : g \in new <=> Where(x.c, g) = 0
    <2>1. \A g \in mv : g \in DOMAIN c2.htlcs /\ State(c2, g) = Where(x.c, g) + 1
      BY <1>2, <1>3 DEF Sent, Where, NoHtlc, State
    <2>2. \A g : Where(x.c, g) = 0 => g \in mv
      BY <1>2, <1>3 DEF Where, NoHtlc
    <2>3. \A g \in mv : Where(x.c, g) \in {0, 7, 12, 15}
      BY <1>2, <1>3
    <2>4. QED
      BY <2>1, <2>2, <2>3 DEF SENT_ADD_COMMIT
  <1>7. \A g : Where(x.c, g) = 0 => \E k \in Nat : g = <<"local", k>>
    <2> SUFFICES ASSUME NEW g, Where(x.c, g) = 0
                 PROVE  \E k \in Nat : g = <<"local", k>>
      OBVIOUS
    <2>1. g \in DOMAIN x.c.htlcs
      BY DEF Where, NoHtlc
    <2>2. g \in HtlcKeys /\ g[1] = htlc_state_owner(0)
      BY <1>1, <2>1, WhereType
    <2>3. QED
      BY <2>2 DEF HtlcKeys, htlc_state_owner, RCVD_ADD_HTLC
  <1> HIDE DEF new
  <1>8. ids = a .. (b - 1)
    <2>1. \A k \in ids : k \in a .. (b - 1)
      <3> SUFFICES ASSUME NEW h \in new
                   PROVE  h[2] \in a .. (b - 1)
        OBVIOUS
      <3>1. PICK k \in Nat : h = <<"local", k>>
        BY <1>6, <1>7
      <3>2. a <= k /\ k < b
        BY <1>4, <1>6, <3>1
      <3>3. k \in a .. (b - 1)
        BY <1>1, <3>2
      <3>4. QED
        BY <3>1, <3>3
    <2>2. \A k \in a .. (b - 1) : k \in ids
      <3> SUFFICES ASSUME NEW k \in a .. (b - 1)
                   PROVE  k \in ids
        OBVIOUS
      <3>1. k \in Nat /\ a <= k /\ k < b
        BY <1>1
      <3>2. <<"local", k>> \in new
        BY <1>4, <1>6, <3>1
      <3>3. k = <<"local", k>>[2]
        OBVIOUS
      <3>4. QED
        BY <3>2, <3>3
    <2>3. QED
      BY <2>1, <2>2
  <1> HIDE DEF ids
  <1>9. ASSUME ids # {}
        PROVE  Max(ids) = a + Cardinality(ids) - 1
    <2>1. a <= b - 1
      BY <1>1, <1>8, <1>9
    <2>2. Cardinality(ids) = b - a
      <3>1. Cardinality(a .. (b - 1)) = IF a > b - 1 THEN 0 ELSE (b - 1) - a + 1
        BY <1>1, FS_Interval
      <3>2. QED
        BY <1>1, <1>8, <2>1, <3>1
    <2>3. Max(ids) = b - 1
      <3>1. b - 1 \in ids /\ \A k \in ids : b - 1 >= k
        BY <1>1, <1>8, <2>1
      <3>2. \A k \in ids : (\A j \in ids : k >= j) => k = b - 1
        BY <1>1, <1>8, <3>1
      <3>3. QED
        BY <3>1, <3>2 DEF Max
    <2>4. QED
      BY <1>1, <2>2, <2>3
  <1>10. QED
    BY <1>5, <1>9 DEF c2, mv

(* What the two nodes have, by themselves and of each other. *)
LEMMA PairKept ==
    ASSUME KeepInv, NEW n \in Nodes
    PROVE  LET x == Node(n)
               z == Node(Peer(n))
           IN  /\ Peer(n) \in Nodes /\ NodeType(n, x) /\ LinkType(x) /\ LinkType(z)
               /\ LinkNums(x, z) /\ LinkNums(z, x) /\ LinkPhase(z, x)
               /\ GoodChan(x.c) /\ x.d \in DbRecs /\ x.p \in PeerRecs
               /\ Store(x.c, x.d) /\ Ids(x)
               /\ Signed(Peer(n), z) /\ OneTx(z, x)
  <1>1. /\ Peer(n) \in Nodes /\ Peer(Peer(n)) = n
    BY TwoNodes
  <1>2. /\ NodeType(n, Node(n)) /\ NodeType(Peer(n), Node(Peer(n)))
        /\ Link(Node(n), Node(Peer(n))) /\ Link(Node(Peer(n)), Node(n))
        /\ Keeps(n, Node(n)) /\ Own(Node(n)) /\ Keeps(Peer(n), Node(Peer(n)))
        /\ Fresh(Node(Peer(n)), Node(n))
    BY <1>1 DEF KeepInv, LinkInv, TypeInv
  <1>3. QED
    BY <1>1, <1>2 DEF NodeType, Link, LinkType, Keeps, Own, Fresh

(* handle_preimage(), handle_fail(): the HTLC that lightningd settles is    *)
(* fully committed, and channeld has not settled it yet.                    *)
LEMMA ResolutionTaken ==
    ASSUME KeepInv, NEW n \in Nodes, handle_resolution(n)
    PROVE  fault' = "none"
  <1> DEFINE c == chan[n]
             d == db[n]
  <1>1. PICK h \in DOMAIN d.htlcs :
              /\ d.htlcs[h].state = 15 /\ h \in DOMAIN c.htlcs /\ State(c, h) < 15
              /\ fault' = IF remove_htlc_ok(c, h) THEN "none" ELSE "HTLC preimage failed"
    BY DEF handle_resolution, SENT_REMOVE_HTLC
  <1>2. Rows(c, d) /\ Resolved(c)
    BY KeptNode DEF Store
  <1> HIDE DEF c, d
  <1>3. Where(d, h) = 15 /\ Where(c, h) = State(c, h)
    BY <1>1 DEF Where, State
  <1>4. Row(Where(c, h), 15)
    BY <1>2, <1>3 DEF Rows
  <1> DEFINE s == State(c, h)
  <1>5. Where(c, h) = 14 /\ s = 14
    <2> HIDE DEF s
    <2>1. Row(s, 15) /\ s < 15
      BY <1>1, <1>3, <1>4 DEF s
    <2>2. s = 14
      <3>1. CASE s = 15
        BY <2>1, <3>1
      <3>2. CASE s # 15
        BY <2>1, <3>2 DEF Row, NoHtlc
      <3>3. QED
        BY <3>1, <3>2
    <2>3. QED
      BY <1>3, <2>2 DEF s
  <1>6. c.htlcs[h].r = "none"
    <2>1. 14 \in (0..4) \cup (10..14)
      OBVIOUS
    <2>2. c.htlcs[h].r = "none" <=> Where(c, h) \in (0..4) \cup (10..14)
      BY <1>1, <1>2 DEF Resolved
    <2>3. QED
      BY <1>5, <2>1, <2>2
  <1>7. remove_htlc_ok(c, h)
    BY <1>1, <1>5, <1>6 DEF remove_htlc_ok, RCVD_ADD_ACK_REVOCATION
  <1>8. QED
    BY <1>1, <1>7

(* send_commit() counts revocations right. *)
LEMMA NotNowTaken ==
    ASSUME KeepInv, NEW n \in Nodes, send_commit_not_now(n)
    PROVE  fault' = "none"
  <1> DEFINE x == Node(n)
             z == Node(Peer(n))
  <1>1. LinkType(x) /\ LinkType(z) /\ LinkNums(x, z)
    BY PairKept
  <1>2. x.p = peer[n]
    BY DEF Node
  <1>3. fault' = IF awaiting_revocation(peer[n]) /\ peer[n].revs # peer[n].nextR - 2
                 THEN "assert revocations_received" ELSE "none"
    BY DEF send_commit_not_now
  <1> HIDE DEF x, z
  <1> DEFINE a == x.p.revs
             b == x.p.nextR
             e == z.p.nextL
  <1>4. a \in Nat /\ b \in Nat /\ e \in Nat /\ a <= e - 1 /\ e <= b /\ b <= a + 2
    BY <1>1 DEF LinkType, LinkNums, PeerRecs
  <1> HIDE DEF a, b, e
  <1>5. a = b - 1 \/ a = b - 2
    BY <1>4
  <1>6. QED
    BY <1>2, <1>3, <1>5 DEF awaiting_revocation, a, b

(* send_commit(): the balances are there, lightningd takes the states and   *)
(* the ids.  Only the feerate may be too much.                              *)
LEMMA SendTaken ==
    ASSUME KeepInv, SolventInv', NEW n \in Nodes, send_commit(n)
    PROVE  fault' \in {"none", "Could not afford feerate"}
  <1> DEFINE x == Node(n)
             c1 == with_fee_update(n)
             c2 == channel_sending_commit(c1)
             mv == moving(c1, sending_commit_states)
             S == {"none", "Could not afford feerate"}
             rate == c1.fee[first_fee_state("local")]
             a1 == c1 # chan[n] /\ ~can_opener_afford_feerate(chan[n], rate)
             a2 == underflow(c2)
             a3 == ~HtlcUpdatesOk(db[n], c2, mv, 1)
             a4 == ~ids_in_order(db[n], c2, mv)
  <1>1. /\ chan' = [chan EXCEPT ![n] = c2]
        /\ fault' = FirstFault(<< <<a1, "Could not afford feerate">>,
                                  <<a2, "balance underflow">>, <<a3, "invalid HTLC update">>,
                                  <<a4, "ids out of order">> >>)
    BY DEF send_commit
  <1>2. /\ GoodChan(x.c) /\ x.d \in DbRecs /\ x.p \in PeerRecs /\ Store(x.c, x.d) /\ Ids(x)
        /\ x.c = chan[n] /\ x.d = db[n]
    BY PairKept DEF Node
  <1>3. GoodChan(c1) /\ c1.htlcs = x.c.htlcs
    BY <1>2, WithFeeUpdate DEF KeepInv, LinkInv
  <1>4. ~a2
    <2>1. chan'[n] = c2
      BY <1>1 DEF KeepInv, LinkInv, TypeInv, Shape
    <2>2. KeepInv' /\ \A v, s \in Sides : chan'[n].owed[v][s] >= 0
      BY DEF SolventInv
    <2>3. GoodChan(chan'[n])
      BY <2>2 DEF KeepInv, LinkInv, TypeInv, NodeType, Node
    <2>4. ~underflow(chan'[n])
      BY <2>2, <2>3, SolventNot
    <2>5. QED
      BY <2>1, <2>4
  <1> HIDE DEF x
  <1>5. ~a3
    <2>1. Rows(x.c, x.d)
      BY <1>2 DEF Store
    <2>2. HtlcUpdatesOk(x.d, c2, mv, 1)
      BY <1>2, <1>3, <2>1, UpdatesSent
    <2>3. QED
      BY <1>2, <2>2
  <1>6. ~a4
    <2>1. ids_in_order(x.d, c2, mv)
      BY <1>2, <1>3, IdsFollow
    <2>2. QED
      BY <1>2, <2>1
  <1> HIDE DEF a1, a2, a3, a4
  <1>7. QED
    BY <1>1, <1>4, <1>5, <1>6, FaultFour

(* A removal that is read is of an HTLC that is fully committed. *)
LEMMA RemoveTaken ==
    ASSUME MatchInv, NEW n \in Nodes, handle_peer_remove_htlc(n)
    PROVE  fault' = "none"
  <1> DEFINE x == Node(n)
             z == Node(Peer(n))
             m == Head(net[n])
             h == <<"local", m.id>>
  <1>1. Met(n, x, Peer(n), z) /\ KeepInv
    BY MatchIs DEF MatchInv, SettleInv
  <1>2. /\ x.q # << >> /\ m = Head(x.q) /\ m.type \in {"fulfill", "fail"} /\ x.c = chan[n]
        /\ remove_htlc_ok(x.c, h) => fault' = "none"
    BY DEF handle_peer_remove_htlc, Receives, Node
  <1> HIDE DEF x, z, m
  <1>3. /\ x.q \in Seq(Msgs) /\ Store(x.c, x.d)
        /\ \A k \in Nat : Has(x.q, RemoveOf(k)) => Mine(x, k) = 4
    BY <1>1, MetIs DEF RemoveGoes
  <1>4. 1 \in DOMAIN x.q /\ m = x.q[1] /\ m \in Msgs
    BY <1>2, <1>3
  <1>5. m.id \in Nat
    BY <1>2, <1>4 DEF Msgs
  <1>6. Has(x.q, RemoveOf(m.id))
    BY <1>2, <1>4 DEF Has, RemoveOf
  <1>7. Where(x.c, h) = 4
    BY <1>3, <1>5, <1>6 DEF Mine
  <1>8. h \in DOMAIN x.c.htlcs /\ State(x.c, h) = 4
    BY <1>7 DEF Where, State, NoHtlc
  <1>9. x.c.htlcs[h].r = "none"
    BY <1>3, <1>7, <1>8 DEF Store, Resolved
  <1>10. remove_htlc_ok(x.c, h)
    BY <1>8, <1>9 DEF remove_htlc_ok, SENT_ADD_ACK_REVOCATION
  <1>11. QED
    BY <1>2, <1>10

(* Only the opener sends feerates. *)
LEMMA FeeTaken ==
    ASSUME FeesInv, NEW n \in Nodes, handle_peer_feechange(n)
    PROVE  fault' \in {"none", "update_fee unaffordable"}
  <1> DEFINE rate == Head(net[n]).rate
             S == {"none", "update_fee unaffordable"}
             a1 == OpenerSide(n) # "remote"
             a2 == ~can_opener_afford_feerate(chan[n], rate)
  <1>1. /\ net[n] # << >> /\ Head(net[n]).type = "fee"
        /\ fault' = FirstFault(<< <<a1, "update_fee from non-opener">>,
                                  <<a2, "update_fee unaffordable">> >>)
    BY DEF handle_peer_feechange, Receives
  <1>2. ~a1
    <2>1. SUFFICES ASSUME n = A PROVE FALSE
      BY DEF OpenerSide
    <2>2. ~Has(net[A], OfType("fee"))
      BY DEF FeesInv, Fees, FeeGoes, Node
    <2>3. net[A] \in Seq(Msgs)
      <3>1. NodeType(n, Node(n))
        BY MatchIs DEF FeesInv, OwesInv
      <3>2. QED
        BY <2>1, <3>1 DEF NodeType, Node
    <2> DEFINE q == net[A]
    <2>4. q \in Seq(Msgs) /\ q # << >> /\ Head(q).type = "fee" /\ ~Has(q, OfType("fee"))
      BY <1>1, <2>1, <2>2, <2>3
    <2> HIDE DEF q
    <2>5. 1 \in DOMAIN q /\ Head(q) = q[1] /\ Head(q) \in Msgs
      BY <2>4
    <2>6. QED
      BY <2>4, <2>5 DEF Has, OfType
  <1> HIDE DEF a1, a2
  <1>3. QED
    BY <1>1, <1>2, FaultTwo

(* A revocation that is read is the one that is due. *)
LEMMA RevokeTaken ==
    ASSUME KeepInv, NEW n \in Nodes, handle_peer_revoke_and_ack(n)
    PROVE  fault' = "none"
  <1> DEFINE x == Node(n)
             z == Node(Peer(n))
             S == {"none"}
             a1 == peer[n].revs # peer[n].nextR - 2
             a2 == Head(net[n]).num # peer[n].nextR - 2
             a3 == ~HtlcUpdatesOk(db[n], channel_rcvd_revoke_and_ack(chan[n]),
                                  moving(chan[n], rcvd_revoke_states), 1)
  <1>1. /\ x.q # << >> /\ Head(x.q).type = "revoke"
        /\ fault' = FirstFault(<< <<a1, "Unexpected revoke_and_ack">>, <<a2, "Wrong privkey">>,
                                  <<a3, "invalid HTLC update">> >>)
    BY DEF handle_peer_revoke_and_ack, Receives, Node
  <1>2. /\ LinkType(x) /\ LinkType(z) /\ LinkNums(x, z) /\ LinkNums(z, x)
        /\ GoodChan(x.c) /\ x.d \in DbRecs /\ Store(x.c, x.d)
        /\ x.c = chan[n] /\ x.d = db[n] /\ x.p = peer[n] /\ x.q = net[n]
    BY PairKept DEF Node
  <1> HIDE DEF x, z
  <1>3. ~a1 /\ ~a2
    <2>1. x.p.revs = x.p.nextR - 2 /\ Head(x.q).num = x.p.nextR - 2
      BY <1>1, <1>2, RevokeDue
    <2>2. QED
      BY <1>2, <2>1
  <1>4. ~a3
    <2>1. Rows(x.c, x.d)
      BY <1>2 DEF Store
    <2>2. HtlcUpdatesOk(x.d, channel_rcvd_revoke_and_ack(x.c), moving(x.c, rcvd_revoke_states), 1)
      BY <1>2, <2>1, UpdatesAcked
    <2>3. QED
      BY <1>2, <2>2
  <1> HIDE DEF a1, a2, a3
  <1>5. FirstFault(<< <<a1, "Unexpected revoke_and_ack">>, <<a2, "Wrong privkey">>,
                      <<a3, "invalid HTLC update">> >>) \in S
    BY <1>3, <1>4, FaultThree
  <1>6. QED
    BY <1>1, <1>5

(* A channel that is restored has the outcomes of what is settled, and no   *)
(* balance below zero.  Only a limit on the number of HTLCs may refuse it.  *)
LEMMA BreakTaken ==
    ASSUME SolventInv', BreakConnection
    PROVE  fault' \in {"none", "Could not restore HTLCs"}
  <1> DEFINE S == {"none", "Could not restore HTLCs"}
             a1 == \E n \in Nodes : force_may_refuse(chan'[n])
             a2 == \E n \in Nodes : ~adjust_balance_ok(chan'[n]) \/ underflow(chan'[n])
  <1>1. fault' = FirstFault(<< <<a1, "Could not restore HTLCs">>,
                               <<a2, "Could not restore balances">> >>)
    BY DEF BreakConnection
  <1>2. ASSUME NEW n \in Nodes
        PROVE  adjust_balance_ok(chan'[n]) /\ ~underflow(chan'[n])
    <2> DEFINE c == chan'[n]
    <2>1. KeepInv' /\ \A v, s \in Sides : c.owed[v][s] >= 0
      BY DEF SolventInv
    <2>2. NodeType(n, Node(n)') /\ Keeps(n, Node(n)') /\ Node(n)'.c = c
      BY <2>1 DEF KeepInv, LinkInv, TypeInv, Node
    <2>3. GoodChan(c) /\ Resolved(c)
      BY <2>2 DEF NodeType, Keeps, Store
    <2> HIDE DEF c
    <2>4. ~underflow(c)
      BY <2>1, <2>3, SolventNot
    <2>5. adjust_balance_ok(c)
      <3>1. ASSUME NEW h \in DOMAIN c.htlcs, NEW v \in Sides,
                   State(c, h) \in WasCommitted(v) \ Committed(v)
            PROVE  c.htlcs[h].r # "none"
        <4> DEFINE s == State(c, h)
        <4>1. Where(c, h) = s
          BY DEF Where, State
        <4>2. s \in WasCommitted(v) \ Committed(v)
          BY <3>1
        <4> HIDE DEF s
        <4>3. s \notin (0..4) \cup (10..14)
          BY <4>2 DEF WasCommitted, Committed, Sides
        <4>4. QED
          BY <2>3, <4>1, <4>3 DEF Resolved
      <3>2. QED
        BY <3>1 DEF adjust_balance_ok
    <2>6. QED
      BY <2>4, <2>5 DEF c
  <1>3. ~a2
    BY <1>2
  <1> HIDE DEF a1, a2
  <1>4. QED
    BY <1>1, <1>3, FaultTwo

(* channel_reestablish asks for what the node has: neither is in the past   *)
(* of the other, and what is sent again is there.                           *)
LEMMA ReconnectTaken ==
    ASSUME KeepInv, NEW n \in Nodes, Resends(Node(n)), peer_reconnect(n)
    PROVE  fault' = "none"
  <1> DEFINE x == Node(n)
             z == Node(Peer(n))
             m == Head(net[n])
             a1 == m.nr < peer[n].nextL - 2
             a2 == m.nr > peer[n].nextL - 1
             a3 == m.nc \notin {peer[n].nextR - 1, peer[n].nextR} \/ m.nc = 0
             a4 == m.nc = peer[n].nextR - 1 /\ ~(db[n].lastSent \subseteq DOMAIN chan[n].htlcs)
             a5 == in_state(chan[n], SENT_REMOVE_HTLC)
                      # {h \in in_state(chan[n], SENT_REMOVE_HTLC) : chan[n].htlcs[h].r # "none"}
  <1>1. /\ x.p.phase = "reestablish"
        /\ fault' = FirstFault(<<
             <<a1, "peer is in the past">>, <<a2, "we are in the past">>,
             <<a3, "bad reestablish commitment_number">>, <<a4, "Can't find HTLC to resend">>,
             <<a5, "HTLC not failed/fulfilled">> >>)
    BY DEF peer_reconnect, Node
  <1>2. /\ LinkType(x) /\ LinkType(z) /\ LinkNums(x, z) /\ LinkNums(z, x) /\ LinkPhase(z, x)
        /\ Store(x.c, x.d) /\ Resends(x)
        /\ x.c = chan[n] /\ x.d = db[n] /\ x.p = peer[n] /\ x.q = net[n]
    BY PairKept DEF Node
  <1> HIDE DEF x, z
  <1>3. m = reestablish(z.p)
    BY <1>1, <1>2 DEF LinkPhase
  <1>4. m.nc = z.p.nextL /\ m.nr = z.p.revs
    BY <1>3 DEF reestablish
  <1> DEFINE xl == x.p.nextL
             xr == x.p.nextR
             xv == x.p.revs
             zl == z.p.nextL
             zr == z.p.nextR
             zv == z.p.revs
  <1>5. /\ xl \in Nat /\ xr \in Nat /\ xv \in Nat /\ zl \in Nat /\ zr \in Nat /\ zv \in Nat
        /\ xv <= zl - 1 /\ zl <= xr /\ xr <= xv + 2
        /\ zv <= xl - 1 /\ xl <= zr /\ zr <= zv + 2
    BY <1>2 DEF LinkType, LinkNums, PeerRecs
  <1> HIDE DEF xl, xr, xv, zl, zr, zv
  <1>6. /\ ~(zv < xl - 2) /\ ~(zv > xl - 1) /\ zl \in {xr - 1, xr} /\ zl # 0
        /\ zl = xr - 1 => xv # xr - 1
    BY <1>5
  <1>7. ~a1 /\ ~a2 /\ ~a3
    BY <1>2, <1>4, <1>6 DEF xl, xr, zl, zv
  <1>8. ~a4
    <2>1. SUFFICES ASSUME m.nc = x.p.nextR - 1 PROVE x.d.lastSent \subseteq DOMAIN x.c.htlcs
      BY <1>2
    <2>2. x.p.revs # x.p.nextR - 1
      BY <1>4, <1>6, <2>1 DEF xv, xr, zl
    <2>3. \A h \in x.d.lastSent : Where(x.c, h) # NoHtlc
      BY <1>2, <2>2 DEF Resends, NoHtlc
    <2>4. QED
      BY <2>3 DEF Where
  <1>9. ~a5
    <2>1. ASSUME NEW h \in in_state(x.c, SENT_REMOVE_HTLC)
          PROVE  x.c.htlcs[h].r # "none"
      <3>1. h \in DOMAIN x.c.htlcs /\ Where(x.c, h) = 15
        BY DEF in_state, SENT_REMOVE_HTLC, State, Where
      <3>2. 15 \notin (0..4) \cup (10..14)
        OBVIOUS
      <3>3. QED
        BY <1>2, <3>1, <3>2 DEF Store, Resolved
    <2>2. QED
      BY <1>2, <2>1
  <1> HIDE DEF a1, a2, a3, a4, a5
  <1>10. QED
    BY <1>1, <1>7, <1>8, <1>9, FaultNone

(* The revocation that answers a commitment leaves the commitment as it is. *)
LEMMA SameOurs ==
    ASSUME NEW n \in Nodes, NEW c, GoodChan(c), Rest(c), NEW num
    PROVE  LET c1 == channel_rcvd_commit(c)
               c2 == channel_sending_revoke_and_ack(c1)
           IN  c2.owed = c1.owed /\ CommitTx(n, c2, "local", num) = CommitTx(n, c1, "local", num)
  <1> DEFINE c1 == channel_rcvd_commit(c)
             c2 == channel_sending_revoke_and_ack(c1)
  <1>1. GoodChan(c1)
    BY ChangeGood DEF channel_rcvd_commit, Steps
  <1>2. /\ \A h : Where(c2, h) = Took(Where(c, h))
        /\ \A h : Where(c1, h) = IF Where(c, h) \in {2, 5, 10, 17} THEN Where(c, h) + 1
                                 ELSE Where(c, h)
        /\ SameHtlcs(c, c1) /\ SameHtlcs(c, c2)
    BY WhereTook
  <1> HIDE DEF c1
  <1>3. GoodChan(c2)
    BY <1>1, ChangeGood DEF channel_sending_revoke_and_ack, Steps
  <1>4. /\ c2.owed["local"] = c1.owed["local"] /\ c2.owed["remote"] = c1.owed["remote"]
        /\ c2.opener = c1.opener /\ c2.fee = inc_fee_states(c1.fee, {3, 6, 11, 18})
    BY <1>1, OwedStays, OpenerStays, FeesMoved
  <1> HIDE DEF c2
  <1>5. c2.owed = c1.owed
    <2>1. c1.owed \in Balances /\ c2.owed \in Balances
      BY <1>1, <1>3 DEF GoodChan, ChanRecs
    <2>2. QED
      BY <1>4, <2>1 DEF Balances, Sides
  <1>6. channel_feerate(c2, "local") = channel_feerate(c1, "local")
    <2> DEFINE f == c1.fee
               g == c2.fee
    <2>1. f \in Slots /\ c1.opener \in Sides /\ \A i \in 0..19 : f[i] \in Nat
      BY <1>1 DEF GoodChan, ChanRecs, Slots, HtlcStates
    <2>2. c1.opener = "local" \/ c1.opener = "remote"
      BY <2>1 DEF Sides
    <2>3. /\ c1.opener = "local" => channel_feerate(c1, "local") = Young(f[3], f[4])
          /\ c1.opener = "remote" => channel_feerate(c1, "local")
                     = Young(f[11], Young(f[12], Young(f[13], f[14])))
      BY <1>1, FeerateIs
    <2>4. /\ c1.opener = "local" => channel_feerate(c2, "local") = Young(g[3], g[4])
          /\ c1.opener = "remote" => channel_feerate(c2, "local")
                     = Young(g[11], Young(g[12], Young(g[13], g[14])))
      BY <1>3, <1>4, FeerateIs
    <2>5. /\ g[3] = 0 /\ g[4] = Young(f[3], f[4])
          /\ g[11] = 0 /\ g[12] = Young(f[11], f[12]) /\ g[13] = f[13] /\ g[14] = f[14]
      BY <1>4, <2>1, SlotsMoved
    <2> HIDE DEF f, g
    <2>6. QED
      BY <2>2, <2>3, <2>4, <2>5 DEF Young
  <1>7. /\ c1.htlcs \in HtlcMaps /\ c2.htlcs \in HtlcMaps /\ c.htlcs \in HtlcMaps
        /\ "local" \in Sides
    BY <1>1, <1>3 DEF GoodChan, ChanRecs, Sides
  <1>8. \A h : Where(c, h) \in 0..20 /\ Where(c, h) \notin {3, 6, 9, 11, 18, 19}
    BY <1>7, WhereType DEF Rest
  <1>9. \A h : Where(c1, h) \in Committed("local") <=> Where(c2, h) \in Committed("local")
    BY <1>2, <1>8 DEF Committed, Took, NoHtlc
  <1>10. /\ \A h : Where(c1, h) \in Committed("local") => h \in DOMAIN c1.htlcs
         /\ \A h : Where(c2, h) \in Committed("local") => h \in DOMAIN c2.htlcs
    BY DEF Where, Committed, NoHtlc
  <1>11. \A h : Where(c1, h) \in Committed("local") => c2.htlcs[h].amount = c1.htlcs[h].amount
    BY <1>2, <1>9, <1>10 DEF SameHtlcs
  <1>12. CommitTx(n, c2, "local", num) = CommitTx(n, c1, "local", num)
    BY <1>4, <1>6, <1>7, <1>9, <1>11, TxOf
  <1>13. QED
    BY <1>5, <1>12 DEF c1, c2

(* Two commitments that agree in one number agree in all. *)
LEMMA TxNumber ==
    ASSUME NEW n, NEW m, NEW c, NEW d, NEW v, NEW w, NEW k,
           CommitTx(n, c, v, 0) = CommitTx(m, d, w, 0)
    PROVE  CommitTx(n, c, v, k) = CommitTx(m, d, w, k)
  BY DEF CommitTx

(* The signature that a node has been sent is of the commitment that it     *)
(* makes of what it has read.                                               *)
LEMMA SignatureGood ==
    ASSUME FeesInv, FeesInv', NEW n \in Nodes, handle_peer_commit_sig(n)
    PROVE  Head(net[n]).tx = CommitTx(n, channel_rcvd_commit(chan[n]), "local", peer[n].nextL)
  <1> DEFINE m == Peer(n)
             x == Node(n)
             z == Node(m)
             p == peer[n]
             c == chan[n]
             c1 == channel_rcvd_commit(c)
             c2 == channel_sending_revoke_and_ack(c1)
             e == IF any_change(c, rcvd_commit_states) THEN p.lastEmpty ELSE p.nextL
             t == p.timer \/ revoke_queues_changes(c1) \/ want_fee_update(n, p, c2)
             p2 == [p EXCEPT !.nextL = @ + 1, !.lastEmpty = e, !.timer = t]
  <1>1. KeepInv /\ Shape /\ m \in Nodes /\ m # n /\ Peer(m) = n
    BY TwoNodes DEF FeesInv, OwesInv, MatchInv, SettleInv, KeepInv, LinkInv, TypeInv
  <1>2. /\ x.p.phase = "run" /\ x.q # << >> /\ Head(x.q).type = "commit"
        /\ chan' = [chan EXCEPT ![n] = c2]
        /\ peer' = [peer EXCEPT ![n] = MainLoop(p2, c2)]
    BY DEF handle_peer_commit_sig, Receives, Running, Node
  <1>3. /\ LinkType(x) /\ LinkNums(z, x) /\ GoodChan(x.c) /\ Rest(x.c) /\ x.p \in PeerRecs
        /\ Signed(m, z) /\ OneTx(z, x) /\ x.c = c /\ x.p = p /\ x.q = net[n]
        /\ z.p = peer[m] /\ z.c = chan[m]
    BY <1>1, PairKept DEF Store, Node
  <1>4. GoodChan(c1)
    BY <1>3, ChangeGood DEF channel_rcvd_commit, Steps
  <1>5. GoodChan(c2)
    BY <1>4, ChangeGood DEF channel_sending_revoke_and_ack, Steps
  <1>6. e \in Nat /\ t \in BOOLEAN /\ p.nextL \in Nat /\ p.nextL + 1 \in Nat
    BY <1>3 DEF PeerRecs
  <1> HIDE DEF e, t
  <1>7. p2 \in PeerRecs /\ p2.nextL = p.nextL + 1 /\ p2.phase = "run"
    BY <1>2, <1>3, <1>6 DEF PeerRecs
  <1> HIDE DEF p2, c2
  <1>8. MainLoop(p2, c2).nextL = p.nextL + 1
    <2>1. PeerKeeps(p2, MainLoop(p2, c2))
      BY <1>5, <1>7, LoopGoes
    <2>2. QED
      BY <1>7, <2>1 DEF PeerKeeps
  <1>9. /\ chan'[n] = c2 /\ chan'[m] = chan[m]
        /\ peer'[n].nextL = p.nextL + 1 /\ peer'[m] = peer[m]
    BY <1>1, <1>2, <1>8 DEF Shape
  <1>10. CommitmentsAgree'
    BY FeesAgree, PTL
  <1> HIDE DEF m, x, z, p, c
  <1>11. 1 \in DOMAIN x.q /\ Head(x.q) = x.q[1] /\ Head(x.q) \in Msgs
    BY <1>2, <1>3 DEF LinkType
  <1>12. Head(x.q).tx = z.g
    BY <1>2, <1>3, <1>11 DEF OneTx, Has, TxNot
  <1>13. z.p.nextR = p.nextL + 1
    <2>1. Has(x.q, OfType("commit"))
      BY <1>2, <1>11 DEF Has, OfType
    <2>2. QED
      BY <1>3, <2>1 DEF LinkNums
  <1>14. z.p.nextR - 1 = p.nextL
    BY <1>6, <1>13
  <1>15. z.g = CommitTx(m, z.c, "remote", p.nextL)
    BY <1>3, <1>14 DEF Signed
  <1>16. CommitTx(m, z.c, "remote", 0) = CommitTx(n, c2, "local", 0)
    <2>1. peer'[m].nextR = peer'[Peer(m)].nextL =>
            CommitTx(m, chan'[m], "remote", 0) = CommitTx(Peer(m), chan'[Peer(m)], "local", 0)
      BY <1>1, <1>10 DEF CommitmentsAgree
    <2>2. QED
      BY <1>1, <1>3, <1>9, <1>13, <2>1
  <1>17. z.g = CommitTx(n, c2, "local", p.nextL)
    BY <1>15, <1>16, TxNumber
  <1>18. CommitTx(n, c2, "local", p.nextL) = CommitTx(n, c1, "local", p.nextL)
    BY <1>3, SameOurs DEF c2
  <1>19. QED
    BY <1>3, <1>12, <1>17, <1>18 DEF c, p

(* A commitment that is read has its balances and its signature, and        *)
(* lightningd takes its states.  Only the feerate may be too much for the   *)
(* opener, which channeld takes for granted.                                *)
LEMMA CommitTaken ==
    ASSUME FeesInv, FeesInv', SolventInv', NEW n \in Nodes, handle_peer_commit_sig(n)
    PROVE  fault' \in {"none", "assert can_opener_afford_feerate"}
  <1> DEFINE x == Node(n)
             c1 == channel_rcvd_commit(chan[n])
             c2 == channel_sending_revoke_and_ack(c1)
             S == {"none", "assert can_opener_afford_feerate"}
             a1 == underflow(c1)
             a2 == chan[n].opener = "remote"
                   /\ ~can_opener_afford_feerate(c1, channel_feerate(c1, "local"))
             a3 == Head(net[n]).tx # CommitTx(n, c1, "local", peer[n].nextL)
             a4 == ~HtlcUpdatesOk(db[n], c2, moving(chan[n], rcvd_commit_states), 2)
  <1>1. /\ chan' = [chan EXCEPT ![n] = c2]
        /\ fault' = FirstFault(<< <<a1, "balance underflow">>,
                                  <<a2, "assert can_opener_afford_feerate">>,
                                  <<a3, "Bad commit_sig signature">>,
                                  <<a4, "invalid HTLC update">> >>)
    BY DEF handle_peer_commit_sig
  <1>2. KeepInv /\ Shape
    BY DEF FeesInv, OwesInv, MatchInv, SettleInv, KeepInv, LinkInv, TypeInv
  <1>3. /\ GoodChan(x.c) /\ x.d \in DbRecs /\ Rest(x.c) /\ Rows(x.c, x.d)
        /\ x.c = chan[n] /\ x.d = db[n]
    BY <1>2, PairKept DEF Store, Node
  <1>4. chan'[n] = c2
    BY <1>1, <1>2 DEF Shape
  <1>5. GoodChan(c2) /\ ~underflow(c2)
    <2>1. KeepInv' /\ \A v, s \in Sides : chan'[n].owed[v][s] >= 0
      BY DEF SolventInv
    <2>2. GoodChan(chan'[n])
      BY <2>1 DEF KeepInv, LinkInv, TypeInv, NodeType, Node
    <2>3. ~underflow(chan'[n])
      BY <2>1, <2>2, SolventNot
    <2>4. QED
      BY <1>4, <2>2, <2>3
  <1> HIDE DEF x
  <1>6. ~a1
    <2>1. c2.owed = c1.owed
      BY <1>3, SameOurs
    <2>2. QED
      BY <1>5, <2>1 DEF underflow
  <1>7. ~a3
    BY SignatureGood
  <1>8. ~a4
    <2>1. HtlcUpdatesOk(x.d, c2, moving(x.c, rcvd_commit_states), 2)
      BY <1>3, <1>5, UpdatesTook
    <2>2. QED
      BY <1>3, <2>1
  <1> HIDE DEF a1, a2, a3, a4
  <1>9. QED
    BY <1>1, <1>6, <1>7, <1>8, FaultFour

(* The error paths of a limit: the opener cannot afford a feerate, or there *)
(* are more HTLCs or more in flight than the receiver takes.                *)
Limits == {"none", "Could not afford feerate", "assert can_opener_afford_feerate",
           "update_fee unaffordable", "Bad peer_add_htlc", "Could not restore HTLCs"}

(* No daemon takes an error path other than those of a limit: no signature  *)
(* is refused, no revocation unexpected or of the wrong number, no HTLC     *)
(* removed twice or in the wrong state, nothing sent that the receiver does *)
(* not know, no state or id that lightningd refuses, no balance below zero, *)
(* and neither node finds itself or its peer in the past.                   *)
OnlyLimits == fault \in Limits

(* All that is kept at once. *)
FaultInv ==
    /\ FeesInv /\ SolventInv
    /\ \A n \in Nodes : Resends(Node(n))
    /\ OnlyLimits

(* Each action of a daemon, with what is kept before and after it. *)
LEMMA LimitsNode ==
    ASSUME FeesInv, FeesInv', SolventInv', NEW n \in Nodes, Resends(Node(n)), fault = "none",
           MasterIn(n) \/ CommitTimer(n) \/ PeerIn(n)
    PROVE  OnlyLimits'
  <1>1. KeepInv /\ MatchInv
    BY DEF FeesInv, OwesInv, MatchInv, SettleInv
  <1>2. CASE MasterIn(n)
    <2>1. CASE handle_resolution(n)
      BY <1>1, <2>1, ResolutionTaken DEF OnlyLimits, Limits
    <2>2. CASE handle_offer_htlc(n) \/ handle_feerates(n) \/ handle_shutdown_cmd(n)
      BY <2>2 DEF handle_offer_htlc, handle_feerates, handle_shutdown_cmd, OnlyLimits, Limits
    <2>3. QED
      BY <1>2, <2>1, <2>2 DEF MasterIn
  <1>3. CASE CommitTimer(n)
    <2>1. CASE send_commit_not_now(n)
      BY <1>1, <2>1, NotNowTaken DEF OnlyLimits, Limits
    <2>2. CASE send_commit_nothing(n)
      BY <2>2 DEF send_commit_nothing, OnlyLimits, Limits
    <2>3. CASE send_commit(n)
      BY <1>1, <2>3, SendTaken DEF OnlyLimits, Limits
    <2>4. QED
      BY <1>3, <2>1, <2>2, <2>3 DEF CommitTimer
  <1>4. CASE PeerIn(n)
    <2>1. CASE handle_peer_add_htlc(n)
      BY <2>1 DEF handle_peer_add_htlc, OnlyLimits, Limits
    <2>2. CASE handle_peer_remove_htlc(n)
      BY <1>1, <2>2, RemoveTaken DEF OnlyLimits, Limits
    <2>3. CASE handle_peer_feechange(n)
      BY <2>3, FeeTaken DEF OnlyLimits, Limits
    <2>4. CASE handle_peer_commit_sig(n)
      BY <2>4, CommitTaken DEF OnlyLimits, Limits
    <2>5. CASE handle_peer_revoke_and_ack(n)
      BY <1>1, <2>5, RevokeTaken DEF OnlyLimits, Limits
    <2>6. CASE handle_peer_shutdown(n)
      BY <2>6 DEF handle_peer_shutdown, OnlyLimits, Limits
    <2>7. CASE peer_reconnect(n)
      BY <1>1, <2>7, ReconnectTaken DEF OnlyLimits, Limits
    <2>8. CASE reject_empty_commit_sig(n) \/ closingd_in(n)
      <3>1. BreakConnection \/ fault' = fault
        BY <2>8 DEF reject_empty_commit_sig, closingd_in
      <3>2. QED
        BY <3>1, BreakTaken DEF OnlyLimits, Limits
    <2>9. QED
      BY <1>4, <2>1, <2>2, <2>3, <2>4, <2>5, <2>6, <2>7, <2>8 DEF PeerIn
  <1>5. QED
    BY <1>2, <1>3, <1>4

(* In every step. *)
LEMMA LimitsNext ==
    ASSUME FaultInv, [Next]_vars
    PROVE  FaultInv'
  <1>1. FeesInv /\ SolventInv /\ KeepInv /\ OnlyLimits /\ \A n \in Nodes : Resends(Node(n))
    BY DEF FaultInv, SolventInv
  <1>2. FeesInv' /\ SolventInv'
    BY <1>1, FeesNext, SolventNext
  <1>3. \A n \in Nodes : Resends(Node(n)')
    BY <1>1, ResendsNext
  <1>4. OnlyLimits'
    <2>1. CASE UNCHANGED vars
      BY <1>1, <2>1 DEF vars, OnlyLimits
    <2>2. CASE Next
      <3>1. fault = "none"
        BY <2>2, NextRuns
      <3>2. CASE \E n \in Nodes : MasterIn(n) \/ CommitTimer(n) \/ PeerIn(n)
        BY <1>1, <1>2, <3>1, <3>2, LimitsNode
      <3>3. CASE Environment
        <4>1. BreakConnection \/ fault' = fault
          BY <3>3 DEF Environment, FeeratesChange, Disconnect, Reconnect, LightningdOfferHtlc,
                      LightningdResolveHtlc, LightningdClose, LightningdGotShutdown
        <4>2. QED
          BY <1>1, <1>2, <4>1, BreakTaken DEF OnlyLimits, Limits
      <3>4. QED
        BY <2>2, <3>2, <3>3 DEF Next
    <2>3. QED
      BY <2>1, <2>2
  <1>5. QED
    BY <1>2, <1>3, <1>4 DEF FaultInv

(* OnlyLimits for every capacity, reserve and limit, every amount and       *)
(* feerate, and every interleaving of updates, commitments, retransmissions *)
(* and restarts: what is left of NoFault for all of them.                   *)
THEOREM OnlyLimitsFail == Spec => []OnlyLimits
  <1>1. Init => FaultInv
    <2> SUFFICES ASSUME Init
                 PROVE  FaultInv
      OBVIOUS
    <2>1. FeesInv
      BY KeepInit, SettleInit, MatchInit, OwesInit, FeesInit
         DEF SettleInv, MatchInv, OwesInv, FeesInv
    <2>2. SolventInv
      BY KeepInit, SolventInit DEF SolventInv, Solvent
    <2>3. ASSUME NEW n \in Nodes
          PROVE  Resends(Node(n))
      <3>1. db[n] = InitDb(n)
        BY DEF Init
      <3>2. db[n].lastSent = {}
        BY <3>1 DEF InitDb
      <3>3. QED
        BY <3>2 DEF Resends, Node
    <2>4. OnlyLimits
      BY DEF Init, OnlyLimits, Limits
    <2>5. QED
      BY <2>1, <2>2, <2>3, <2>4 DEF FaultInv
  <1>2. FaultInv /\ [Next]_vars => FaultInv'
    BY LimitsNext
  <1>3. FaultInv => OnlyLimits
    BY DEF FaultInv
  <1>4. QED
    BY <1>1, <1>2, <1>3, PTL DEF Spec
=============================================================================
