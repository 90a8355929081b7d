------------------------- MODULE ChanneldKeepProofs -------------------------
(* What the two nodes of Channeld keep: the database holds what it takes to *)
(* rebuild the channel, funds add up, nothing is signed twice, an HTLC is   *)
(* settled alike at both ends, and what the nodes say of each other's       *)
(* commitments, balances and feerates agrees but for what is under way.     *)
EXTENDS ChanneldProofs

(* What a step of x does to z's HTLCs when it is not about adding them. *)
Aside(x, y) ==
    /\ y.q = x.q \/ (x.q # << >> /\ y.q = Tail(x.q))
    /\ y.p.nextL = x.p.nextL
    /\ \A k \in Nat : Passes(Theirs(x, k), Theirs(y, k))
(* And to its own. *)
Else(x, y, out) ==
    /\ ~Has(out, OfType("commit")) /\ ~Has(out, OfType("add"))
    /\ y.p.htlcId = x.p.htlcId /\ y.d.htlcId = x.d.htlcId /\ y.g = x.g
    /\ y.p.nextR = x.p.nextR /\ Onward(x, y)
    /\ \A k \in Nat : Mine(y, k) = 1 => Mine(x, k) = 1

(* A step of x that is heard by z: what z may add or x may have added. *)
LEMMA FreshStep ==
    ASSUME NEW n \in Nodes, NEW x, NodeType(n, x), NEW m \in Nodes, NEW z, NodeType(m, z),
           Keeps(n, x), Own(x), Own(z), Link(x, z), Link(z, x), Fresh(x, z), Fresh(z, x),
           NEW y, NEW out \in Seq(Msgs), NodeStep(n, x, y, out), NEW w, Hears(z, w, out)
    PROVE  /\ GotAdd(n, x, y, out) => <<"remote", Head(x.q).id>> \notin DOMAIN x.c.htlcs
           /\ Fresh(y, w) /\ Fresh(w, y)
  <1>1. /\ LinkType(x) /\ LinkType(z) /\ Store(x.c, x.d) /\ x.q \in Seq(Msgs) /\ z.q \in Seq(Msgs)
        /\ x.p \in PeerRecs /\ x.d \in DbRecs /\ x.c.htlcs \in HtlcMaps
        /\ z.d \in DbRecs
        /\ w.c = z.c /\ w.p = z.p /\ w.d = z.d /\ w.g = z.g
    BY DEF NodeType, LinkType, Keeps, Hears, GoodChan, ChanRecs
  <1>16. GotAdd(n, x, y, out) => <<"remote", Head(x.q).id>> \notin DOMAIN x.c.htlcs
    <2>1. GotAdd(n, x, y, out) => out = << >>
      BY DEF GotAdd
    <2>2. QED
      BY <1>1, <2>1, FreshAdd
  <1>17. SUFFICES Fresh(y, w) /\ Fresh(w, y)
    BY <1>16
  <1>2. Else(x, y, out) => Fresh(y, w)
    <2> SUFFICES ASSUME Else(x, y, out)
                 PROVE  Fresh(y, w)
      OBVIOUS
    <2>1. /\ ~Has(out, OfType("commit")) /\ ~Has(out, OfType("add"))
          /\ y.p.htlcId = x.p.htlcId /\ y.d.htlcId = x.d.htlcId /\ y.g = x.g
          /\ y.p.nextR = x.p.nextR /\ Onward(x, y)
      BY DEF Else
    <2>2. \A k \in Nat : Mine(y, k) = 1 => Mine(x, k) = 1
      BY DEF Else
    <2>3. QED
      BY <1>1, <2>1, <2>2, FreshElse
  <1>3. Aside(x, y) => Fresh(w, y)
    <2> SUFFICES ASSUME Aside(x, y)
                 PROVE  Fresh(w, y)
      OBVIOUS
    <2>1. y.q = x.q \/ (x.q # << >> /\ y.q = Tail(x.q))
      BY DEF Aside
    <2>2. y.p.nextL = x.p.nextL
      BY DEF Aside
    <2>3. \A k \in Nat : Passes(Theirs(x, k), Theirs(y, k))
      BY DEF Aside
    <2>4. QED
      BY <1>1, <2>1, <2>2, <2>3, FreshAside
  <1>4. \A k : k \in Nat => Where(x.c, <<"remote", k>>) \in 0..20
    BY <1>1, WhereType
  <1>5. /\ ~Has(<< >>, OfType("commit")) /\ ~Has(<< >>, OfType("add"))
        /\ ~Has(<<ShutdownMsg>>, OfType("commit")) /\ ~Has(<<ShutdownMsg>>, OfType("add"))
    <2>1. ShutdownMsg \in Msgs /\ ShutdownMsg.type = "shutdown"
      BY MsgShutdown DEF ShutdownMsg
    <2>2. QED
      BY <2>1, OneQueued, NoneQueued DEF OfType
  <1>6. CASE Quiet(n, x, y, out) \/ SavesResolution(n, x, y, out) \/ GotFee(n, x, y, out)
    <2>1. Idles(x, y, out)
      BY <1>6, IdleSteps
    <2>2. \A h : Where(y.c, h) = Where(x.c, h)
      BY <2>1 DEF Idles, Still
    <2>3. Fresh(y, w)
      BY <1>2, <1>5, <2>1, <2>2 DEF Idles, SameIds, SameNums, Mine, Else
    <2>4. Fresh(w, y)
      BY <1>3, <2>1, <2>2 DEF Idles, SameNums, Pops, Theirs, Aside, Passes
    <2>5. QED
      BY <2>3, <2>4
  <1>7. CASE Offers(n, x, y, out)
    <2>1. Fresh(y, w)
      BY <1>1, <1>7, FreshOffers
    <2>2. Put(x.c, y.c, <<"local", x.p.htlcId>>, 0)
      BY <1>1, <1>7, OfferPuts
    <2>3. y.q = x.q /\ y.p.nextL = x.p.nextL
      BY <1>7 DEF Offers
    <2>4. \A k \in Nat : Theirs(y, k) = Theirs(x, k)
      BY <2>2 DEF Put, Theirs
    <2>5. QED
      BY <1>3, <2>1, <2>3, <2>4 DEF Aside, Passes
  <1>8. CASE Resolves(n, x, y, out)
    <2>1. PICK k \in Nat :
            /\ Where(x.c, <<"remote", k>>) = 14 /\ Put(x.c, y.c, <<"remote", k>>, 15)
            /\ y.c.htlcs[<<"remote", k>>].r \in {"fulfill", "fail"}
            /\ RemoveMsg(y.c, <<"remote", k>>) \in Msgs
            /\ out = <<RemoveMsg(y.c, <<"remote", k>>)>>
      BY <1>1, <1>8, ResolvePuts
    <2>2. /\ y.q = x.q /\ PeerKeeps(x.p, y.p) /\ y.d = x.d /\ y.g = x.g
          /\ x.p.phase = "run" /\ y.p.phase = "run"
      BY <1>8 DEF Resolves
    <2>3. ~Has(out, OfType("commit")) /\ ~Has(out, OfType("add"))
      <3> DEFINE e == RemoveMsg(y.c, <<"remote", k>>)
      <3>1. e \in Msgs /\ out = <<e>> /\ e.type \in {"fulfill", "fail"}
        BY <2>1 DEF RemoveMsg
      <3> HIDE DEF e
      <3>2. QED
        BY <3>1, OneQueued DEF OfType
    <2>4. \A j \in Nat : Mine(y, j) = Mine(x, j)
      BY <2>1 DEF Put, Mine
    <2>5. Fresh(y, w)
      BY <1>2, <2>2, <2>3, <2>4 DEF PeerKeeps, Onward, Else
    <2>6. \A j \in Nat : Passes(Theirs(x, j), Theirs(y, j))
      BY <2>1 DEF Put, Theirs, NoHtlc, Passes
    <2>7. QED
      BY <1>3, <2>2, <2>5, <2>6 DEF PeerKeeps, Aside
  <1>9. CASE GotAdd(n, x, y, out)
    <2>1. out = << >> /\ y.p = x.p /\ y.d = x.d /\ y.g = x.g
      BY <1>9 DEF GotAdd
    <2>2. /\ <<"remote", Head(x.q).id>> \notin DOMAIN x.c.htlcs
          /\ Fresh(w, y)
      BY <1>1, <1>9, <2>1, FreshAdd
    <2>3. Put(x.c, y.c, <<"remote", Head(x.q).id>>, 10)
      BY <1>1, <1>9, <2>2, AddPuts
    <2>4. \A k \in Nat : Mine(y, k) = Mine(x, k)
      BY <2>3 DEF Put, Mine
    <2>5. Fresh(y, w)
      BY <1>2, <1>5, <2>1, <2>4 DEF Onward, Else
    <2>6. QED
      BY <2>2, <2>5
  <1>10. CASE GotRemove(n, x, y, out)
    <2> DEFINE h == <<"local", Head(x.q).id>>
    <2>1. y.c = x.c \/ Put(x.c, y.c, h, 5)
      BY <1>1, <1>10, RemovePuts
    <2>2. /\ PeerKeeps(x.p, y.p) /\ y.d = x.d /\ y.g = x.g /\ y.p.phase = "run"
          /\ x.p.phase = "run" /\ out = << >> /\ x.q # << >> /\ y.q = Tail(x.q)
      BY <1>10 DEF GotRemove, Reads
    <2>3. \A k \in Nat : Theirs(y, k) = Theirs(x, k)
      BY <2>1 DEF Put, Theirs
    <2>4. \A k \in Nat : Mine(y, k) = 1 => Mine(x, k) = 1
      <3> HIDE DEF h
      <3>1. QED
        BY <2>1 DEF Put, Mine
    <2>5. Fresh(y, w)
      BY <1>2, <1>5, <2>2, <2>4 DEF PeerKeeps, Onward, Else
    <2>6. QED
      BY <1>3, <2>2, <2>3, <2>5 DEF PeerKeeps, Aside, Passes
  <1>11. CASE SendsCommit(n, x, y, out)
    <2>1. Fresh(y, w)
      BY <1>1, <1>11, FreshSent
    <2>2. \A h : Where(y.c, h) = Sent(Where(x.c, h))
      BY <1>11, CommitMoves
    <2>3. y.q = x.q /\ y.p.nextL = x.p.nextL
      BY <1>11 DEF SendsCommit
    <2>4. \A i \in 0..20 : Passes(i, Sent(i))
      BY DEF Sent, NoHtlc, Passes
    <2>5. \A k \in Nat : Passes(Theirs(x, k), Theirs(y, k))
      BY <1>4, <2>2, <2>4 DEF Theirs
    <2>6. QED
      BY <1>3, <2>1, <2>3, <2>5 DEF Aside
  <1>12. CASE GotCommit(n, x, y, out)
    <2>1. Fresh(w, y)
      BY <1>1, <1>12, FreshTook
    <2>2. /\ \A h : Where(y.c, h) = Took(Where(x.c, h))
          /\ y.d.htlcId = x.d.htlcId
      BY <1>1, <1>12, TookMoves
    <2>3. /\ y.p.htlcId = x.p.htlcId /\ y.p.nextR = x.p.nextR /\ y.g = x.g
          /\ x.p.phase = "run" /\ y.p.phase \in {"run", "closing"}
          /\ out = <<RevokeMsg(x.p.nextL - 1)>>
      BY <1>12 DEF GotCommit, Reads, Goes
    <2>4. ~Has(out, OfType("commit")) /\ ~Has(out, OfType("add"))
      <3> DEFINE e == RevokeMsg(x.p.nextL - 1)
      <3>1. out = <<e>> /\ e.type = "revoke"
        BY <2>3 DEF RevokeMsg
      <3> HIDE DEF e
      <3>2. e \in Msgs
        BY <3>1
      <3>3. QED
        BY <3>1, <3>2, OneQueued DEF OfType
    <2>5. \A k \in Nat : Mine(y, k) = 1 => Mine(x, k) = 1
      <3>1. \A i \in 0..20 : Took(i) = 1 => i = 1
        BY DEF Took, NoHtlc
      <3>2. \A h : Where(x.c, h) \in 0..20
        BY <1>1, WhereType
      <3>3. QED
        BY <2>2, <3>1, <3>2 DEF Mine
    <2>6. Fresh(y, w)
      BY <1>2, <2>2, <2>3, <2>4, <2>5 DEF Onward, Else
    <2>7. QED
      BY <2>1, <2>6
  <1>13. CASE GotRevoke(n, x, y, out)
    <2>1. /\ \A h : Where(y.c, h) = Acked(Where(x.c, h))
          /\ y.d.htlcId = x.d.htlcId
      BY <1>13, AckMoves
    <2>2. /\ y.p.htlcId = x.p.htlcId /\ y.p.nextR = x.p.nextR /\ y.g = x.g
          /\ x.p.phase = "run" /\ y.p.phase \in {"run", "closing"} /\ y.p.nextL = x.p.nextL
          /\ out = << >> /\ x.q # << >> /\ y.q = Tail(x.q)
      BY <1>13 DEF GotRevoke, Reads, Goes
    <2>3. \A i \in 0..20 : /\ Acked(i) # 1
                           /\ Passes(i, Acked(i))
      BY DEF Acked, NoHtlc, Passes
    <2>4. \A h : Where(x.c, h) \in 0..20
      BY <1>1, WhereType
    <2>5. \A k \in Nat : Mine(y, k) # 1
      BY <2>1, <2>3, <2>4 DEF Mine
    <2>6. \A k \in Nat : Passes(Theirs(x, k), Theirs(y, k))
      BY <2>1, <2>3, <2>4 DEF Theirs
    <2>7. Fresh(y, w)
      BY <1>2, <1>5, <2>1, <2>2, <2>5 DEF Onward, Else
    <2>8. QED
      BY <1>3, <2>2, <2>6, <2>7 DEF Aside
  <1>14. CASE Answers(n, x, y, out)
    <2>1. Fresh(y, w)
      BY <1>1, <1>14, FreshAnswers
    <2>2. y.c = x.c /\ y.p.nextL = x.p.nextL /\ x.q # << >> /\ y.q = Tail(x.q)
      BY <1>14 DEF Answers, PeerKeeps
    <2>3. \A k \in Nat : Theirs(y, k) = Theirs(x, k)
      BY <2>2 DEF Theirs
    <2>4. QED
      BY <1>3, <2>1, <2>2, <2>3 DEF Aside, Passes
  <1>15. QED
    BY <1>6, <1>7, <1>8, <1>9, <1>10, <1>11, <1>12, <1>13, <1>14 DEF NodeStep

-----------------------------------------------------------------------------
(* What the two nodes keep.                                                 *)
KeepInv ==
    /\ LinkInv
    /\ \A n \in Nodes : /\ Keeps(n, Node(n)) /\ Own(Node(n))
                        /\ Fresh(Node(n), Node(Peer(n)))

(* At first. *)
LEMMA KeepInit ==
    ASSUME Init
    PROVE  KeepInv
  BY LinkInit, KeepsInit, OwnInit, FreshInit DEF KeepInv

(* In every step. *)
LEMMA KeepNext ==
    ASSUME KeepInv, [Next]_vars
    PROVE  KeepInv'
  <1>1. TypeInv' /\ Steps3 /\ LinkInv'
    BY TypeStep, LinkNext DEF LinkInv, KeepInv
  <1>2. ASSUME NEW n \in Nodes
        PROVE  /\ Peer(n) \in Nodes /\ Peer(Peer(n)) = n
               /\ NodeType(n, Node(n)) /\ NodeType(Peer(n), Node(Peer(n)))
               /\ Nums(Node(n)) /\ Nums(Node(Peer(n)))
               /\ Link(Node(n), Node(Peer(n))) /\ Link(Node(Peer(n)), Node(n))
               /\ Keeps(n, Node(n)) /\ Keeps(Peer(n), Node(Peer(n)))
               /\ Own(Node(n)) /\ Own(Node(Peer(n)))
               /\ Fresh(Node(n), Node(Peer(n))) /\ Fresh(Node(Peer(n)), Node(n))
    BY TwoNodes DEF KeepInv, LinkInv, TypeInv
  <1>3. SUFFICES \A n \in Nodes : /\ Keeps(n, Node(n)') /\ Own(Node(n)')
                                  /\ Fresh(Node(n)', Node(Peer(n))')
    BY <1>1 DEF KeepInv
  <1>4. CASE \E n \in Nodes : \E out \in Seq(Msgs) :
               NodeStep(n, Node(n), Node(n)', out) /\ Hears(Node(Peer(n)), Node(Peer(n))', out)
    <2>1. PICK n \in Nodes, out \in Seq(Msgs) :
               NodeStep(n, Node(n), Node(n)', out) /\ Hears(Node(Peer(n)), Node(Peer(n))', out)
      BY <1>4
    <2> DEFINE x == Node(n)
               z == Node(Peer(n))
               y == Node(n)'
               w == Node(Peer(n))'
               m == Peer(n)
    <2>2. /\ m \in Nodes /\ NodeType(n, x) /\ NodeType(m, z)
          /\ Link(x, z) /\ Link(z, x) /\ Keeps(n, x) /\ Keeps(m, z) /\ Own(x) /\ Own(z)
          /\ Fresh(x, z) /\ Fresh(z, x) /\ NodeStep(n, x, y, out) /\ Hears(z, w, out)
      BY <1>2, <2>1
    <2> HIDE DEF x, y, z, w, m
    <2>3. /\ GotAdd(n, x, y, out) => <<"remote", Head(x.q).id>> \notin DOMAIN x.c.htlcs
          /\ Fresh(y, w) /\ Fresh(w, y)
      BY <2>2, FreshStep
    <2>4. Keeps(n, y)
      BY <2>2, <2>3, KeepsStep
    <2>5. Own(y)
      BY <2>2, <2>3, OwnStep
    <2>6. Keeps(m, w)
      BY <2>2, KeepsHears
    <2>7. Own(w)
      BY <2>2, OwnHears
    <2>8. \A k \in Nodes : k = n \/ k = Peer(n)
      BY TwoNodes
    <2>9. QED
      BY <1>2, <2>3, <2>4, <2>5, <2>6, <2>7, <2>8 DEF x, y, z, w, m
  <1>5. CASE \A n \in Nodes : Breaks(n, Node(n), Node(n)')
    <2> SUFFICES ASSUME NEW n \in Nodes
                 PROVE  /\ Keeps(n, Node(n)') /\ Own(Node(n)')
                        /\ Fresh(Node(n)', Node(Peer(n))')
      OBVIOUS
    <2> DEFINE x == Node(n)
               z == Node(Peer(n))
               y == Node(n)'
               w == Node(Peer(n))'
               m == Peer(n)
    <2>1. /\ m \in Nodes /\ NodeType(n, x) /\ NodeType(m, z) /\ Nums(x) /\ Nums(z)
          /\ Keeps(n, x) /\ Keeps(m, z) /\ Own(x)
          /\ Fresh(x, z) /\ Breaks(n, x, y) /\ Breaks(m, z, w)
      BY <1>2, <1>5
    <2> HIDE DEF x, y, z, w, m
    <2>2. Keeps(n, y)
      BY <2>1, KeepsBreak
    <2>3. Own(y)
      BY <2>1, OwnBreak
    <2>4. Store(x.c, x.d) /\ Store(z.c, z.d)
      BY <2>1 DEF Keeps
    <2>5. Fresh(y, w)
      BY <2>1, <2>4, FreshBreak
    <2>6. QED
      BY <2>2, <2>3, <2>5 DEF y, w
  <1>6. CASE \A n \in Nodes : Reopens(Node(n), Node(n)', Node(Peer(n)))
    <2> SUFFICES ASSUME NEW n \in Nodes
                 PROVE  /\ Keeps(n, Node(n)') /\ Own(Node(n)')
                        /\ Fresh(Node(n)', Node(Peer(n))')
      OBVIOUS
    <2> DEFINE x == Node(n)
               z == Node(Peer(n))
               y == Node(n)'
               w == Node(Peer(n))'
               m == Peer(n)
    <2>1. /\ m \in Nodes /\ NodeType(n, x) /\ NodeType(m, z)
          /\ Keeps(n, x) /\ Own(x) /\ Fresh(x, z)
          /\ Reopens(x, y, z) /\ Reopens(z, w, x)
      BY <1>2, <1>6
    <2> HIDE DEF x, y, z, w, m
    <2>2. Keeps(n, y)
      BY <2>1, KeepsReopen
    <2>3. Own(y)
      BY <2>1, OwnReopen
    <2>4. LinkType(x) /\ LinkType(z)
      BY <2>1 DEF NodeType, LinkType
    <2>5. Fresh(y, w)
      BY <2>1, <2>4, FreshReopen
    <2>6. QED
      BY <2>2, <2>3, <2>5 DEF y, w
  <1>7. CASE \A n \in Nodes : Node(n)' = Node(n)
    BY <1>2, <1>7
  <1>8. QED
    BY <1>1, <1>4, <1>5, <1>6, <1>7 DEF Steps3

(* The HTLCs, the database and the signature of each node are in order,     *)
(* and no id is used twice, whatever is lost and whenever daemons restart.  *)
THEOREM KeepHolds == Spec => []KeepInv
  <1>1. Init => KeepInv
    BY KeepInit
  <1>2. KeepInv /\ [Next]_vars => KeepInv'
    BY KeepNext
  <1>3. QED
    BY <1>1, <1>2, PTL DEF Spec

(* What KeepInv says of a node. *)
LEMMA KeptNode ==
    ASSUME KeepInv, NEW n \in Nodes
    PROVE  /\ GoodChan(chan[n]) /\ chan[n].opener = OpenerSide(n) /\ db[n] \in DbRecs
           /\ db[n].fee[last_fee_state(OpenerSide(n))] # 0
           /\ Store(chan[n], db[n]) /\ ~Has(net[Peer(n)], TxNot(signed[n]))
           /\ net[Peer(n)] \in Seq(Msgs)
  <1>1. /\ NodeType(n, Node(n)) /\ NodeType(Peer(n), Node(Peer(n)))
        /\ Store(Node(n).c, Node(n).d) /\ ~Has(Node(Peer(n)).q, TxNot(Node(n).g))
    BY TwoNodes DEF KeepInv, LinkInv, TypeInv, Keeps, Fresh, OneTx
  <1>2. QED
    BY <1>1 DEF NodeType, Node

(* FundsConserved for every capacity, every amount and every sequence of    *)
(* updates, losses and restarts: what channeld keeps by increments, and     *)
(* what init_channel() rebuilds, always adds up to the capacity.            *)
THEOREM FundsAddUp == Spec => []FundsConserved
  <1>1. KeepInv => FundsConserved
    <2> SUFFICES ASSUME KeepInv, NEW n \in Nodes, NEW v \in Sides
                 PROVE  chan[n].owed[v]["local"] + chan[n].owed[v]["remote"]
                          + SumAmounts(chan[n], committed(chan[n], v)) = Funding
      BY DEF FundsConserved
    <2> DEFINE c == chan[n]
               our == db[n].our
    <2>1. c.htlcs \in HtlcMaps /\ our \in Int /\ Balanced(c, our)
      BY KeptNode DEF GoodChan, ChanRecs, DbRecs, Store
    <2> HIDE DEF c, our
    <2>2. c.owed[v]["local"] + c.owed[v]["remote"] + SumAmounts(c, committed(c, v)) = Funding
      BY <2>1, BalancedFunds
    <2>3. QED
      BY <2>2 DEF c
  <1>2. QED
    BY <1>1, KeepHolds, PTL

(* RestoreAgrees: at every moment at which the daemons might die, the       *)
(* database holds what it takes to rebuild the channel that channeld has    *)
(* reached, balances and feerates and all.                                  *)
THEOREM RestartLosesNothing == Spec => []RestoreAgrees
  <1>1. KeepInv => RestoreAgrees
    <2> SUFFICES ASSUME KeepInv, NEW n \in Nodes
                 PROVE  LET r == RestoredChannel(n, db[n])
                            kept == {h \in DOMAIN chan[n].htlcs :
                                       State(chan[n], h) \notin {SENT_ADD_HTLC, RCVD_ADD_HTLC}}
                        IN  /\ r.owed = chan[n].owed
                            /\ r.fee = towire_fee_states(chan[n].fee)
                            /\ DOMAIN r.htlcs = kept
      BY DEF RestoreAgrees
    <2> DEFINE c == chan[n]
               d == db[n]
               r == RestoredChannel(n, d)
               kept == {h \in DOMAIN c.htlcs : State(c, h) \notin {SENT_ADD_HTLC, RCVD_ADD_HTLC}}
    <2>1. /\ GoodChan(c) /\ c.opener = OpenerSide(n) /\ d \in DbRecs
          /\ d.fee[last_fee_state(OpenerSide(n))] # 0 /\ Store(c, d)
      BY KeptNode
    <2> HIDE DEF c, d
    <2>2. r.owed = c.owed /\ r.fee = towire_fee_states(c.fee) /\ r.htlcs = d.htlcs
      BY <2>1, StoreRestored
    <2>3. DOMAIN d.htlcs = kept
      BY <2>1, RowsKept DEF Store
    <2>4. QED
      BY <2>2, <2>3 DEF c, d
  <1>2. QED
    BY <1>1, KeepHolds, PTL

(* SignedOnce: however often a commitment is sent again, and however far    *)
(* the channel has moved since, resend_commitment() signs the transaction   *)
(* that send_commit() signed under that number.                             *)
THEOREM NothingSignedTwice == Spec => []SignedOnce
  <1>1. KeepInv => SignedOnce
    <2> SUFFICES ASSUME KeepInv, NEW n \in Nodes, NEW i \in DOMAIN net[Peer(n)],
                        net[Peer(n)][i].type = "commit"
                 PROVE  net[Peer(n)][i].tx = signed[n]
      BY DEF SignedOnce
    <2> DEFINE q == net[Peer(n)]
    <2>1. q \in Seq(Msgs) /\ ~Has(q, TxNot(signed[n])) /\ i \in DOMAIN q
      BY KeptNode
    <2> HIDE DEF q
    <2>2. q[i] \in Msgs /\ q[i] \notin TxNot(signed[n])
      BY <2>1 DEF Has
    <2>3. QED
      BY <2>2 DEF TxNot, q
  <1>2. QED
    BY <1>1, KeepHolds, PTL

-----------------------------------------------------------------------------
(* How an HTLC that x has offered is settled, as x and its peer z see it.   *)
Late == {5, 7, 8}
Going == {15, 16, 17}
Outcomes == {"fulfill", "fail"}
RemoveAs(k, o) == {m \in Msgs : m.type = o /\ m.id = k}

Agreed(z, k, o) ==
    \/ Theirs(z, k) = NoHtlc
    \/ Theirs(z, k) \in Going /\ z.c.htlcs[<<"remote", k>>].r = o

(* A removal on its way says what z has done. *)
SaidSo(x, z) ==
    \A k \in Nat, o \in Outcomes : Has(x.q, RemoveAs(k, o)) =>
        /\ k < x.d.htlcId /\ Agreed(z, k, o)
        /\ x.p.phase = "reestablish" => Theirs(z, k) # NoHtlc
(* What x has made of it is what z has done. *)
DoneSo(x, z) ==
    \A k \in Nat : Mine(x, k) \in Late => Agreed(z, k, x.c.htlcs[<<"local", k>>].r)
(* An HTLC that z has yet to read of is not being removed. *)
NotYet(x, z) ==
    \A k \in Nat : Has(z.q, AddOf(k)) =>
        /\ Mine(x, k) \notin Late
        /\ \A o \in Outcomes : ~Has(x.q, RemoveAs(k, o))

Settles(x, z) == SaidSo(x, z) /\ DoneSo(x, z) /\ NotYet(x, z)

(* What a step of x makes of the HTLCs it has offered. *)
Heeds(x, y) ==
    \A k \in Nat : Mine(y, k) \in Late =>
        \/ Mine(x, k) \in Late /\ y.c.htlcs[<<"local", k>>].r = x.c.htlcs[<<"local", k>>].r
        \/ /\ x.q # << >> /\ y.c.htlcs[<<"local", k>>].r \in Outcomes
           /\ Head(x.q) \in RemoveAs(k, y.c.htlcs[<<"local", k>>].r)
OffersNew(x, y, out) ==
    \A k \in Nat : Has(out, AddOf(k)) =>
        /\ Mine(y, k) \notin Late
        /\ \A o \in Outcomes : ~Has(x.q, RemoveAs(k, o))

(* A step of the node that offered them. *)
LEMMA OwnerSettles ==
    ASSUME NEW x, NEW z, x.q \in Seq(Msgs), z.q \in Seq(Msgs), Settles(x, z),
           NEW y, NEW out \in Seq(Msgs), NEW w, Hears(z, w, out),
           y.q = x.q \/ (x.q # << >> /\ y.q = Tail(x.q)),
           y.p.phase = "reestablish" => x.p.phase = "reestablish",
           \A k \in Nat : k < x.d.htlcId => k < y.d.htlcId,
           Heeds(x, y), OffersNew(x, y, out)
    PROVE  Settles(y, w)
  <1> DEFINE q == x.q
             r == y.q
             s == z.q
             t == w.q
  <1>1. /\ q \in Seq(Msgs) /\ (r = q \/ (q # << >> /\ r = Tail(q)))
        /\ t = s \o out /\ s \in Seq(Msgs) /\ w.c = z.c
    BY DEF Hears
  <1>2. \A k : Theirs(w, k) = Theirs(z, k)
    BY <1>1 DEF Theirs
  <1>3. \A k, o : Agreed(z, k, o) => Agreed(w, k, o)
    BY <1>1, <1>2 DEF Agreed
  <1> HIDE DEF q, r, s, t
  <1>4. \A T : Has(r, T) => Has(q, T)
    BY <1>1, Popped
  <1>5. \A T : Has(t, T) <=> Has(s, T) \/ Has(out, T)
    <2>1. t = s \o out /\ s \in Seq(Msgs) /\ out \in Seq(Msgs)
      BY <1>1
    <2>2. QED
      BY <2>1, Queued
  <1>6. \A T : q # << >> /\ Head(q) \in T => Has(q, T)
    BY <1>1, Popped
  <1>7. SaidSo(y, w)
    BY <1>2, <1>3, <1>4 DEF Settles, SaidSo, q, r
  <1>8. ASSUME NEW k \in Nat, Mine(y, k) \in Late
        PROVE  \/ Mine(x, k) \in Late /\ y.c.htlcs[<<"local", k>>].r = x.c.htlcs[<<"local", k>>].r
               \/ /\ y.c.htlcs[<<"local", k>>].r \in Outcomes
                  /\ Has(q, RemoveAs(k, y.c.htlcs[<<"local", k>>].r))
    BY <1>6, <1>8 DEF Heeds, q
  <1>9. DoneSo(y, w)
    <2> SUFFICES ASSUME NEW k \in Nat, Mine(y, k) \in Late
                 PROVE  Agreed(w, k, y.c.htlcs[<<"local", k>>].r)
      BY DEF DoneSo
    <2> DEFINE o == y.c.htlcs[<<"local", k>>].r
    <2>1. CASE Mine(x, k) \in Late /\ o = x.c.htlcs[<<"local", k>>].r
      BY <1>3, <2>1 DEF Settles, DoneSo
    <2>2. CASE o \in Outcomes /\ Has(q, RemoveAs(k, o))
      <3> HIDE DEF o
      <3>1. Agreed(z, k, o)
        BY <2>2 DEF Settles, SaidSo, q
      <3>2. QED
        BY <1>3, <3>1 DEF o
    <2>3. QED
      BY <1>8, <2>1, <2>2
  <1>10. NotYet(y, w)
    <2> SUFFICES ASSUME NEW k \in Nat, Has(t, AddOf(k))
                 PROVE  /\ Mine(y, k) \notin Late
                        /\ \A o \in Outcomes : ~Has(r, RemoveAs(k, o))
      BY DEF NotYet, r, t
    <2>1. CASE Has(s, AddOf(k))
      <3>1. Mine(x, k) \notin Late /\ \A o \in Outcomes : ~Has(q, RemoveAs(k, o))
        BY <2>1 DEF Settles, NotYet, q, s
      <3>2. Mine(y, k) \notin Late
        BY <1>8, <3>1
      <3>3. QED
        BY <1>4, <3>1, <3>2
    <2>2. CASE Has(out, AddOf(k))
      BY <1>4, <2>2 DEF OffersNew, q
    <2>3. QED
      BY <1>5, <2>1, <2>2
  <1>11. QED
    BY <1>7, <1>9, <1>10 DEF Settles

(* What a step of z makes of them. *)
Abides(z, w) ==
    \A k \in Nat : \A o : Agreed(z, k, o) => Agreed(w, k, o) \/ Has(z.q, AddOf(k))
Reports(w, out) ==
    \A k \in Nat, o \in Outcomes : Has(out, RemoveAs(k, o)) =>
        Agreed(w, k, o) /\ Theirs(w, k) \in Going
Waits(x, z, w) ==
    x.p.phase = "reestablish" =>
        \A k \in Nat : Theirs(z, k) # NoHtlc => Theirs(w, k) # NoHtlc

(* A step of the node that took them. *)
LEMMA TakerSettles ==
    ASSUME NEW x, NEW z, x.q \in Seq(Msgs), z.q \in Seq(Msgs), Settles(x, z),
           NEW w, NEW out \in Seq(Msgs), NEW y, Hears(x, y, out), Fresh(y, w),
           w.q = z.q \/ (z.q # << >> /\ w.q = Tail(z.q)),
           Abides(z, w), Reports(w, out), Waits(x, z, w)
    PROVE  Settles(y, w)
  <1> DEFINE q == x.q
             r == y.q
             s == z.q
             t == w.q
  <1>1. /\ s \in Seq(Msgs) /\ (t = s \/ (s # << >> /\ t = Tail(s)))
        /\ r = q \o out /\ q \in Seq(Msgs) /\ y.c = x.c /\ y.p = x.p /\ y.d = x.d
    BY DEF Hears
  <1> HIDE DEF q, r, s, t
  <1>2. \A T : Has(t, T) => Has(s, T)
    BY <1>1, Popped
  <1>3. \A T : Has(r, T) <=> Has(q, T) \/ Has(out, T)
    <2>1. r = q \o out /\ q \in Seq(Msgs) /\ out \in Seq(Msgs)
      BY <1>1
    <2>2. QED
      BY <2>1, Queued
  <1>4. SaidSo(y, w)
    <2> SUFFICES ASSUME NEW k \in Nat, NEW o \in Outcomes, Has(r, RemoveAs(k, o))
                 PROVE  /\ k < x.d.htlcId /\ Agreed(w, k, o)
                        /\ x.p.phase = "reestablish" => Theirs(w, k) # NoHtlc
      BY <1>1 DEF SaidSo, r
    <2>1. CASE Has(q, RemoveAs(k, o))
      <3>1. /\ k < x.d.htlcId /\ Agreed(z, k, o)
            /\ x.p.phase = "reestablish" => Theirs(z, k) # NoHtlc
        BY <2>1 DEF Settles, SaidSo, q
      <3>2. ~Has(s, AddOf(k))
        BY <2>1 DEF Settles, NotYet, q, s
      <3>3. Agreed(w, k, o)
        BY <3>1, <3>2 DEF Abides, s
      <3>4. QED
        BY <3>1, <3>3 DEF Waits
    <2>2. CASE Has(out, RemoveAs(k, o))
      <3>1. Agreed(w, k, o) /\ Theirs(w, k) \in Going
        BY <2>2 DEF Reports
      <3>2. Theirs(w, k) \notin {NoHtlc, 10}
        BY <3>1 DEF Going, NoHtlc
      <3>3. k < x.d.htlcId
        BY <1>1, <3>2 DEF Fresh, KnownIds
      <3>4. QED
        BY <3>1, <3>2, <3>3
    <2>3. QED
      BY <1>3, <2>1, <2>2
  <1>5. DoneSo(y, w)
    <2> SUFFICES ASSUME NEW k \in Nat, Mine(x, k) \in Late
                 PROVE  Agreed(w, k, x.c.htlcs[<<"local", k>>].r)
      BY <1>1 DEF DoneSo, Mine
    <2>1. Agreed(z, k, x.c.htlcs[<<"local", k>>].r) /\ ~Has(s, AddOf(k))
      BY DEF Settles, DoneSo, NotYet, s
    <2>2. QED
      BY <2>1 DEF Abides, s
  <1>6. NotYet(y, w)
    <2> SUFFICES ASSUME NEW k \in Nat, Has(t, AddOf(k))
                 PROVE  /\ Mine(x, k) \notin Late
                        /\ \A o \in Outcomes : ~Has(r, RemoveAs(k, o))
      BY <1>1 DEF NotYet, r, t, Mine
    <2>1. /\ Mine(x, k) \notin Late
          /\ \A o \in Outcomes : ~Has(q, RemoveAs(k, o))
      BY <1>2 DEF Settles, NotYet, q, s
    <2>2. Theirs(w, k) = NoHtlc
      BY DEF Fresh, NewAdds, t
    <2>3. \A o \in Outcomes : ~Has(out, RemoveAs(k, o))
      BY <2>2 DEF Reports, Going, NoHtlc
    <2>4. QED
      BY <1>3, <2>1, <2>3
  <1>7. QED
    BY <1>4, <1>5, <1>6 DEF Settles

(* A step that moves HTLCs along and changes nothing else of them. *)
LEMMA MovesSettle ==
    ASSUME NEW x, x.c.htlcs \in HtlcMaps, NEW y, y.c.htlcs \in HtlcMaps, SameHtlcs(x.c, y.c),
           \A h : /\ Where(y.c, h) \in Late => Where(x.c, h) \in Late
                  /\ Where(x.c, h) \in Going => Where(y.c, h) \in Going \cup {NoHtlc}
                  /\ Where(x.c, h) = NoHtlc => Where(y.c, h) = NoHtlc
    PROVE  Heeds(x, y) /\ Abides(x, y)
  <1>1. \A h : Where(y.c, h) # NoHtlc => y.c.htlcs[h].r = x.c.htlcs[h].r
    BY WhereType DEF SameHtlcs
  <1>2. Heeds(x, y)
    BY <1>1 DEF Heeds, Mine, Late, NoHtlc
  <1>3. Abides(x, y)
    BY <1>1 DEF Abides, Agreed, Theirs
  <1>4. QED
    BY <1>2, <1>3

(* A step that puts one HTLC elsewhere. *)
LEMMA PutSettles ==
    ASSUME NEW x, x.c.htlcs \in HtlcMaps, NEW y, NEW h, NEW i, Put(x.c, y.c, h, i)
    PROVE  /\ (\A k \in Nat : h # <<"local", k>>) \/ i \notin Late => Heeds(x, y)
           /\ (\A k \in Nat : h # <<"remote", k>>) \/ Where(x.c, h) = 14 => Abides(x, y)
  <1>1. \A g : g # h => /\ Where(y.c, g) = Where(x.c, g)
                        /\ Where(y.c, g) # NoHtlc => y.c.htlcs[g].r = x.c.htlcs[g].r
    BY WhereType DEF Put
  <1>2. Where(y.c, h) = i
    BY DEF Put
  <1>3. ASSUME (\A k \in Nat : h # <<"local", k>>) \/ i \notin Late
        PROVE  Heeds(x, y)
    BY <1>1, <1>2, <1>3 DEF Heeds, Mine, Late, NoHtlc
  <1>4. ASSUME (\A k \in Nat : h # <<"remote", k>>) \/ Where(x.c, h) = 14
        PROVE  Abides(x, y)
    BY <1>1, <1>2, <1>4 DEF Abides, Agreed, Theirs, Going, NoHtlc
  <1>5. QED
    BY <1>3, <1>4

(* Nothing is offered or removed without a message. *)
LEMMA NoneOffered ==
    ASSUME NEW out, \A k \in Nat : ~Has(out, AddOf(k)), NEW x, NEW y
    PROVE  OffersNew(x, y, out)
  BY DEF OffersNew

(* So with removals. *)
LEMMA NoneRemoved ==
    ASSUME NEW out, \A k \in Nat, o \in Outcomes : ~Has(out, RemoveAs(k, o)), NEW y
    PROVE  Reports(y, out)
  BY DEF Reports

(* A queue that holds neither. *)
LEMMA OneOther ==
    ASSUME NEW m \in Msgs, m.type \notin {"fulfill", "fail"}
    PROVE  /\ \A k \in Nat, o \in Outcomes : ~Has(<<m>>, RemoveAs(k, o))
           /\ m.type # "add" => \A k \in Nat : ~Has(<<m>>, AddOf(k))
  BY OneQueued DEF RemoveAs, AddOf, Outcomes

(* What a node sends again of its removals. *)
LEMMA AnswerReports ==
    ASSUME NEW n \in Nodes, NEW x, NodeType(n, x), NEW y, NEW out \in Seq(Msgs),
           Answers(n, x, y, out)
    PROVE  Reports(y, out)
  <1> DEFINE c == x.c
             p == x.p
             d == x.d
             m == Head(x.q)
  <1>1. /\ GoodChan(c) /\ p \in PeerRecs /\ d \in DbRecs /\ out = Answer(n, c, p, d, m)
        /\ y.c = c
    BY DEF NodeType, Answers
  <1> SUFFICES ASSUME NEW k \in Nat, NEW o \in Outcomes, Has(out, RemoveAs(k, o))
               PROVE  Agreed(y, k, o) /\ Theirs(y, k) \in Going
    BY DEF Reports
  <1> DEFINE T == RemoveAs(k, o)
             cm == CommitMsg(n, c, p.nextR - 1)
  <1>2. cm.type = "commit" /\ \A e \in T : e.type = o /\ e.id = k
    BY DEF CommitMsg, RemoveAs
  <1> HIDE DEF c, p, d, m, T, cm
  <1>3. \/ \E h \in d.lastSent \cap in_state(c, 16) : RemoveMsg(c, h) \in T
        \/ \E h \in d.lastSent \cap in_state(c, 1) : AddMsg(c, h) \in T
        \/ FeeMsg(c) \in T
        \/ cm \in T
        \/ RevokeMsg(p.nextL - 2) \in T
        \/ ShutdownMsg \in T
        \/ \E h \in in_state(c, 15) : RemoveMsg(c, h) \in T
    <2>1. Has(out, T)
      BY DEF T
    <2>2. QED
      BY <1>1, <2>1, Answered DEF cm
  <1>4. /\ \A h : AddMsg(c, h).type = "add"
        /\ FeeMsg(c).type = "fee" /\ RevokeMsg(p.nextL - 2).type = "revoke"
        /\ ShutdownMsg.type = "shutdown"
    BY DEF AddMsg, FeeMsg, RevokeMsg, ShutdownMsg
  <1>5. PICK h \in in_state(c, 15) \cup in_state(c, 16) : RemoveMsg(c, h) \in T
    BY <1>2, <1>3, <1>4 DEF Outcomes
  <1>6. /\ in_state(c, 15) \subseteq {"remote"} \X Nat
        /\ in_state(c, 16) \subseteq {"remote"} \X Nat
    <2>1. /\ in_state(c, 15) \subseteq {htlc_state_owner(15)} \X Nat
          /\ in_state(c, 16) \subseteq {htlc_state_owner(16)} \X Nat
      BY <1>1, InState DEF HtlcStates
    <2>2. htlc_state_owner(15) = "remote" /\ htlc_state_owner(16) = "remote"
      BY DEF htlc_state_owner, RCVD_ADD_HTLC
    <2>3. QED
      BY <2>1, <2>2
  <1>7. h = <<"remote", k>> /\ c.htlcs[h].r = o
    BY <1>2, <1>5, <1>6 DEF RemoveMsg
  <1>8. Where(c, h) \in {15, 16}
    BY <1>5 DEF in_state, Where, State
  <1>9. QED
    BY <1>1, <1>7, <1>8 DEF Agreed, Theirs, Going

(* What a step of x leaves alone of the HTLCs that it has offered. *)
Holds(x, y) ==
    /\ y.q = x.q \/ (x.q # << >> /\ y.q = Tail(x.q))
    /\ y.p.phase = "reestablish" => x.p.phase = "reestablish"
    /\ x.d.htlcId <= y.d.htlcId

(* Each HTLC stays, or moves as the dance moves it. *)
Danced(c, c2) ==
    /\ SameHtlcs(c, c2)
    /\ \/ \A h : Where(c2, h) = Where(c, h)
       \/ \A h : Where(c2, h) = Sent(Where(c, h))
       \/ \A h : Where(c2, h) = Took(Where(c, h))
       \/ \A h : Where(c2, h) = Acked(Where(c, h))

(* And so keeps what it has of the outcome. *)
LEMMA DanceSettles ==
    ASSUME NEW x, x.c.htlcs \in HtlcMaps, NEW y, y.c.htlcs \in HtlcMaps, Danced(x.c, y.c)
    PROVE  Heeds(x, y) /\ Abides(x, y)
  <1>1. \A h : Where(x.c, h) \in 0..20
    BY WhereType
  <1>2. \A i \in 0..20 : \A j \in {i, Sent(i), Took(i), Acked(i)} :
          /\ j \in Late => i \in Late
          /\ i \in Going => j \in Going \cup {NoHtlc}
          /\ i = NoHtlc => j = NoHtlc
    BY DEF Sent, Took, Acked, Late, Going, NoHtlc
  <1>3. \A h : /\ Where(y.c, h) \in Late => Where(x.c, h) \in Late
               /\ Where(x.c, h) \in Going => Where(y.c, h) \in Going \cup {NoHtlc}
               /\ Where(x.c, h) = NoHtlc => Where(y.c, h) = NoHtlc
    BY <1>1, <1>2 DEF Danced
  <1>4. SameHtlcs(x.c, y.c)
    BY DEF Danced
  <1>5. QED
    BY <1>3, <1>4, MovesSettle

(* A node that reads in "run" is not awaited. *)
LEMMA ReaderWaits ==
    ASSUME NEW x, NEW z, Link(z, x), x.p.phase = "run", x.q # << >>, NEW y
    PROVE  Waits(z, x, y)
  BY DEF Link, LinkPhase, Waits

(* x reads of an HTLC. *)
LEMMA AddSettles ==
    ASSUME NEW n \in Nodes, NEW x, NodeType(n, x), Store(x.c, x.d), NEW y, NEW out,
           GotAdd(n, x, y, out), <<"remote", Head(x.q).id>> \notin DOMAIN x.c.htlcs
    PROVE  Heeds(x, y) /\ Abides(x, y)
  <1> DEFINE q == x.q
             b == Head(x.q).id
             h == <<"remote", b>>
  <1>1. Put(x.c, y.c, h, 10) /\ b \in Nat
    BY AddPuts
  <1>2. q \in Seq(Msgs) /\ q # << >> /\ Head(q) \in AddOf(b)
    <2>1. q \in Seq(Msgs) /\ q # << >> /\ Head(q).type = "add"
      BY DEF NodeType, GotAdd, Reads
    <2>2. Head(q) \in Msgs
      BY <2>1, Popped
    <2>3. QED
      BY <2>1, <2>2 DEF AddOf
  <1>3. x.c.htlcs \in HtlcMaps
    BY DEF NodeType, GoodChan, ChanRecs
  <1>4. Heeds(x, y)
    <2>1. \A k \in Nat : h # <<"local", k>>
      OBVIOUS
    <2> HIDE DEF h
    <2>2. QED
      BY <1>1, <1>3, <2>1, PutSettles
  <1>5. Has(q, AddOf(b))
    <2> HIDE DEF q, b
    <2>1. QED
      BY <1>2, Popped
  <1>6. ASSUME NEW k \in Nat, k # b
        PROVE  /\ Theirs(y, k) = Theirs(x, k)
               /\ Theirs(x, k) # NoHtlc => y.c.htlcs[<<"remote", k>>].r = x.c.htlcs[<<"remote", k>>].r
    <2>1. <<"remote", k>> # h
      BY <1>6
    <2>2. Where(x.c, <<"remote", k>>) # NoHtlc => <<"remote", k>> \in DOMAIN x.c.htlcs
      BY <1>3, WhereType
    <2> HIDE DEF h
    <2>3. QED
      BY <1>1, <2>1, <2>2 DEF Put, Theirs
  <1>7. Abides(x, y)
    <2> SUFFICES ASSUME NEW k \in Nat, NEW o, Agreed(x, k, o)
                 PROVE  Agreed(y, k, o) \/ Has(x.q, AddOf(k))
      BY DEF Abides
    <2>1. CASE k = b
      BY <1>5, <2>1
    <2>2. CASE k # b
      BY <1>6, <2>2 DEF Agreed, Going, NoHtlc
    <2>3. QED
      BY <2>1, <2>2
  <1>8. QED
    BY <1>4, <1>7

(* x reads of an outcome. *)
LEMMA RemoveSettles ==
    ASSUME NEW n \in Nodes, NEW x, NodeType(n, x), Store(x.c, x.d), NEW y, NEW out,
           NodeType(n, y), GotRemove(n, x, y, out)
    PROVE  Heeds(x, y) /\ Abides(x, y) /\ \A k \in Nat : Theirs(y, k) = Theirs(x, k)
  <1> DEFINE m == Head(x.q)
             b == m.id
             h == <<"local", b>>
  <1>1. /\ m \in Msgs /\ m.type \in Outcomes /\ b \in Nat
        /\ \/ y.c = x.c
           \/ Put(x.c, y.c, h, 5) /\ y.c.htlcs[h].r = m.type
    BY RemovePuts DEF Outcomes
  <1>2. x.c.htlcs \in HtlcMaps /\ y.c.htlcs \in HtlcMaps /\ x.q # << >>
    BY DEF NodeType, GoodChan, ChanRecs, GotRemove, Reads
  <1>3. CASE y.c = x.c
    <2>1. Danced(x.c, y.c)
      BY <1>3 DEF Danced, SameHtlcs
    <2>2. Heeds(x, y) /\ Abides(x, y)
      BY <1>2, <2>1, DanceSettles
    <2>3. QED
      BY <1>3, <2>2 DEF Theirs
  <1>4. CASE Put(x.c, y.c, h, 5) /\ y.c.htlcs[h].r = m.type
    <2>1. \A k \in Nat : h # <<"remote", k>>
      OBVIOUS
    <2>2. Abides(x, y)
      <3> HIDE DEF h
      <3>1. QED
        BY <1>2, <1>4, <2>1, PutSettles
    <2>3. ASSUME NEW k \in Nat, k # b
          PROVE  /\ Mine(y, k) = Mine(x, k)
                 /\ Mine(x, k) # NoHtlc => y.c.htlcs[<<"local", k>>].r = x.c.htlcs[<<"local", k>>].r
      <3>1. <<"local", k>> # h
        BY <2>3
      <3>2. Where(x.c, <<"local", k>>) # NoHtlc => <<"local", k>> \in DOMAIN x.c.htlcs
        BY <1>2, WhereType
      <3> HIDE DEF h
      <3>3. QED
        BY <1>4, <3>1, <3>2 DEF Put, Mine
    <2>4. m \in RemoveAs(b, y.c.htlcs[<<"local", b>>].r) /\ y.c.htlcs[<<"local", b>>].r \in Outcomes
      BY <1>1, <1>4 DEF RemoveAs
    <2>5. Heeds(x, y)
      <3> SUFFICES ASSUME NEW k \in Nat, Mine(y, k) \in Late
                   PROVE  \/ Mine(x, k) \in Late /\ y.c.htlcs[<<"local", k>>].r = x.c.htlcs[<<"local", k>>].r
                          \/ /\ x.q # << >> /\ y.c.htlcs[<<"local", k>>].r \in Outcomes
                             /\ Head(x.q) \in RemoveAs(k, y.c.htlcs[<<"local", k>>].r)
        BY DEF Heeds
      <3>1. CASE k = b
        BY <1>2, <2>4, <3>1
      <3>2. CASE k # b
        BY <2>3, <3>2 DEF Late, NoHtlc
      <3>3. QED
        BY <3>1, <3>2
    <2>6. \A k \in Nat : Theirs(y, k) = Theirs(x, k)
      <3> HIDE DEF h
      <3>1. QED
        BY <1>4, <2>1 DEF Put, Theirs
    <2>7. QED
      BY <2>2, <2>5, <2>6
  <1>5. QED
    BY <1>1, <1>3, <1>4

(* A step of x that z hears leaves the two agreed. *)
LEMMA SettleStep ==
    ASSUME NEW n \in Nodes, NEW x, NodeType(n, x), NEW m \in Nodes, NEW z, NodeType(m, z),
           Keeps(n, x), Own(x), Link(x, z), Link(z, x), Settles(x, z), Settles(z, x),
           NEW y, NEW out \in Seq(Msgs), NodeStep(n, x, y, out), NEW w, Hears(z, w, out),
           GotAdd(n, x, y, out) => <<"remote", Head(x.q).id>> \notin DOMAIN x.c.htlcs,
           Fresh(y, w), Fresh(w, y)
    PROVE  Settles(y, w) /\ Settles(w, y)
  <1>1. /\ LinkType(z) /\ Store(x.c, x.d) /\ Signed(n, x) /\ x.q \in Seq(Msgs) /\ z.q \in Seq(Msgs)
        /\ x.p \in PeerRecs /\ x.d \in DbRecs /\ x.c.htlcs \in HtlcMaps
        /\ w.c = z.c /\ w.q = z.q \o out
    BY DEF NodeType, LinkType, Keeps, Hears, GoodChan, ChanRecs
  <1>2. NodeType(n, y) /\ y.c.htlcs \in HtlcMaps /\ y.d \in DbRecs
    <2>1. NodeType(n, y)
      BY NodeStepType
    <2>2. QED
      BY <2>1 DEF NodeType, GoodChan, ChanRecs
  <1>3. Holds(x, y) /\ Heeds(x, y) /\ OffersNew(x, y, out) => Settles(y, w)
    <2> SUFFICES ASSUME Holds(x, y), Heeds(x, y), OffersNew(x, y, out)
                 PROVE  Settles(y, w)
      OBVIOUS
    <2>1. y.q = x.q \/ (x.q # << >> /\ y.q = Tail(x.q))
      BY DEF Holds
    <2>2. y.p.phase = "reestablish" => x.p.phase = "reestablish"
      BY DEF Holds
    <2>3. \A k \in Nat : k < x.d.htlcId => k < y.d.htlcId
      <3>1. x.d.htlcId <= y.d.htlcId /\ x.d.htlcId \in Nat /\ y.d.htlcId \in Nat
        BY <1>1, <1>2 DEF Holds, DbRecs
      <3>2. QED
        BY <3>1
    <2>4. QED
      BY <1>1, <2>1, <2>2, <2>3, OwnerSettles
  <1>4. Holds(x, y) /\ Abides(x, y) /\ Reports(y, out) /\ Waits(z, x, y) => Settles(w, y)
    <2> SUFFICES ASSUME Holds(x, y), Abides(x, y), Reports(y, out), Waits(z, x, y)
                 PROVE  Settles(w, y)
      OBVIOUS
    <2>1. y.q = x.q \/ (x.q # << >> /\ y.q = Tail(x.q))
      BY DEF Holds
    <2>2. QED
      BY <1>1, <2>1, TakerSettles
  <1>5. SUFFICES /\ Holds(x, y) /\ Heeds(x, y) /\ OffersNew(x, y, out)
                 /\ Abides(x, y) /\ Reports(y, out) /\ Waits(z, x, y)
    BY <1>3, <1>4
  <1>6. x.d.htlcId \in Nat /\ x.p.htlcId \in Nat /\ x.d.htlcId <= x.p.htlcId /\ x.d.htlcId <= x.d.htlcId
    <2>1. x.d.htlcId \in Nat /\ x.p.htlcId \in Nat /\ x.d.htlcId <= x.p.htlcId
      BY <1>1 DEF DbRecs, PeerRecs, Own, Ids
    <2>2. QED
      BY <2>1
  <1>7. /\ OffersNew(x, y, << >>) /\ Reports(y, << >>)
        /\ OffersNew(x, y, <<ShutdownMsg>>) /\ Reports(y, <<ShutdownMsg>>)
    <2>1. /\ \A k \in Nat : ~Has(<< >>, AddOf(k))
          /\ \A k \in Nat, o \in Outcomes : ~Has(<< >>, RemoveAs(k, o))
      BY NoneQueued
    <2>2. ShutdownMsg \in Msgs /\ ShutdownMsg.type \notin {"fulfill", "fail"} /\ ShutdownMsg.type # "add"
      BY MsgShutdown DEF ShutdownMsg
    <2>3. /\ \A k \in Nat : ~Has(<<ShutdownMsg>>, AddOf(k))
          /\ \A k \in Nat, o \in Outcomes : ~Has(<<ShutdownMsg>>, RemoveAs(k, o))
      BY <2>2, OneOther
    <2>4. QED
      BY <2>1, <2>3, NoneOffered, NoneRemoved
  <1>8. (\A k \in Nat : Theirs(x, k) # NoHtlc => Theirs(y, k) # NoHtlc) => Waits(z, x, y)
    BY DEF Waits
  <1>9. CASE Quiet(n, x, y, out) \/ SavesResolution(n, x, y, out) \/ GotFee(n, x, y, out)
    <2>1. Idles(x, y, out)
      BY <1>9, IdleSteps
    <2>2. Danced(x.c, y.c) /\ \A h : Where(y.c, h) = Where(x.c, h)
      BY <2>1 DEF Idles, Still, Danced
    <2>3. Heeds(x, y) /\ Abides(x, y)
      BY <1>1, <1>2, <2>2, DanceSettles
    <2>4. Holds(x, y)
      BY <1>6, <2>1 DEF Idles, SameIds, Onward, Pops, Holds
    <2>5. OffersNew(x, y, out) /\ Reports(y, out)
      BY <1>7, <2>1 DEF Idles
    <2>6. Waits(z, x, y)
      BY <1>8, <2>2 DEF Theirs
    <2>7. QED
      BY <2>3, <2>4, <2>5, <2>6
  <1>10. CASE Offers(n, x, y, out)
    <2> DEFINE b == x.p.htlcId
               h == <<"local", b>>
               e == AddMsg(y.c, h)
    <2>1. Put(x.c, y.c, h, 0) /\ e \in Msgs /\ out = <<e>> /\ e.type = "add" /\ e.id = b
      BY <1>1, <1>10, OfferPuts DEF AddMsg
    <2>2. Holds(x, y)
      BY <1>6, <1>10 DEF Offers, Holds
    <2>3. \A k \in Nat : h # <<"remote", k>>
      OBVIOUS
    <2>4. Heeds(x, y) /\ Abides(x, y)
      <3>1. 0 \notin Late
        BY DEF Late
      <3> HIDE DEF h
      <3>2. QED
        BY <1>1, <2>1, <2>3, <3>1, PutSettles
    <2>5. Waits(z, x, y)
      <3> HIDE DEF h
      <3>1. \A k \in Nat : Theirs(y, k) = Theirs(x, k)
        BY <2>1, <2>3 DEF Put, Theirs
      <3>2. QED
        BY <1>8, <3>1
    <2>6. Where(y.c, h) = 0
      BY <2>1 DEF Put
    <2>7. \A o \in Outcomes : ~Has(x.q, RemoveAs(b, o))
      BY <1>6 DEF Settles, SaidSo
    <2>8. Mine(y, b) \notin Late
      BY <2>6 DEF Mine, Late
    <2> HIDE DEF e, b
    <2>9. \A T : Has(out, T) <=> e \in T
      BY <2>1, OneQueued
    <2>10. OffersNew(x, y, out)
      BY <2>1, <2>7, <2>8, <2>9 DEF OffersNew, AddOf
    <2>11. Reports(y, out)
      BY <2>1, <2>9 DEF Reports, RemoveAs, Outcomes
    <2>12. QED
      BY <2>2, <2>4, <2>5, <2>10, <2>11
  <1>11. CASE Resolves(n, x, y, out)
    <2>1. PICK b \in Nat :
            /\ Where(x.c, <<"remote", b>>) = 14 /\ Put(x.c, y.c, <<"remote", b>>, 15)
            /\ y.c.htlcs[<<"remote", b>>].r \in {"fulfill", "fail"}
            /\ RemoveMsg(y.c, <<"remote", b>>) \in Msgs
            /\ out = <<RemoveMsg(y.c, <<"remote", b>>)>>
      BY <1>1, <1>11, ResolvePuts
    <2> DEFINE h == <<"remote", b>>
               e == RemoveMsg(y.c, h)
    <2>2. e \in Msgs /\ out = <<e>> /\ e.type = y.c.htlcs[h].r /\ e.id = b /\ e.type # "add"
      BY <2>1 DEF RemoveMsg
    <2>3. Holds(x, y)
      BY <1>6, <1>11 DEF Resolves, Holds
    <2>4. Heeds(x, y) /\ Abides(x, y)
      <3>1. (\A k \in Nat : h # <<"local", k>>) /\ Where(x.c, h) = 14 /\ Put(x.c, y.c, h, 15)
        BY <2>1
      <3> HIDE DEF h
      <3>2. QED
        BY <1>1, <3>1, PutSettles
    <2>5. /\ Theirs(y, b) = 15
          /\ \A k \in Nat : k # b => Theirs(y, k) = Theirs(x, k)
      BY <2>1 DEF Put, Theirs
    <2>6. Waits(z, x, y)
      BY <1>8, <2>5 DEF NoHtlc
    <2>7. Agreed(y, b, e.type) /\ Theirs(y, b) \in Going
      BY <2>2, <2>5 DEF Agreed, Going
    <2> HIDE DEF e, h
    <2>8. \A T : Has(out, T) <=> e \in T
      BY <2>2, OneQueued
    <2>9. OffersNew(x, y, out)
      BY <2>2, <2>8 DEF OffersNew, AddOf
    <2>10. Reports(y, out)
      BY <2>2, <2>7, <2>8 DEF Reports, RemoveAs
    <2>11. QED
      BY <2>3, <2>4, <2>6, <2>9, <2>10
  <1>12. CASE GotAdd(n, x, y, out)
    <2>1. Heeds(x, y) /\ Abides(x, y)
      BY <1>1, <1>12, AddSettles
    <2>2. x.p.phase = "run" /\ x.q # << >> /\ out = << >>
      BY <1>12 DEF GotAdd, Reads
    <2>3. Holds(x, y)
      BY <1>6, <1>12 DEF GotAdd, Reads, Holds
    <2>4. Waits(z, x, y)
      BY <2>2, ReaderWaits
    <2>5. QED
      BY <1>7, <2>1, <2>2, <2>3, <2>4
  <1>13. CASE GotRemove(n, x, y, out)
    <2>1. Heeds(x, y) /\ Abides(x, y)
      BY <1>1, <1>2, <1>13, RemoveSettles
    <2>2. x.p.phase = "run" /\ x.q # << >> /\ out = << >>
      BY <1>13 DEF GotRemove, Reads
    <2>3. Holds(x, y)
      BY <1>6, <1>13 DEF GotRemove, Reads, Holds
    <2>4. Waits(z, x, y)
      BY <2>2, ReaderWaits
    <2>5. QED
      BY <1>7, <2>1, <2>2, <2>3, <2>4
  <1>14. CASE SendsCommit(n, x, y, out)
    <2>1. /\ \A h : Where(y.c, h) = Sent(Where(x.c, h))
          /\ SameHtlcs(x.c, y.c)
      BY <1>14, CommitMoves
    <2>2. Heeds(x, y) /\ Abides(x, y)
      <3>1. Danced(x.c, y.c)
        BY <2>1 DEF Danced
      <3>2. QED
        BY <1>1, <1>2, <3>1, DanceSettles
    <2>3. y.d.htlcId = x.p.htlcId
      BY <1>14, SentIds
    <2>4. Holds(x, y)
      BY <1>6, <1>14, <2>3 DEF SendsCommit, Holds
    <2>5. Waits(z, x, y)
      <3>1. \A h : Where(x.c, h) \in 0..20
        BY <1>1, WhereType
      <3>2. \A i \in 0..20 : i # NoHtlc => Sent(i) # NoHtlc
        BY DEF Sent, NoHtlc
      <3>3. QED
        BY <1>8, <2>1, <3>1, <3>2 DEF Theirs
    <2>6. /\ \A k \in Nat : ~Has(out, AddOf(k))
          /\ \A k \in Nat, o \in Outcomes : ~Has(out, RemoveAs(k, o))
      <3>1. \A T : Has(out, T) => \E e \in Msgs : e \in T /\ e.type \in {"fee", "shutdown", "commit"}
        BY <1>14, CommitSends
      <3>2. QED
        BY <3>1 DEF AddOf, RemoveAs, Outcomes
    <2>7. OffersNew(x, y, out) /\ Reports(y, out)
      BY <2>6, NoneOffered, NoneRemoved
    <2>8. QED
      BY <2>2, <2>4, <2>5, <2>7
  <1>15. CASE GotCommit(n, x, y, out)
    <2>1. /\ \A h : Where(y.c, h) = Took(Where(x.c, h))
          /\ SameHtlcs(x.c, y.c) /\ y.d.htlcId = x.d.htlcId
      <3>1. Store(x.c, x.d)
        BY <1>1
      <3>2. QED
        BY <1>15, <3>1, TookMoves
    <2>2. Heeds(x, y) /\ Abides(x, y)
      <3>1. Danced(x.c, y.c)
        BY <2>1 DEF Danced
      <3>2. QED
        BY <1>1, <1>2, <3>1, DanceSettles
    <2>3. x.p.phase = "run" /\ x.q # << >> /\ out = <<RevokeMsg(x.p.nextL - 1)>>
      BY <1>15 DEF GotCommit, Reads
    <2>4. Holds(x, y)
      BY <1>6, <1>15, <2>1 DEF GotCommit, Reads, Goes, Holds
    <2>5. Waits(z, x, y)
      BY <2>3, ReaderWaits
    <2>6. OffersNew(x, y, out) /\ Reports(y, out)
      <3> DEFINE e == RevokeMsg(x.p.nextL - 1)
      <3>1. out = <<e>> /\ e.type = "revoke"
        BY <2>3 DEF RevokeMsg
      <3> HIDE DEF e
      <3>2. e \in Msgs
        BY <3>1
      <3>3. /\ \A k \in Nat : ~Has(out, AddOf(k))
            /\ \A k \in Nat, o \in Outcomes : ~Has(out, RemoveAs(k, o))
        BY <3>1, <3>2, OneOther
      <3>4. QED
        BY <3>3, NoneOffered, NoneRemoved
    <2>7. QED
      BY <2>2, <2>4, <2>5, <2>6
  <1>16. CASE GotRevoke(n, x, y, out)
    <2>1. /\ \A h : Where(y.c, h) = Acked(Where(x.c, h))
          /\ SameHtlcs(x.c, y.c) /\ y.d.htlcId = x.d.htlcId
      BY <1>16, AckMoves
    <2>2. Heeds(x, y) /\ Abides(x, y)
      <3>1. Danced(x.c, y.c)
        BY <2>1 DEF Danced
      <3>2. QED
        BY <1>1, <1>2, <3>1, DanceSettles
    <2>3. x.p.phase = "run" /\ x.q # << >> /\ out = << >>
      BY <1>16 DEF GotRevoke, Reads
    <2>4. Holds(x, y)
      BY <1>6, <1>16, <2>1 DEF GotRevoke, Reads, Goes, Holds
    <2>5. Waits(z, x, y)
      BY <2>3, ReaderWaits
    <2>6. QED
      BY <1>7, <2>2, <2>3, <2>4, <2>5
  <1>17. CASE Answers(n, x, y, out)
    <2>1. y.c = x.c /\ y.d = x.d /\ x.p.phase = "reestablish"
      BY <1>17 DEF Answers
    <2>2. Heeds(x, y) /\ Abides(x, y)
      <3>1. Danced(x.c, y.c)
        BY <2>1 DEF Danced, SameHtlcs
      <3>2. QED
        BY <1>1, <1>2, <3>1, DanceSettles
    <2>3. Holds(x, y)
      BY <1>6, <1>17 DEF Answers, Goes, Holds
    <2>4. Waits(z, x, y)
      BY <1>8, <2>1 DEF Theirs
    <2>5. Reports(y, out)
      BY <1>17, AnswerReports
    <2>6. OffersNew(x, y, out)
      <3> SUFFICES ASSUME NEW k \in Nat, Has(out, AddOf(k))
                   PROVE  /\ Mine(y, k) \notin Late
                          /\ \A o \in Outcomes : ~Has(x.q, RemoveAs(k, o))
        BY DEF OffersNew
      <3>1. Mine(y, k) = 1
        <4>1. Mine(x, k) = 1
          BY <1>1, <1>17, AnswerSends
        <4>2. QED
          BY <2>1, <4>1 DEF Mine
      <3>2. Theirs(z, k) = NoHtlc
        <4> DEFINE q == z.q
                   r == w.q
        <4>1. r = q \o out /\ q \in Seq(Msgs) /\ out \in Seq(Msgs)
          BY <1>1
        <4> HIDE DEF q, r
        <4>2. Has(r, AddOf(k))
          BY <4>1, Queued
        <4>3. Theirs(w, k) = NoHtlc
          BY <4>2 DEF Fresh, NewAdds, r
        <4>4. QED
          BY <1>1, <4>3 DEF Theirs
      <3>3. QED
        BY <2>1, <3>1, <3>2 DEF Settles, SaidSo, Late
    <2>7. QED
      BY <2>2, <2>3, <2>4, <2>5, <2>6
  <1>18. QED
    BY <1>9, <1>10, <1>11, <1>12, <1>13, <1>14, <1>15, <1>16, <1>17 DEF NodeStep

(* Queues without an HTLC's messages. *)
LEMMA SettleEmpty ==
    ASSUME NEW x, NEW z, DoneSo(x, z),
           \A k \in Nat, o \in Outcomes : ~Has(x.q, RemoveAs(k, o)),
           \A k \in Nat : ~Has(z.q, AddOf(k))
    PROVE  Settles(x, z)
  BY DEF Settles, SaidSo, NotYet

(* The connection breaks. *)
LEMMA SettleBreak ==
    ASSUME NEW n \in Nodes, NEW x, NodeType(n, x), NEW y, Breaks(n, x, y), Store(x.c, x.d),
           NEW m \in Nodes, NEW z, NodeType(m, z), NEW w, Breaks(m, z, w), Store(z.c, z.d),
           Nums(x), Nums(z), Settles(x, z)
    PROVE  Settles(y, w)
  <1>1. /\ \A h : Kept(Where(x.c, h), Where(y.c, h))
        /\ \A h \in DOMAIN y.c.htlcs :
             Where(y.c, h) = Where(x.c, h) => y.c.htlcs[h].r = x.c.htlcs[h].r
        /\ y.q = << >>
    <2>1. \A h : Kept(Where(x.c, h), Where(y.c, h))
      BY BreakMoves
    <2>2. \A h \in DOMAIN y.c.htlcs :
             Where(y.c, h) = Where(x.c, h) => y.c.htlcs[h].r = x.c.htlcs[h].r
      BY BreakMoves
    <2>3. QED
      BY <2>1, <2>2 DEF Breaks
  <1>2. /\ \A h : Kept(Where(z.c, h), Where(w.c, h))
        /\ \A h \in DOMAIN w.c.htlcs :
             Where(w.c, h) = Where(z.c, h) => w.c.htlcs[h].r = z.c.htlcs[h].r
        /\ w.q = << >>
    <2>1. \A h : Kept(Where(z.c, h), Where(w.c, h))
      BY BreakMoves
    <2>2. \A h \in DOMAIN w.c.htlcs :
             Where(w.c, h) = Where(z.c, h) => w.c.htlcs[h].r = z.c.htlcs[h].r
      BY BreakMoves
    <2>3. QED
      BY <2>1, <2>2 DEF Breaks
  <1>3. y.c.htlcs \in HtlcMaps /\ w.c.htlcs \in HtlcMaps
    <2>1. NodeType(n, y) /\ NodeType(m, w)
      BY BreakType
    <2>2. QED
      BY <2>1 DEF NodeType, GoodChan, ChanRecs
  <1>4. /\ \A h : Where(y.c, h) # NoHtlc => h \in DOMAIN y.c.htlcs
        /\ \A h : Where(w.c, h) # NoHtlc => h \in DOMAIN w.c.htlcs
    BY <1>3, WhereType
  <1>5. \A k \in Nat : Mine(y, k) \in Late =>
          /\ Mine(x, k) \in Late
          /\ y.c.htlcs[<<"local", k>>].r = x.c.htlcs[<<"local", k>>].r
    BY <1>1, <1>4 DEF Mine, Kept, Late, NoHtlc
  <1>6. \A k \in Nat : \A o : Agreed(z, k, o) => Agreed(w, k, o)
    BY <1>2, <1>4 DEF Agreed, Theirs, Kept, Going, NoHtlc
  <1>7. DoneSo(y, w)
    <2> SUFFICES ASSUME NEW k \in Nat, Mine(y, k) \in Late
                 PROVE  Agreed(w, k, y.c.htlcs[<<"local", k>>].r)
      BY DEF DoneSo
    <2>1. Agreed(z, k, x.c.htlcs[<<"local", k>>].r)
      BY <1>5 DEF Settles, DoneSo
    <2>2. QED
      BY <1>5, <1>6, <2>1
  <1>8. \A T : ~Has(y.q, T) /\ ~Has(w.q, T)
    BY <1>1, <1>2, NoneQueued
  <1>9. QED
    BY <1>7, <1>8, SettleEmpty

(* The nodes reconnect. *)
LEMMA SettleReopen ==
    ASSUME NEW x, LinkType(x), NEW z, LinkType(z), Settles(x, z),
           NEW y, Reopens(x, y, z), NEW w, Reopens(z, w, x)
    PROVE  Settles(y, w)
  <1> DEFINE e == reestablish(z.p)
             f == reestablish(x.p)
  <1>1. y.c = x.c /\ w.c = z.c /\ y.q = <<e>> /\ w.q = <<f>>
    BY DEF Reopens
  <1>2. e \in Msgs /\ e.type = "reestablish" /\ f \in Msgs /\ f.type = "reestablish"
    BY MsgReestablish DEF reestablish, LinkType, PeerRecs
  <1> HIDE DEF e, f
  <1>3. /\ \A T : Has(<<e>>, T) <=> e \in T
        /\ \A T : Has(<<f>>, T) <=> f \in T
    BY <1>2, OneQueued
  <1>4. /\ \A k \in Nat, o \in Outcomes : ~Has(y.q, RemoveAs(k, o))
        /\ \A k \in Nat : ~Has(w.q, AddOf(k))
    BY <1>1, <1>2, <1>3 DEF RemoveAs, AddOf, Outcomes
  <1>5. DoneSo(y, w)
    BY <1>1 DEF Settles, DoneSo, Mine, Theirs, Agreed
  <1>6. QED
    BY <1>4, <1>5, SettleEmpty

(* At first. *)
LEMMA SettleInit ==
    ASSUME Init, NEW n \in Nodes
    PROVE  Settles(Node(n), Node(Peer(n)))
  <1> DEFINE x == Node(n)
             z == Node(Peer(n))
  <1>1. /\ \A h : Where(x.c, h) = NoHtlc
        /\ x.q = << >> /\ z.q = << >>
    BY KeepsInit, TwoNodes
  <1> HIDE DEF x, z
  <1>2. DoneSo(x, z)
    BY <1>1 DEF DoneSo, Mine, Late, NoHtlc
  <1>3. \A T : ~Has(x.q, T) /\ ~Has(z.q, T)
    BY <1>1, NoneQueued
  <1>4. Settles(x, z)
    BY <1>2, <1>3, SettleEmpty
  <1>5. QED
    BY <1>4 DEF x, z

-----------------------------------------------------------------------------
(* What the two nodes keep and agree on.                                    *)
SettleInv ==
    /\ KeepInv
    /\ \A n \in Nodes : Settles(Node(n), Node(Peer(n)))

(* In every step. *)
LEMMA SettleNext ==
    ASSUME SettleInv, [Next]_vars
    PROVE  SettleInv'
  <1>1. TypeInv' /\ Steps3 /\ KeepInv'
    BY TypeStep, KeepNext DEF LinkInv, KeepInv, SettleInv
  <1>2. ASSUME NEW n \in Nodes
        PROVE  /\ Peer(n) \in Nodes /\ Peer(Peer(n)) = n
               /\ NodeType(n, Node(n)) /\ NodeType(Peer(n), Node(Peer(n)))
               /\ Nums(Node(n)) /\ Nums(Node(Peer(n)))
               /\ Link(Node(n), Node(Peer(n))) /\ Link(Node(Peer(n)), Node(n))
               /\ Keeps(n, Node(n)) /\ Keeps(Peer(n), Node(Peer(n)))
               /\ Own(Node(n)) /\ Own(Node(Peer(n)))
               /\ Fresh(Node(n), Node(Peer(n))) /\ Fresh(Node(Peer(n)), Node(n))
               /\ Settles(Node(n), Node(Peer(n))) /\ Settles(Node(Peer(n)), Node(n))
    BY TwoNodes DEF SettleInv, KeepInv, LinkInv, TypeInv
  <1>3. SUFFICES \A n \in Nodes : Settles(Node(n)', Node(Peer(n))')
    BY <1>1 DEF SettleInv
  <1>4. CASE \E n \in Nodes : \E out \in Seq(Msgs) :
               NodeStep(n, Node(n), Node(n)', out) /\ Hears(Node(Peer(n)), Node(Peer(n))', out)
    <2>1. PICK n \in Nodes, out \in Seq(Msgs) :
               NodeStep(n, Node(n), Node(n)', out) /\ Hears(Node(Peer(n)), Node(Peer(n))', out)
      BY <1>4
    <2> DEFINE x == Node(n)
               z == Node(Peer(n))
               y == Node(n)'
               w == Node(Peer(n))'
               m == Peer(n)
    <2>2. /\ m \in Nodes /\ NodeType(n, x) /\ NodeType(m, z)
          /\ Link(x, z) /\ Link(z, x) /\ Keeps(n, x) /\ Own(x) /\ Own(z)
          /\ Fresh(x, z) /\ Fresh(z, x) /\ NodeStep(n, x, y, out) /\ Hears(z, w, out)
          /\ Settles(x, z) /\ Settles(z, x)
      BY <1>2, <2>1
    <2> HIDE DEF x, y, z, w, m
    <2>3. /\ GotAdd(n, x, y, out) => <<"remote", Head(x.q).id>> \notin DOMAIN x.c.htlcs
          /\ Fresh(y, w) /\ Fresh(w, y)
      BY <2>2, FreshStep
    <2>4. Settles(y, w) /\ Settles(w, y)
      BY <2>2, <2>3, SettleStep
    <2>5. \A k \in Nodes : k = n \/ k = Peer(n)
      BY TwoNodes
    <2>6. QED
      BY <1>2, <2>4, <2>5 DEF x, y, z, w, m
  <1>5. CASE \A n \in Nodes : Breaks(n, Node(n), Node(n)')
    <2> SUFFICES ASSUME NEW n \in Nodes
                 PROVE  Settles(Node(n)', Node(Peer(n))')
      OBVIOUS
    <2> DEFINE x == Node(n)
               z == Node(Peer(n))
               y == Node(n)'
               w == Node(Peer(n))'
               m == Peer(n)
    <2>1. /\ m \in Nodes /\ NodeType(n, x) /\ NodeType(m, z) /\ Nums(x) /\ Nums(z)
          /\ Keeps(n, x) /\ Keeps(m, z) /\ Settles(x, z)
          /\ Breaks(n, x, y) /\ Breaks(m, z, w)
      BY <1>2, <1>5
    <2> HIDE DEF x, y, z, w, m
    <2>2. Store(x.c, x.d) /\ Store(z.c, z.d)
      BY <2>1 DEF Keeps
    <2>3. Settles(y, w)
      BY <2>1, <2>2, SettleBreak
    <2>4. QED
      BY <2>3 DEF y, w
  <1>6. CASE \A n \in Nodes : Reopens(Node(n), Node(n)', Node(Peer(n)))
    <2> SUFFICES ASSUME NEW n \in Nodes
                 PROVE  Settles(Node(n)', Node(Peer(n))')
      OBVIOUS
    <2> DEFINE x == Node(n)
               z == Node(Peer(n))
               y == Node(n)'
               w == Node(Peer(n))'
    <2>1. /\ NodeType(n, x) /\ NodeType(Peer(n), z) /\ Settles(x, z)
          /\ Reopens(x, y, z) /\ Reopens(z, w, x)
      BY <1>2, <1>6
    <2> HIDE DEF x, y, z, w
    <2>2. LinkType(x) /\ LinkType(z)
      BY <2>1 DEF NodeType, LinkType
    <2>3. Settles(y, w)
      BY <2>1, <2>2, SettleReopen
    <2>4. QED
      BY <2>3 DEF y, w
  <1>7. CASE \A n \in Nodes : Node(n)' = Node(n)
    BY <1>2, <1>7
  <1>8. QED
    BY <1>1, <1>4, <1>5, <1>6, <1>7 DEF Steps3

(* SameResolution: once the node that offered an HTLC has read how it is    *)
(* settled, the node that took it has settled it so, until both have let    *)
(* it go: a removal that is sent again after a restart, or that was under   *)
(* way when another was offered, never says anything else.                  *)
THEOREM SettledAlike == Spec => []SameResolution
  <1>1. Init => SettleInv
    BY KeepInit, SettleInit DEF SettleInv
  <1>2. SettleInv /\ [Next]_vars => SettleInv'
    BY SettleNext
  <1>3. SettleInv => SameResolution
    <2> SUFFICES ASSUME SettleInv, NEW n \in Nodes, NEW h \in DOMAIN chan[n].htlcs,
                        h[1] = "local", State(chan[n], h) >= RCVD_REMOVE_HTLC,
                        <<"remote", h[2]>> \in DOMAIN chan[Peer(n)].htlcs
                 PROVE  chan[Peer(n)].htlcs[<<"remote", h[2]>>].r = chan[n].htlcs[h].r
      BY DEF SameResolution
    <2> DEFINE x == Node(n)
               z == Node(Peer(n))
               k == h[2]
    <2>1. x.c = chan[n] /\ z.c = chan[Peer(n)]
      BY DEF Node
    <2>2. /\ GoodChan(x.c) /\ Store(x.c, x.d) /\ z.c.htlcs \in HtlcMaps /\ x.c.htlcs \in HtlcMaps
      BY TwoNodes DEF SettleInv, KeepInv, LinkInv, TypeInv, Keeps, NodeType, GoodChan, ChanRecs
    <2>3. h = <<"local", k>> /\ k \in Nat /\ h \in DOMAIN x.c.htlcs
      <3>1. h \in DOMAIN x.c.htlcs
        BY <2>1
      <3>2. h \in HtlcKeys
        BY <2>2, <3>1, HtlcMapElim
      <3>3. QED
        BY <3>1, <3>2 DEF HtlcKeys, Sides
    <2>4. Where(x.c, h) \in Late
      <3>1. Where(x.c, h) \in 0..20 /\ Where(x.c, h) \notin {3, 6, 9, 11, 18, 19}
        BY <2>2, WhereType DEF Store, Rest
      <3>2. Where(x.c, h) # NoHtlc /\ htlc_state_owner(Where(x.c, h)) = "local"
        BY <2>2, <2>3, WhereType
      <3>3. Where(x.c, h) >= 5
        BY <2>1, <2>3 DEF Where, State, RCVD_REMOVE_HTLC
      <3>4. QED
        BY <3>1, <3>2, <3>3 DEF htlc_state_owner, RCVD_ADD_HTLC, NoHtlc, Late
    <2>5. Agreed(z, k, x.c.htlcs[h].r)
      <3>1. Mine(x, k) \in Late
        BY <2>3, <2>4 DEF Mine
      <3>2. DoneSo(x, z)
        BY DEF SettleInv, Settles
      <3>3. QED
        BY <2>3, <3>1, <3>2 DEF DoneSo
    <2>6. Theirs(z, k) # NoHtlc
      BY <2>1, <2>2, WhereType DEF Theirs
    <2>7. QED
      BY <2>1, <2>5, <2>6 DEF Agreed
  <1>4. QED
    BY <1>1, <1>2, <1>3, PTL DEF Spec

-----------------------------------------------------------------------------
(* The two ends of an HTLC that x has offered, z being x's peer.            *)

(* x's commitment is under way to z; z's revocation is under way to x. *)
Under(x, z) == x.p.nextR = z.p.nextL + 1
Owing(x, z) == x.p.revs = z.p.nextL - 2
(* x has answered the reestablish message, and sends as it acts. *)
Talks(x) == x.p.phase \in {"run", "closing"}

(* The states s at x and t at z that go together, by whose commitments (cx, *)
(* cz) and whose revocations (to x: rx, to z: rz) are under way; wx and wz  *)
(* tell whether that node's revocation was sent after its commitment.       *)
Ends(s, t, cx, rx, cz, rz, wx, wz) ==
    \/ s = 0 /\ t \in {NoHtlc, 10}
    \/ s = 1 /\ cx /\ t \in {NoHtlc, 10}
    \/ s = 1 /\ rx /\ t = 12 /\ (cz => wz)
    \/ s = 1 /\ rx /\ t = 13 /\ cz /\ ~wz
    \/ s = 2 /\ t = 12 /\ ~cz
    \/ s = 2 /\ t = 13 /\ cz
    \/ s = 4 /\ t = 13 /\ rz
    \/ s = 4 /\ t \in {14, 15}
    \/ s \in {4, 5} /\ t = 16 /\ cz
    \/ s = 5 /\ t = 15
    \/ s = 7 /\ t = 16 /\ rz /\ (cx => wx)
    \/ s = 7 /\ t = 17 /\ ~cx
    \/ s = 8 /\ t = 17 /\ cx
    \/ s = 8 /\ t = 16 /\ cx /\ rz /\ ~wx
    \/ s = 8 /\ t = NoHtlc /\ rx
    \/ s = NoHtlc /\ t = NoHtlc

Paired(x, z, k) ==
    Ends(Mine(x, k), Theirs(z, k), Under(x, z), Owing(x, z), Under(z, x), Owing(z, x),
         x.d.wasRevoke, z.d.wasRevoke)

(* What x offers for an HTLC is what z has for it or is about to read. *)
AddNot(k, a) == {m \in Msgs : m.type = "add" /\ m.id = k /\ m.amount # a}
SameAmount(x, z, k) ==
    Mine(x, k) # NoHtlc =>
        /\ Theirs(z, k) # NoHtlc =>
             z.c.htlcs[<<"remote", k>>].amount = x.c.htlcs[<<"local", k>>].amount
        /\ ~Has(z.q, AddNot(k, x.c.htlcs[<<"local", k>>].amount))

(* An HTLC that z has not heard of is on its way, before the commitment     *)
(* that carries it.                                                         *)
AddGoes(x, z, k) ==
    /\ Has(z.q, AddOf(k)) => Mine(x, k) \in {0, 1}
    /\ Talks(x) /\ Mine(x, k) \in {0, 1} /\ Theirs(z, k) = NoHtlc => Has(z.q, AddOf(k))
    /\ Mine(x, k) = 1 => Before(z.q, AddOf(k), OfType("commit"))
    /\ ~Talks(x) => Mine(x, k) # 0

(* So is a removal that x has not heard of. *)
RemoveGoes(x, z, k) ==
    /\ Has(x.q, RemoveOf(k)) => Mine(x, k) = 4 /\ Theirs(z, k) \in {15, 16}
    /\ One(x.q, RemoveOf(k))
    /\ Talks(z) /\ Mine(x, k) = 4 /\ Theirs(z, k) \in {15, 16} => Has(x.q, RemoveOf(k))
    /\ Theirs(z, k) = 16 => Before(x.q, RemoveOf(k), OfType("commit"))
    /\ Theirs(z, k) = 15 => Before(x.q, OfType("commit"), RemoveOf(k))
    /\ Has(x.q, OfType("commit")) /\ Mine(x, k) = 5 => Theirs(z, k) = 16
    /\ ~Talks(z) => Mine(x, k) # 5

Match(x, z, k) ==
    Paired(x, z, k) /\ SameAmount(x, z, k) /\ AddGoes(x, z, k) /\ RemoveGoes(x, z, k)

(* What is under way from x is in z's queue, in the order x sent it. *)
InOrder(x, z) ==
    /\ Talks(x) /\ Under(x, z) => Has(z.q, OfType("commit"))
    /\ Talks(x) /\ Owing(z, x) => Has(z.q, OfType("revoke"))
    /\ x.d.wasRevoke => Before(z.q, OfType("commit"), OfType("revoke"))
    /\ ~x.d.wasRevoke => Before(z.q, OfType("revoke"), OfType("commit"))

Matches(x, z) == InOrder(x, z) /\ \A k \in Nat : Match(x, z, k)

-----------------------------------------------------------------------------
(* How the numbers of commitments under way change.                         *)

(* The numbers of the two nodes. *)
LEMMA Numbers ==
    ASSUME NEW x, NEW z, LinkType(x), LinkType(z), LinkNums(x, z)
    PROVE  /\ x.p.nextR \in Nat /\ x.p.revs \in Nat /\ z.p.nextL \in Nat
           /\ x.p.revs <= z.p.nextL - 1 /\ z.p.nextL <= x.p.nextR /\ x.p.nextR <= x.p.revs + 2
  <1>1. x.p.nextR \in Nat /\ x.p.revs \in Nat /\ z.p.nextL \in Nat
    BY DEF LinkType, PeerRecs
  <1>2. x.p.revs <= z.p.nextL - 1 /\ z.p.nextL <= x.p.nextR /\ x.p.nextR <= x.p.revs + 2
    BY DEF LinkNums
  <1>3. QED
    BY <1>1, <1>2

(* A node's commitment and the revocation it waits for are not under way    *)
(* together.                                                                *)
LEMMA OneAtATime ==
    ASSUME NEW x, NEW z, LinkType(x), LinkType(z), LinkNums(x, z)
    PROVE  ~(Under(x, z) /\ Owing(x, z))
  BY Numbers DEF Under, Owing

(* send_commit() *)
LEMMA FlagsSent ==
    ASSUME NEW x, NEW z, LinkType(x), LinkType(z), LinkNums(x, z), x.p.revs = x.p.nextR - 1,
           NEW y, NEW w, y.p \in PeerRecs, y.p.nextR = x.p.nextR + 1, y.p.nextL = x.p.nextL,
           y.p.revs = x.p.revs, w.p = z.p
    PROVE  /\ ~Under(x, z) /\ ~Owing(x, z) /\ Under(y, w) /\ ~Owing(y, w)
           /\ Under(w, y) <=> Under(z, x)
           /\ Owing(w, y) <=> Owing(z, x)
           /\ ~Has(z.q, OfType("commit"))
  <1>1. ~Under(x, z) /\ ~Owing(x, z) /\ Under(y, w) /\ ~Owing(y, w)
    BY Numbers DEF Under, Owing
  <1>2. (Under(w, y) <=> Under(z, x)) /\ (Owing(w, y) <=> Owing(z, x))
    BY DEF Under, Owing
  <1>3. Has(z.q, OfType("commit")) => Under(x, z)
    BY DEF LinkNums, Under
  <1>4. QED
    BY <1>1, <1>2, <1>3

(* handle_peer_commit_sig() *)
LEMMA FlagsTook ==
    ASSUME NEW x, NEW z, LinkType(x), LinkType(z), LinkNums(x, z), LinkNums(z, x),
           x.q # << >>, Head(x.q).type = "commit",
           NEW y, NEW w, y.p \in PeerRecs, y.p.nextL = x.p.nextL + 1, y.p.nextR = x.p.nextR,
           y.p.revs = x.p.revs, w.p = z.p
    PROVE  /\ Under(z, x) /\ ~Owing(z, x) /\ ~Under(w, y) /\ Owing(w, y)
           /\ Under(y, w) <=> Under(x, z)
           /\ Owing(y, w) <=> Owing(x, z)
           /\ ~Has(Tail(x.q), OfType("commit")) /\ ~Has(z.q, OfType("revoke"))
  <1>1. Head(x.q) \in OfType("commit") /\ x.q \in Seq(Msgs)
    <2>1. x.q \in Seq(Msgs)
      BY DEF LinkType
    <2>2. Head(x.q) \in Msgs
      BY <2>1, Popped
    <2>3. QED
      BY <2>1, <2>2 DEF OfType
  <1>2. Has(x.q, OfType("commit")) /\ ~Has(Tail(x.q), OfType("commit"))
    <2>1. Has(x.q, OfType("commit"))
      BY <1>1, Popped
    <2>2. One(x.q, OfType("commit"))
      BY DEF LinkNums
    <2>3. QED
      BY <1>1, <2>1, <2>2, Popped
  <1>3. Under(z, x)
    BY <1>2 DEF LinkNums, Under
  <1>4. ~Owing(z, x) /\ ~Under(w, y) /\ Owing(w, y)
    BY <1>3, Numbers DEF Under, Owing
  <1>5. (Under(y, w) <=> Under(x, z)) /\ (Owing(y, w) <=> Owing(x, z))
    BY DEF Under, Owing
  <1>6. ~Has(z.q, OfType("revoke"))
    BY <1>4 DEF LinkNums, Owing
  <1>7. QED
    BY <1>2, <1>3, <1>4, <1>5, <1>6

(* handle_peer_revoke_and_ack() *)
LEMMA FlagsAcked ==
    ASSUME NEW x, NEW z, LinkType(x), LinkType(z), LinkNums(x, z), LinkNums(z, x),
           x.q # << >>, Head(x.q).type = "revoke",
           NEW y, NEW w, y.p \in PeerRecs, y.p.nextL = x.p.nextL, y.p.nextR = x.p.nextR,
           y.p.revs = x.p.revs + 1, w.p = z.p
    PROVE  /\ Owing(x, z) /\ ~Under(x, z) /\ ~Under(y, w) /\ ~Owing(y, w)
           /\ Under(w, y) <=> Under(z, x)
           /\ Owing(w, y) <=> Owing(z, x)
           /\ ~Has(Tail(x.q), OfType("revoke"))
  <1>1. Head(x.q) \in OfType("revoke") /\ x.q \in Seq(Msgs)
    <2>1. x.q \in Seq(Msgs)
      BY DEF LinkType
    <2>2. Head(x.q) \in Msgs
      BY <2>1, Popped
    <2>3. QED
      BY <2>1, <2>2 DEF OfType
  <1>2. Has(x.q, OfType("revoke")) /\ ~Has(Tail(x.q), OfType("revoke"))
    <2>1. Has(x.q, OfType("revoke"))
      BY <1>1, Popped
    <2>2. One(x.q, OfType("revoke"))
      BY DEF LinkNums
    <2>3. QED
      BY <1>1, <2>1, <2>2, Popped
  <1>3. Owing(x, z)
    BY <1>2 DEF LinkNums, Owing
  <1>4. ~Under(x, z) /\ ~Under(y, w) /\ ~Owing(y, w)
    BY <1>3, Numbers DEF Under, Owing
  <1>5. (Under(w, y) <=> Under(z, x)) /\ (Owing(w, y) <=> Owing(z, x))
    BY DEF Under, Owing
  <1>6. QED
    BY <1>2, <1>3, <1>4, <1>5

(* Any other step. *)
LEMMA FlagsSame ==
    ASSUME NEW x, NEW z, NEW y, NEW w, SameNums(x.p, y.p), SameNums(z.p, w.p)
    PROVE  /\ Under(y, w) <=> Under(x, z)
           /\ Owing(y, w) <=> Owing(x, z)
           /\ Under(w, y) <=> Under(z, x)
           /\ Owing(w, y) <=> Owing(z, x)
  BY DEF SameNums, Under, Owing

(* Messages that are not there come in any order. *)
LEMMA NoneBefore ==
    ASSUME NEW q, NEW S, ~Has(q, S)
    PROVE  \A T : Before(q, S, T) /\ Before(q, T, S)
  BY DEF Has, Before

(* What a queue says of the HTLC k: the same as another, or less. *)
AddsAs(q, q2, k) ==
    /\ Has(q2, AddOf(k)) <=> Has(q, AddOf(k))
    /\ \A a : Has(q2, AddNot(k, a)) => Has(q, AddNot(k, a))
    /\ Before(q, AddOf(k), OfType("commit")) => Before(q2, AddOf(k), OfType("commit"))
RemovesAs(q, q2, k) ==
    /\ Has(q2, RemoveOf(k)) <=> Has(q, RemoveOf(k))
    /\ One(q, RemoveOf(k)) => One(q2, RemoveOf(k))
    /\ Before(q, RemoveOf(k), OfType("commit")) => Before(q2, RemoveOf(k), OfType("commit"))
    /\ Before(q, OfType("commit"), RemoveOf(k)) => Before(q2, OfType("commit"), RemoveOf(k))
    /\ Has(q2, OfType("commit")) => Has(q, OfType("commit"))
(* What it says of commitments and revocations. *)
SignsAs(q, q2) ==
    /\ Has(q2, OfType("commit")) <=> Has(q, OfType("commit"))
    /\ Has(q2, OfType("revoke")) <=> Has(q, OfType("revoke"))
    /\ Before(q, OfType("commit"), OfType("revoke"))
         => Before(q2, OfType("commit"), OfType("revoke"))
    /\ Before(q, OfType("revoke"), OfType("commit"))
         => Before(q2, OfType("revoke"), OfType("commit"))

(* It is the same queue. *)
LEMMA SameQueue ==
    \A q, k : AddsAs(q, q, k) /\ RemovesAs(q, q, k) /\ SignsAs(q, q)
  BY DEF AddsAs, RemovesAs, SignsAs

(* A wrong addition is an addition. *)
LEMMA WrongAdd ==
    \A q, k, a : Has(q, AddNot(k, a)) => Has(q, AddOf(k))
  BY DEF Has, AddNot, AddOf

(* More is sent. *)
LEMMA AsSent ==
    ASSUME NEW q \in Seq(Msgs), NEW out \in Seq(Msgs), NEW k
    PROVE  /\ ~Has(out, AddOf(k)) => AddsAs(q, q \o out, k)
           /\ ~Has(out, RemoveOf(k)) /\ ~Has(out, OfType("commit")) => RemovesAs(q, q \o out, k)
           /\ ~Has(out, OfType("commit")) /\ ~Has(out, OfType("revoke")) => SignsAs(q, q \o out)
  <1>1. ASSUME ~Has(out, AddOf(k))
        PROVE  AddsAs(q, q \o out, k)
    <2>1. Has(q \o out, AddOf(k)) <=> Has(q, AddOf(k)) \/ Has(out, AddOf(k))
      BY Queued
    <2>2. \A a : Has(q \o out, AddNot(k, a)) <=> Has(q, AddNot(k, a)) \/ Has(out, AddNot(k, a))
      BY Queued
    <2>3. Before(q \o out, AddOf(k), OfType("commit")) <=>
             /\ Before(q, AddOf(k), OfType("commit")) /\ Before(out, AddOf(k), OfType("commit"))
             /\ ~(Has(q, OfType("commit")) /\ Has(out, AddOf(k)))
      BY Queued
    <2>4. Before(out, AddOf(k), OfType("commit"))
      BY <1>1, NoneBefore
    <2>5. \A a : ~Has(out, AddNot(k, a))
      BY <1>1, WrongAdd
    <2>6. QED
      BY <1>1, <2>1, <2>2, <2>3, <2>4, <2>5 DEF AddsAs
  <1>2. ASSUME ~Has(out, RemoveOf(k)), ~Has(out, OfType("commit"))
        PROVE  RemovesAs(q, q \o out, k)
    <2>1. /\ Has(q \o out, RemoveOf(k)) <=> Has(q, RemoveOf(k)) \/ Has(out, RemoveOf(k))
          /\ Has(q \o out, OfType("commit")) <=> Has(q, OfType("commit")) \/ Has(out, OfType("commit"))
          /\ One(q \o out, RemoveOf(k)) <=> /\ One(q, RemoveOf(k)) /\ One(out, RemoveOf(k))
                                            /\ ~(Has(q, RemoveOf(k)) /\ Has(out, RemoveOf(k)))
      BY Queued
    <2>2. /\ Before(q \o out, RemoveOf(k), OfType("commit")) <=>
               /\ Before(q, RemoveOf(k), OfType("commit"))
               /\ Before(out, RemoveOf(k), OfType("commit"))
               /\ ~(Has(q, OfType("commit")) /\ Has(out, RemoveOf(k)))
          /\ Before(q \o out, OfType("commit"), RemoveOf(k)) <=>
               /\ Before(q, OfType("commit"), RemoveOf(k))
               /\ Before(out, OfType("commit"), RemoveOf(k))
               /\ ~(Has(q, RemoveOf(k)) /\ Has(out, OfType("commit")))
      BY Queued
    <2>3. /\ Before(out, RemoveOf(k), OfType("commit")) /\ Before(out, OfType("commit"), RemoveOf(k))
          /\ One(out, RemoveOf(k))
      BY <1>2 DEF Has, Before, One
    <2>4. QED
      BY <1>2, <2>1, <2>2, <2>3 DEF RemovesAs
  <1>3. ASSUME ~Has(out, OfType("commit")), ~Has(out, OfType("revoke"))
        PROVE  SignsAs(q, q \o out)
    <2>1. /\ Has(q \o out, OfType("commit")) <=> Has(q, OfType("commit")) \/ Has(out, OfType("commit"))
          /\ Has(q \o out, OfType("revoke")) <=> Has(q, OfType("revoke")) \/ Has(out, OfType("revoke"))
      BY Queued
    <2>2. /\ Before(q \o out, OfType("revoke"), OfType("commit")) <=>
               /\ Before(q, OfType("revoke"), OfType("commit"))
               /\ Before(out, OfType("revoke"), OfType("commit"))
               /\ ~(Has(q, OfType("commit")) /\ Has(out, OfType("revoke")))
          /\ Before(q \o out, OfType("commit"), OfType("revoke")) <=>
               /\ Before(q, OfType("commit"), OfType("revoke"))
               /\ Before(out, OfType("commit"), OfType("revoke"))
               /\ ~(Has(q, OfType("revoke")) /\ Has(out, OfType("commit")))
      BY Queued
    <2>3. Before(out, OfType("revoke"), OfType("commit"))
            /\ Before(out, OfType("commit"), OfType("revoke"))
      BY <1>3, NoneBefore
    <2>4. QED
      BY <1>3, <2>1, <2>2, <2>3 DEF SignsAs
  <1>4. QED
    BY <1>1, <1>2, <1>3

(* A message is read. *)
LEMMA AsRead ==
    ASSUME NEW q \in Seq(Msgs), q # << >>, NEW k
    PROVE  /\ Head(q) \notin AddOf(k) => AddsAs(q, Tail(q), k)
           /\ Head(q) \notin RemoveOf(k) => RemovesAs(q, Tail(q), k)
           /\ Head(q).type \notin {"commit", "revoke"} => SignsAs(q, Tail(q))
  <1>1. /\ Has(q, AddOf(k)) <=> Head(q) \in AddOf(k) \/ Has(Tail(q), AddOf(k))
        /\ Has(q, RemoveOf(k)) <=> Head(q) \in RemoveOf(k) \/ Has(Tail(q), RemoveOf(k))
        /\ Has(q, OfType("commit")) <=> Head(q) \in OfType("commit") \/ Has(Tail(q), OfType("commit"))
        /\ Has(q, OfType("revoke")) <=> Head(q) \in OfType("revoke") \/ Has(Tail(q), OfType("revoke"))
        /\ One(q, RemoveOf(k)) => One(Tail(q), RemoveOf(k))
    BY Popped
  <1>2. \A a : Has(q, AddNot(k, a)) <=> Head(q) \in AddNot(k, a) \/ Has(Tail(q), AddNot(k, a))
    BY Popped
  <1>3. /\ Before(q, AddOf(k), OfType("commit")) => Before(Tail(q), AddOf(k), OfType("commit"))
        /\ Before(q, RemoveOf(k), OfType("commit")) => Before(Tail(q), RemoveOf(k), OfType("commit"))
        /\ Before(q, OfType("commit"), RemoveOf(k)) => Before(Tail(q), OfType("commit"), RemoveOf(k))
        /\ Before(q, OfType("commit"), OfType("revoke"))
             => Before(Tail(q), OfType("commit"), OfType("revoke"))
        /\ Before(q, OfType("revoke"), OfType("commit"))
             => Before(Tail(q), OfType("revoke"), OfType("commit"))
    BY Popped
  <1>4. Head(q).type \notin {"commit", "revoke"} =>
           Head(q) \notin OfType("commit") /\ Head(q) \notin OfType("revoke")
    BY DEF OfType
  <1>5. Head(q) \notin AddOf(k) => AddsAs(q, Tail(q), k)
    BY <1>1, <1>2, <1>3 DEF AddsAs
  <1>6. Head(q) \notin RemoveOf(k) => RemovesAs(q, Tail(q), k)
    BY <1>1, <1>3 DEF RemovesAs
  <1>7. Head(q).type \notin {"commit", "revoke"} => SignsAs(q, Tail(q))
    BY <1>1, <1>3, <1>4 DEF SignsAs
  <1>8. QED
    BY <1>5, <1>6, <1>7

(* What is not about the HTLC k. *)
LEMMA NotAbout ==
    ASSUME NEW k
    PROVE  /\ \A m \in AddOf(k) : m.type = "add" /\ m.id = k
           /\ \A m \in RemoveOf(k) : m.type \in {"fulfill", "fail"} /\ m.id = k
  BY DEF AddOf, RemoveOf

(* What send_commit() sends is about none. *)
LEMMA CommitElse ==
    ASSUME NEW n \in Nodes, NEW x, NodeType(n, x), NEW y, NEW out \in Seq(Msgs),
           SendsCommit(n, x, y, out), NEW k
    PROVE  ~Has(out, AddOf(k)) /\ ~Has(out, RemoveOf(k))
  <1>1. \A T : Has(out, T) => \E m \in Msgs : m \in T /\ m.type \in {"fee", "shutdown", "commit"}
    BY CommitSends
  <1>2. QED
    BY <1>1, NotAbout

(* The ends of an HTLC are somewhere. *)
LEMMA EndsType ==
    ASSUME NEW n, NEW x, NodeType(n, x), NEW k
    PROVE  Mine(x, k) \in 0..20 /\ Theirs(x, k) \in 0..20
  <1>1. x.c.htlcs \in HtlcMaps
    BY DEF NodeType, GoodChan, ChanRecs
  <1>2. QED
    BY <1>1, WhereType DEF Mine, Theirs

(* An HTLC that is where it was, or has moved, has the amount it had. *)
LEMMA AmountStays ==
    ASSUME NEW c, NEW c2, SameHtlcs(c, c2), c2.htlcs \in HtlcMaps
    PROVE  \A h : Where(c2, h) # NoHtlc => c2.htlcs[h].amount = c.htlcs[h].amount
  <1>1. \A h : Where(c2, h) # NoHtlc => h \in DOMAIN c2.htlcs
    BY WhereType
  <1>2. QED
    BY <1>1 DEF SameHtlcs

-----------------------------------------------------------------------------
(* What of a match a step does not touch.                                   *)

(* The two channels know the HTLC k by the amounts they had for it. *)
SameSums2(x, y, z, w, k) ==
    /\ Mine(y, k) # NoHtlc =>
         /\ Mine(x, k) # NoHtlc
         /\ y.c.htlcs[<<"local", k>>].amount = x.c.htlcs[<<"local", k>>].amount
    /\ Theirs(w, k) # NoHtlc =>
         /\ Theirs(z, k) # NoHtlc
         /\ w.c.htlcs[<<"remote", k>>].amount = z.c.htlcs[<<"remote", k>>].amount

(* An addition is where it was. *)
LEMMA AddStays ==
    ASSUME NEW x, NEW z, NEW y, NEW w, NEW k, SameAmount(x, z, k), AddGoes(x, z, k),
           AddsAs(z.q, w.q, k), Talks(y) <=> Talks(x), SameSums2(x, y, z, w, k),
           Has(z.q, AddOf(k)) /\ Mine(x, k) \in {0, 1} => Mine(y, k) \in {0, 1},
           Mine(y, k) \in {0, 1} => Mine(x, k) \in {0, 1},
           Mine(y, k) = 0 => Mine(x, k) = 0,
           Mine(y, k) = 1 => Mine(x, k) = 1 \/ ~Has(z.q, OfType("commit")),
           Mine(y, k) \in {0, 1} /\ Theirs(w, k) = NoHtlc => Theirs(z, k) = NoHtlc
    PROVE  SameAmount(y, w, k) /\ AddGoes(y, w, k)
  <1>1. SameAmount(y, w, k)
    BY DEF SameAmount, SameSums2, AddsAs
  <1>2. ~Has(z.q, OfType("commit")) => Before(z.q, AddOf(k), OfType("commit"))
    BY NoneBefore
  <1>3. AddGoes(y, w, k)
    BY <1>2 DEF AddGoes, AddsAs
  <1>4. QED
    BY <1>1, <1>3

(* A removal is where it was. *)
LEMMA RemoveStays ==
    ASSUME NEW x, NEW z, NEW y, NEW w, NEW k, RemoveGoes(x, z, k), RemovesAs(x.q, y.q, k),
           Talks(w) <=> Talks(z),
           Has(x.q, RemoveOf(k)) /\ Mine(x, k) = 4 /\ Theirs(z, k) \in {15, 16} =>
              Mine(y, k) = 4 /\ Theirs(w, k) \in {15, 16},
           Mine(y, k) = 4 /\ Theirs(w, k) \in {15, 16} =>
              Mine(x, k) = 4 /\ Theirs(z, k) \in {15, 16},
           Theirs(w, k) = 16 => Theirs(z, k) = 16 \/ ~Has(x.q, OfType("commit")),
           Theirs(w, k) = 15 => Theirs(z, k) = 15,
           Mine(y, k) = 5 => Mine(x, k) = 5 /\ (Theirs(z, k) = 16 => Theirs(w, k) = 16)
    PROVE  RemoveGoes(y, w, k)
  <1>1. ~Has(x.q, OfType("commit")) => Before(x.q, RemoveOf(k), OfType("commit"))
    BY NoneBefore
  <1>2. QED
    BY <1>1 DEF RemoveGoes, RemovesAs

(* Commitments and revocations are where they were. *)
LEMMA OrderStays ==
    ASSUME NEW x, NEW z, NEW y, NEW w, InOrder(x, z), SignsAs(z.q, w.q),
           Talks(y) => Talks(x), Under(y, w) => Under(x, z), Owing(w, y) => Owing(z, x),
           y.d.wasRevoke = x.d.wasRevoke
    PROVE  InOrder(y, w)
  BY DEF InOrder, SignsAs

(* An HTLC whose ends are where they were. *)
LEMMA PairStays ==
    ASSUME NEW x, NEW z, NEW y, NEW w, NEW k, Paired(x, z, k),
           Under(y, w) <=> Under(x, z), Owing(y, w) <=> Owing(x, z),
           Under(w, y) <=> Under(z, x), Owing(w, y) <=> Owing(z, x),
           y.d.wasRevoke = x.d.wasRevoke, w.d.wasRevoke = z.d.wasRevoke,
           Mine(y, k) = Mine(x, k), Theirs(w, k) = Theirs(z, k)
    PROVE  Paired(y, w, k)
  BY DEF Paired, Ends

(* The ends move by the dance, or stay. *)
LEMMA SumsMoved ==
    ASSUME NEW n, NEW x, NodeType(n, x), NEW y, NodeType(n, y), SameHtlcs(x.c, y.c),
           NEW z, NEW w, w.c = z.c, NEW k
    PROVE  SameSums2(x, y, z, w, k) /\ SameSums2(z, w, x, y, k)
  <1>1. x.c.htlcs \in HtlcMaps /\ y.c.htlcs \in HtlcMaps
    BY DEF NodeType, GoodChan, ChanRecs
  <1>2. \A h : Where(y.c, h) # NoHtlc =>
           Where(x.c, h) # NoHtlc /\ y.c.htlcs[h].amount = x.c.htlcs[h].amount
    <2>1. \A h : /\ Where(y.c, h) # NoHtlc <=> h \in DOMAIN y.c.htlcs
                 /\ Where(x.c, h) # NoHtlc <=> h \in DOMAIN x.c.htlcs
      BY <1>1, WhereType
    <2>2. QED
      BY <2>1 DEF SameHtlcs
  <1>3. Mine(w, k) = Mine(z, k) /\ Theirs(w, k) = Theirs(z, k)
    BY DEF Mine, Theirs
  <1>4. QED
    BY <1>2, <1>3 DEF SameSums2, Mine, Theirs

(* A node that reads in "run" has a peer that has answered. *)
LEMMA ReaderTalks ==
    ASSUME NEW x, NEW z, LinkType(z), Link(z, x), x.p.phase = "run", x.q # << >>
    PROVE  Talks(z) /\ Talks(x)
  <1>1. z.p.phase \in {"run", "closing", "down", "reestablish"}
    BY DEF LinkType, PeerRecs
  <1>2. z.p.phase # "down" /\ z.p.phase # "reestablish"
    BY DEF Link, LinkPhase
  <1>3. QED
    BY <1>1, <1>2 DEF Talks

(* The node that is only sent something. *)
LEMMA HearsSame ==
    ASSUME NEW z, NEW w, NEW out, Hears(z, w, out)
    PROVE  /\ \A k : Mine(w, k) = Mine(z, k) /\ Theirs(w, k) = Theirs(z, k)
           /\ Talks(w) <=> Talks(z)
           /\ w.d.wasRevoke = z.d.wasRevoke /\ w.p = z.p /\ w.c = z.c /\ w.q = z.q \o out
  BY DEF Hears, Mine, Theirs, Talks

(* Two nodes, of which x acts and z hears of it. *)
Met(n, x, m, z) ==
    /\ NodeType(n, x) /\ NodeType(m, z) /\ Link(x, z) /\ Link(z, x)
    /\ Keeps(n, x) /\ Own(x) /\ Own(z) /\ Fresh(x, z) /\ Fresh(z, x)
    /\ Matches(x, z) /\ Matches(z, x)

(* What that says. *)
LEMMA MetIs ==
    ASSUME NEW n, NEW x, NEW m, NEW z, Met(n, x, m, z)
    PROVE  /\ NodeType(n, x) /\ NodeType(m, z) /\ LinkType(x) /\ LinkType(z)
           /\ LinkNums(x, z) /\ LinkNums(z, x) /\ Link(x, z) /\ Link(z, x)
           /\ x.q \in Seq(Msgs) /\ z.q \in Seq(Msgs) /\ Store(x.c, x.d)
           /\ InOrder(x, z) /\ InOrder(z, x)
           /\ \A k \in Nat : /\ Paired(x, z, k) /\ SameAmount(x, z, k)
                             /\ AddGoes(x, z, k) /\ RemoveGoes(x, z, k)
                             /\ Paired(z, x, k) /\ SameAmount(z, x, k)
                             /\ AddGoes(z, x, k) /\ RemoveGoes(z, x, k)
  <1>1. NodeType(n, x) /\ NodeType(m, z) /\ Link(x, z) /\ Link(z, x)
    BY DEF Met
  <1>2. LinkType(x) /\ LinkType(z) /\ x.q \in Seq(Msgs) /\ z.q \in Seq(Msgs)
    BY <1>1 DEF NodeType, LinkType
  <1>3. LinkNums(x, z) /\ LinkNums(z, x)
    BY <1>1 DEF Link
  <1>4. Matches(x, z) /\ Matches(z, x) /\ Store(x.c, x.d)
    BY DEF Met, Keeps
  <1>5. QED
    BY <1>1, <1>2, <1>3, <1>4 DEF Matches, Match

(* send_commit() *)
LEMMA MatchSent ==
    ASSUME NEW n \in Nodes, NEW x, NEW m, NEW z, Met(n, x, m, z),
           NEW y, NodeType(n, y), NEW out \in Seq(Msgs), SendsCommit(n, x, y, out),
           NEW w, Hears(z, w, out)
    PROVE  Matches(y, w) /\ Matches(w, y)
  <1>1. /\ NodeType(n, x) /\ LinkType(x) /\ LinkType(z) /\ LinkNums(x, z) /\ LinkNums(z, x)
        /\ x.q \in Seq(Msgs) /\ z.q \in Seq(Msgs) /\ InOrder(x, z) /\ InOrder(z, x)
    BY MetIs
  <1>2. /\ x.p.phase = "run" /\ y.p.phase = "run" /\ x.p.revs = x.p.nextR - 1
        /\ y.p \in PeerRecs /\ y.p.nextR = x.p.nextR + 1 /\ y.p.nextL = x.p.nextL
        /\ y.p.revs = x.p.revs /\ y.q = x.q
    BY DEF SendsCommit
  <1>3. /\ \A k : Mine(w, k) = Mine(z, k) /\ Theirs(w, k) = Theirs(z, k)
        /\ Talks(w) <=> Talks(z)
        /\ w.d.wasRevoke = z.d.wasRevoke /\ w.p = z.p /\ w.c = z.c /\ w.q = z.q \o out
    BY HearsSame
  <1>4. /\ ~Under(x, z) /\ ~Owing(x, z) /\ Under(y, w) /\ ~Owing(y, w)
        /\ Under(w, y) <=> Under(z, x)
        /\ Owing(w, y) <=> Owing(z, x)
        /\ ~Has(z.q, OfType("commit"))
    BY <1>1, <1>2, <1>3, FlagsSent
  <1>5. /\ \A k : Mine(y, k) = Sent(Mine(x, k)) /\ Theirs(y, k) = Sent(Theirs(x, k))
        /\ SameHtlcs(x.c, y.c) /\ ~y.d.wasRevoke
    BY <1>1, CommitMoves DEF Mine, Theirs
  <1>6. /\ Has(out, OfType("commit")) /\ ~Has(out, OfType("revoke"))
        /\ \A k : ~Has(out, AddOf(k)) /\ ~Has(out, RemoveOf(k))
    BY <1>1, CommitOut, CommitElse
  <1>7. Talks(y) /\ Talks(x)
    BY <1>2 DEF Talks
  <1>8. InOrder(y, w)
    <2>1. /\ Has(z.q \o out, OfType("commit")) <=> Has(z.q, OfType("commit")) \/ Has(out, OfType("commit"))
          /\ Has(z.q \o out, OfType("revoke")) <=> Has(z.q, OfType("revoke")) \/ Has(out, OfType("revoke"))
          /\ Before(z.q \o out, OfType("revoke"), OfType("commit")) <=>
               /\ Before(z.q, OfType("revoke"), OfType("commit"))
               /\ Before(out, OfType("revoke"), OfType("commit"))
               /\ ~(Has(z.q, OfType("commit")) /\ Has(out, OfType("revoke")))
      BY <1>1, Queued
    <2>2. Before(z.q, OfType("revoke"), OfType("commit"))
            /\ Before(out, OfType("revoke"), OfType("commit"))
      BY <1>4, <1>6, NoneBefore
    <2>3. QED
      BY <1>1, <1>3, <1>4, <1>5, <1>6, <1>7, <2>1, <2>2 DEF InOrder
  <1>9. InOrder(w, y)
    <2>1. SignsAs(x.q, y.q)
      BY <1>2, SameQueue
    <2>2. /\ Talks(w) => Talks(z)
          /\ Under(w, y) => Under(z, x)
          /\ Owing(y, w) => Owing(x, z)
      BY <1>3, <1>4
    <2>3. QED
      BY <1>1, <1>3, <2>1, <2>2, OrderStays
  <1>10. ASSUME NEW k \in Nat
         PROVE  Match(y, w, k) /\ Match(w, y, k)
    <2>1. /\ Paired(x, z, k) /\ SameAmount(x, z, k) /\ AddGoes(x, z, k) /\ RemoveGoes(x, z, k)
          /\ Paired(z, x, k) /\ SameAmount(z, x, k) /\ AddGoes(z, x, k) /\ RemoveGoes(z, x, k)
      BY MetIs
    <2>2. /\ Mine(w, k) = Mine(z, k) /\ Theirs(w, k) = Theirs(z, k)
          /\ Mine(y, k) = Sent(Mine(x, k)) /\ Theirs(y, k) = Sent(Theirs(x, k))
      BY <1>3, <1>5
    <2>3. Paired(y, w, k)
      BY <1>4, <1>5, <2>1, <2>2, <1>3 DEF Paired, Ends, Sent, NoHtlc
    <2>4. Paired(w, y, k)
      BY <1>4, <1>5, <2>1, <2>2, <1>3 DEF Paired, Ends, Sent, NoHtlc
    <2>5. SameSums2(x, y, z, w, k) /\ SameSums2(z, w, x, y, k)
      BY <1>1, <1>3, <1>5, SumsMoved
    <2>6. AddsAs(z.q, w.q, k) /\ AddsAs(x.q, y.q, k) /\ RemovesAs(x.q, y.q, k)
      BY <1>1, <1>2, <1>3, <1>6, AsSent, SameQueue
    <2>7. SameAmount(y, w, k) /\ AddGoes(y, w, k)
      <3>1. /\ Mine(x, k) \in {0, 1} => Mine(y, k) \in {0, 1}
            /\ Mine(y, k) \in {0, 1} => Mine(x, k) \in {0, 1}
            /\ Mine(y, k) # 0
        BY <2>2 DEF Sent
      <3>2. QED
        BY <1>4, <1>7, <2>1, <2>2, <2>5, <2>6, <3>1, AddStays
    <2>8. SameAmount(w, y, k) /\ AddGoes(w, y, k)
      <3>1. Theirs(y, k) = NoHtlc => Theirs(x, k) = NoHtlc
        BY <2>2 DEF Sent, NoHtlc
      <3>2. /\ Talks(w) <=> Talks(z)
            /\ Has(x.q, AddOf(k)) /\ Mine(z, k) \in {0, 1} => Mine(w, k) \in {0, 1}
            /\ Mine(w, k) \in {0, 1} => Mine(z, k) \in {0, 1}
            /\ Mine(w, k) = 0 => Mine(z, k) = 0
            /\ Mine(w, k) = 1 => Mine(z, k) = 1 \/ ~Has(x.q, OfType("commit"))
            /\ Mine(w, k) \in {0, 1} /\ Theirs(y, k) = NoHtlc => Theirs(x, k) = NoHtlc
        BY <1>3, <2>2, <3>1
      <3>3. QED
        BY <2>1, <2>5, <2>6, <3>2, AddStays
    <2>9. RemoveGoes(y, w, k)
      <3>1. /\ Mine(x, k) = 4 <=> Mine(y, k) = 4
            /\ Mine(y, k) = 5 => Mine(x, k) = 5
        BY <2>2 DEF Sent
      <3>2. QED
        BY <1>3, <2>1, <2>2, <2>6, <3>1, RemoveStays
    <2>10. RemoveGoes(w, y, k)
      <3>1. /\ Has(z.q \o out, RemoveOf(k)) <=> Has(z.q, RemoveOf(k)) \/ Has(out, RemoveOf(k))
            /\ One(z.q \o out, RemoveOf(k)) <=> /\ One(z.q, RemoveOf(k)) /\ One(out, RemoveOf(k))
                                         /\ ~(Has(z.q, RemoveOf(k)) /\ Has(out, RemoveOf(k)))
            /\ Before(z.q \o out, RemoveOf(k), OfType("commit")) <=>
                 /\ Before(z.q, RemoveOf(k), OfType("commit"))
                 /\ Before(out, RemoveOf(k), OfType("commit"))
                 /\ ~(Has(z.q, OfType("commit")) /\ Has(out, RemoveOf(k)))
        BY <1>1, Queued
      <3>2. One(out, RemoveOf(k)) /\ Before(out, RemoveOf(k), OfType("commit"))
              /\ Before(z.q, RemoveOf(k), OfType("commit"))
        BY <1>4, <1>6 DEF One, Before, Has
      <3>3. /\ Theirs(y, k) \in {15, 16} <=> Theirs(x, k) \in {15, 16}
            /\ Theirs(y, k) # 15
            /\ Theirs(x, k) \in {15, 16} => Theirs(y, k) = 16
        BY <2>2 DEF Sent
      <3>4. Mine(z, k) = 5 => Theirs(x, k) \in {15, 16}
        BY <2>1 DEF Paired, Ends, NoHtlc
      <3>5. QED
        BY <1>3, <1>6, <1>7, <2>1, <2>2, <3>1, <3>2, <3>3, <3>4 DEF RemoveGoes
    <2>11. QED
      BY <2>3, <2>4, <2>7, <2>8, <2>9, <2>10 DEF Match
  <1>11. QED
    BY <1>8, <1>9, <1>10 DEF Matches

(* The message at the head of a queue comes first. *)
LEMMA HeadFirst ==
    ASSUME NEW q \in Seq(Msgs), q # << >>, NEW S, NEW T, Head(q) \in T, Has(q, S),
           Head(q) \notin S
    PROVE  ~Before(q, S, T)
  <1>1. Has(q, S) <=> Head(q) \in S \/ Has(Tail(q), S)
    BY Popped
  <1>2. Before(q, S, T) <=>
           /\ Before(Tail(q), S, T)
           /\ ~(Head(q) \in T /\ (Head(q) \in S \/ Has(Tail(q), S)))
    BY Popped
  <1>3. QED
    BY <1>1, <1>2

(* When z's commitment is read, what z sent before it has been read. *)
LEMMA CommitRead ==
    ASSUME NEW n, NEW x, NEW m, NEW z, Met(n, x, m, z),
           x.p.phase = "run", Head(x.q).type = "commit", x.q # << >>
    PROVE  /\ ~z.d.wasRevoke => ~Owing(x, z)
           /\ \A k \in Nat : /\ Mine(z, k) = 1 => Theirs(x, k) # NoHtlc
                             /\ Mine(x, k) = 4 => Theirs(z, k) # 16
                             /\ Mine(x, k) = 5 => Theirs(z, k) = 16
                             /\ Theirs(x, k) = 10 => Mine(z, k) # 0
  <1>1. /\ LinkType(x) /\ LinkType(z) /\ Link(z, x) /\ x.q \in Seq(Msgs) /\ InOrder(z, x)
    BY MetIs
  <1>2. Talks(z)
    BY <1>1, ReaderTalks
  <1>3. Head(x.q) \in Msgs
    BY <1>1, Popped
  <1>4. /\ Head(x.q) \in OfType("commit") /\ Head(x.q) \notin OfType("revoke")
        /\ \A k : Head(x.q) \notin AddOf(k) /\ Head(x.q) \notin RemoveOf(k)
    BY <1>3 DEF OfType, AddOf, RemoveOf
  <1>5. Has(x.q, OfType("commit"))
    BY <1>1, <1>4, Popped
  <1>6. ~z.d.wasRevoke => ~Owing(x, z)
    <2>1. Has(x.q, OfType("revoke")) => ~Before(x.q, OfType("revoke"), OfType("commit"))
      BY <1>1, <1>4, HeadFirst
    <2>2. QED
      BY <1>1, <1>2, <2>1 DEF InOrder
  <1>7. ASSUME NEW k \in Nat
        PROVE  /\ Mine(z, k) = 1 => Theirs(x, k) # NoHtlc
               /\ Mine(x, k) = 4 => Theirs(z, k) # 16
               /\ Mine(x, k) = 5 => Theirs(z, k) = 16
               /\ Theirs(x, k) = 10 => Mine(z, k) # 0
    <2>1. AddGoes(z, x, k) /\ RemoveGoes(x, z, k)
      BY MetIs
    <2>2. Has(x.q, AddOf(k)) => ~Before(x.q, AddOf(k), OfType("commit"))
      BY <1>1, <1>4, HeadFirst
    <2>3. Has(x.q, RemoveOf(k)) => ~Before(x.q, RemoveOf(k), OfType("commit"))
      BY <1>1, <1>4, HeadFirst
    <2>4. Mine(z, k) = 1 => Theirs(x, k) # NoHtlc
      BY <1>2, <2>1, <2>2 DEF AddGoes
    <2>5. /\ Mine(x, k) = 4 => Theirs(z, k) # 16
          /\ Mine(x, k) = 5 => Theirs(z, k) = 16
      BY <1>2, <1>5, <2>1, <2>3 DEF RemoveGoes
    <2>6. Theirs(x, k) = 10 => Mine(z, k) # 0
      <3>1. Theirs(x, k) = 10 => k < z.d.htlcId
        BY <1>5 DEF Met, Fresh, SavedAdds
      <3>2. Mine(z, k) = 0 => z.d.htlcId <= k
        BY DEF Met, Own, Ids
      <3>3. z.d.htlcId \in Nat
        BY DEF Met, NodeType, DbRecs
      <3>4. QED
        BY <3>1, <3>2, <3>3
    <2>7. QED
      BY <2>4, <2>5, <2>6
  <1>8. QED
    BY <1>6, <1>7

(* handle_peer_commit_sig() *)
LEMMA MatchTook ==
    ASSUME NEW n \in Nodes, NEW x, NEW m, NEW z, Met(n, x, m, z),
           NEW y, NodeType(n, y), NEW out \in Seq(Msgs), GotCommit(n, x, y, out),
           NEW w, Hears(z, w, out)
    PROVE  Matches(y, w) /\ Matches(w, y)
  <1>1. /\ NodeType(n, x) /\ LinkType(x) /\ LinkType(z) /\ LinkNums(x, z) /\ LinkNums(z, x)
        /\ x.q \in Seq(Msgs) /\ z.q \in Seq(Msgs) /\ InOrder(x, z) /\ InOrder(z, x)
        /\ Link(z, x) /\ Store(x.c, x.d)
    BY MetIs
  <1>2. /\ x.p.phase = "run" /\ y.p.phase \in {"run", "closing"}
        /\ x.q # << >> /\ Head(x.q).type = "commit" /\ y.q = Tail(x.q)
        /\ y.p \in PeerRecs /\ y.p.nextL = x.p.nextL + 1 /\ y.p.nextR = x.p.nextR
        /\ y.p.revs = x.p.revs /\ out = <<RevokeMsg(x.p.nextL - 1)>>
    BY DEF GotCommit, Reads, Goes
  <1>3. /\ \A k : Mine(w, k) = Mine(z, k) /\ Theirs(w, k) = Theirs(z, k)
        /\ Talks(w) <=> Talks(z)
        /\ w.d.wasRevoke = z.d.wasRevoke /\ w.p = z.p /\ w.c = z.c /\ w.q = z.q \o out
    BY HearsSame
  <1>4. /\ Under(z, x) /\ ~Owing(z, x) /\ ~Under(w, y) /\ Owing(w, y)
        /\ Under(y, w) <=> Under(x, z)
        /\ Owing(y, w) <=> Owing(x, z)
        /\ ~Has(Tail(x.q), OfType("commit")) /\ ~Has(z.q, OfType("revoke"))
    BY <1>1, <1>2, <1>3, FlagsTook
  <1>5. /\ \A k : Mine(y, k) = Took(Mine(x, k)) /\ Theirs(y, k) = Took(Theirs(x, k))
        /\ SameHtlcs(x.c, y.c) /\ y.d.wasRevoke
    BY <1>1, TookMoves DEF Mine, Theirs
  <1>6. /\ ~Has(out, OfType("commit")) /\ Has(out, OfType("revoke"))
        /\ \A k : ~Has(out, AddOf(k)) /\ ~Has(out, RemoveOf(k))
    <2>1. x.p.nextL \in Nat
      BY <1>1 DEF LinkType, PeerRecs
    <2>2. RevokeMsg(x.p.nextL - 1) \in Msgs /\ RevokeMsg(x.p.nextL - 1).type = "revoke"
      BY <2>1, MsgRevoke DEF RevokeMsg
    <2>3. \A T : Has(out, T) <=> RevokeMsg(x.p.nextL - 1) \in T
      BY <1>2, <2>2, OneQueued
    <2>4. QED
      BY <2>2, <2>3 DEF OfType, AddOf, RemoveOf
  <1>7. Talks(y) /\ Talks(x) /\ Talks(z) /\ Talks(w)
    BY <1>1, <1>2, <1>3, ReaderTalks DEF Talks
  <1>8. InOrder(y, w)
    <2>1. /\ Has(z.q \o out, OfType("commit")) <=> Has(z.q, OfType("commit")) \/ Has(out, OfType("commit"))
          /\ Has(z.q \o out, OfType("revoke")) <=> Has(z.q, OfType("revoke")) \/ Has(out, OfType("revoke"))
          /\ Before(z.q \o out, OfType("commit"), OfType("revoke")) <=>
               /\ Before(z.q, OfType("commit"), OfType("revoke"))
               /\ Before(out, OfType("commit"), OfType("revoke"))
               /\ ~(Has(z.q, OfType("revoke")) /\ Has(out, OfType("commit")))
      BY <1>1, Queued
    <2>2. Before(z.q, OfType("commit"), OfType("revoke"))
            /\ Before(out, OfType("commit"), OfType("revoke"))
      BY <1>4, <1>6, NoneBefore
    <2>3. QED
      BY <1>1, <1>3, <1>4, <1>5, <1>6, <1>7, <2>1, <2>2 DEF InOrder
  <1>9. Head(x.q) \in OfType("commit")
    <2>1. Head(x.q) \in Msgs
      BY <1>1, <1>2, Popped
    <2>2. QED
      BY <1>2, <2>1 DEF OfType
  <1>10. /\ Head(x.q) \notin OfType("revoke")
         /\ \A k : Head(x.q) \notin AddOf(k) /\ Head(x.q) \notin RemoveOf(k)
    BY <1>2 DEF OfType, AddOf, RemoveOf
  <1>11. InOrder(w, y)
    <2>1. /\ Has(x.q, OfType("revoke")) <=> Head(x.q) \in OfType("revoke") \/ Has(Tail(x.q), OfType("revoke"))
          /\ Before(Tail(x.q), OfType("commit"), OfType("revoke"))
          /\ Before(Tail(x.q), OfType("revoke"), OfType("commit"))
      BY <1>1, <1>2, <1>4, Popped, NoneBefore
    <2>2. QED
      BY <1>1, <1>2, <1>4, <1>7, <1>10, <2>1 DEF InOrder
  <1>12. ASSUME NEW k \in Nat
         PROVE  Match(y, w, k) /\ Match(w, y, k)
    <2>1. /\ Paired(x, z, k) /\ SameAmount(x, z, k) /\ AddGoes(x, z, k) /\ RemoveGoes(x, z, k)
          /\ Paired(z, x, k) /\ SameAmount(z, x, k) /\ AddGoes(z, x, k) /\ RemoveGoes(z, x, k)
      BY MetIs
    <2>2. /\ Mine(w, k) = Mine(z, k) /\ Theirs(w, k) = Theirs(z, k)
          /\ Mine(y, k) = Took(Mine(x, k)) /\ Theirs(y, k) = Took(Theirs(x, k))
      BY <1>3, <1>5
    <2>3. /\ ~z.d.wasRevoke => ~Owing(x, z)
          /\ Mine(z, k) = 1 => Theirs(x, k) # NoHtlc
          /\ Mine(x, k) = 4 => Theirs(z, k) # 16
          /\ Mine(x, k) = 5 => Theirs(z, k) = 16
          /\ Theirs(x, k) = 10 => Mine(z, k) # 0
      BY <1>2, CommitRead
    <2>4. Paired(y, w, k)
      BY <1>3, <1>4, <1>5, <2>1, <2>2, <2>3 DEF Paired, Ends, Took, NoHtlc
    <2>5. Paired(w, y, k)
      BY <1>3, <1>4, <1>5, <2>1, <2>2, <2>3 DEF Paired, Ends, Took, NoHtlc
    <2>6. SameSums2(x, y, z, w, k) /\ SameSums2(z, w, x, y, k)
      BY <1>1, <1>3, <1>5, SumsMoved
    <2>7. AddsAs(z.q, w.q, k) /\ RemovesAs(z.q, w.q, k)
      BY <1>1, <1>3, <1>6, AsSent
    <2>8. AddsAs(x.q, y.q, k) /\ RemovesAs(x.q, y.q, k)
      BY <1>1, <1>2, <1>10, AsRead
    <2>9. SameAmount(y, w, k) /\ AddGoes(y, w, k)
      <3>1. /\ Talks(y) <=> Talks(x)
            /\ Has(z.q, AddOf(k)) /\ Mine(x, k) \in {0, 1} => Mine(y, k) \in {0, 1}
            /\ Mine(y, k) \in {0, 1} => Mine(x, k) \in {0, 1}
            /\ Mine(y, k) = 0 => Mine(x, k) = 0
            /\ Mine(y, k) = 1 => Mine(x, k) = 1 \/ ~Has(z.q, OfType("commit"))
            /\ Mine(y, k) \in {0, 1} /\ Theirs(w, k) = NoHtlc => Theirs(z, k) = NoHtlc
        BY <1>7, <2>2 DEF Took, NoHtlc
      <3>2. QED
        BY <2>1, <2>6, <2>7, <3>1, AddStays
    <2>10. SameAmount(w, y, k) /\ AddGoes(w, y, k)
      <3>1. Mine(z, k) \in {0, 1} => Theirs(x, k) # 17
        BY <2>1 DEF Paired, Ends, NoHtlc
      <3>2. /\ Talks(w) <=> Talks(z)
            /\ Has(x.q, AddOf(k)) /\ Mine(z, k) \in {0, 1} => Mine(w, k) \in {0, 1}
            /\ Mine(w, k) \in {0, 1} => Mine(z, k) \in {0, 1}
            /\ Mine(w, k) = 0 => Mine(z, k) = 0
            /\ Mine(w, k) = 1 => Mine(z, k) = 1 \/ ~Has(x.q, OfType("commit"))
            /\ Mine(w, k) \in {0, 1} /\ Theirs(y, k) = NoHtlc => Theirs(x, k) = NoHtlc
        BY <1>7, <2>2, <3>1 DEF Took, NoHtlc
      <3>3. QED
        BY <2>1, <2>6, <2>8, <3>2, AddStays
    <2>11. RemoveGoes(y, w, k)
      <3>1. Mine(x, k) = 2 => Theirs(z, k) \notin {15, 16}
        BY <2>1 DEF Paired, Ends, NoHtlc
      <3>2. /\ Talks(w) <=> Talks(z)
            /\ Has(x.q, RemoveOf(k)) /\ Mine(x, k) = 4 /\ Theirs(z, k) \in {15, 16} =>
                 Mine(y, k) = 4 /\ Theirs(w, k) \in {15, 16}
            /\ Mine(y, k) = 4 /\ Theirs(w, k) \in {15, 16} =>
                 Mine(x, k) = 4 /\ Theirs(z, k) \in {15, 16}
            /\ Theirs(w, k) = 16 => Theirs(z, k) = 16 \/ ~Has(x.q, OfType("commit"))
            /\ Theirs(w, k) = 15 => Theirs(z, k) = 15
            /\ Mine(y, k) = 5 => Mine(x, k) = 5 /\ (Theirs(z, k) = 16 => Theirs(w, k) = 16)
        BY <1>7, <2>2, <3>1 DEF Took, NoHtlc
      <3>3. QED
        BY <2>1, <2>8, <3>2, RemoveStays
    <2>12. RemoveGoes(w, y, k)
      <3>1. /\ Talks(y) <=> Talks(x)
            /\ Has(z.q, RemoveOf(k)) /\ Mine(z, k) = 4 /\ Theirs(x, k) \in {15, 16} =>
                 Mine(w, k) = 4 /\ Theirs(y, k) \in {15, 16}
            /\ Mine(w, k) = 4 /\ Theirs(y, k) \in {15, 16} =>
                 Mine(z, k) = 4 /\ Theirs(x, k) \in {15, 16}
            /\ Theirs(y, k) = 16 => Theirs(x, k) = 16 \/ ~Has(z.q, OfType("commit"))
            /\ Theirs(y, k) = 15 => Theirs(x, k) = 15
            /\ Mine(w, k) = 5 => Mine(z, k) = 5 /\ (Theirs(x, k) = 16 => Theirs(y, k) = 16)
        BY <1>7, <2>2 DEF Took, NoHtlc
      <3>2. QED
        BY <2>1, <2>7, <3>1, RemoveStays
    <2>13. QED
      BY <2>4, <2>5, <2>9, <2>10, <2>11, <2>12 DEF Match
  <1>13. QED
    BY <1>8, <1>11, <1>12 DEF Matches

(* handle_peer_revoke_and_ack() *)
LEMMA MatchAcked ==
    ASSUME NEW n \in Nodes, NEW x, NEW m, NEW z, Met(n, x, m, z),
           NEW y, NodeType(n, y), NEW out \in Seq(Msgs), GotRevoke(n, x, y, out),
           NEW w, Hears(z, w, out)
    PROVE  Matches(y, w) /\ Matches(w, y)
  <1>1. /\ NodeType(n, x) /\ LinkType(x) /\ LinkType(z) /\ LinkNums(x, z) /\ LinkNums(z, x)
        /\ x.q \in Seq(Msgs) /\ z.q \in Seq(Msgs) /\ InOrder(x, z) /\ InOrder(z, x)
        /\ Link(z, x)
    BY MetIs
  <1>2. /\ x.p.phase = "run" /\ y.p.phase \in {"run", "closing"}
        /\ x.q # << >> /\ Head(x.q).type = "revoke" /\ y.q = Tail(x.q)
        /\ y.p \in PeerRecs /\ y.p.nextL = x.p.nextL /\ y.p.nextR = x.p.nextR
        /\ y.p.revs = x.p.revs + 1 /\ out = << >>
    BY DEF GotRevoke, Reads, Goes
  <1>3. /\ \A k : Mine(w, k) = Mine(z, k) /\ Theirs(w, k) = Theirs(z, k)
        /\ Talks(w) <=> Talks(z)
        /\ w.d.wasRevoke = z.d.wasRevoke /\ w.p = z.p /\ w.c = z.c /\ w.q = z.q \o out
    BY HearsSame
  <1>4. /\ Owing(x, z) /\ ~Under(x, z) /\ ~Under(y, w) /\ ~Owing(y, w)
        /\ Under(w, y) <=> Under(z, x)
        /\ Owing(w, y) <=> Owing(z, x)
        /\ ~Has(Tail(x.q), OfType("revoke"))
    BY <1>1, <1>2, <1>3, FlagsAcked
  <1>5. /\ \A k : Mine(y, k) = Acked(Mine(x, k)) /\ Theirs(y, k) = Acked(Theirs(x, k))
        /\ SameHtlcs(x.c, y.c) /\ y.d.wasRevoke = x.d.wasRevoke
    <2>1. /\ \A h : Where(y.c, h) = Acked(Where(x.c, h))
          /\ SameHtlcs(x.c, y.c) /\ y.d.wasRevoke = x.d.wasRevoke
      BY <1>1, AckMoves
    <2>2. QED
      BY <2>1 DEF Mine, Theirs
  <1>6. w.q = z.q
    <2>1. z.q \o << >> = z.q
      BY <1>1
    <2>2. QED
      BY <1>2, <1>3, <2>1
  <1>7. Talks(y) /\ Talks(x) /\ Talks(z) /\ Talks(w)
    BY <1>1, <1>2, <1>3, ReaderTalks DEF Talks
  <1>8. InOrder(y, w)
    <2>1. SignsAs(z.q, w.q)
      BY <1>6, SameQueue
    <2>2. /\ Talks(y) => Talks(x)
          /\ Under(y, w) => Under(x, z)
          /\ Owing(w, y) => Owing(z, x)
      BY <1>4, <1>7
    <2>3. QED
      BY <1>1, <1>5, <2>1, <2>2, OrderStays
  <1>9. Head(x.q) \in OfType("revoke")
    <2>1. Head(x.q) \in Msgs
      BY <1>1, <1>2, Popped
    <2>2. QED
      BY <1>2, <2>1 DEF OfType
  <1>10. /\ Head(x.q) \notin OfType("commit")
         /\ \A k : Head(x.q) \notin AddOf(k) /\ Head(x.q) \notin RemoveOf(k)
    BY <1>2 DEF OfType, AddOf, RemoveOf
  <1>11. InOrder(w, y)
    <2>1. /\ Has(x.q, OfType("commit")) <=> Head(x.q) \in OfType("commit") \/ Has(Tail(x.q), OfType("commit"))
          /\ Before(Tail(x.q), OfType("commit"), OfType("revoke"))
          /\ Before(Tail(x.q), OfType("revoke"), OfType("commit"))
      BY <1>1, <1>2, <1>4, Popped, NoneBefore
    <2>2. QED
      BY <1>1, <1>2, <1>4, <1>7, <1>10, <2>1 DEF InOrder
  (* Had z committed before it revoked, x would have read the commitment. *)
  <1>12. Under(z, x) => ~z.d.wasRevoke
    <2>1. Has(x.q, OfType("commit")) => ~Before(x.q, OfType("commit"), OfType("revoke"))
      BY <1>1, <1>2, <1>9, <1>10, HeadFirst
    <2>2. QED
      BY <1>1, <1>7, <2>1 DEF InOrder
  <1>13. ASSUME NEW k \in Nat
         PROVE  Match(y, w, k) /\ Match(w, y, k)
    <2>1. /\ Paired(x, z, k) /\ SameAmount(x, z, k) /\ AddGoes(x, z, k) /\ RemoveGoes(x, z, k)
          /\ Paired(z, x, k) /\ SameAmount(z, x, k) /\ AddGoes(z, x, k) /\ RemoveGoes(z, x, k)
      BY MetIs
    <2>2. /\ Mine(w, k) = Mine(z, k) /\ Theirs(w, k) = Theirs(z, k)
          /\ Mine(y, k) = Acked(Mine(x, k)) /\ Theirs(y, k) = Acked(Theirs(x, k))
      BY <1>3, <1>5
    <2>3. Paired(y, w, k)
      BY <1>3, <1>4, <1>5, <1>12, <2>1, <2>2 DEF Paired, Ends, Acked, NoHtlc
    <2>4. Paired(w, y, k)
      BY <1>3, <1>4, <1>5, <1>12, <2>1, <2>2 DEF Paired, Ends, Acked, NoHtlc
    <2>5. SameSums2(x, y, z, w, k) /\ SameSums2(z, w, x, y, k)
      BY <1>1, <1>3, <1>5, SumsMoved
    <2>6. AddsAs(z.q, w.q, k) /\ RemovesAs(z.q, w.q, k)
      BY <1>6, SameQueue
    <2>7. AddsAs(x.q, y.q, k) /\ RemovesAs(x.q, y.q, k)
      BY <1>1, <1>2, <1>10, AsRead
    <2>8. SameAmount(y, w, k) /\ AddGoes(y, w, k)
      <3>1. Has(z.q, AddOf(k)) => Theirs(z, k) = NoHtlc
        BY DEF Met, Fresh, NewAdds
      <3>2. Mine(x, k) = 1 => Theirs(z, k) # NoHtlc
        BY <1>4, <2>1 DEF Paired, Ends, NoHtlc
      <3>3. /\ Talks(y) <=> Talks(x)
            /\ Has(z.q, AddOf(k)) /\ Mine(x, k) \in {0, 1} => Mine(y, k) \in {0, 1}
            /\ Mine(y, k) \in {0, 1} => Mine(x, k) \in {0, 1}
            /\ Mine(y, k) = 0 => Mine(x, k) = 0
            /\ Mine(y, k) = 1 => Mine(x, k) = 1 \/ ~Has(z.q, OfType("commit"))
            /\ Mine(y, k) \in {0, 1} /\ Theirs(w, k) = NoHtlc => Theirs(z, k) = NoHtlc
        BY <1>7, <2>2, <3>1, <3>2 DEF Acked, NoHtlc
      <3>4. QED
        BY <2>1, <2>5, <2>6, <3>3, AddStays
    <2>9. SameAmount(w, y, k) /\ AddGoes(w, y, k)
      <3>1. /\ Talks(w) <=> Talks(z)
            /\ Has(x.q, AddOf(k)) /\ Mine(z, k) \in {0, 1} => Mine(w, k) \in {0, 1}
            /\ Mine(w, k) \in {0, 1} => Mine(z, k) \in {0, 1}
            /\ Mine(w, k) = 0 => Mine(z, k) = 0
            /\ Mine(w, k) = 1 => Mine(z, k) = 1 \/ ~Has(x.q, OfType("commit"))
            /\ Mine(w, k) \in {0, 1} /\ Theirs(y, k) = NoHtlc => Theirs(x, k) = NoHtlc
        <4>1. Theirs(x, k) # 8
          BY <2>1 DEF Paired, Ends, NoHtlc
        <4>2. QED
          BY <1>7, <2>2, <4>1 DEF Acked, NoHtlc
      <3>2. QED
        BY <2>1, <2>5, <2>7, <3>1, AddStays
    <2>10. RemoveGoes(y, w, k)
      <3>1. /\ Talks(w) <=> Talks(z)
            /\ Has(x.q, RemoveOf(k)) /\ Mine(x, k) = 4 /\ Theirs(z, k) \in {15, 16} =>
                 Mine(y, k) = 4 /\ Theirs(w, k) \in {15, 16}
            /\ Mine(y, k) = 4 /\ Theirs(w, k) \in {15, 16} =>
                 Mine(x, k) = 4 /\ Theirs(z, k) \in {15, 16}
            /\ Theirs(w, k) = 16 => Theirs(z, k) = 16 \/ ~Has(x.q, OfType("commit"))
            /\ Theirs(w, k) = 15 => Theirs(z, k) = 15
            /\ Mine(y, k) = 5 => Mine(x, k) = 5 /\ (Theirs(z, k) = 16 => Theirs(w, k) = 16)
        BY <1>7, <2>2 DEF Acked, NoHtlc
      <3>2. QED
        BY <2>1, <2>7, <3>1, RemoveStays
    <2>11. RemoveGoes(w, y, k)
      <3>1. Mine(z, k) \in {4, 5} => Theirs(x, k) # 16
        BY <1>4, <2>1 DEF Paired, Ends, NoHtlc
      <3>2. /\ Talks(y) <=> Talks(x)
            /\ Has(z.q, RemoveOf(k)) /\ Mine(z, k) = 4 /\ Theirs(x, k) \in {15, 16} =>
                 Mine(w, k) = 4 /\ Theirs(y, k) \in {15, 16}
            /\ Mine(w, k) = 4 /\ Theirs(y, k) \in {15, 16} =>
                 Mine(z, k) = 4 /\ Theirs(x, k) \in {15, 16}
            /\ Theirs(y, k) = 16 => Theirs(x, k) = 16 \/ ~Has(z.q, OfType("commit"))
            /\ Theirs(y, k) = 15 => Theirs(x, k) = 15
            /\ Mine(w, k) = 5 => Mine(z, k) = 5 /\ (Theirs(x, k) = 16 => Theirs(y, k) = 16)
        BY <1>7, <2>2, <3>1 DEF Acked, NoHtlc
      <3>3. QED
        BY <2>1, <2>6, <3>2, RemoveStays
    <2>12. QED
      BY <2>3, <2>4, <2>8, <2>9, <2>10, <2>11 DEF Match
  <1>14. QED
    BY <1>8, <1>11, <1>13 DEF Matches

(* A step of x that moves no number, and sends and reads neither a          *)
(* commitment nor a revocation.                                             *)
Minor(x, y, out) ==
    /\ SameNums(x.p, y.p) /\ y.d.wasRevoke = x.d.wasRevoke /\ Onward(x, y)
    /\ ~Has(out, OfType("commit")) /\ ~Has(out, OfType("revoke"))
    /\ \/ y.q = x.q
       \/ x.q # << >> /\ y.q = Tail(x.q) /\ Head(x.q).type \notin {"commit", "revoke"}

(* What stays as it was. *)
Constant(x, y, z, w) ==
    /\ Under(y, w) <=> Under(x, z)
    /\ Owing(y, w) <=> Owing(x, z)
    /\ Under(w, y) <=> Under(z, x)
    /\ Owing(w, y) <=> Owing(z, x)
    /\ y.d.wasRevoke = x.d.wasRevoke /\ w.d.wasRevoke = z.d.wasRevoke
    /\ Talks(y) <=> Talks(x)
    /\ Talks(w) <=> Talks(z)

(* Such a step keeps the order of commitments and revocations. *)
LEMMA MinorOrder ==
    ASSUME NEW n, NEW x, NEW m, NEW z, Met(n, x, m, z), NEW y, NEW out \in Seq(Msgs),
           Minor(x, y, out), NEW w, Hears(z, w, out)
    PROVE  /\ Constant(x, y, z, w) /\ Constant(z, w, x, y)
           /\ InOrder(y, w) /\ InOrder(w, y)
  <1>1. /\ x.q \in Seq(Msgs) /\ z.q \in Seq(Msgs) /\ InOrder(x, z) /\ InOrder(z, x)
        /\ LinkType(x) /\ LinkType(z)
    BY MetIs
  <1>2. /\ Talks(w) <=> Talks(z)
        /\ w.d.wasRevoke = z.d.wasRevoke /\ w.p = z.p /\ w.q = z.q \o out
    BY HearsSame
  <1>3. SameNums(x.p, y.p) /\ SameNums(z.p, w.p)
    BY <1>1, <1>2 DEF Minor, SameNums, LinkType
  <1>4. /\ Under(y, w) <=> Under(x, z)
        /\ Owing(y, w) <=> Owing(x, z)
        /\ Under(w, y) <=> Under(z, x)
        /\ Owing(w, y) <=> Owing(z, x)
    BY <1>3, FlagsSame
  <1>5. Talks(y) <=> Talks(x)
    BY DEF Talks, Minor, Onward
  <1>6. Constant(x, y, z, w) /\ Constant(z, w, x, y)
    BY <1>2, <1>4, <1>5 DEF Constant, Minor
  <1>7. SignsAs(z.q, w.q)
    BY <1>1, <1>2, AsSent DEF Minor
  <1>8. SignsAs(x.q, y.q)
    <2>1. CASE y.q = x.q
      BY <2>1, SameQueue
    <2>2. CASE x.q # << >> /\ y.q = Tail(x.q) /\ Head(x.q).type \notin {"commit", "revoke"}
      BY <1>1, <2>2, AsRead
    <2>3. QED
      BY <2>1, <2>2 DEF Minor
  <1>9. InOrder(y, w)
    <2>1. /\ Talks(y) => Talks(x)
          /\ Under(y, w) => Under(x, z)
          /\ Owing(w, y) => Owing(z, x)
          /\ y.d.wasRevoke = x.d.wasRevoke
      BY <1>6 DEF Constant
    <2>2. QED
      BY <1>1, <1>7, <2>1, OrderStays
  <1>10. InOrder(w, y)
    <2>1. /\ Talks(w) => Talks(z)
          /\ Under(w, y) => Under(z, x)
          /\ Owing(y, w) => Owing(x, z)
          /\ w.d.wasRevoke = z.d.wasRevoke
      BY <1>6 DEF Constant
    <2>2. QED
      BY <1>1, <1>8, <2>1, OrderStays
  <1>11. QED
    BY <1>6, <1>9, <1>10

(* An HTLC whose ends and messages are as they were. *)
LEMMA MatchStays ==
    ASSUME NEW x, NEW z, NEW y, NEW w, NEW k, Match(x, z, k), Constant(x, y, z, w),
           Mine(y, k) = Mine(x, k), Theirs(w, k) = Theirs(z, k), SameSums2(x, y, z, w, k),
           AddsAs(z.q, w.q, k), RemovesAs(x.q, y.q, k)
    PROVE  Match(y, w, k)
  <1>1. Paired(x, z, k) /\ SameAmount(x, z, k) /\ AddGoes(x, z, k) /\ RemoveGoes(x, z, k)
    BY DEF Match
  <1>2. Paired(y, w, k)
    BY <1>1, PairStays DEF Constant
  <1>3. SameAmount(y, w, k) /\ AddGoes(y, w, k)
    <2>1. Talks(y) <=> Talks(x)
      BY DEF Constant
    <2>2. QED
      BY <1>1, <2>1, AddStays
  <1>4. RemoveGoes(y, w, k)
    <2>1. Talks(w) <=> Talks(z)
      BY DEF Constant
    <2>2. QED
      BY <1>1, <2>1, RemoveStays
  <1>5. QED
    BY <1>2, <1>3, <1>4 DEF Match

(* The amounts of HTLCs when one is put somewhere. *)
LEMMA SumsPut ==
    ASSUME NEW n, NEW x, NodeType(n, x), NEW y, NEW h, NEW i, Put(x.c, y.c, h, i),
           NEW z, NEW w, w.c = z.c, NEW k
    PROVE  /\ <<"local", k>> # h \/ Where(x.c, h) # NoHtlc => SameSums2(x, y, z, w, k)
           /\ <<"remote", k>> # h \/ Where(x.c, h) # NoHtlc => SameSums2(z, w, x, y, k)
  <1>1. x.c.htlcs \in HtlcMaps
    BY DEF NodeType, GoodChan, ChanRecs
  <1>2. \A g : Where(x.c, g) # NoHtlc <=> g \in DOMAIN x.c.htlcs
    BY <1>1, WhereType
  <1>3. \A g : (g # h \/ Where(x.c, h) # NoHtlc) /\ Where(y.c, g) # NoHtlc =>
           Where(x.c, g) # NoHtlc /\ y.c.htlcs[g].amount = x.c.htlcs[g].amount
    BY <1>2 DEF Put
  <1>4. Mine(w, k) = Mine(z, k) /\ Theirs(w, k) = Theirs(z, k)
    BY DEF Mine, Theirs
  <1>5. QED
    BY <1>3, <1>4 DEF SameSums2, Mine, Theirs

(* Shutdowns and feerates. *)
LEMMA MatchIdle ==
    ASSUME NEW n \in Nodes, NEW x, NEW m, NEW z, Met(n, x, m, z),
           NEW y, NodeType(n, y), NEW out \in Seq(Msgs), Idles(x, y, out),
           NEW w, Hears(z, w, out)
    PROVE  Matches(y, w) /\ Matches(w, y)
  <1>1. x.q \in Seq(Msgs) /\ z.q \in Seq(Msgs) /\ NodeType(n, x)
    BY MetIs
  <1>2. \A t : t # "shutdown" => ~Has(out, OfType(t))
    <2>1. CASE out = << >>
      BY <2>1, NoneQueued
    <2>2. CASE out = <<ShutdownMsg>>
      <3>1. ShutdownMsg \in Msgs /\ ShutdownMsg.type = "shutdown"
        BY MsgShutdown DEF ShutdownMsg
      <3>2. \A T : Has(out, T) <=> ShutdownMsg \in T
        BY <2>2, <3>1, OneQueued
      <3>3. QED
        BY <3>1, <3>2 DEF OfType
    <2>3. QED
      BY <2>1, <2>2 DEF Idles
  <1>3. \A k : ~Has(out, AddOf(k)) /\ ~Has(out, RemoveOf(k))
    <2>1. ~Has(out, OfType("add")) /\ ~Has(out, OfType("fulfill")) /\ ~Has(out, OfType("fail"))
      BY <1>2
    <2>2. QED
      BY <2>1 DEF Has, OfType, AddOf, RemoveOf
  <1>4. Minor(x, y, out)
    BY <1>2 DEF Idles, Minor, SameIds, Pops
  <1>5. Constant(x, y, z, w) /\ Constant(z, w, x, y) /\ InOrder(y, w) /\ InOrder(w, y)
    BY <1>4, MinorOrder
  <1>6. /\ \A k : Mine(w, k) = Mine(z, k) /\ Theirs(w, k) = Theirs(z, k)
        /\ w.c = z.c /\ w.q = z.q \o out
    BY HearsSame
  <1>7. /\ \A k : Mine(y, k) = Mine(x, k) /\ Theirs(y, k) = Theirs(x, k)
        /\ SameHtlcs(x.c, y.c)
    BY DEF Idles, Still, Mine, Theirs
  <1>8. ASSUME NEW k \in Nat
        PROVE  Match(y, w, k) /\ Match(w, y, k)
    <2>1. Match(x, z, k) /\ Match(z, x, k)
      BY DEF Met, Matches
    <2>2. SameSums2(x, y, z, w, k) /\ SameSums2(z, w, x, y, k)
      BY <1>1, <1>6, <1>7, SumsMoved
    <2>3. AddsAs(z.q, w.q, k) /\ RemovesAs(z.q, w.q, k)
      <3>1. ~Has(out, OfType("commit"))
        BY <1>2
      <3>2. QED
        BY <1>1, <1>3, <1>6, <3>1, AsSent
    <2>4. AddsAs(x.q, y.q, k) /\ RemovesAs(x.q, y.q, k)
      <3>1. CASE y.q = x.q
        BY <3>1, SameQueue
      <3>2. CASE Pops(x, y) /\ Head(x.q).type \in {"shutdown", "fee"}
        <4>1. Head(x.q) \notin AddOf(k) /\ Head(x.q) \notin RemoveOf(k)
          BY <3>2 DEF AddOf, RemoveOf
        <4>2. x.q # << >> /\ y.q = Tail(x.q)
          BY <3>2 DEF Pops
        <4>3. QED
          BY <1>1, <4>1, <4>2, AsRead
      <3>3. QED
        BY <3>1, <3>2 DEF Idles
    <2>5. QED
      BY <1>5, <1>6, <1>7, <2>1, <2>2, <2>3, <2>4, MatchStays
  <1>9. QED
    BY <1>5, <1>8 DEF Matches

(* Where an HTLC is put, and where the others stay. *)
LEMMA PutEnds ==
    ASSUME NEW x, NEW y, NEW side, NEW j, NEW i, Put(x.c, y.c, <<side, j>>, i)
    PROVE  /\ side = "local" => /\ \A k : Theirs(y, k) = Theirs(x, k)
                                /\ \A k : k # j => Mine(y, k) = Mine(x, k)
                                /\ Mine(y, j) = i
           /\ side = "remote" => /\ \A k : Mine(y, k) = Mine(x, k)
                                 /\ \A k : k # j => Theirs(y, k) = Theirs(x, k)
                                 /\ Theirs(y, j) = i
  BY DEF Put, Mine, Theirs

(* One update is sent. *)
LEMMA OneUpdate ==
    ASSUME NEW u \in Msgs, u.type \in {"add", "fulfill", "fail"}
    PROVE  /\ \A T : Has(<<u>>, T) <=> u \in T
           /\ ~Has(<<u>>, OfType("commit")) /\ ~Has(<<u>>, OfType("revoke"))
           /\ \A k : Has(<<u>>, AddOf(k)) <=> u.type = "add" /\ u.id = k
           /\ \A k : Has(<<u>>, RemoveOf(k)) <=> u.type # "add" /\ u.id = k
  <1>1. \A T : Has(<<u>>, T) <=> u \in T
    BY OneQueued
  <1>2. QED
    BY <1>1 DEF OfType, AddOf, RemoveOf

(* handle_offer_htlc() *)
LEMMA MatchOffers ==
    ASSUME NEW n \in Nodes, NEW x, NEW m, NEW z, Met(n, x, m, z),
           NEW y, NodeType(n, y), NEW out \in Seq(Msgs), Offers(n, x, y, out),
           NEW w, Hears(z, w, out)
    PROVE  Matches(y, w) /\ Matches(w, y)
  <1> DEFINE j == x.p.htlcId
             h == <<"local", j>>
             u == AddMsg(y.c, h)
  <1>1. x.q \in Seq(Msgs) /\ z.q \in Seq(Msgs) /\ NodeType(n, x) /\ Store(x.c, x.d)
    BY MetIs
  <1>2. /\ Where(x.c, h) = NoHtlc /\ Put(x.c, y.c, h, 0)
        /\ h \in DOMAIN y.c.htlcs /\ u \in Msgs /\ out = <<u>>
    BY <1>1, OfferPuts
  <1>3. u.type = "add" /\ u.id = j /\ u.amount = y.c.htlcs[h].amount
    BY DEF AddMsg, Amount
  <1>4. j \in Nat
    BY <1>1 DEF NodeType, PeerRecs
  <1> HIDE DEF u, j
  <1>5. /\ ~Has(out, OfType("commit")) /\ ~Has(out, OfType("revoke"))
        /\ \A k : Has(out, AddOf(k)) <=> k = j
        /\ \A k : ~Has(out, RemoveOf(k))
        /\ \A T : Has(out, T) <=> u \in T
    BY <1>2, <1>3, OneUpdate
  <1>6. Minor(x, y, out)
    <2>1. /\ SameNums(x.p, y.p) /\ y.d.wasRevoke = x.d.wasRevoke /\ Onward(x, y) /\ y.q = x.q
      BY DEF Offers, SameNums, Onward
    <2>2. QED
      BY <1>5, <2>1 DEF Minor
  <1>7. Constant(x, y, z, w) /\ Constant(z, w, x, y) /\ InOrder(y, w) /\ InOrder(w, y)
    BY <1>6, MinorOrder
  <1>8. /\ \A k : Mine(w, k) = Mine(z, k) /\ Theirs(w, k) = Theirs(z, k)
        /\ w.c = z.c /\ w.q = z.q \o out
    BY HearsSame
  <1>9. /\ \A k : Theirs(y, k) = Theirs(x, k)
        /\ \A k : k # j => Mine(y, k) = Mine(x, k)
        /\ Mine(y, j) = 0 /\ Mine(x, j) = NoHtlc
    <2>1. /\ \A k : Theirs(y, k) = Theirs(x, k)
          /\ \A k : k # j => Mine(y, k) = Mine(x, k)
          /\ Mine(y, j) = 0
      BY <1>2, PutEnds
    <2>2. Mine(x, j) = NoHtlc
      BY <1>2 DEF Mine
    <2>3. QED
      BY <2>1, <2>2
  <1>10. y.q = x.q
    BY DEF Offers
  <1>11. ASSUME NEW k \in Nat
         PROVE  /\ Match(x, z, k) /\ Match(z, x, k)
                /\ SameSums2(z, w, x, y, k)
                /\ k # j => SameSums2(x, y, z, w, k)
                /\ AddsAs(x.q, y.q, k) /\ RemovesAs(x.q, y.q, k) /\ RemovesAs(z.q, w.q, k)
                /\ k # j => AddsAs(z.q, w.q, k)
    <2>1. Match(x, z, k) /\ Match(z, x, k)
      BY DEF Met, Matches
    <2>2. /\ <<"local", k>> # h \/ Where(x.c, h) # NoHtlc => SameSums2(x, y, z, w, k)
          /\ <<"remote", k>> # h \/ Where(x.c, h) # NoHtlc => SameSums2(z, w, x, y, k)
      BY <1>1, <1>2, <1>8, SumsPut
    <2>3. AddsAs(x.q, y.q, k) /\ RemovesAs(x.q, y.q, k)
      BY <1>10, SameQueue
    <2>4. /\ RemovesAs(z.q, w.q, k)
          /\ k # j => AddsAs(z.q, w.q, k)
      BY <1>1, <1>5, <1>8, AsSent
    <2>5. QED
      BY <2>1, <2>2, <2>3, <2>4
  <1>12. ASSUME NEW k \in Nat
         PROVE  Match(w, y, k)
    BY <1>7, <1>8, <1>9, <1>11, MatchStays
  <1>13. ASSUME NEW k \in Nat, k # j
         PROVE  Match(y, w, k)
    BY <1>7, <1>8, <1>9, <1>11, <1>13, MatchStays
  <1>14. Match(y, w, j)
    <2>1. Paired(x, z, j) /\ AddGoes(x, z, j) /\ RemoveGoes(x, z, j)
      BY <1>4, MetIs
    <2>2. Theirs(z, j) = NoHtlc
      BY <1>9, <2>1 DEF Paired, Ends, NoHtlc
    <2>3. Paired(y, w, j)
      BY <1>8, <1>9, <2>2 DEF Paired, Ends
    <2>4. ~Has(z.q, AddOf(j)) /\ ~Has(x.q, RemoveOf(j))
      BY <1>9, <2>1 DEF AddGoes, RemoveGoes, NoHtlc
    <2>5. Has(w.q, AddOf(j))
      <3>1. Has(z.q \o out, AddOf(j)) <=> Has(z.q, AddOf(j)) \/ Has(out, AddOf(j))
        BY <1>1, Queued
      <3>2. QED
        BY <1>5, <1>8, <3>1
    <2>6. ~Has(w.q, AddNot(j, y.c.htlcs[h].amount))
      <3> DEFINE T == AddNot(j, y.c.htlcs[h].amount)
      <3>1. ~Has(z.q, T)
        BY <2>4, WrongAdd
      <3>2. u \notin T
        BY <1>3 DEF AddNot
      <3> HIDE DEF T
      <3>3. Has(z.q \o out, T) <=> Has(z.q, T) \/ Has(out, T)
        BY <1>1, Queued
      <3>4. ~Has(w.q, T)
        BY <1>5, <1>8, <3>1, <3>2, <3>3
      <3>5. QED
        BY <3>4 DEF T
    <2>7. SameAmount(y, w, j)
      BY <1>8, <2>2, <2>6 DEF SameAmount
    <2>8. Talks(y)
      BY DEF Offers, Talks
    <2>9. AddGoes(y, w, j)
      BY <1>9, <2>5, <2>8 DEF AddGoes
    <2>10. RemoveGoes(y, w, j)
      <3>1. ~Has(y.q, RemoveOf(j))
        BY <1>10, <2>4
      <3>2. /\ One(y.q, RemoveOf(j)) /\ Before(y.q, RemoveOf(j), OfType("commit"))
            /\ Before(y.q, OfType("commit"), RemoveOf(j))
        BY <3>1 DEF Has, One, Before
      <3>3. QED
        BY <1>8, <1>9, <2>2, <3>1, <3>2 DEF RemoveGoes, NoHtlc
    <2>11. QED
      BY <2>3, <2>7, <2>9, <2>10 DEF Match
  <1>15. QED
    BY <1>7, <1>12, <1>13, <1>14 DEF Matches

(* handle_preimage(), handle_fail() *)
LEMMA MatchResolves ==
    ASSUME NEW n \in Nodes, NEW x, NEW m, NEW z, Met(n, x, m, z),
           NEW y, NodeType(n, y), NEW out \in Seq(Msgs), Resolves(n, x, y, out),
           NEW w, Hears(z, w, out)
    PROVE  Matches(y, w) /\ Matches(w, y)
  <1>1. x.q \in Seq(Msgs) /\ z.q \in Seq(Msgs) /\ NodeType(n, x) /\ Store(x.c, x.d)
    BY MetIs
  <1>2. PICK j \in Nat :
          LET h == <<"remote", j>>
          IN  /\ Where(x.c, h) = 14 /\ Put(x.c, y.c, h, 15)
              /\ y.c.htlcs[h].r \in {"fulfill", "fail"}
              /\ RemoveMsg(y.c, h) \in Msgs /\ out = <<RemoveMsg(y.c, h)>>
    BY <1>1, ResolvePuts
  <1> DEFINE h == <<"remote", j>>
             u == RemoveMsg(y.c, h)
  <1>3. /\ Where(x.c, h) = 14 /\ Put(x.c, y.c, h, 15) /\ u \in Msgs /\ out = <<u>>
        /\ u.type \in {"fulfill", "fail"} /\ u.id = j
    BY <1>2 DEF RemoveMsg
  <1> HIDE DEF u
  <1>4. /\ ~Has(out, OfType("commit")) /\ ~Has(out, OfType("revoke"))
        /\ \A k : Has(out, RemoveOf(k)) <=> k = j
        /\ \A k : ~Has(out, AddOf(k))
    BY <1>3, OneUpdate
  <1>5. Minor(x, y, out)
    <2>1. /\ SameNums(x.p, y.p) /\ y.d.wasRevoke = x.d.wasRevoke /\ Onward(x, y) /\ y.q = x.q
      BY DEF Resolves, SameNums, Onward, PeerKeeps
    <2>2. QED
      BY <1>4, <2>1 DEF Minor
  <1>6. Constant(x, y, z, w) /\ Constant(z, w, x, y) /\ InOrder(y, w) /\ InOrder(w, y)
    BY <1>5, MinorOrder
  <1>7. /\ \A k : Mine(w, k) = Mine(z, k) /\ Theirs(w, k) = Theirs(z, k)
        /\ w.c = z.c /\ w.q = z.q \o out
    BY HearsSame
  <1>8. /\ \A k : Mine(y, k) = Mine(x, k)
        /\ \A k : k # j => Theirs(y, k) = Theirs(x, k)
        /\ Theirs(y, j) = 15 /\ Theirs(x, j) = 14
    BY <1>3, PutEnds DEF Theirs
  <1>9. y.q = x.q
    BY DEF Resolves
  <1>10. ASSUME NEW k \in Nat
         PROVE  /\ Match(x, z, k) /\ Match(z, x, k)
                /\ SameSums2(x, y, z, w, k) /\ SameSums2(z, w, x, y, k)
                /\ AddsAs(x.q, y.q, k) /\ RemovesAs(x.q, y.q, k) /\ AddsAs(z.q, w.q, k)
                /\ k # j => RemovesAs(z.q, w.q, k)
    <2>1. Match(x, z, k) /\ Match(z, x, k)
      BY DEF Met, Matches
    <2>2. /\ <<"local", k>> # h \/ Where(x.c, h) # NoHtlc => SameSums2(x, y, z, w, k)
          /\ <<"remote", k>> # h \/ Where(x.c, h) # NoHtlc => SameSums2(z, w, x, y, k)
      BY <1>1, <1>3, <1>7, SumsPut
    <2>3. Where(x.c, h) # NoHtlc
      BY <1>3 DEF NoHtlc
    <2>4. AddsAs(x.q, y.q, k) /\ RemovesAs(x.q, y.q, k)
      BY <1>9, SameQueue
    <2>5. /\ AddsAs(z.q, w.q, k)
          /\ k # j => RemovesAs(z.q, w.q, k)
      BY <1>1, <1>4, <1>7, AsSent
    <2>6. QED
      BY <2>1, <2>2, <2>3, <2>4, <2>5
  <1>11. ASSUME NEW k \in Nat
         PROVE  Match(y, w, k)
    BY <1>6, <1>7, <1>8, <1>10, MatchStays
  <1>12. ASSUME NEW k \in Nat, k # j
         PROVE  Match(w, y, k)
    BY <1>6, <1>7, <1>8, <1>10, <1>12, MatchStays
  <1>13. Match(w, y, j)
    <2>1. /\ Paired(z, x, j) /\ SameAmount(z, x, j) /\ AddGoes(z, x, j) /\ RemoveGoes(z, x, j)
      BY MetIs
    <2>2. Mine(z, j) = 4
      BY <1>8, <2>1 DEF Paired, Ends, NoHtlc
    <2>3. Paired(w, y, j)
      BY <1>7, <1>8, <2>2 DEF Paired, Ends
    <2>4. SameAmount(w, y, j) /\ AddGoes(w, y, j)
      <3>1. Talks(w) <=> Talks(z)
        BY <1>6 DEF Constant
      <3>2. AddsAs(x.q, y.q, j) /\ SameSums2(z, w, x, y, j)
        BY <1>10
      <3>3. Mine(w, j) = 4
        BY <1>7, <2>2
      <3>4. QED
        BY <2>1, <2>2, <3>1, <3>2, <3>3, AddStays
    <2>5. ~Has(z.q, RemoveOf(j))
      BY <1>8, <2>1 DEF RemoveGoes
    <2>6. /\ Has(z.q \o out, RemoveOf(j)) <=> Has(z.q, RemoveOf(j)) \/ Has(out, RemoveOf(j))
          /\ One(z.q \o out, RemoveOf(j)) <=> /\ One(z.q, RemoveOf(j)) /\ One(out, RemoveOf(j))
                                              /\ ~(Has(z.q, RemoveOf(j)) /\ Has(out, RemoveOf(j)))
          /\ Before(z.q \o out, OfType("commit"), RemoveOf(j)) <=>
               /\ Before(z.q, OfType("commit"), RemoveOf(j))
               /\ Before(out, OfType("commit"), RemoveOf(j))
               /\ ~(Has(z.q, RemoveOf(j)) /\ Has(out, OfType("commit")))
      BY <1>1, Queued
    <2>7. /\ One(z.q, RemoveOf(j)) /\ Before(z.q, OfType("commit"), RemoveOf(j))
          /\ Before(out, OfType("commit"), RemoveOf(j))
      BY <1>4, <2>5 DEF One, Before, Has
    <2>8. One(out, RemoveOf(j))
      BY <1>3, OneQueued
    <2>9. Talks(y)
      BY DEF Resolves, Talks
    <2>10. RemoveGoes(w, y, j)
      BY <1>4, <1>7, <1>8, <2>2, <2>5, <2>6, <2>7, <2>8, <2>9 DEF RemoveGoes
    <2>11. QED
      BY <2>3, <2>4, <2>10 DEF Match
  <1>14. QED
    BY <1>6, <1>11, <1>12, <1>13 DEF Matches

(* handle_peer_add_htlc() *)
LEMMA MatchAdd ==
    ASSUME NEW n \in Nodes, NEW x, NEW m, NEW z, Met(n, x, m, z),
           NEW y, NodeType(n, y), NEW out \in Seq(Msgs), GotAdd(n, x, y, out),
           <<"remote", Head(x.q).id>> \notin DOMAIN x.c.htlcs,
           NEW w, Hears(z, w, out)
    PROVE  Matches(y, w) /\ Matches(w, y)
  <1> DEFINE u == Head(x.q)
             j == u.id
             h == <<"remote", j>>
  <1>1. x.q \in Seq(Msgs) /\ z.q \in Seq(Msgs) /\ NodeType(n, x) /\ Store(x.c, x.d)
    BY MetIs
  <1>2. /\ Where(x.c, h) = NoHtlc /\ Put(x.c, y.c, h, 10)
        /\ y.c.htlcs[h].amount = u.amount /\ j \in Nat
    BY <1>1, AddPuts
  <1>3. /\ x.p.phase = "run" /\ x.q # << >> /\ u.type = "add" /\ y.q = Tail(x.q) /\ out = << >>
        /\ y.p = x.p /\ y.d = x.d
    BY DEF GotAdd, Reads
  <1>4. u \in Msgs
    BY <1>1, <1>3, Popped
  <1>5. /\ \A k : u \in AddOf(k) <=> k = j
        /\ \A k : u \notin RemoveOf(k)
    BY <1>3, <1>4 DEF AddOf, RemoveOf
  <1> HIDE DEF u, j
  <1>6. Minor(x, y, out)
    <2>1. SameNums(x.p, y.p) /\ y.d.wasRevoke = x.d.wasRevoke /\ Onward(x, y)
      BY <1>1, <1>3 DEF NodeType, SameNums, Onward
    <2>2. ~Has(out, OfType("commit")) /\ ~Has(out, OfType("revoke"))
      BY <1>3, NoneQueued
    <2>3. QED
      BY <1>3, <2>1, <2>2 DEF Minor, u
  <1>7. Constant(x, y, z, w) /\ Constant(z, w, x, y) /\ InOrder(y, w) /\ InOrder(w, y)
    BY <1>6, MinorOrder
  <1>8. /\ \A k : Mine(w, k) = Mine(z, k) /\ Theirs(w, k) = Theirs(z, k)
        /\ w.c = z.c /\ w.q = z.q
    <2>1. z.q \o << >> = z.q
      BY <1>1
    <2>2. /\ \A k : Mine(w, k) = Mine(z, k) /\ Theirs(w, k) = Theirs(z, k)
          /\ w.c = z.c /\ w.q = z.q \o out
      BY HearsSame
    <2>3. QED
      BY <1>3, <2>1, <2>2
  <1>9. /\ \A k : Mine(y, k) = Mine(x, k)
        /\ \A k : k # j => Theirs(y, k) = Theirs(x, k)
        /\ Theirs(y, j) = 10 /\ Theirs(x, j) = NoHtlc
    <2>1. /\ \A k : Mine(y, k) = Mine(x, k)
          /\ \A k : k # j => Theirs(y, k) = Theirs(x, k)
          /\ Theirs(y, j) = 10
      <3>1. Put(x.c, y.c, <<"remote", j>>, 10)
        BY <1>2
      <3>2. QED
        BY <3>1 DEF Put, Mine, Theirs
    <2>2. Theirs(x, j) = NoHtlc
      BY <1>2 DEF Theirs
    <2>3. QED
      BY <2>1, <2>2
  <1>10. ASSUME NEW k \in Nat
         PROVE  /\ Match(x, z, k) /\ Match(z, x, k)
                /\ SameSums2(x, y, z, w, k)
                /\ k # j => SameSums2(z, w, x, y, k)
                /\ AddsAs(z.q, w.q, k) /\ RemovesAs(z.q, w.q, k) /\ RemovesAs(x.q, y.q, k)
                /\ k # j => AddsAs(x.q, y.q, k)
    <2>1. Match(x, z, k) /\ Match(z, x, k)
      BY DEF Met, Matches
    <2>2. /\ <<"local", k>> # h \/ Where(x.c, h) # NoHtlc => SameSums2(x, y, z, w, k)
          /\ <<"remote", k>> # h \/ Where(x.c, h) # NoHtlc => SameSums2(z, w, x, y, k)
      BY <1>1, <1>2, <1>8, SumsPut
    <2>3. AddsAs(z.q, w.q, k) /\ RemovesAs(z.q, w.q, k)
      BY <1>8, SameQueue
    <2>4. /\ RemovesAs(x.q, y.q, k)
          /\ k # j => AddsAs(x.q, y.q, k)
      BY <1>1, <1>3, <1>5, AsRead DEF u
    <2>5. QED
      BY <2>1, <2>2, <2>3, <2>4
  <1>11. ASSUME NEW k \in Nat
         PROVE  Match(y, w, k)
    BY <1>7, <1>8, <1>9, <1>10, MatchStays
  <1>12. ASSUME NEW k \in Nat, k # j
         PROVE  Match(w, y, k)
    BY <1>7, <1>8, <1>9, <1>10, <1>12, MatchStays
  <1>13. Match(w, y, j)
    <2>1. /\ Paired(z, x, j) /\ SameAmount(z, x, j) /\ AddGoes(z, x, j) /\ RemoveGoes(z, x, j)
      BY <1>2, MetIs
    <2>2. /\ Has(x.q, AddOf(j)) <=> u \in AddOf(j) \/ Has(Tail(x.q), AddOf(j))
          /\ Before(x.q, AddOf(j), OfType("commit")) =>
               Before(Tail(x.q), AddOf(j), OfType("commit"))
      BY <1>1, <1>3, Popped DEF u
    <2>3. Has(x.q, AddOf(j))
      BY <1>5, <2>2
    <2>4. Mine(z, j) \in {0, 1}
      BY <2>1, <2>3 DEF AddGoes
    <2>5. Paired(w, y, j)
      <3>1. /\ Under(w, y) <=> Under(z, x)
            /\ Owing(w, y) <=> Owing(z, x)
        BY <1>7 DEF Constant
      <3>2. QED
        BY <1>8, <1>9, <2>1, <2>4, <3>1 DEF Paired, Ends, NoHtlc
    <2>6. SameAmount(w, y, j)
      <3> DEFINE a == z.c.htlcs[<<"local", j>>].amount
                 T == AddNot(j, a)
      <3>1. ~Has(x.q, T)
        BY <2>1, <2>4 DEF SameAmount, NoHtlc
      <3>2. Has(x.q, T) <=> Head(x.q) \in T \/ Has(Tail(x.q), T)
        BY <1>1, <1>3, Popped
      <3>3. u \notin T /\ ~Has(y.q, T)
        BY <1>3, <3>1, <3>2 DEF u
      <3>4. u.amount = a
        BY <1>3, <1>4, <3>3 DEF AddNot, j
      <3>5. QED
        BY <1>2, <1>8, <3>3, <3>4 DEF SameAmount
    <2>7. AddGoes(w, y, j)
      <3>1. Talks(w) <=> Talks(z)
        BY <1>7 DEF Constant
      <3>2. Theirs(y, j) # NoHtlc
        BY <1>9 DEF NoHtlc
      <3>3. QED
        BY <1>3, <1>8, <2>1, <2>2, <2>4, <3>1, <3>2 DEF AddGoes
    <2>8. RemoveGoes(w, y, j)
      <3>1. Talks(y) <=> Talks(x)
        BY <1>7 DEF Constant
      <3>2. RemovesAs(z.q, w.q, j)
        BY <1>2, <1>10
      <3>3. Mine(w, j) = Mine(z, j) /\ Mine(z, j) # 4 /\ Mine(z, j) # 5 /\ Theirs(y, j) = 10
        BY <1>8, <1>9, <2>4
      <3>4. QED
        BY <2>1, <3>1, <3>2, <3>3, RemoveStays
    <2>9. QED
      BY <2>5, <2>6, <2>7, <2>8 DEF Match
  <1>14. QED
    BY <1>7, <1>11, <1>12, <1>13 DEF Matches

(* handle_peer_fulfill_htlc(), handle_peer_fail_htlc() *)
LEMMA MatchRemove ==
    ASSUME NEW n \in Nodes, NEW x, NEW m, NEW z, Met(n, x, m, z),
           NEW y, NodeType(n, y), NEW out \in Seq(Msgs), GotRemove(n, x, y, out),
           NEW w, Hears(z, w, out)
    PROVE  Matches(y, w) /\ Matches(w, y)
  <1> DEFINE u == Head(x.q)
             j == u.id
             h == <<"local", j>>
  <1>1. x.q \in Seq(Msgs) /\ z.q \in Seq(Msgs) /\ NodeType(n, x) /\ Store(x.c, x.d)
        /\ LinkType(z) /\ Link(z, x)
    BY MetIs
  <1>2. /\ u \in Msgs /\ u.type \in {"fulfill", "fail"} /\ j \in Nat
        /\ \/ y.c = x.c /\ ~(Where(x.c, h) = 4)
           \/ Where(x.c, h) = 4 /\ Put(x.c, y.c, h, 5)
    BY <1>1, RemovePuts
  <1>3. /\ x.p.phase = "run" /\ y.p.phase = "run" /\ x.q # << >> /\ y.q = Tail(x.q)
        /\ out = << >> /\ PeerKeeps(x.p, y.p) /\ y.d = x.d
    BY DEF GotRemove, Reads
  <1>4. /\ \A k : u \in RemoveOf(k) <=> k = j
        /\ \A k : u \notin AddOf(k)
    BY <1>2 DEF AddOf, RemoveOf
  <1> HIDE DEF u, j
  <1>5. /\ Paired(x, z, j) /\ SameAmount(x, z, j) /\ AddGoes(x, z, j) /\ RemoveGoes(x, z, j)
    BY <1>2, MetIs
  <1>6. /\ Has(x.q, RemoveOf(j)) <=> u \in RemoveOf(j) \/ Has(Tail(x.q), RemoveOf(j))
        /\ One(x.q, RemoveOf(j)) <=> /\ One(Tail(x.q), RemoveOf(j))
                                     /\ ~(u \in RemoveOf(j) /\ Has(Tail(x.q), RemoveOf(j)))
        /\ Before(x.q, OfType("commit"), RemoveOf(j)) <=>
             /\ Before(Tail(x.q), OfType("commit"), RemoveOf(j))
             /\ ~(u \in RemoveOf(j) /\ (u \in OfType("commit") \/ Has(Tail(x.q), OfType("commit"))))
    BY <1>1, <1>3, Popped DEF u
  <1>7. Has(x.q, RemoveOf(j)) /\ ~Has(y.q, RemoveOf(j))
    BY <1>3, <1>4, <1>5, <1>6 DEF RemoveGoes
  <1>8. Mine(x, j) = 4 /\ Theirs(z, j) \in {15, 16}
    BY <1>5, <1>7 DEF RemoveGoes
  <1>9. Where(x.c, h) = 4 /\ Put(x.c, y.c, h, 5)
    BY <1>2, <1>8 DEF Mine
  <1>10. Minor(x, y, out)
    <2>1. SameNums(x.p, y.p) /\ y.d.wasRevoke = x.d.wasRevoke /\ Onward(x, y)
      BY <1>3 DEF PeerKeeps, SameNums, Onward
    <2>2. ~Has(out, OfType("commit")) /\ ~Has(out, OfType("revoke"))
      BY <1>3, NoneQueued
    <2>3. QED
      BY <1>2, <1>3, <2>1, <2>2 DEF Minor, u
  <1>11. Constant(x, y, z, w) /\ Constant(z, w, x, y) /\ InOrder(y, w) /\ InOrder(w, y)
    BY <1>10, MinorOrder
  <1>12. /\ \A k : Mine(w, k) = Mine(z, k) /\ Theirs(w, k) = Theirs(z, k)
         /\ w.c = z.c /\ w.q = z.q
    <2>1. z.q \o << >> = z.q
      BY <1>1
    <2>2. /\ \A k : Mine(w, k) = Mine(z, k) /\ Theirs(w, k) = Theirs(z, k)
          /\ w.c = z.c /\ w.q = z.q \o out
      BY HearsSame
    <2>3. QED
      BY <1>3, <2>1, <2>2
  <1>13. /\ \A k : Theirs(y, k) = Theirs(x, k)
         /\ \A k : k # j => Mine(y, k) = Mine(x, k)
         /\ Mine(y, j) = 5
    <2>1. Put(x.c, y.c, <<"local", j>>, 5)
      BY <1>9
    <2>2. QED
      BY <2>1 DEF Put, Mine, Theirs
  <1>14. ASSUME NEW k \in Nat
         PROVE  /\ Match(x, z, k) /\ Match(z, x, k)
                /\ SameSums2(x, y, z, w, k) /\ SameSums2(z, w, x, y, k)
                /\ AddsAs(z.q, w.q, k) /\ RemovesAs(z.q, w.q, k) /\ AddsAs(x.q, y.q, k)
                /\ k # j => RemovesAs(x.q, y.q, k)
    <2>1. Match(x, z, k) /\ Match(z, x, k)
      BY DEF Met, Matches
    <2>2. /\ <<"local", k>> # h \/ Where(x.c, h) # NoHtlc => SameSums2(x, y, z, w, k)
          /\ <<"remote", k>> # h \/ Where(x.c, h) # NoHtlc => SameSums2(z, w, x, y, k)
      BY <1>1, <1>9, <1>12, SumsPut
    <2>3. Where(x.c, h) # NoHtlc
      BY <1>9 DEF NoHtlc
    <2>4. AddsAs(z.q, w.q, k) /\ RemovesAs(z.q, w.q, k)
      BY <1>12, SameQueue
    <2>5. /\ AddsAs(x.q, y.q, k)
          /\ k # j => RemovesAs(x.q, y.q, k)
      BY <1>1, <1>3, <1>4, AsRead DEF u
    <2>6. QED
      BY <2>1, <2>2, <2>3, <2>4, <2>5
  <1>15. ASSUME NEW k \in Nat
         PROVE  Match(w, y, k)
    BY <1>11, <1>12, <1>13, <1>14, MatchStays
  <1>16. ASSUME NEW k \in Nat, k # j
         PROVE  Match(y, w, k)
    BY <1>11, <1>12, <1>13, <1>14, <1>16, MatchStays
  <1>17. Match(y, w, j)
    <2>1. Paired(y, w, j)
      <3>1. Under(w, y) <=> Under(z, x)
        BY <1>11 DEF Constant
      <3>2. QED
        BY <1>5, <1>8, <1>12, <1>13, <3>1 DEF Paired, Ends, NoHtlc
    <2>2. SameAmount(y, w, j) /\ AddGoes(y, w, j)
      <3>1. Talks(y) <=> Talks(x)
        BY <1>11 DEF Constant
      <3>2. AddsAs(z.q, w.q, j) /\ SameSums2(x, y, z, w, j)
        BY <1>2, <1>14
      <3>3. QED
        BY <1>5, <1>8, <1>13, <3>1, <3>2, AddStays
    <2>3. Talks(w)
      <3>1. Talks(z)
        BY <1>1, <1>3, ReaderTalks
      <3>2. QED
        BY <3>1, <1>11 DEF Constant
    <2>4. /\ One(y.q, RemoveOf(j)) /\ Before(y.q, RemoveOf(j), OfType("commit"))
          /\ Before(y.q, OfType("commit"), RemoveOf(j))
      BY <1>7 DEF Has, One, Before
    <2>5. Has(y.q, OfType("commit")) => Theirs(w, j) = 16
      BY <1>3, <1>4, <1>5, <1>6, <1>8, <1>12 DEF RemoveGoes
    <2>6. RemoveGoes(y, w, j)
      BY <1>7, <1>13, <2>3, <2>4, <2>5 DEF RemoveGoes
    <2>7. QED
      BY <2>1, <2>2, <2>6 DEF Match
  <1>18. QED
    BY <1>11, <1>15, <1>16, <1>17 DEF Matches

(* What is sent again: the commitment under way with the updates in it, the *)
(* revocation under way, and the removals no commitment carries yet.        *)
LEMMA AnswerMeans ==
    ASSUME NEW n \in Nodes, NEW x, NEW m, NEW z, Met(n, x, m, z),
           NEW y, NEW out \in Seq(Msgs), Answers(n, x, y, out)
    PROVE  /\ Has(out, OfType("commit")) <=> Under(x, z)
           /\ Has(out, OfType("revoke")) <=> Owing(z, x)
           /\ x.d.wasRevoke => Before(out, OfType("commit"), OfType("revoke"))
           /\ ~x.d.wasRevoke => Before(out, OfType("revoke"), OfType("commit"))
           /\ \A k \in Nat :
                /\ Has(out, AddOf(k)) <=> Under(x, z) /\ Mine(x, k) = 1
                /\ ~Has(out, AddNot(k, x.c.htlcs[<<"local", k>>].amount))
                /\ Before(out, AddOf(k), OfType("commit"))
                /\ Has(out, RemoveOf(k)) <=> \/ Under(x, z) /\ Theirs(x, k) = 16
                                             \/ Theirs(x, k) = 15
                /\ One(out, RemoveOf(k))
                /\ Theirs(x, k) # 15 => Before(out, RemoveOf(k), OfType("commit"))
                /\ Theirs(x, k) # 16 => Before(out, OfType("commit"), RemoveOf(k))
           /\ \A T : Has(z.q, T) => \E e \in T : e.type = "reestablish"
           /\ Head(x.q).type = "reestablish"
  <1> DEFINE c == x.c
             p == x.p
             d == x.d
             e == Head(x.q)
             again == e.nc = p.nextR - 1
             cm == CommitMsg(n, c, p.nextR - 1)
             rv == RevokeMsg(p.nextL - 2)
             ls == d.lastSent
  <1>1. /\ NodeType(n, x) /\ LinkType(x) /\ LinkType(z) /\ Link(x, z) /\ Link(z, x)
        /\ LinkNums(x, z) /\ LinkNums(z, x) /\ Store(x.c, x.d) /\ Signed(n, x) /\ Own(x)
    BY MetIs DEF Met, Keeps
  <1>2. /\ GoodChan(c) /\ p \in PeerRecs /\ d \in DbRecs /\ out = Answer(n, c, p, d, e)
        /\ x.p.phase = "reestablish" /\ z.p \in PeerRecs
    BY <1>1 DEF NodeType, Answers, LinkType
  <1>3. e = reestablish(z.p)
    <2>1. z.p.phase # "down" /\ z.p.phase \in {"run", "closing", "reestablish", "down"}
      BY <1>1, <1>2 DEF Link, LinkPhase, PeerRecs
    <2>2. QED
      BY <1>1, <1>2, <2>1 DEF Link, LinkPhase
  <1>4. /\ p.nextR \in Nat /\ p.nextL \in Nat /\ z.p.nextL \in Nat /\ z.p.revs \in Nat
    BY <1>2 DEF PeerRecs
  <1>5. /\ again <=> Under(x, z)
        /\ e.nr = p.nextL - 2 <=> Owing(z, x)
        /\ e.type = "reestablish"
    <2>1. e.nc = z.p.nextL /\ e.nr = z.p.revs /\ e.type = "reestablish"
      BY <1>3 DEF reestablish
    <2>2. z.p.nextL = p.nextR - 1 <=> p.nextR = z.p.nextL + 1
      BY <1>4
    <2>3. QED
      BY <2>1, <2>2 DEF Under, Owing
  <1>6. \A T : Has(z.q, T) => \E g \in T : g.type = "reestablish"
    BY <1>1, AnswerSends
  <1>7. cm.type = "commit" /\ rv.type = "revoke"
    BY DEF CommitMsg, RevokeMsg
  <1>8. /\ \A k : Where(c, <<"local", k>>) = Mine(x, k)
        /\ \A k : Where(c, <<"remote", k>>) = Theirs(x, k)
    BY DEF Mine, Theirs
  <1>9. \A h : Where(c, h) \in {1, 16} => h \in ls
    BY <1>1 DEF Own, Last
  <1>10. /\ \A h : h \in in_state(c, 1) <=> Where(c, h) = 1
         /\ \A h : h \in in_state(c, 15) <=> Where(c, h) = 15
         /\ \A h : h \in in_state(c, 16) <=> Where(c, h) = 16
    BY DEF in_state, Where, State, NoHtlc
  <1>11. /\ in_state(c, 1) \subseteq {"local"} \X Nat
         /\ in_state(c, 15) \cup in_state(c, 16) \subseteq {"remote"} \X Nat
         /\ in_state(c, 1) \cup in_state(c, 15) \cup in_state(c, 16) \subseteq DOMAIN c.htlcs
         /\ \A h \in in_state(c, 1) : Amount(c, h) \in Nat
    <2>1. \A s \in {1, 15, 16} : /\ in_state(c, s) \subseteq {htlc_state_owner(s)} \X Nat
                                 /\ in_state(c, s) \subseteq DOMAIN c.htlcs
                                 /\ \A h \in in_state(c, s) : Amount(c, h) \in Nat
      <3>1. \A s \in {1, 15, 16} : s \in HtlcStates
        BY DEF HtlcStates
      <3>2. QED
        BY <1>2, <3>1, InState
    <2>2. /\ htlc_state_owner(1) = "local" /\ htlc_state_owner(15) = "remote"
          /\ htlc_state_owner(16) = "remote"
      BY DEF htlc_state_owner, RCVD_ADD_HTLC
    <2>3. QED
      BY <2>1, <2>2
  <1>12. /\ \A h \in in_state(c, 15) \cup in_state(c, 16) :
              /\ RemoveMsg(c, h).type \in {"fulfill", "fail"} /\ RemoveMsg(c, h).id = h[2]
              /\ RemoveMsg(c, h) \in Msgs
         /\ \A h : AddMsg(c, h).type = "add" /\ AddMsg(c, h).id = h[2]
                   /\ AddMsg(c, h).amount = c.htlcs[h].amount
         /\ \A h \in in_state(c, 1) : AddMsg(c, h) \in Msgs
         /\ FeeMsg(c).type = "fee" /\ ShutdownMsg.type = "shutdown"
    <2>1. \A h \in in_state(c, 15) \cup in_state(c, 16) : c.htlcs[h].r \in {"fulfill", "fail"}
      <3>1. \A h \in in_state(c, 15) \cup in_state(c, 16) :
              h \in DOMAIN c.htlcs /\ Where(c, h) \in {15, 16}
        BY <1>10, <1>11
      <3>2. Resolved(c) /\ c.htlcs \in HtlcMaps
        BY <1>1, <1>2 DEF Store, GoodChan, ChanRecs
      <3>3. \A h \in DOMAIN c.htlcs : c.htlcs[h].r \in {"none", "fulfill", "fail"}
        BY <3>2, WhereType
      <3>4. \A h \in DOMAIN c.htlcs : Where(c, h) \in {15, 16} => c.htlcs[h].r # "none"
        BY <3>2 DEF Resolved
      <3>5. QED
        BY <3>1, <3>3, <3>4
    <2>2. \A h \in in_state(c, 15) \cup in_state(c, 16) : h[2] \in Nat
      BY <1>11
    <2>3. \A h \in in_state(c, 1) : h[2] \in Nat
      BY <1>11
    <2>4. \A h \in in_state(c, 15) \cup in_state(c, 16) :
              /\ RemoveMsg(c, h).type \in {"fulfill", "fail"} /\ RemoveMsg(c, h).id = h[2]
              /\ RemoveMsg(c, h) \in Msgs
      BY <2>1, <2>2, MsgRemove DEF RemoveMsg
    <2>5. \A h \in in_state(c, 1) : AddMsg(c, h) \in Msgs
      BY <1>11, <2>3, MsgAdd DEF AddMsg
    <2>6. QED
      BY <2>4, <2>5 DEF AddMsg, Amount, FeeMsg, ShutdownMsg
  <1> HIDE DEF c, p, d, e, again, cm, rv
  <1>13. /\ \A T : Has(out, T) <=>
             \/ again /\ \/ \E h \in ls \cap in_state(c, 16) : RemoveMsg(c, h) \in T
                         \/ \E h \in ls \cap in_state(c, 1) : AddMsg(c, h) \in T
                         \/ c.opener = "local" /\ FeeMsg(c) \in T
                         \/ cm \in T
             \/ e.nr = p.nextL - 2 /\ rv \in T
             \/ p.sendShut /\ ShutdownMsg \in T
             \/ \E h \in in_state(c, 15) : RemoveMsg(c, h) \in T
         /\ \A k : One(out, RemoveOf(k)) /\ Before(out, AddOf(k), OfType("commit"))
         /\ \A k : <<"remote", k>> \notin in_state(c, 15) =>
                     Before(out, RemoveOf(k), OfType("commit"))
         /\ \A k : <<"remote", k>> \notin in_state(c, 16) =>
                     Before(out, OfType("commit"), RemoveOf(k))
         /\ d.wasRevoke => Before(out, OfType("commit"), OfType("revoke"))
         /\ ~d.wasRevoke => Before(out, OfType("revoke"), OfType("commit"))
    BY <1>2, Answered DEF again, cm, rv
  <1>14. /\ Has(out, OfType("commit")) <=> Under(x, z)
         /\ Has(out, OfType("revoke")) <=> Owing(z, x)
    <2>1. /\ Has(out, OfType("commit")) <=> e.nc = p.nextR - 1
          /\ Has(out, OfType("revoke")) <=> e.nr = p.nextL - 2
      <3>1. GoodChan(c) /\ p \in PeerRecs /\ d \in DbRecs /\ out = Answer(n, c, p, d, e)
        BY <1>2
      <3>2. /\ Has(out, OfType("commit")) <=> e.nc = p.nextR - 1
            /\ Has(out, OfType("revoke")) <=> e.nr = p.nextL - 2
            /\ ~Has(out, RevokeNot(p.nextL - 2)) /\ ~Has(out, OfType("reestablish"))
            /\ One(out, OfType("commit")) /\ One(out, OfType("revoke"))
        BY <3>1, AnswerOut
      <3>3. QED
        BY <3>2
    <2>2. QED
      BY <1>5, <2>1 DEF again
  <1>15. ASSUME NEW k \in Nat
         PROVE  /\ Has(out, AddOf(k)) <=> Under(x, z) /\ Mine(x, k) = 1
                /\ ~Has(out, AddNot(k, c.htlcs[<<"local", k>>].amount))
    <2>1. ASSUME Has(out, AddOf(k))
          PROVE  Under(x, z) /\ Mine(x, k) = 1
      <3>1. \A g \in AddOf(k) : g.type = "add" /\ g.id = k
        BY DEF AddOf
      <3>2. again /\ \E h \in ls \cap in_state(c, 1) : AddMsg(c, h) \in AddOf(k)
        BY <1>7, <1>12, <1>13, <2>1, <3>1
      <3>3. PICK h \in in_state(c, 1) : AddMsg(c, h) \in AddOf(k)
        BY <3>2
      <3>4. h = <<"local", k>>
        BY <1>11, <1>12, <3>1, <3>3
      <3>5. QED
        BY <1>5, <1>8, <1>10, <3>2, <3>3, <3>4
    <2>2. ASSUME Under(x, z), Mine(x, k) = 1
          PROVE  Has(out, AddOf(k))
      <3> DEFINE h == <<"local", k>>
      <3>1. h \in in_state(c, 1) /\ h \in ls /\ h[2] = k
        BY <1>8, <1>9, <1>10, <2>2
      <3> HIDE DEF h
      <3>2. AddMsg(c, h) \in AddOf(k)
        BY <1>12, <3>1 DEF AddOf
      <3>3. QED
        BY <1>5, <1>13, <2>2, <3>1, <3>2
    <2>3. ~Has(out, AddNot(k, c.htlcs[<<"local", k>>].amount))
      <3> DEFINE a == c.htlcs[<<"local", k>>].amount
                 T == AddNot(k, a)
      <3>1. \A g \in T : g.type = "add" /\ g.id = k /\ g.amount # a
        BY DEF AddNot
      <3> HIDE DEF T
      <3> SUFFICES ASSUME Has(out, T)
                   PROVE  FALSE
        BY DEF T
      <3>2. \E h \in ls \cap in_state(c, 1) : AddMsg(c, h) \in T
        BY <1>7, <1>12, <1>13, <3>1
      <3>3. PICK h \in in_state(c, 1) : AddMsg(c, h) \in T
        BY <3>2
      <3>4. h = <<"local", k>>
        BY <1>11, <1>12, <3>1, <3>3
      <3>5. QED
        BY <1>12, <3>1, <3>3, <3>4
    <2>4. QED
      BY <2>1, <2>2, <2>3
  <1>16. ASSUME NEW k \in Nat
         PROVE  Has(out, RemoveOf(k)) <=> \/ Under(x, z) /\ Theirs(x, k) = 16
                                          \/ Theirs(x, k) = 15
    <2>1. \A g \in RemoveOf(k) : g.type \in {"fulfill", "fail"} /\ g.id = k
      BY DEF RemoveOf
    <2>2. ASSUME Has(out, RemoveOf(k))
          PROVE  \/ Under(x, z) /\ Theirs(x, k) = 16
                 \/ Theirs(x, k) = 15
      <3>1. \/ again /\ \E h \in ls \cap in_state(c, 16) : RemoveMsg(c, h) \in RemoveOf(k)
            \/ \E h \in in_state(c, 15) : RemoveMsg(c, h) \in RemoveOf(k)
        BY <1>7, <1>12, <1>13, <2>1, <2>2
      <3>2. \A h \in in_state(c, 15) \cup in_state(c, 16) :
              RemoveMsg(c, h) \in RemoveOf(k) => h = <<"remote", k>>
        BY <1>11, <1>12, <2>1
      <3>3. QED
        BY <1>5, <1>8, <1>10, <3>1, <3>2
    <2>3. ASSUME (Under(x, z) /\ Theirs(x, k) = 16) \/ Theirs(x, k) = 15
          PROVE  Has(out, RemoveOf(k))
      <3> DEFINE h == <<"remote", k>>
      <3>1. h[2] = k /\ \/ again /\ h \in ls \cap in_state(c, 16)
                        \/ h \in in_state(c, 15)
        BY <1>5, <1>8, <1>9, <1>10, <2>3
      <3> HIDE DEF h
      <3>2. RemoveMsg(c, h) \in RemoveOf(k)
        BY <1>12, <3>1 DEF RemoveOf
      <3>3. QED
        BY <1>13, <3>1, <3>2
    <2>4. QED
      BY <2>2, <2>3
  <1>17. ASSUME NEW k \in Nat
         PROVE  /\ One(out, RemoveOf(k)) /\ Before(out, AddOf(k), OfType("commit"))
                /\ Theirs(x, k) # 15 => Before(out, RemoveOf(k), OfType("commit"))
                /\ Theirs(x, k) # 16 => Before(out, OfType("commit"), RemoveOf(k))
    BY <1>8, <1>10, <1>13
  <1>18. QED
    BY <1>5, <1>6, <1>13, <1>14, <1>15, <1>16, <1>17 DEF c, d, e

(* peer_reconnect() *)
LEMMA MatchAnswers ==
    ASSUME NEW n \in Nodes, NEW x, NEW m, NEW z, Met(n, x, m, z),
           NEW y, NEW out \in Seq(Msgs), Answers(n, x, y, out), NEW w, Hears(z, w, out)
    PROVE  Matches(y, w) /\ Matches(w, y)
  <1> DEFINE q == z.q
             r == w.q
  <1>1. /\ LinkType(x) /\ LinkType(z) /\ LinkNums(x, z) /\ LinkNums(z, x)
        /\ x.q \in Seq(Msgs) /\ q \in Seq(Msgs) /\ InOrder(x, z) /\ InOrder(z, x)
    BY MetIs
  <1>2. /\ \A k : Mine(w, k) = Mine(z, k) /\ Theirs(w, k) = Theirs(z, k)
        /\ Talks(w) <=> Talks(z)
        /\ w.d.wasRevoke = z.d.wasRevoke /\ w.p = z.p /\ w.c = z.c /\ r = q \o out
    BY HearsSame
  <1>3. /\ y.c = x.c /\ y.d = x.d /\ PeerKeeps(x.p, y.p) /\ x.q # << >> /\ y.q = Tail(x.q)
        /\ Talks(y) /\ ~Talks(x)
    BY DEF Answers, Talks, Goes
  <1>4. \A k : Mine(y, k) = Mine(x, k) /\ Theirs(y, k) = Theirs(x, k)
    BY <1>3 DEF Mine, Theirs
  <1>5. /\ Under(y, w) <=> Under(x, z)
        /\ Owing(y, w) <=> Owing(x, z)
        /\ Under(w, y) <=> Under(z, x)
        /\ Owing(w, y) <=> Owing(z, x)
    <2>1. SameNums(x.p, y.p) /\ SameNums(z.p, w.p)
      BY <1>1, <1>2, <1>3 DEF PeerKeeps, SameNums, LinkType
    <2>2. QED
      BY <2>1, FlagsSame
  <1>6. /\ Has(out, OfType("commit")) <=> Under(x, z)
        /\ Has(out, OfType("revoke")) <=> Owing(z, x)
        /\ x.d.wasRevoke => Before(out, OfType("commit"), OfType("revoke"))
        /\ ~x.d.wasRevoke => Before(out, OfType("revoke"), OfType("commit"))
    BY AnswerMeans
  <1>7. ASSUME NEW k \in Nat
        PROVE  /\ Has(out, AddOf(k)) <=> Under(x, z) /\ Mine(x, k) = 1
               /\ ~Has(out, AddNot(k, x.c.htlcs[<<"local", k>>].amount))
               /\ Before(out, AddOf(k), OfType("commit"))
               /\ Has(out, RemoveOf(k)) <=> \/ Under(x, z) /\ Theirs(x, k) = 16
                                            \/ Theirs(x, k) = 15
               /\ One(out, RemoveOf(k))
               /\ Theirs(x, k) # 15 => Before(out, RemoveOf(k), OfType("commit"))
               /\ Theirs(x, k) # 16 => Before(out, OfType("commit"), RemoveOf(k))
    BY AnswerMeans
  <1>8. /\ \A T : Has(q, T) => \E e \in T : e.type = "reestablish"
        /\ Head(x.q).type = "reestablish"
    BY AnswerMeans
  <1>9. /\ ~Has(q, OfType("commit")) /\ ~Has(q, OfType("revoke"))
        /\ \A k : ~Has(q, AddOf(k)) /\ ~Has(q, RemoveOf(k))
        /\ \A k, a : ~Has(q, AddNot(k, a))
    BY <1>8 DEF OfType, AddOf, RemoveOf, AddNot
  <1>10. \A S, T : ~Has(q, S) => Before(q, S, T) /\ Before(q, T, S) /\ One(q, S)
    BY DEF Has, Before, One
  <1> HIDE DEF q, r
  <1>11. /\ \A T : Has(r, T) <=> Has(q, T) \/ Has(out, T)
         /\ \A T : One(r, T) <=> One(q, T) /\ One(out, T) /\ ~(Has(q, T) /\ Has(out, T))
         /\ \A S, T : Before(r, S, T) <=> /\ Before(q, S, T) /\ Before(out, S, T)
                                          /\ ~(Has(q, T) /\ Has(out, S))
    <2>1. q \in Seq(Msgs) /\ r = q \o out
      BY <1>1, <1>2
    <2>2. QED
      BY <2>1, Queued
  <1>12. InOrder(y, w)
    <2>1. Has(r, OfType("commit")) <=> Under(x, z)
      BY <1>6, <1>9, <1>11
    <2>2. Has(r, OfType("revoke")) <=> Owing(z, x)
      BY <1>6, <1>9, <1>11
    <2>3. /\ x.d.wasRevoke => Before(r, OfType("commit"), OfType("revoke"))
          /\ ~x.d.wasRevoke => Before(r, OfType("revoke"), OfType("commit"))
      BY <1>6, <1>9, <1>10, <1>11
    <2>4. QED
      BY <1>3, <1>5, <2>1, <2>2, <2>3 DEF InOrder, r
  <1>13. \A k : /\ Head(x.q) \notin AddOf(k) /\ Head(x.q) \notin RemoveOf(k)
    BY <1>8 DEF AddOf, RemoveOf
  <1>14. InOrder(w, y)
    <2>1. SignsAs(x.q, y.q)
      BY <1>1, <1>3, <1>8, AsRead
    <2>2. /\ Talks(w) => Talks(z)
          /\ Under(w, y) => Under(z, x)
          /\ Owing(y, w) => Owing(x, z)
      BY <1>2, <1>5
    <2>3. QED
      BY <1>1, <1>2, <2>1, <2>2, OrderStays
  <1>15. ASSUME NEW k \in Nat
         PROVE  Match(y, w, k)
    <2>1. Paired(x, z, k) /\ SameAmount(x, z, k) /\ AddGoes(x, z, k) /\ RemoveGoes(x, z, k)
      BY MetIs
    <2>2. Paired(y, w, k)
      BY <1>2, <1>3, <1>4, <1>5, <2>1, PairStays
    <2>3. SameAmount(y, w, k)
      <3>1. ~Has(r, AddNot(k, x.c.htlcs[<<"local", k>>].amount))
        BY <1>7, <1>9, <1>11
      <3>2. QED
        BY <1>2, <1>3, <1>4, <2>1, <3>1 DEF SameAmount, r
    <2>4. AddGoes(y, w, k)
      <3>1. Has(r, AddOf(k)) <=> Under(x, z) /\ Mine(x, k) = 1
        BY <1>7, <1>9, <1>11
      <3>2. Before(r, AddOf(k), OfType("commit"))
        BY <1>7, <1>9, <1>10, <1>11
      <3>3. Mine(x, k) # 0
        BY <1>3, <2>1 DEF AddGoes
      <3>4. Mine(x, k) = 1 /\ Theirs(z, k) = NoHtlc => Under(x, z)
        BY <2>1 DEF Paired, Ends, NoHtlc
      <3>5. QED
        BY <1>2, <1>3, <1>4, <3>1, <3>2, <3>3, <3>4 DEF AddGoes, r
    <2>5. RemoveGoes(y, w, k)
      <3>1. RemovesAs(x.q, y.q, k)
        BY <1>1, <1>3, <1>13, AsRead
      <3>2. QED
        BY <1>2, <1>4, <2>1, <3>1, RemoveStays
    <2>6. QED
      BY <2>2, <2>3, <2>4, <2>5 DEF Match
  <1>16. ASSUME NEW k \in Nat
         PROVE  Match(w, y, k)
    <2>1. Paired(z, x, k) /\ SameAmount(z, x, k) /\ AddGoes(z, x, k) /\ RemoveGoes(z, x, k)
      BY MetIs
    <2>2. Paired(w, y, k)
      BY <1>2, <1>3, <1>4, <1>5, <2>1, PairStays
    <2>3. SameAmount(w, y, k) /\ AddGoes(w, y, k)
      <3>1. AddsAs(x.q, y.q, k)
        BY <1>1, <1>3, <1>13, AsRead
      <3>2. SameSums2(z, w, x, y, k)
        BY <1>2, <1>3, <1>4 DEF SameSums2
      <3>3. QED
        BY <1>2, <1>4, <2>1, <3>1, <3>2, AddStays
    <2>4. RemoveGoes(w, y, k)
      <3>1. Has(r, RemoveOf(k)) <=> \/ Under(x, z) /\ Theirs(x, k) = 16
                                    \/ Theirs(x, k) = 15
        BY <1>7, <1>9, <1>11
      <3>2. One(r, RemoveOf(k))
        BY <1>7, <1>9, <1>10, <1>11
      <3>3. /\ Theirs(x, k) = 16 => Before(r, RemoveOf(k), OfType("commit"))
            /\ Theirs(x, k) = 15 => Before(r, OfType("commit"), RemoveOf(k))
        <4>1. /\ Before(r, RemoveOf(k), OfType("commit")) <=>
                   Before(out, RemoveOf(k), OfType("commit"))
              /\ Before(r, OfType("commit"), RemoveOf(k)) <=>
                   Before(out, OfType("commit"), RemoveOf(k))
          BY <1>9, <1>10, <1>11
        <4>2. /\ Theirs(x, k) # 15 => Before(out, RemoveOf(k), OfType("commit"))
              /\ Theirs(x, k) # 16 => Before(out, OfType("commit"), RemoveOf(k))
          BY <1>7
        <4>3. /\ Theirs(x, k) = 16 => Theirs(x, k) # 15
              /\ Theirs(x, k) = 15 => Theirs(x, k) # 16
          OBVIOUS
        <4>4. QED
          BY <4>1, <4>2, <4>3
      <3>4. Mine(z, k) # 5
        BY <1>3, <2>1 DEF RemoveGoes
      <3>5. Under(x, z) => ~Owing(x, z)
        BY <1>1, OneAtATime
      <3>6. /\ Theirs(x, k) = 15 => Mine(z, k) = 4
            /\ Under(x, z) /\ Theirs(x, k) = 16 => Mine(z, k) = 4
            /\ Mine(z, k) = 4 /\ Theirs(x, k) = 16 => Under(x, z)
        BY <2>1, <3>4, <3>5 DEF Paired, Ends, NoHtlc
      <3>7. QED
        BY <1>2, <1>3, <1>4, <3>1, <3>2, <3>3, <3>4, <3>6 DEF RemoveGoes, r
    <2>5. QED
      BY <2>2, <2>3, <2>4 DEF Match
  <1>17. QED
    BY <1>12, <1>14, <1>15, <1>16 DEF Matches

(* The connection breaks. *)
LEMMA MatchBreak ==
    ASSUME NEW n \in Nodes, NEW x, NodeType(n, x), NEW y, Breaks(n, x, y), Store(x.c, x.d),
           NEW m \in Nodes, NEW z, NodeType(m, z), NEW w, Breaks(m, z, w), Store(z.c, z.d),
           Nums(x), Nums(z), NodeType(n, y), NodeType(m, w), Matches(x, z)
    PROVE  Matches(y, w)
  <1>1. /\ \A h : Kept(Where(x.c, h), Where(y.c, h))
        /\ \A h \in DOMAIN y.c.htlcs : y.c.htlcs[h].amount = x.c.htlcs[h].amount
        /\ SameNums(x.p, y.p) /\ y.p.phase = "down" /\ y.d = x.d /\ y.q = << >>
    <2>1. \A h : Kept(Where(x.c, h), Where(y.c, h))
      BY BreakMoves
    <2>2. \A h \in DOMAIN y.c.htlcs : y.c.htlcs[h].amount = x.c.htlcs[h].amount
      BY BreakMoves
    <2>3. SameNums(x.p, y.p) /\ y.p.phase = "down" /\ y.d = x.d /\ y.q = << >>
      BY BreakMoves
    <2>4. QED
      BY <2>1, <2>2, <2>3
  <1>2. /\ \A h : Kept(Where(z.c, h), Where(w.c, h))
        /\ \A h \in DOMAIN w.c.htlcs : w.c.htlcs[h].amount = z.c.htlcs[h].amount
        /\ SameNums(z.p, w.p) /\ w.p.phase = "down" /\ w.d = z.d /\ w.q = << >>
    <2>1. \A h : Kept(Where(z.c, h), Where(w.c, h))
      BY BreakMoves
    <2>2. \A h \in DOMAIN w.c.htlcs : w.c.htlcs[h].amount = z.c.htlcs[h].amount
      BY BreakMoves
    <2>3. SameNums(z.p, w.p) /\ w.p.phase = "down" /\ w.d = z.d /\ w.q = << >>
      BY BreakMoves
    <2>4. QED
      BY <2>1, <2>2, <2>3
  <1>3. /\ Under(y, w) <=> Under(x, z)
        /\ Owing(y, w) <=> Owing(x, z)
        /\ Under(w, y) <=> Under(z, x)
        /\ Owing(w, y) <=> Owing(z, x)
    BY <1>1, <1>2, FlagsSame
  <1>4. ~Talks(y) /\ ~Talks(w)
    BY <1>1, <1>2 DEF Talks
  <1>5. /\ \A T : ~Has(y.q, T) /\ ~Has(w.q, T) /\ One(y.q, T)
        /\ \A S, T : Before(y.q, S, T) /\ Before(w.q, S, T)
    BY <1>1, <1>2, NoneQueued
  <1>6. InOrder(y, w)
    BY <1>4, <1>5 DEF InOrder
  <1>7. ASSUME NEW k \in Nat
        PROVE  Match(y, w, k)
    <2>1. Paired(x, z, k) /\ SameAmount(x, z, k)
      BY DEF Matches, Match
    <2>2. Kept(Mine(x, k), Mine(y, k)) /\ Kept(Theirs(z, k), Theirs(w, k))
      BY <1>1, <1>2 DEF Mine, Theirs
    <2>3. Mine(x, k) \in 0..20 /\ Theirs(z, k) \in 0..20
      BY EndsType
    <2>4. /\ Mine(x, k) = 5 => Mine(y, k) = 4
          /\ Mine(x, k) \in {0, NoHtlc} => Mine(y, k) = NoHtlc
          /\ Mine(x, k) \notin {0, 5, 14, NoHtlc} => Mine(y, k) \in {NoHtlc, Mine(x, k)}
          /\ Mine(x, k) \notin {0, 5, 10, 14, NoHtlc} => Mine(y, k) = Mine(x, k)
      BY <2>2, <2>3 DEF Kept, NoHtlc
    <2>5. /\ Theirs(z, k) \in {10, NoHtlc} => Theirs(w, k) = NoHtlc
          /\ Theirs(z, k) = 14 => Theirs(w, k) \in {14, 15}
          /\ Theirs(z, k) \notin {0, 5, 10, 14, NoHtlc} => Theirs(w, k) = Theirs(z, k)
      BY <2>2, <2>3 DEF Kept, NoHtlc
    <2>6. Paired(y, w, k)
      BY <1>1, <1>2, <1>3, <2>1, <2>4, <2>5 DEF Paired, Ends, NoHtlc
    <2>7. SameAmount(y, w, k)
      <3>1. y.c.htlcs \in HtlcMaps /\ w.c.htlcs \in HtlcMaps
        BY DEF NodeType, GoodChan, ChanRecs
      <3>2. /\ Mine(y, k) # NoHtlc =>
                 y.c.htlcs[<<"local", k>>].amount = x.c.htlcs[<<"local", k>>].amount
            /\ Theirs(w, k) # NoHtlc =>
                 w.c.htlcs[<<"remote", k>>].amount = z.c.htlcs[<<"remote", k>>].amount
        BY <1>1, <1>2, <3>1, WhereType DEF Mine, Theirs
      <3>3. /\ Mine(y, k) # NoHtlc => Mine(x, k) # NoHtlc
            /\ Theirs(w, k) # NoHtlc => Theirs(z, k) # NoHtlc
        BY <2>4, <2>5
      <3>4. QED
        BY <1>5, <2>1, <3>2, <3>3 DEF SameAmount
    <2>8. AddGoes(y, w, k)
      <3>1. Mine(y, k) # 0
        BY <2>2 DEF Kept, NoHtlc
      <3>2. QED
        BY <1>4, <1>5, <3>1 DEF AddGoes
    <2>9. RemoveGoes(y, w, k)
      <3>1. Mine(y, k) # 5
        BY <2>2 DEF Kept, NoHtlc
      <3>2. QED
        BY <1>4, <1>5, <3>1 DEF RemoveGoes
    <2>10. QED
      BY <2>6, <2>7, <2>8, <2>9 DEF Match
  <1>8. QED
    BY <1>6, <1>7 DEF Matches

(* A step of x. *)
LEMMA MatchStep ==
    ASSUME NEW n \in Nodes, NEW x, NEW m \in Nodes, NEW z, Met(n, x, m, z),
           NEW y, NEW out \in Seq(Msgs), NodeStep(n, x, y, out), NEW w, Hears(z, w, out)
    PROVE  Matches(y, w) /\ Matches(w, y)
  <1>1. NodeType(n, x) /\ NodeType(n, y)
    <2>1. NodeType(n, x)
      BY MetIs
    <2>2. QED
      BY <2>1, NodeStepType
  <1>2. GotAdd(n, x, y, out) => <<"remote", Head(x.q).id>> \notin DOMAIN x.c.htlcs
    <2>1. /\ NodeType(n, x) /\ NodeType(m, z) /\ Keeps(n, x) /\ Own(x) /\ Own(z)
          /\ Link(x, z) /\ Link(z, x) /\ Fresh(x, z) /\ Fresh(z, x)
      BY DEF Met
    <2>2. QED
      BY <2>1, FreshStep
  <1>3. CASE Quiet(n, x, y, out) \/ SavesResolution(n, x, y, out) \/ GotFee(n, x, y, out)
    <2>1. Idles(x, y, out)
      BY <1>1, <1>3, IdleSteps
    <2>2. QED
      BY <1>1, <2>1, MatchIdle
  <1>4. CASE Offers(n, x, y, out)
    BY <1>1, <1>4, MatchOffers
  <1>5. CASE Resolves(n, x, y, out)
    BY <1>1, <1>5, MatchResolves
  <1>6. CASE GotAdd(n, x, y, out)
    BY <1>1, <1>2, <1>6, MatchAdd
  <1>7. CASE GotRemove(n, x, y, out)
    BY <1>1, <1>7, MatchRemove
  <1>8. CASE SendsCommit(n, x, y, out)
    BY <1>1, <1>8, MatchSent
  <1>9. CASE GotCommit(n, x, y, out)
    BY <1>1, <1>9, MatchTook
  <1>10. CASE GotRevoke(n, x, y, out)
    BY <1>1, <1>10, MatchAcked
  <1>11. CASE Answers(n, x, y, out)
    BY <1>11, MatchAnswers
  <1>12. QED
    BY <1>3, <1>4, <1>5, <1>6, <1>7, <1>8, <1>9, <1>10, <1>11 DEF NodeStep

(* The nodes reconnect. *)
LEMMA MatchReopen ==
    ASSUME NEW x, LinkType(x), NEW z, LinkType(z), Matches(x, z),
           NEW y, Reopens(x, y, z), NEW w, Reopens(z, w, x)
    PROVE  Matches(y, w)
  <1> DEFINE e == reestablish(z.p)
             f == reestablish(x.p)
  <1>1. /\ y.c = x.c /\ w.c = z.c /\ y.d = x.d /\ w.d = z.d /\ y.q = <<e>> /\ w.q = <<f>>
        /\ SameNums(x.p, y.p) /\ SameNums(z.p, w.p)
        /\ ~Talks(x) /\ ~Talks(z) /\ ~Talks(y) /\ ~Talks(w)
    <2>1. /\ y.c = x.c /\ w.c = z.c /\ y.d = x.d /\ w.d = z.d /\ y.q = <<e>> /\ w.q = <<f>>
          /\ y.p = [x.p EXCEPT !.phase = "reestablish"] /\ x.p.phase = "down"
          /\ w.p = [z.p EXCEPT !.phase = "reestablish"] /\ z.p.phase = "down"
          /\ x.p \in PeerRecs /\ z.p \in PeerRecs
      BY DEF Reopens, LinkType
    <2>2. /\ y.p.phase = "reestablish" /\ w.p.phase = "reestablish"
          /\ SameNums(x.p, y.p) /\ SameNums(z.p, w.p)
      BY <2>1 DEF SameNums, PeerRecs
    <2>3. QED
      BY <2>1, <2>2 DEF Talks
  <1>2. e \in Msgs /\ e.type = "reestablish" /\ f \in Msgs /\ f.type = "reestablish"
    BY MsgReestablish DEF reestablish, LinkType, PeerRecs
  <1> HIDE DEF e, f
  <1>3. /\ \A T : Has(y.q, T) => \E u \in T : u.type = "reestablish"
        /\ \A T : Has(w.q, T) => \E u \in T : u.type = "reestablish"
        /\ \A T : One(y.q, T)
    BY <1>1, <1>2, OneQueued
  <1>4. /\ ~Has(y.q, OfType("commit")) /\ ~Has(y.q, OfType("revoke"))
        /\ ~Has(w.q, OfType("commit")) /\ ~Has(w.q, OfType("revoke"))
        /\ \A k : ~Has(y.q, RemoveOf(k)) /\ ~Has(w.q, AddOf(k))
        /\ \A k, a : ~Has(w.q, AddNot(k, a))
    BY <1>3 DEF OfType, AddOf, RemoveOf, AddNot
  <1>5. /\ \A S, T : ~Has(y.q, S) => Before(y.q, S, T) /\ Before(y.q, T, S)
        /\ \A S, T : ~Has(w.q, S) => Before(w.q, S, T) /\ Before(w.q, T, S)
    BY NoneBefore
  <1>6. /\ Under(y, w) <=> Under(x, z)
        /\ Owing(y, w) <=> Owing(x, z)
        /\ Under(w, y) <=> Under(z, x)
        /\ Owing(w, y) <=> Owing(z, x)
    BY <1>1, FlagsSame
  <1>7. InOrder(y, w)
    BY <1>1, <1>4, <1>5 DEF InOrder
  <1>8. ASSUME NEW k \in Nat
        PROVE  Match(y, w, k)
    <2>1. Paired(x, z, k) /\ SameAmount(x, z, k) /\ AddGoes(x, z, k) /\ RemoveGoes(x, z, k)
      BY DEF Matches, Match
    <2>2. Mine(y, k) = Mine(x, k) /\ Theirs(w, k) = Theirs(z, k)
      BY <1>1 DEF Mine, Theirs
    <2>3. Paired(y, w, k)
      BY <1>1, <1>6, <2>1, <2>2, PairStays
    <2>4. SameAmount(y, w, k)
      BY <1>1, <1>4, <2>1, <2>2 DEF SameAmount
    <2>5. AddGoes(y, w, k)
      <3>1. Mine(y, k) # 0
        BY <1>1, <2>1, <2>2 DEF AddGoes
      <3>2. QED
        BY <1>1, <1>4, <1>5, <3>1 DEF AddGoes
    <2>6. RemoveGoes(y, w, k)
      <3>1. Mine(y, k) # 5
        BY <1>1, <2>1, <2>2 DEF RemoveGoes
      <3>2. QED
        BY <1>1, <1>3, <1>4, <1>5, <3>1 DEF RemoveGoes
    <2>7. QED
      BY <2>3, <2>4, <2>5, <2>6 DEF Match
  <1>9. QED
    BY <1>7, <1>8 DEF Matches

(* At first. *)
LEMMA MatchInit ==
    ASSUME Init, NEW n \in Nodes
    PROVE  Matches(Node(n), Node(Peer(n)))
  <1> DEFINE x == Node(n)
             z == Node(Peer(n))
  <1>1. /\ \A h : Where(x.c, h) = NoHtlc
        /\ x.q = << >> /\ x.p.nextL = 1 /\ x.p.nextR = 1 /\ x.p.revs = 0
    BY KeepsInit
  <1>2. /\ \A h : Where(z.c, h) = NoHtlc
        /\ z.q = << >> /\ z.p.nextL = 1 /\ z.p.nextR = 1 /\ z.p.revs = 0
    BY KeepsInit, TwoNodes
  <1> HIDE DEF x, z
  <1>3. ~Under(x, z) /\ ~Owing(z, x)
    BY <1>1, <1>2 DEF Under, Owing
  <1>4. /\ \A T : ~Has(x.q, T) /\ ~Has(z.q, T) /\ One(x.q, T)
        /\ \A S, T : Before(x.q, S, T) /\ Before(z.q, S, T)
    BY <1>1, <1>2, NoneQueued
  <1>5. InOrder(x, z)
    BY <1>3, <1>4 DEF InOrder
  <1>6. \A k : Mine(x, k) = NoHtlc /\ Theirs(z, k) = NoHtlc
    BY <1>1, <1>2 DEF Mine, Theirs
  <1>7. \A k \in Nat : Match(x, z, k)
    <2> TAKE k \in Nat
    <2>1. Paired(x, z, k) /\ SameAmount(x, z, k)
      BY <1>6 DEF Paired, Ends, SameAmount
    <2>2. AddGoes(x, z, k) /\ RemoveGoes(x, z, k)
      BY <1>4, <1>6 DEF AddGoes, RemoveGoes, NoHtlc
    <2>3. QED
      BY <2>1, <2>2 DEF Match
  <1>8. QED
    BY <1>5, <1>7 DEF Matches, x, z

-----------------------------------------------------------------------------
(* What the two nodes keep and agree on, HTLC by HTLC.                      *)
MatchInv ==
    /\ SettleInv
    /\ \A n \in Nodes : Matches(Node(n), Node(Peer(n)))

(* At every node. *)
LEMMA MatchIs ==
    ASSUME MatchInv, NEW n \in Nodes
    PROVE  /\ Peer(n) \in Nodes /\ Peer(Peer(n)) = n
           /\ NodeType(n, Node(n)) /\ Nums(Node(n)) /\ Keeps(n, Node(n))
           /\ Met(n, Node(n), Peer(n), Node(Peer(n)))
           /\ Settles(Node(n), Node(Peer(n)))
  BY TwoNodes DEF MatchInv, SettleInv, KeepInv, LinkInv, TypeInv, Met

(* In every step. *)
LEMMA MatchNext ==
    ASSUME MatchInv, [Next]_vars
    PROVE  MatchInv'
  <1>1. TypeInv' /\ Steps3 /\ SettleInv'
    BY TypeStep, SettleNext DEF LinkInv, KeepInv, SettleInv, MatchInv
  <1>2. SUFFICES \A n \in Nodes : Matches(Node(n)', Node(Peer(n))')
    BY <1>1 DEF MatchInv
  <1>3. CASE \E n \in Nodes : \E out \in Seq(Msgs) :
               NodeStep(n, Node(n), Node(n)', out) /\ Hears(Node(Peer(n)), Node(Peer(n))', out)
    <2>1. PICK n \in Nodes, out \in Seq(Msgs) :
               NodeStep(n, Node(n), Node(n)', out) /\ Hears(Node(Peer(n)), Node(Peer(n))', out)
      BY <1>3
    <2> DEFINE x == Node(n)
               z == Node(Peer(n))
               y == Node(n)'
               w == Node(Peer(n))'
               m == Peer(n)
    <2>2. m \in Nodes /\ Met(n, x, m, z) /\ NodeStep(n, x, y, out) /\ Hears(z, w, out)
      BY <2>1, MatchIs
    <2> HIDE DEF x, y, z, w, m
    <2>3. Matches(y, w) /\ Matches(w, y)
      BY <2>2, MatchStep
    <2>4. (\A k \in Nodes : k = n \/ k = Peer(n)) /\ Peer(Peer(n)) = n
      BY TwoNodes
    <2>5. QED
      BY <2>3, <2>4 DEF x, y, z, w, m
  <1>4. CASE \A n \in Nodes : Breaks(n, Node(n), Node(n)')
    <2> SUFFICES ASSUME NEW n \in Nodes
                 PROVE  Matches(Node(n)', Node(Peer(n))')
      OBVIOUS
    <2> DEFINE x == Node(n)
               z == Node(Peer(n))
               y == Node(n)'
               w == Node(Peer(n))'
               m == Peer(n)
    <2>1. m \in Nodes
      BY TwoNodes
    <2>2. /\ NodeType(n, x) /\ NodeType(m, z) /\ Nums(x) /\ Nums(z)
          /\ Keeps(n, x) /\ Keeps(m, z) /\ Matches(x, z)
          /\ Breaks(n, x, y) /\ Breaks(m, z, w)
      BY <1>4, <2>1, MatchIs DEF MatchInv
    <2> HIDE DEF x, y, z, w, m
    <2>3. Store(x.c, x.d) /\ Store(z.c, z.d)
      BY <2>2 DEF Keeps
    <2>4. NodeType(n, y) /\ NodeType(m, w)
      BY <2>1, <2>2, BreakType
    <2>5. Matches(y, w)
      BY <2>1, <2>2, <2>3, <2>4, MatchBreak
    <2>6. QED
      BY <2>5 DEF y, w
  <1>5. CASE \A n \in Nodes : Reopens(Node(n), Node(n)', Node(Peer(n)))
    <2> SUFFICES ASSUME NEW n \in Nodes
                 PROVE  Matches(Node(n)', Node(Peer(n))')
      OBVIOUS
    <2> DEFINE x == Node(n)
               z == Node(Peer(n))
               y == Node(n)'
               w == Node(Peer(n))'
    <2>1. Peer(n) \in Nodes /\ Peer(Peer(n)) = n
      BY TwoNodes
    <2>2. /\ NodeType(n, x) /\ NodeType(Peer(n), z) /\ Matches(x, z)
          /\ Reopens(x, y, z) /\ Reopens(z, w, x)
      BY <1>5, <2>1, MatchIs DEF MatchInv
    <2> HIDE DEF x, y, z, w
    <2>3. LinkType(x) /\ LinkType(z)
      BY <2>2 DEF NodeType, LinkType
    <2>4. Matches(y, w)
      BY <2>2, <2>3, MatchReopen
    <2>5. QED
      BY <2>4 DEF y, w
  <1>6. CASE \A n \in Nodes : Node(n)' = Node(n)
    BY <1>6, TwoNodes DEF MatchInv
  <1>7. QED
    BY <1>1, <1>3, <1>4, <1>5, <1>6 DEF Steps3

-----------------------------------------------------------------------------
(* The balances of the two nodes.                                           *)

(* b takes the terms f of S to the terms g of T, one to one. *)
OneToOne(b, f, g, S, T) ==
    /\ \A p \in S : b[p] \in T /\ f[p] \in Nat /\ g[b[p]] = f[p]
    /\ \A v \in T : \E p \in S : b[p] = v
    /\ \A p, q \in S : b[p] = b[q] => p = q

(* Their sums are equal. *)
LEMMA SumMapped ==
    ASSUME NEW f, NEW g, NEW S, IsFiniteSet(S), NEW T, IsFiniteSet(T), NEW b,
           OneToOne(b, f, g, S, T)
    PROVE  SumOver(g, T) = SumOver(f, S)
  <1> DEFINE Image(U) == {b[p] : p \in U}
             Good == {U \in SUBSET S : SumOver(g, Image(U)) = SumOver(f, U)}
  <1>0. /\ \A p \in S : b[p] \in T /\ f[p] \in Nat /\ g[b[p]] = f[p]
        /\ \A v \in T : \E p \in S : b[p] = v
        /\ \A p, q \in S : b[p] = b[q] => p = q
    BY DEF OneToOne
  <1>1. ASSUME NEW U \in SUBSET S, \A V \in SUBSET U : V # U => V \in Good
        PROVE  U \in Good
    <2>1. CASE U = {}
      <3>1. Image(U) = {}
        BY <2>1
      <3>2. QED
        BY <2>1, <3>1, SumEmpty
    <2>2. CASE U # {}
      <3>1. PICK p \in U : TRUE
        BY <2>2
      <3>2. IsFiniteSet(U)
        BY FS_Subset
      <3>3. IsFiniteSet(Image(U))
        <4>1. Image(U) \subseteq T
          BY <1>0
        <4>2. QED
          BY <4>1, FS_Subset
      <3>4. Image(U) \ {b[p]} = Image(U \ {p}) /\ b[p] \in Image(U)
        BY <1>0
      <3>5. SumOver(g, Image(U \ {p})) = SumOver(f, U \ {p})
        BY <1>1, <3>1
      <3>6. SumOver(f, U) = f[p] + SumOver(f, U \ {p})
        BY <1>0, <3>2, SumRemove
      <3>7. \A v \in Image(U) : g[v] \in Nat
        BY <1>0
      <3> DEFINE I == Image(U)
      <3>8. IsFiniteSet(I) /\ b[p] \in I /\ \A v \in I : g[v] \in Nat
        BY <3>3, <3>4, <3>7
      <3> HIDE DEF I
      <3>9. SumOver(g, I) = g[b[p]] + SumOver(g, I \ {b[p]})
        BY <3>8, SumRemove
      <3>10. SumOver(g, Image(U)) = f[p] + SumOver(g, Image(U \ {p}))
        BY <1>0, <3>4, <3>9 DEF I
      <3>11. SumOver(g, Image(U)) = SumOver(f, U)
        BY <3>5, <3>6, <3>10
      <3>12. QED
        BY <3>11
    <2>3. QED
      BY <2>1, <2>2
  <1>2. (SUBSET S) \subseteq Good
    <2> HIDE DEF Good
    <2>1. QED
      BY <1>1, SubsetInduction
  <1>3. Image(S) = T
    BY <1>0
  <1>4. QED
    BY <1>2, <1>3

(* The HTLC as the other node knows it. *)
Mirror(h) == <<Other(h[1]), h[2]>>

(* That is so both ways. *)
LEMMA MirrorTwice ==
    ASSUME NEW h \in HtlcKeys
    PROVE  /\ Mirror(h) \in HtlcKeys /\ Mirror(Mirror(h)) = h
           /\ Mirror(h)[1] = Other(h[1]) /\ Mirror(h)[2] = h[2] /\ h[2] \in Nat
           /\ h[1] \in Sides /\ h = <<h[1], h[2]>>
  BY DEF Mirror, HtlcKeys, Sides, Other

(* Two nodes' sums over HTLCs that they both know. *)
LEMMA MirrorSums ==
    ASSUME NEW c, c.htlcs \in HtlcMaps, NEW e, e.htlcs \in HtlcMaps,
           NEW S, S \subseteq DOMAIN c.htlcs, NEW T, T \subseteq DOMAIN e.htlcs,
           \A h \in HtlcKeys : h \in S <=> Mirror(h) \in T,
           \A h \in S : e.htlcs[Mirror(h)].amount = c.htlcs[h].amount
    PROVE  SumAmounts(e, T) = SumAmounts(c, S)
  <1> DEFINE f == [h \in DOMAIN c.htlcs |-> Amount(c, h)]
             g == [h \in DOMAIN e.htlcs |-> Amount(e, h)]
             b == [h \in S |-> Mirror(h)]
  <1>1. S \subseteq HtlcKeys /\ T \subseteq HtlcKeys
    BY HtlcMapElim
  <1>2. IsFiniteSet(S) /\ IsFiniteSet(T)
    BY AmountsType
  <1>3. \A h \in S : f[h] \in Nat /\ Amount(c, h) = f[h]
    BY HtlcMapElim DEF Amount, HtlcRecs
  <1>4. \A h \in T : g[h] \in Nat /\ Amount(e, h) = g[h]
    BY HtlcMapElim DEF Amount, HtlcRecs
  <1>5. \A h \in S : b[h] \in T /\ g[b[h]] = f[h]
    <2> TAKE h \in S
    <2>1. b[h] = Mirror(h) /\ Mirror(h) \in T
      BY <1>1
    <2> HIDE DEF b, f, g
    <2>2. g[Mirror(h)] = Amount(e, Mirror(h)) /\ f[h] = Amount(c, h)
      BY <1>3, <1>4, <2>1
    <2>3. QED
      BY <2>1, <2>2 DEF Amount
  <1>6. \A p, q \in S : b[p] = b[q] => p = q
    <2> TAKE p, q \in S
    <2>1. b[p] = Mirror(p) /\ b[q] = Mirror(q)
      OBVIOUS
    <2>2. Mirror(Mirror(p)) = p /\ Mirror(Mirror(q)) = q
      BY <1>1, MirrorTwice
    <2>3. QED
      BY <2>1, <2>2
  <1>7. ASSUME NEW h \in T
        PROVE  \E p \in S : b[p] = h
    <2>1. h \in HtlcKeys
      BY <1>1
    <2>2. Mirror(h) \in HtlcKeys /\ Mirror(Mirror(h)) = h
      BY <2>1, MirrorTwice
    <2>3. Mirror(h) \in S
      BY <2>2
    <2>4. QED
      BY <2>2, <2>3
  <1> HIDE DEF f, g, b
  <1>8. SumOver(g, T) = SumOver(f, S)
    <2>1. OneToOne(b, f, g, S, T)
      BY <1>3, <1>5, <1>6, <1>7 DEF OneToOne
    <2>2. QED
      BY <1>2, <2>1, SumMapped
  <1>9. SumAmounts(c, S) = SumOver(f, S) /\ SumAmounts(e, T) = SumOver(g, T)
    BY <1>2, <1>3, <1>4, SumAmountsIs
  <1>10. QED
    BY <1>8, <1>9

-----------------------------------------------------------------------------
(* The HTLCs that come in from the states in I and those that go from the   *)
(* states in J, and what that does to a side's balance.                     *)
Brings(c, I, s) == {h \in DOMAIN c.htlcs : Where(c, h) \in I /\ h[1] = s}
Drops(c, J, s) == {h \in DOMAIN c.htlcs : Where(c, h) \in J /\ s = Winner(c.htlcs[h], h)}
Net(c, I, J, s) == SumAmounts(c, Drops(c, J, s)) - SumAmounts(c, Brings(c, I, s))

(* What the last commitment that was signed did to it. *)
Carries(c, s) == Net(c, {1, 13}, {8, 16}, s)

(* x's view of z's commitment is z's own, but for a commitment under way. *)
Owes(x, z) ==
    \A s \in Sides :
        x.c.owed["remote"][s] = z.c.owed["local"][Other(s)]
                                 + (IF Under(x, z) THEN Carries(x.c, s) ELSE 0)

(* Those sums are integers, and depend on those HTLCs only. *)
LEMMA NetType ==
    ASSUME NEW c, c.htlcs \in HtlcMaps, NEW I, NEW J, NEW s
    PROVE  /\ Brings(c, I, s) \subseteq DOMAIN c.htlcs /\ Drops(c, J, s) \subseteq DOMAIN c.htlcs
           /\ IsFiniteSet(Brings(c, I, s)) /\ IsFiniteSet(Drops(c, J, s))
           /\ SumAmounts(c, Drops(c, J, s)) \in Nat /\ SumAmounts(c, Brings(c, I, s)) \in Nat
           /\ Net(c, I, J, s) \in Int
  <1>1. Brings(c, I, s) \subseteq DOMAIN c.htlcs /\ Drops(c, J, s) \subseteq DOMAIN c.htlcs
    BY DEF Brings, Drops
  <1>2. /\ IsFiniteSet(Brings(c, I, s)) /\ IsFiniteSet(Drops(c, J, s))
        /\ SumAmounts(c, Drops(c, J, s)) \in Nat /\ SumAmounts(c, Brings(c, I, s)) \in Nat
    BY <1>1, AmountsType
  <1>3. QED
    BY <1>1, <1>2 DEF Net

(* A step that leaves them leaves the sums. *)
LEMMA CarriesSame ==
    ASSUME NEW c, c.htlcs \in HtlcMaps, NEW c2, c2.htlcs \in HtlcMaps,
           \A h : \A i \in {1, 8, 13, 16} : Where(c2, h) = i <=> Where(c, h) = i,
           \A h : Where(c, h) \in {1, 8, 13, 16} => /\ c2.htlcs[h].amount = c.htlcs[h].amount
                                                    /\ c2.htlcs[h].r = c.htlcs[h].r
    PROVE  \A s : Carries(c2, s) = Carries(c, s)
  <1> TAKE s
  <1>1. \A h : /\ h \in DOMAIN c.htlcs <=> Where(c, h) # NoHtlc
               /\ h \in DOMAIN c2.htlcs <=> Where(c2, h) # NoHtlc
    BY WhereType
  <1> DEFINE I == {1, 13}
             J == {8, 16}
  <1>2. Brings(c2, I, s) = Brings(c, I, s)
    BY <1>1 DEF Brings, NoHtlc
  <1>3. Drops(c2, J, s) = Drops(c, J, s)
    BY <1>1 DEF Drops, Winner, NoHtlc
  <1>4. /\ \A h \in Brings(c, I, s) : Amount(c2, h) = Amount(c, h)
        /\ \A h \in Drops(c, J, s) : Amount(c2, h) = Amount(c, h)
    BY DEF Brings, Drops, Amount
  <1>5. IsFiniteSet(Brings(c, I, s)) /\ IsFiniteSet(Drops(c, J, s))
    BY NetType
  <1> HIDE DEF I, J
  <1>6. /\ SumAmounts(c2, Brings(c, I, s)) = SumAmounts(c, Brings(c, I, s))
        /\ SumAmounts(c2, Drops(c, J, s)) = SumAmounts(c, Drops(c, J, s))
    BY <1>4, <1>5, AmountsSame
  <1>7. Net(c2, I, J, s) = Net(c, I, J, s)
    BY <1>2, <1>3, <1>6 DEF Net
  <1>8. QED
    BY <1>7 DEF Carries, I, J

(* And with it what x's view is to z. *)
LEMMA OwesStays ==
    ASSUME NEW x, NEW z, Owes(x, z), NEW y, NEW w, Under(y, w) <=> Under(x, z),
           y.c.owed["remote"] = x.c.owed["remote"], w.c.owed["local"] = z.c.owed["local"],
           Under(x, z) => \A s : Carries(y.c, s) = Carries(x.c, s)
    PROVE  Owes(y, w)
  BY DEF Owes

(* An update leaves the balances. *)
LEMMA UpdateOwed ==
    ASSUME NEW c \in ChanRecs
    PROVE  /\ \A h, rec : with_htlc(c, h, rec).owed = c.owed
           /\ \A sender, id, a : new_htlc(c, sender, id, a).owed = c.owed
           /\ \A h, r : remove_htlc(c, h, r).owed = c.owed
           /\ \A rate : channel_update_feerate(c, rate).owed = c.owed
  <1>1. \A h, rec : with_htlc(c, h, rec).owed = c.owed
    BY DEF with_htlc, ChanRecs
  <1>2. \A rate : channel_update_feerate(c, rate).owed = c.owed
    BY DEF channel_update_feerate, ChanRecs
  <1>3. QED
    BY <1>1, <1>2 DEF new_htlc, remove_htlc

(* An HTLC that is put where no commitment is under way. *)
LEMMA CarriesPut ==
    ASSUME NEW c, c.htlcs \in HtlcMaps, NEW c2, c2.htlcs \in HtlcMaps, NEW h, NEW i,
           Put(c, c2, h, i), i \notin {1, 8, 13, 16}, Where(c, h) \notin {1, 8, 13, 16}
    PROVE  \A s : Carries(c2, s) = Carries(c, s)
  <1>1. \A g : \A j \in {1, 8, 13, 16} : Where(c2, g) = j <=> Where(c, g) = j
    BY DEF Put
  <1>2. \A g : Where(c, g) \in {1, 8, 13, 16} => g \in DOMAIN c.htlcs /\ g # h
    BY WhereType DEF NoHtlc
  <1>3. \A g : Where(c, g) \in {1, 8, 13, 16} => /\ c2.htlcs[g].amount = c.htlcs[g].amount
                                                 /\ c2.htlcs[g].r = c.htlcs[g].r
    BY <1>2 DEF Put
  <1>4. QED
    BY <1>1, <1>3, CarriesSame

(* An update, a shutdown, or the answer to a reestablish message. *)
Apart(n, x, y, out) ==
    \/ Quiet(n, x, y, out) \/ Offers(n, x, y, out) \/ SavesResolution(n, x, y, out)
    \/ Resolves(n, x, y, out) \/ GotAdd(n, x, y, out) \/ GotRemove(n, x, y, out)
    \/ GotFee(n, x, y, out) \/ Answers(n, x, y, out)

(* It moves no number of a commitment and no balance. *)
LEMMA ApartKeeps ==
    ASSUME NEW n \in Nodes, NEW x, NodeType(n, x), Store(x.c, x.d), NEW y, NodeType(n, y),
           NEW out, Apart(n, x, y, out),
           GotAdd(n, x, y, out) => <<"remote", Head(x.q).id>> \notin DOMAIN x.c.htlcs
    PROVE  /\ SameNums(x.p, y.p) /\ y.c.owed = x.c.owed
           /\ \A s : Carries(y.c, s) = Carries(x.c, s)
  <1>1. /\ x.c \in ChanRecs /\ x.p \in PeerRecs
        /\ x.c.htlcs \in HtlcMaps /\ y.c.htlcs \in HtlcMaps
    BY DEF NodeType, GoodChan, ChanRecs
  <1>2. CASE Quiet(n, x, y, out) \/ SavesResolution(n, x, y, out) \/ Answers(n, x, y, out)
    BY <1>1, <1>2 DEF Quiet, SavesResolution, Answers, PeerKeeps, SameNums
  <1>3. CASE GotFee(n, x, y, out)
    <2>1. SameNums(x.p, y.p) /\ y.c.owed = x.c.owed
      BY <1>1, <1>3, UpdateOwed DEF GotFee, SameNums
    <2>2. Still(x.c, y.c)
      BY <1>3, IdleSteps DEF Idles
    <2>3. \A h : Where(x.c, h) \in {1, 8, 13, 16} => h \in DOMAIN y.c.htlcs
      BY <1>1, <2>2, WhereType DEF Still, NoHtlc
    <2>4. \A s : Carries(y.c, s) = Carries(x.c, s)
      BY <1>1, <2>2, <2>3, CarriesSame DEF Still, SameHtlcs
    <2>5. QED
      BY <2>1, <2>4
  <1>4. CASE Offers(n, x, y, out)
    <2>1. SameNums(x.p, y.p) /\ y.c.owed = x.c.owed
      BY <1>1, <1>4, UpdateOwed DEF Offers, SameNums
    <2> DEFINE h == <<"local", x.p.htlcId>>
    <2>2. Where(x.c, h) = NoHtlc /\ Put(x.c, y.c, h, 0)
      BY <1>4, OfferPuts
    <2> HIDE DEF h
    <2>3. \A s : Carries(y.c, s) = Carries(x.c, s)
      BY <1>1, <2>2, CarriesPut DEF NoHtlc
    <2>4. QED
      BY <2>1, <2>3
  <1>5. CASE Resolves(n, x, y, out)
    <2>1. SameNums(x.p, y.p) /\ y.c.owed = x.c.owed
      BY <1>1, <1>5, UpdateOwed DEF Resolves, SameNums, PeerKeeps
    <2>2. PICK k \in Nat : Where(x.c, <<"remote", k>>) = 14 /\ Put(x.c, y.c, <<"remote", k>>, 15)
      BY <1>5, ResolvePuts
    <2> DEFINE h == <<"remote", k>>
    <2>3. Where(x.c, h) = 14 /\ Put(x.c, y.c, h, 15)
      BY <2>2
    <2> HIDE DEF h
    <2>4. \A s : Carries(y.c, s) = Carries(x.c, s)
      BY <1>1, <2>3, CarriesPut
    <2>5. QED
      BY <2>1, <2>4
  <1>6. CASE GotAdd(n, x, y, out)
    <2>1. SameNums(x.p, y.p) /\ y.c.owed = x.c.owed
      BY <1>1, <1>6, UpdateOwed DEF GotAdd, SameNums
    <2> DEFINE h == <<"remote", Head(x.q).id>>
    <2>2. Where(x.c, h) = NoHtlc /\ Put(x.c, y.c, h, 10)
      BY <1>6, AddPuts
    <2> HIDE DEF h
    <2>3. \A s : Carries(y.c, s) = Carries(x.c, s)
      BY <1>1, <2>2, CarriesPut DEF NoHtlc
    <2>4. QED
      BY <2>1, <2>3
  <1>7. CASE GotRemove(n, x, y, out)
    <2>1. SameNums(x.p, y.p) /\ y.c.owed = x.c.owed
      BY <1>1, <1>7, UpdateOwed DEF GotRemove, SameNums, PeerKeeps
    <2> DEFINE h == <<"local", Head(x.q).id>>
    <2>2. y.c = x.c \/ (Where(x.c, h) = 4 /\ Put(x.c, y.c, h, 5))
      BY <1>7, RemovePuts
    <2> HIDE DEF h
    <2>3. \A s : Carries(y.c, s) = Carries(x.c, s)
      <3>1. CASE y.c = x.c
        BY <3>1
      <3>2. CASE Where(x.c, h) = 4 /\ Put(x.c, y.c, h, 5)
        BY <1>1, <3>2, CarriesPut
      <3>3. QED
        BY <2>2, <3>1, <3>2
    <2>4. QED
      BY <2>1, <2>3
  <1>8. QED
    BY <1>2, <1>3, <1>4, <1>5, <1>6, <1>7 DEF Apart

(* So the two views stay as they were. *)
LEMMA OwesApart ==
    ASSUME NEW n \in Nodes, NEW x, NodeType(n, x), Store(x.c, x.d), NEW y, NodeType(n, y),
           NEW out, Apart(n, x, y, out),
           GotAdd(n, x, y, out) => <<"remote", Head(x.q).id>> \notin DOMAIN x.c.htlcs,
           NEW z, LinkType(z), NEW w, Hears(z, w, out), Owes(x, z), Owes(z, x)
    PROVE  Owes(y, w) /\ Owes(w, y)
  <1>1. /\ SameNums(x.p, y.p) /\ y.c.owed = x.c.owed
        /\ \A s : Carries(y.c, s) = Carries(x.c, s)
    BY ApartKeeps
  <1>2. w.c = z.c /\ SameNums(z.p, w.p)
    BY DEF Hears, SameNums, LinkType
  <1>3. /\ Under(y, w) <=> Under(x, z)
        /\ Under(w, y) <=> Under(z, x)
    BY <1>1, <1>2, FlagsSame
  <1>4. Owes(y, w)
    BY <1>1, <1>2, <1>3, OwesStays
  <1>5. Owes(w, y)
    BY <1>1, <1>2, <1>3, OwesStays
  <1>6. QED
    BY <1>4, <1>5

(* The nodes reconnect. *)
LEMMA OwesReopen ==
    ASSUME NEW x, LinkType(x), NEW z, LinkType(z), Owes(x, z),
           NEW y, Reopens(x, y, z), NEW w, Reopens(z, w, x)
    PROVE  Owes(y, w)
  <1>1. y.c = x.c /\ w.c = z.c /\ SameNums(x.p, y.p) /\ SameNums(z.p, w.p)
    BY DEF Reopens, LinkType, SameNums, PeerRecs
  <1>2. Under(y, w) <=> Under(x, z)
    BY <1>1, FlagsSame
  <1>3. QED
    BY <1>1, <1>2, OwesStays

(* The connection breaks. *)
LEMMA OwesBreak ==
    ASSUME NEW n \in Nodes, NEW x, NodeType(n, x), NEW y, Breaks(n, x, y), Store(x.c, x.d),
           NEW m \in Nodes, NEW z, NodeType(m, z), NEW w, Breaks(m, z, w), Store(z.c, z.d),
           Nums(x), Nums(z), NodeType(n, y), Owes(x, z)
    PROVE  Owes(y, w)
  <1>1. y.c.owed = x.c.owed
    BY StoreRestored DEF Breaks, NodeType
  <1>2. w.c.owed = z.c.owed
    BY StoreRestored DEF Breaks, NodeType
  <1>3. SameNums(x.p, y.p) /\ SameNums(z.p, w.p)
    <2>1. SameNums(x.p, y.p)
      BY BreakMoves
    <2>2. SameNums(z.p, w.p)
      BY BreakMoves
    <2>3. QED
      BY <2>1, <2>2
  <1>4. Under(y, w) <=> Under(x, z)
    BY <1>3, FlagsSame
  <1>5. x.c.htlcs \in HtlcMaps /\ y.c.htlcs \in HtlcMaps
    BY DEF NodeType, GoodChan, ChanRecs
  <1>6. \A h : Kept(Where(x.c, h), Where(y.c, h))
    BY BreakMoves
  <1>7. \A h : \A i \in {1, 8, 13, 16} : Where(y.c, h) = i <=> Where(x.c, h) = i
    BY <1>6 DEF Kept, NoHtlc
  <1>8. \A h : Where(x.c, h) \in {1, 8, 13, 16} => /\ h \in DOMAIN y.c.htlcs
                                                  /\ Where(y.c, h) = Where(x.c, h)
    BY <1>5, <1>7, WhereType DEF NoHtlc
  <1>9. \A h : Where(x.c, h) \in {1, 8, 13, 16} => y.c.htlcs[h].amount = x.c.htlcs[h].amount
    <2>1. \A h \in DOMAIN y.c.htlcs : y.c.htlcs[h].amount = x.c.htlcs[h].amount
      BY BreakMoves
    <2>2. QED
      BY <1>8, <2>1
  <1>10. \A h : Where(x.c, h) \in {1, 8, 13, 16} => y.c.htlcs[h].r = x.c.htlcs[h].r
    <2>1. \A h \in DOMAIN y.c.htlcs :
             Where(y.c, h) = Where(x.c, h) => y.c.htlcs[h].r = x.c.htlcs[h].r
      BY BreakMoves
    <2>2. QED
      BY <1>8, <2>1
  <1>11. \A s : Carries(y.c, s) = Carries(x.c, s)
    BY <1>5, <1>7, <1>9, <1>10, CarriesSame
  <1>12. QED
    BY <1>1, <1>2, <1>4, <1>11, OwesStays

(* What the dance does to a view's balances. *)
LEMMA StepSets ==
    ASSUME NEW c \in ChanRecs
    PROVE  /\ \A h : h \in Entering(c, "remote", sending_commit_states) <=>
                       h \in DOMAIN c.htlcs /\ Where(c, h) \in {0, 12}
           /\ \A h : h \in Leaving(c, "remote", sending_commit_states) <=>
                       h \in DOMAIN c.htlcs /\ Where(c, h) \in {7, 15}
           /\ \A h : h \in Entering(c, "local", rcvd_commit_states) <=>
                       h \in DOMAIN c.htlcs /\ Where(c, h) \in {2, 10}
           /\ \A h : h \in Leaving(c, "local", rcvd_commit_states) <=>
                       h \in DOMAIN c.htlcs /\ Where(c, h) \in {5, 17}
           /\ Entering(c, "local", rcvd_revoke_states) = {}
           /\ Leaving(c, "local", rcvd_revoke_states) = {}
  <1>1. /\ sending_commit_states = {0, 7, 12, 15} /\ rcvd_revoke_states = {1, 8, 13, 16}
        /\ rcvd_commit_states = {2, 5, 10, 17}
    BY DEF rcvd_commit_states, RCVD_ADD_REVOCATION, RCVD_REMOVE_HTLC, RCVD_ADD_HTLC,
       RCVD_REMOVE_REVOCATION, sending_commit_states, SENT_ADD_HTLC,
       SENT_REMOVE_REVOCATION, SENT_ADD_REVOCATION, SENT_REMOVE_HTLC, rcvd_revoke_states,
       SENT_ADD_COMMIT, SENT_REMOVE_ACK_COMMIT, SENT_ADD_ACK_COMMIT, SENT_REMOVE_COMMIT
  <1>2. /\ \A i \in {0, 7, 12, 15} :
             /\ i \notin Committed("remote") /\ i + 1 \in Committed("remote") <=> i \in {0, 12}
             /\ i \in Committed("remote") /\ i + 1 \notin Committed("remote") <=> i \in {7, 15}
        /\ \A i \in {2, 5, 10, 17} :
             /\ i \notin Committed("local") /\ i + 1 \in Committed("local") <=> i \in {2, 10}
             /\ i \in Committed("local") /\ i + 1 \notin Committed("local") <=> i \in {5, 17}
        /\ \A i \in {1, 8, 13, 16} :
             i \in Committed("local") <=> i + 1 \in Committed("local")
    BY DEF Committed
  <1>3. \A h \in DOMAIN c.htlcs : Where(c, h) = State(c, h)
    BY DEF Where, State
  <1>4. \A h : /\ h \in Entering(c, "remote", sending_commit_states) <=>
                    h \in DOMAIN c.htlcs /\ Where(c, h) \in {0, 12}
               /\ h \in Leaving(c, "remote", sending_commit_states) <=>
                    h \in DOMAIN c.htlcs /\ Where(c, h) \in {7, 15}
    BY <1>1, <1>2, <1>3 DEF Entering, Leaving, moving
  <1>5. \A h : /\ h \in Entering(c, "local", rcvd_commit_states) <=>
                    h \in DOMAIN c.htlcs /\ Where(c, h) \in {2, 10}
               /\ h \in Leaving(c, "local", rcvd_commit_states) <=>
                    h \in DOMAIN c.htlcs /\ Where(c, h) \in {5, 17}
    BY <1>1, <1>2, <1>3 DEF Entering, Leaving, moving
  <1>6. /\ Entering(c, "local", rcvd_revoke_states) = {}
        /\ Leaving(c, "local", rcvd_revoke_states) = {}
    BY <1>1, <1>2, <1>3 DEF Entering, Leaving, moving
  <1>7. QED
    BY <1>4, <1>5, <1>6

(* Balances of HTLCs that come in and go. *)
LEMMA DeltaIs ==
    ASSUME NEW c \in ChanRecs, NEW E, NEW L, NEW I, NEW J,
           \A h : h \in E <=> h \in DOMAIN c.htlcs /\ Where(c, h) \in I,
           \A h : h \in L <=> h \in DOMAIN c.htlcs /\ Where(c, h) \in J,
           NEW s \in Sides, NEW v \in Sides
    PROVE  c.owed[v][s] + add_delta(c, E, s) + remove_delta(c, L, s)
             = c.owed[v][s] + Net(c, I, J, s)
  <1>1. c.htlcs \in HtlcMaps /\ c.owed[v][s] \in Int
    BY DEF ChanRecs, Balances
  <1>2. {h \in E : h[1] = s} = Brings(c, I, s)
    BY DEF Brings
  <1>3. {h \in L : s = IF c.htlcs[h].r = "fulfill" THEN Other(h[1]) ELSE h[1]} = Drops(c, J, s)
    BY DEF Drops, Winner
  <1> DEFINE a == SumAmounts(c, Brings(c, I, s))
             b == SumAmounts(c, Drops(c, J, s))
             o == c.owed[v][s]
  <1>4. /\ add_delta(c, E, s) = -a
        /\ remove_delta(c, L, s) = b
        /\ Net(c, I, J, s) = b - a
    BY <1>2, <1>3 DEF add_delta, remove_delta, Net
  <1>5. a \in Nat /\ b \in Nat /\ o \in Int
    BY <1>1, NetType
  <1> HIDE DEF a, b, o
  <1>6. o + add_delta(c, E, s) + remove_delta(c, L, s) = o + Net(c, I, J, s)
    BY <1>4, <1>5
  <1>7. QED
    BY <1>6 DEF o

(* The balances after a commitment is signed, and after one is received. *)
LEMMA OwedMoves ==
    ASSUME NEW c, GoodChan(c)
    PROVE  /\ \A s \in Sides : channel_sending_commit(c).owed["remote"][s]
                                 = c.owed["remote"][s] + Net(c, {0, 12}, {7, 15}, s)
           /\ \A s \in Sides : channel_rcvd_commit(c).owed["local"][s]
                                 = c.owed["local"][s] + Net(c, {2, 10}, {5, 17}, s)
           /\ \A s \in Sides : channel_rcvd_revoke_and_ack(c).owed["local"][s]
                                 = c.owed["local"][s]
  <1>1. c \in ChanRecs /\ "local" \in Sides /\ "remote" \in Sides /\ c.owed \in Balances
    BY DEF GoodChan, ChanRecs, Sides
  <1>2. \A view, states : <<view, states>> \in Steps => \A s \in Sides :
           view \in Sides =>
             change_htlcs(c, view, states).owed[view][s]
               = c.owed[view][s] + add_delta(c, Entering(c, view, states), s)
                                 + remove_delta(c, Leaving(c, view, states), s)
    <2> TAKE view, states
    <2> HAVE <<view, states>> \in Steps
    <2> DEFINE c2 == change_htlcs(c, view, states)
    <2>1. \A v, s \in Sides :
                    c2.owed[v][s] =
                      IF v # view THEN c.owed[v][s]
                      ELSE c.owed[v][s] + add_delta(c, Entering(c, view, states), s)
                                        + remove_delta(c, Leaving(c, view, states), s)
      BY <1>1, ChangeFields
    <2> HIDE DEF c2
    <2>2. \A s \in Sides : view \in Sides =>
             c2.owed[view][s]
               = c.owed[view][s] + add_delta(c, Entering(c, view, states), s)
                                 + remove_delta(c, Leaving(c, view, states), s)
      BY <2>1
    <2>3. QED
      BY <2>2 DEF c2
  <1>3. \A s \in Sides : channel_sending_commit(c).owed["remote"][s]
                                 = c.owed["remote"][s] + Net(c, {0, 12}, {7, 15}, s)
    <2> TAKE s \in Sides
    <2> DEFINE E == Entering(c, "remote", sending_commit_states)
               L == Leaving(c, "remote", sending_commit_states)
    <2>1. channel_sending_commit(c).owed["remote"][s]
            = c.owed["remote"][s] + add_delta(c, E, s) + remove_delta(c, L, s)
      BY <1>1, <1>2 DEF Steps, channel_sending_commit
    <2>2. /\ \A h : h \in E <=> h \in DOMAIN c.htlcs /\ Where(c, h) \in {0, 12}
          /\ \A h : h \in L <=> h \in DOMAIN c.htlcs /\ Where(c, h) \in {7, 15}
      BY <1>1, StepSets
    <2> HIDE DEF E, L
    <2>3. QED
      BY <1>1, <2>1, <2>2, DeltaIs
  <1>4. \A s \in Sides : channel_rcvd_commit(c).owed["local"][s]
                                 = c.owed["local"][s] + Net(c, {2, 10}, {5, 17}, s)
    <2> TAKE s \in Sides
    <2> DEFINE E == Entering(c, "local", rcvd_commit_states)
               L == Leaving(c, "local", rcvd_commit_states)
    <2>1. channel_rcvd_commit(c).owed["local"][s]
            = c.owed["local"][s] + add_delta(c, E, s) + remove_delta(c, L, s)
      BY <1>1, <1>2 DEF Steps, channel_rcvd_commit
    <2>2. /\ \A h : h \in E <=> h \in DOMAIN c.htlcs /\ Where(c, h) \in {2, 10}
          /\ \A h : h \in L <=> h \in DOMAIN c.htlcs /\ Where(c, h) \in {5, 17}
      BY <1>1, StepSets
    <2> HIDE DEF E, L
    <2>3. QED
      BY <1>1, <2>1, <2>2, DeltaIs
  <1>5. \A s \in Sides : channel_rcvd_revoke_and_ack(c).owed["local"][s] = c.owed["local"][s]
    <2> TAKE s \in Sides
    <2> DEFINE i == c.owed["local"][s]
    <2>1. channel_rcvd_revoke_and_ack(c).owed["local"][s]
            = i + add_delta(c, Entering(c, "local", rcvd_revoke_states), s)
                + remove_delta(c, Leaving(c, "local", rcvd_revoke_states), s)
      BY <1>1, <1>2 DEF Steps, channel_rcvd_revoke_and_ack
    <2>2. /\ Entering(c, "local", rcvd_revoke_states) = {}
          /\ Leaving(c, "local", rcvd_revoke_states) = {}
      BY <1>1, StepSets
    <2>3. add_delta(c, {}, s) = 0 /\ remove_delta(c, {}, s) = 0
      <3>1. /\ {h \in {} : h[1] = s} = {}
            /\ {h \in {} : s = IF c.htlcs[h].r = "fulfill" THEN Other(h[1]) ELSE h[1]} = {}
        OBVIOUS
      <3>2. QED
        BY <3>1, AmountsNone DEF add_delta, remove_delta
    <2>4. i \in Int
      BY <1>1 DEF Balances
    <2> HIDE DEF i
    <2>5. channel_rcvd_revoke_and_ack(c).owed["local"][s] = i + 0 + 0
      BY <2>1, <2>2, <2>3
    <2>6. channel_rcvd_revoke_and_ack(c).owed["local"][s] = i
      BY <2>4, <2>5
    <2>7. QED
      BY <2>6 DEF i
  <1>6. QED
    BY <1>3, <1>4, <1>5

(* The same HTLCs at two states of a node. *)
LEMMA NetSame ==
    ASSUME NEW c, c.htlcs \in HtlcMaps, NEW c2, c2.htlcs \in HtlcMaps,
           NEW I, NEW J, NEW I2, NEW J2,
           \A h : h \in DOMAIN c2.htlcs /\ Where(c2, h) \in I2 <=>
                  h \in DOMAIN c.htlcs /\ Where(c, h) \in I,
           \A h : h \in DOMAIN c2.htlcs /\ Where(c2, h) \in J2 <=>
                  h \in DOMAIN c.htlcs /\ Where(c, h) \in J,
           SameHtlcs(c, c2)
    PROVE  \A s : Net(c2, I2, J2, s) = Net(c, I, J, s)
  <1> TAKE s
  <1>1. Brings(c2, I2, s) = Brings(c, I, s)
    BY DEF Brings
  <1>2. Drops(c2, J2, s) = Drops(c, J, s)
    BY DEF Drops, Winner, SameHtlcs
  <1>3. /\ \A h \in Brings(c, I, s) : Amount(c2, h) = Amount(c, h)
        /\ \A h \in Drops(c, J, s) : Amount(c2, h) = Amount(c, h)
    BY DEF Brings, Drops, Amount, SameHtlcs
  <1>4. IsFiniteSet(Brings(c, I, s)) /\ IsFiniteSet(Drops(c, J, s))
    BY NetType
  <1>5. /\ SumAmounts(c2, Brings(c, I, s)) = SumAmounts(c, Brings(c, I, s))
        /\ SumAmounts(c2, Drops(c, J, s)) = SumAmounts(c, Drops(c, J, s))
    BY <1>3, <1>4, AmountsSame
  <1>6. QED
    BY <1>1, <1>2, <1>5 DEF Net

(* The same HTLCs at two nodes. *)
LEMMA NetMirror ==
    ASSUME NEW c, c.htlcs \in HtlcMaps, NEW e, e.htlcs \in HtlcMaps,
           NEW I, NEW J, NEW I2, NEW J2,
           \A h \in HtlcKeys : Mirror(h) \in DOMAIN e.htlcs /\ Where(e, Mirror(h)) \in I2 <=>
                               h \in DOMAIN c.htlcs /\ Where(c, h) \in I,
           \A h \in HtlcKeys : Mirror(h) \in DOMAIN e.htlcs /\ Where(e, Mirror(h)) \in J2 <=>
                               h \in DOMAIN c.htlcs /\ Where(c, h) \in J,
           \A h \in HtlcKeys : h \in DOMAIN c.htlcs /\ Where(c, h) \in I \cup J =>
                               e.htlcs[Mirror(h)].amount = c.htlcs[h].amount,
           \A h \in HtlcKeys : h \in DOMAIN c.htlcs /\ Where(c, h) \in J =>
                               e.htlcs[Mirror(h)].r = c.htlcs[h].r,
           NEW s \in Sides
    PROVE  Net(e, I2, J2, Other(s)) = Net(c, I, J, s)
  <1>1. \A h \in HtlcKeys : h[1] \in Sides /\ Mirror(h)[1] = Other(h[1])
    BY MirrorTwice
  <1>2. \A a, b \in Sides : (Other(a) = Other(b) <=> a = b) /\ Other(a) \in Sides
    BY DEF Sides, Other
  <1> DEFINE S == Brings(c, I, s)
             T == Brings(e, I2, Other(s))
             U == Drops(c, J, s)
             V == Drops(e, J2, Other(s))
  <1>3. /\ S \subseteq DOMAIN c.htlcs /\ U \subseteq DOMAIN c.htlcs
        /\ T \subseteq DOMAIN e.htlcs /\ V \subseteq DOMAIN e.htlcs
    BY DEF Brings, Drops
  <1>4. DOMAIN c.htlcs \subseteq HtlcKeys
    BY HtlcMapElim
  <1>5. \A h \in HtlcKeys : h \in S <=> Mirror(h) \in T
    BY <1>1, <1>2 DEF Brings
  <1>6. \A h \in HtlcKeys : h \in U <=> Mirror(h) \in V
    <2> TAKE h \in HtlcKeys
    <2>1. Mirror(h) \in DOMAIN e.htlcs /\ Where(e, Mirror(h)) \in J2 <=>
            h \in DOMAIN c.htlcs /\ Where(c, h) \in J
      OBVIOUS
    <2>2. CASE h \in DOMAIN c.htlcs /\ Where(c, h) \in J
      <3>1. e.htlcs[Mirror(h)].r = c.htlcs[h].r
        BY <2>2
      <3>2. /\ Winner(c.htlcs[h], h) \in Sides
            /\ Winner(e.htlcs[Mirror(h)], Mirror(h)) = Other(Winner(c.htlcs[h], h))
        BY <1>1, <1>2, <3>1 DEF Winner
      <3>3. QED
        BY <1>2, <2>1, <2>2, <3>2 DEF Drops
    <2>3. CASE ~(h \in DOMAIN c.htlcs /\ Where(c, h) \in J)
      BY <2>1, <2>3 DEF Drops
    <2>4. QED
      BY <2>2, <2>3
  <1>7. /\ \A h \in S : e.htlcs[Mirror(h)].amount = c.htlcs[h].amount
        /\ \A h \in U : e.htlcs[Mirror(h)].amount = c.htlcs[h].amount
    BY <1>4 DEF Brings, Drops
  <1> HIDE DEF S, T, U, V
  <1>8. SumAmounts(e, T) = SumAmounts(c, S)
    BY <1>3, <1>5, <1>7, MirrorSums
  <1>9. SumAmounts(e, V) = SumAmounts(c, U)
    BY <1>3, <1>6, <1>7, MirrorSums
  <1>10. QED
    BY <1>8, <1>9 DEF Net, S, T, U, V

(* A key is one side's HTLC of some number. *)
LEMMA WhereSides ==
    ASSUME NEW x, x.c.htlcs \in HtlcMaps, NEW h
    PROVE  Where(x.c, h) # NoHtlc =>
             \E k \in Nat : \/ h = <<"local", k>> /\ Where(x.c, h) = Mine(x, k)
                                /\ Where(x.c, h) \in 0..9
                            \/ h = <<"remote", k>> /\ Where(x.c, h) = Theirs(x, k)
                                /\ Where(x.c, h) \in 10..19
  <1> HAVE Where(x.c, h) # NoHtlc
  <1>1. /\ h \in HtlcKeys /\ h[1] = htlc_state_owner(Where(x.c, h))
        /\ Where(x.c, h) \in 0..20
    BY WhereType
  <1>2. h = <<h[1], h[2]>> /\ h[2] \in Nat /\ h[1] \in Sides
    BY <1>1, MirrorTwice
  <1>3. /\ h[1] = "local" => Where(x.c, h) \in 0..9
        /\ h[1] = "remote" => Where(x.c, h) \in 10..19
    BY <1>1 DEF htlc_state_owner, NoHtlc, RCVD_ADD_HTLC
  <1>4. QED
    BY <1>2, <1>3 DEF Mine, Theirs, Sides

(* Nothing is under way when a node may sign. *)
LEMMA NoneUnder ==
    ASSUME NEW n, NEW x, NEW m, NEW z, Met(n, x, m, z), ~Under(x, z), ~Owing(x, z)
    PROVE  \A h : Where(x.c, h) \notin {1, 8, 13, 16}
  <1> TAKE h
  <1>1. x.c.htlcs \in HtlcMaps
    BY MetIs DEF NodeType, GoodChan, ChanRecs
  <1>2. \A k \in Nat : /\ Mine(x, k) # 1 /\ Mine(x, k) # 8
    <2> TAKE k \in Nat
    <2>1. Paired(x, z, k)
      BY MetIs
    <2>2. QED
      BY <2>1 DEF Paired, Ends, NoHtlc
  <1>3. \A k \in Nat : /\ Theirs(x, k) # 13 /\ Theirs(x, k) # 16
    <2> TAKE k \in Nat
    <2>1. Paired(z, x, k)
      BY MetIs
    <2>2. QED
      BY <2>1 DEF Paired, Ends, NoHtlc
  <1>4. QED
    BY <1>1, <1>2, <1>3, WhereSides DEF NoHtlc

(* send_commit() *)
LEMMA OwesSent ==
    ASSUME NEW n \in Nodes, NEW x, NEW m, NEW z, Met(n, x, m, z), Owes(x, z), Owes(z, x),
           NEW y, NodeType(n, y), NEW out \in Seq(Msgs), SendsCommit(n, x, y, out),
           NEW w, Hears(z, w, out)
    PROVE  Owes(y, w) /\ Owes(w, y)
  <1>1. /\ NodeType(n, x) /\ NodeType(m, z) /\ LinkType(x) /\ LinkType(z)
        /\ LinkNums(x, z) /\ LinkNums(z, x)
    BY MetIs
  <1>2. /\ x.p.revs = x.p.nextR - 1
        /\ y.p \in PeerRecs /\ y.p.nextR = x.p.nextR + 1 /\ y.p.nextL = x.p.nextL
        /\ y.p.revs = x.p.revs
    BY DEF SendsCommit
  <1>3. w.p = z.p /\ w.c = z.c
    BY HearsSame
  <1>4. /\ ~Under(x, z) /\ ~Owing(x, z) /\ Under(y, w)
        /\ Under(w, y) <=> Under(z, x)
    BY <1>1, <1>2, <1>3, FlagsSent
  <1>5. /\ \A h : Where(y.c, h) = Sent(Where(x.c, h))
        /\ SameHtlcs(x.c, y.c)
    BY <1>1, CommitMoves
  <1>6. PICK c1 : Commits(n, x, y, out, c1)
    BY <1>1, SentCommit
  <1>7. /\ GoodChan(c1) /\ c1.htlcs = x.c.htlcs /\ c1.owed = x.c.owed
        /\ y.c = channel_sending_commit(c1)
    BY <1>6 DEF Commits
  <1>8. /\ y.c.owed["local"] = x.c.owed["local"]
        /\ \A s \in Sides : y.c.owed["remote"][s] = c1.owed["remote"][s]
                                                     + Net(c1, {0, 12}, {7, 15}, s)
    BY <1>7, OwedStays, OwedMoves
  <1>9. \A s : Carries(y.c, s) = Net(c1, {0, 12}, {7, 15}, s)
    <2>1. y.c.htlcs \in HtlcMaps /\ c1.htlcs \in HtlcMaps
      BY <1>1, <1>7 DEF NodeType, GoodChan, ChanRecs
    <2>2. \A h : Where(c1, h) = Where(x.c, h)
      BY <1>7 DEF Where
    <2>3. \A h : Where(c1, h) \notin {1, 8, 13, 16}
      BY <1>4, <2>2, NoneUnder
    <2>4. SameHtlcs(c1, y.c)
      BY <1>5, <1>7 DEF SameHtlcs
    <2>5. \A h : /\ h \in DOMAIN c1.htlcs <=> Where(c1, h) # NoHtlc
                 /\ h \in DOMAIN y.c.htlcs <=> Where(y.c, h) # NoHtlc
      BY <2>1, WhereType
    <2>6. /\ \A h : h \in DOMAIN y.c.htlcs /\ Where(y.c, h) \in {1, 13} <=>
                    h \in DOMAIN c1.htlcs /\ Where(c1, h) \in {0, 12}
          /\ \A h : h \in DOMAIN y.c.htlcs /\ Where(y.c, h) \in {8, 16} <=>
                    h \in DOMAIN c1.htlcs /\ Where(c1, h) \in {7, 15}
      BY <1>5, <2>2, <2>3, <2>5 DEF Sent, NoHtlc
    <2>7. QED
      BY <2>1, <2>4, <2>6, NetSame DEF Carries
  <1>10. Owes(y, w)
    <2> SUFFICES ASSUME NEW s \in Sides
                 PROVE  y.c.owed["remote"][s] = w.c.owed["local"][Other(s)] + Carries(y.c, s)
      BY <1>4 DEF Owes
    <2>1. x.c.owed["remote"][s] = z.c.owed["local"][Other(s)] + 0
      BY <1>4 DEF Owes
    <2>2. z.c.owed["local"][Other(s)] \in Int
      BY <1>1 DEF NodeType, GoodChan, ChanRecs, Balances, Sides, Other
    <2>3. y.c.owed["remote"][s] = x.c.owed["remote"][s] + Carries(y.c, s)
      BY <1>7, <1>8, <1>9
    <2>4. QED
      BY <1>3, <2>1, <2>2, <2>3
  <1>11. Owes(w, y)
    BY <1>3, <1>4, <1>8, OwesStays
  <1>12. QED
    BY <1>10, <1>11

(* handle_peer_revoke_and_ack() *)
LEMMA OwesAcked ==
    ASSUME NEW n \in Nodes, NEW x, NEW m, NEW z, Met(n, x, m, z), Owes(x, z), Owes(z, x),
           NEW y, NodeType(n, y), NEW out \in Seq(Msgs), GotRevoke(n, x, y, out),
           NEW w, Hears(z, w, out)
    PROVE  Owes(y, w) /\ Owes(w, y)
  <1>1. /\ NodeType(n, x) /\ LinkType(x) /\ LinkType(z) /\ LinkNums(x, z) /\ LinkNums(z, x)
    BY MetIs
  <1>2. /\ x.q # << >> /\ Head(x.q).type = "revoke"
        /\ y.p \in PeerRecs /\ y.p.nextL = x.p.nextL /\ y.p.nextR = x.p.nextR
        /\ y.p.revs = x.p.revs + 1 /\ y.c = channel_rcvd_revoke_and_ack(x.c)
    BY DEF GotRevoke, Reads
  <1>3. w.p = z.p /\ w.c = z.c
    BY HearsSame
  <1>4. /\ ~Under(x, z) /\ ~Under(y, w)
        /\ Under(w, y) <=> Under(z, x)
    BY <1>1, <1>2, <1>3, FlagsAcked
  <1>5. GoodChan(x.c)
    BY <1>1 DEF NodeType
  <1>6. /\ y.c.owed["remote"] = x.c.owed["remote"]
        /\ \A s \in Sides : y.c.owed["local"][s] = x.c.owed["local"][s]
    BY <1>2, <1>5, OwedStays, OwedMoves
  <1>7. \A s \in Sides : Other(s) \in Sides
    BY DEF Sides, Other
  <1>8. Owes(y, w)
    BY <1>3, <1>4, <1>6, OwesStays
  <1>9. Owes(w, y)
    BY <1>3, <1>4, <1>6, <1>7 DEF Owes
  <1>10. QED
    BY <1>8, <1>9

(* The commitment that x reads carries what z's view carries. *)
LEMMA CarriedRead ==
    ASSUME NEW n, NEW x, NEW m, NEW z, Met(n, x, m, z), Settles(x, z), Settles(z, x),
           x.p.phase = "run", Head(x.q).type = "commit", x.q # << >>,
           Under(z, x), ~Owing(z, x), NEW s \in Sides
    PROVE  Net(x.c, {2, 10}, {5, 17}, Other(s)) = Carries(z.c, s)
  <1>1. x.c.htlcs \in HtlcMaps /\ z.c.htlcs \in HtlcMaps
    BY MetIs DEF NodeType, GoodChan, ChanRecs
  <1>2. \A k \in Nat : /\ Mine(z, k) = 1 <=> Theirs(x, k) = 10
                       /\ Mine(z, k) = 8 <=> Theirs(x, k) = 17
                       /\ Mine(z, k) # 13 /\ Mine(z, k) # 16
                       /\ Theirs(x, k) # 2 /\ Theirs(x, k) # 5
    <2> TAKE k \in Nat
    <2>1. Paired(z, x, k)
      BY MetIs
    <2>2. /\ Mine(z, k) = 1 => Theirs(x, k) # NoHtlc
          /\ Theirs(x, k) = 10 => Mine(z, k) # 0
      BY CommitRead
    <2>3. ~z.d.wasRevoke => ~Owing(x, z)
      BY CommitRead
    <2>4. QED
      BY <2>1, <2>2, <2>3 DEF Paired, Ends, NoHtlc
  <1>3. \A k \in Nat : /\ Theirs(z, k) = 13 <=> Mine(x, k) = 2
                       /\ Theirs(z, k) = 16 <=> Mine(x, k) = 5
                       /\ Theirs(z, k) # 1 /\ Theirs(z, k) # 8
                       /\ Mine(x, k) # 10 /\ Mine(x, k) # 17
    <2> TAKE k \in Nat
    <2>1. Paired(x, z, k)
      BY MetIs
    <2>2. /\ Mine(x, k) = 4 => Theirs(z, k) # 16
          /\ Mine(x, k) = 5 => Theirs(z, k) = 16
      BY CommitRead
    <2>3. ~z.d.wasRevoke => ~Owing(x, z)
      BY CommitRead
    <2>4. QED
      BY <2>1, <2>2, <2>3 DEF Paired, Ends, NoHtlc
  <1>4. \A h \in HtlcKeys : \E k \in Nat :
           \/ /\ h = <<"local", k>> /\ Mirror(h) = <<"remote", k>>
              /\ Where(z.c, h) = Mine(z, k) /\ Where(x.c, Mirror(h)) = Theirs(x, k)
           \/ /\ h = <<"remote", k>> /\ Mirror(h) = <<"local", k>>
              /\ Where(z.c, h) = Theirs(z, k) /\ Where(x.c, Mirror(h)) = Mine(x, k)
    BY MirrorTwice DEF Mirror, Sides, Other, Mine, Theirs
  <1>5. \A h \in HtlcKeys : /\ Where(z.c, h) \in {1, 13} <=> Where(x.c, Mirror(h)) \in {2, 10}
                            /\ Where(z.c, h) \in {8, 16} <=> Where(x.c, Mirror(h)) \in {5, 17}
    BY <1>2, <1>3, <1>4
  <1>6. /\ \A h : h \in DOMAIN x.c.htlcs <=> Where(x.c, h) # NoHtlc
        /\ \A h : h \in DOMAIN z.c.htlcs <=> Where(z.c, h) # NoHtlc
    BY <1>1, WhereType
  <1>7. ASSUME NEW h \in HtlcKeys, Where(z.c, h) \in {1, 13} \cup {8, 16}
        PROVE  x.c.htlcs[Mirror(h)].amount = z.c.htlcs[h].amount
    <2>1. Where(x.c, Mirror(h)) # NoHtlc /\ Where(z.c, h) # NoHtlc
      BY <1>5, <1>7 DEF NoHtlc
    <2>2. \A k \in Nat : SameAmount(x, z, k) /\ SameAmount(z, x, k)
      BY MetIs
    <2>3. QED
      BY <1>4, <2>1, <2>2 DEF SameAmount
  <1>8. ASSUME NEW h \in HtlcKeys, Where(z.c, h) \in {8, 16}
        PROVE  x.c.htlcs[Mirror(h)].r = z.c.htlcs[h].r
    <2>1. /\ \A k \in Nat : Mine(x, k) \in Late => Agreed(z, k, x.c.htlcs[<<"local", k>>].r)
          /\ \A k \in Nat : Mine(z, k) \in Late => Agreed(x, k, z.c.htlcs[<<"local", k>>].r)
      BY DEF Settles, DoneSo
    <2>2. PICK k \in Nat :
           \/ /\ h = <<"local", k>> /\ Mirror(h) = <<"remote", k>>
              /\ Where(z.c, h) = Mine(z, k) /\ Where(x.c, Mirror(h)) = Theirs(x, k)
           \/ /\ h = <<"remote", k>> /\ Mirror(h) = <<"local", k>>
              /\ Where(z.c, h) = Theirs(z, k) /\ Where(x.c, Mirror(h)) = Mine(x, k)
      BY <1>4
    <2>3. CASE h = <<"local", k>> /\ Mirror(h) = <<"remote", k>>
                 /\ Where(z.c, h) = Mine(z, k)
      <3>1. Mine(z, k) = 8 /\ Theirs(x, k) = 17
        BY <1>2, <1>8, <2>3
      <3>2. Agreed(x, k, z.c.htlcs[<<"local", k>>].r)
        BY <2>1, <3>1 DEF Late
      <3>3. QED
        BY <2>3, <3>1, <3>2 DEF Agreed, NoHtlc
    <2>4. CASE h = <<"remote", k>> /\ Mirror(h) = <<"local", k>>
                 /\ Where(z.c, h) = Theirs(z, k)
      <3>1. Theirs(z, k) = 16 /\ Mine(x, k) = 5
        BY <1>3, <1>8, <2>4
      <3>2. Agreed(z, k, x.c.htlcs[<<"local", k>>].r)
        BY <2>1, <3>1 DEF Late
      <3>3. QED
        BY <2>4, <3>1, <3>2 DEF Agreed, NoHtlc
    <2>5. QED
      BY <2>2, <2>3, <2>4
  <1>9. /\ \A h \in HtlcKeys : Mirror(h) \in DOMAIN x.c.htlcs /\ Where(x.c, Mirror(h)) \in {2, 10}
                               <=> h \in DOMAIN z.c.htlcs /\ Where(z.c, h) \in {1, 13}
        /\ \A h \in HtlcKeys : Mirror(h) \in DOMAIN x.c.htlcs /\ Where(x.c, Mirror(h)) \in {5, 17}
                               <=> h \in DOMAIN z.c.htlcs /\ Where(z.c, h) \in {8, 16}
    BY <1>5, <1>6 DEF NoHtlc
  <1>10. Net(x.c, {2, 10}, {5, 17}, Other(s)) = Net(z.c, {1, 13}, {8, 16}, s)
    BY <1>1, <1>7, <1>8, <1>9, NetMirror
  <1>11. QED
    BY <1>10 DEF Carries

(* handle_peer_commit_sig() *)
LEMMA OwesTook ==
    ASSUME NEW n \in Nodes, NEW x, NEW m, NEW z, Met(n, x, m, z), Owes(x, z), Owes(z, x),
           Settles(x, z), Settles(z, x),
           NEW y, NodeType(n, y), NEW out \in Seq(Msgs), GotCommit(n, x, y, out),
           NEW w, Hears(z, w, out)
    PROVE  Owes(y, w) /\ Owes(w, y)
  <1>1. /\ NodeType(n, x) /\ NodeType(m, z) /\ LinkType(x) /\ LinkType(z)
        /\ LinkNums(x, z) /\ LinkNums(z, x) /\ Store(x.c, x.d)
    BY MetIs
  <1>2. /\ x.p.phase = "run" /\ x.q # << >> /\ Head(x.q).type = "commit"
        /\ y.p \in PeerRecs /\ y.p.nextL = x.p.nextL + 1 /\ y.p.nextR = x.p.nextR
        /\ y.p.revs = x.p.revs
    BY DEF GotCommit, Reads
  <1>3. w.p = z.p /\ w.c = z.c
    BY HearsSame
  <1>4. /\ Under(z, x) /\ ~Owing(z, x) /\ ~Under(w, y)
        /\ Under(y, w) <=> Under(x, z)
    BY <1>1, <1>2, <1>3, FlagsTook
  <1>5. /\ \A h : Where(y.c, h) = Took(Where(x.c, h))
        /\ SameHtlcs(x.c, y.c)
    BY <1>1, TookMoves
  <1> DEFINE c1 == channel_rcvd_commit(x.c)
  <1>6. GoodChan(x.c) /\ GoodChan(c1) /\ y.c = channel_sending_revoke_and_ack(c1)
    BY <1>1, TookCommit DEF NodeType
  <1>7. c1.owed["remote"] = x.c.owed["remote"]
    BY <1>6, OwedStays
  <1>8. \A s \in Sides : c1.owed["local"][s] = x.c.owed["local"][s] + Net(x.c, {2, 10}, {5, 17}, s)
    BY <1>6, OwedMoves
  <1> HIDE DEF c1
  <1>9. y.c.owed["remote"] = x.c.owed["remote"] /\ y.c.owed["local"] = c1.owed["local"]
    BY <1>6, <1>7, OwedStays
  <1>10. \A s : Carries(y.c, s) = Carries(x.c, s)
    <2>1. y.c.htlcs \in HtlcMaps /\ x.c.htlcs \in HtlcMaps
      BY <1>1 DEF NodeType, GoodChan, ChanRecs
    <2>2. \A h : /\ Where(x.c, h) \in 0..20
                 /\ h \in DOMAIN y.c.htlcs <=> Where(y.c, h) # NoHtlc
      BY <2>1, WhereType
    <2>3. \A h : \A i \in {1, 8, 13, 16} : Where(y.c, h) = i <=> Where(x.c, h) = i
      BY <1>5, <2>2 DEF Took, NoHtlc
    <2>4. \A h : Where(x.c, h) \in {1, 8, 13, 16} => h \in DOMAIN y.c.htlcs
      BY <2>2, <2>3 DEF NoHtlc
    <2>5. \A h : Where(x.c, h) \in {1, 8, 13, 16} => /\ y.c.htlcs[h].amount = x.c.htlcs[h].amount
                                                    /\ y.c.htlcs[h].r = x.c.htlcs[h].r
      BY <1>5, <2>4 DEF SameHtlcs
    <2>6. QED
      BY <2>1, <2>3, <2>5, CarriesSame
  <1>11. Owes(y, w)
    BY <1>3, <1>4, <1>9, <1>10, OwesStays
  <1>12. Owes(w, y)
    <2> SUFFICES ASSUME NEW s \in Sides
                 PROVE  w.c.owed["remote"][s] = y.c.owed["local"][Other(s)] + 0
      BY <1>4 DEF Owes
    <2> DEFINE t == Other(s)
    <2>1. t \in Sides
      BY DEF Sides, Other
    <2>2. z.c.owed["remote"][s] = x.c.owed["local"][t] + Carries(z.c, s)
      BY <1>4 DEF Owes
    <2>3. Net(x.c, {2, 10}, {5, 17}, t) = Carries(z.c, s)
      BY <1>2, <1>4, CarriedRead
    <2> HIDE DEF t
    <2>4. y.c.owed["local"][t] = x.c.owed["local"][t] + Carries(z.c, s)
      BY <1>8, <1>9, <2>1, <2>3
    <2>5. y.c.owed["local"][t] \in Int
      BY <2>1 DEF NodeType, GoodChan, ChanRecs, Balances, Sides
    <2>6. w.c.owed["remote"][s] = y.c.owed["local"][t] + 0
      BY <1>3, <2>2, <2>4, <2>5
    <2>7. QED
      BY <2>6 DEF t
  <1>13. QED
    BY <1>11, <1>12

(* The main loop ends with nothing left in the channel. *)
Closed(x) == x.p.phase = "closing" => DOMAIN x.c.htlcs = {} /\ x.p.revs = x.p.nextR - 1

(* Every step of x leaves it so. *)
LEMMA ClosedStep ==
    ASSUME NEW n \in Nodes, NEW x, NEW y, NEW out, NodeStep(n, x, y, out), Closed(x)
    PROVE  Closed(y)
  <1>1. CASE Quiet(n, x, y, out)
    BY <1>1 DEF Quiet, PeerKeeps, Goes, Closed
  <1>2. CASE SavesResolution(n, x, y, out)
    BY <1>2 DEF SavesResolution, Closed
  <1>3. CASE GotCommit(n, x, y, out) \/ GotRevoke(n, x, y, out) \/ Answers(n, x, y, out)
    BY <1>3 DEF GotCommit, GotRevoke, Answers, Goes, Closed
  <1>4. CASE Offers(n, x, y, out) \/ Resolves(n, x, y, out) \/ SendsCommit(n, x, y, out)
               \/ GotRemove(n, x, y, out)
    BY <1>4 DEF Offers, Resolves, SendsCommit, GotRemove, Closed
  <1>5. CASE GotAdd(n, x, y, out) \/ GotFee(n, x, y, out)
    BY <1>5 DEF GotAdd, GotFee, Reads, Closed
  <1>6. QED
    BY <1>1, <1>2, <1>3, <1>4, <1>5 DEF NodeStep

(* A step of x. *)
LEMMA OwesStep ==
    ASSUME NEW n \in Nodes, NEW x, NEW m \in Nodes, NEW z, Met(n, x, m, z),
           Settles(x, z), Settles(z, x), Owes(x, z), Owes(z, x),
           NEW y, NEW out \in Seq(Msgs), NodeStep(n, x, y, out), NEW w, Hears(z, w, out)
    PROVE  Owes(y, w) /\ Owes(w, y)
  <1>1. NodeType(n, x) /\ NodeType(n, y) /\ Store(x.c, x.d) /\ LinkType(z)
    <2>1. NodeType(n, x) /\ Store(x.c, x.d) /\ LinkType(z)
      BY MetIs
    <2>2. QED
      BY <2>1, NodeStepType
  <1>2. GotAdd(n, x, y, out) => <<"remote", Head(x.q).id>> \notin DOMAIN x.c.htlcs
    <2>1. /\ NodeType(n, x) /\ NodeType(m, z) /\ Keeps(n, x) /\ Own(x) /\ Own(z)
          /\ Link(x, z) /\ Link(z, x) /\ Fresh(x, z) /\ Fresh(z, x)
      BY DEF Met
    <2>2. QED
      BY <2>1, FreshStep
  <1>3. CASE Apart(n, x, y, out)
    BY <1>1, <1>2, <1>3, OwesApart
  <1>4. CASE SendsCommit(n, x, y, out)
    BY <1>1, <1>4, OwesSent
  <1>5. CASE GotCommit(n, x, y, out)
    BY <1>1, <1>5, OwesTook
  <1>6. CASE GotRevoke(n, x, y, out)
    BY <1>1, <1>6, OwesAcked
  <1>7. QED
    BY <1>3, <1>4, <1>5, <1>6 DEF NodeStep, Apart

(* The balances of a channel without HTLCs. *)
LEMMA EmptyBalances ==
    ASSUME NEW c, NEW our \in Int, Balanced(c, our), DOMAIN c.htlcs = {}
    PROVE  /\ \A s \in Sides : Carries(c, s) = 0
           /\ \A v, s \in Sides : c.owed[v][s] = Share(our, s)
  <1>1. \A v, s : Offered(c, v, s) = {} /\ Settled(c, v, s) = {}
    BY DEF Offered, Settled, carried, committed
  <1>2. \A s : Brings(c, {1, 13}, s) = {} /\ Drops(c, {8, 16}, s) = {}
    BY DEF Brings, Drops
  <1>3. SumAmounts(c, {}) = 0
    BY AmountsNone
  <1>4. \A v, s \in Sides : c.owed[v][s] = Share(our, s) + (-0) + 0
    <2>1. \A v, s \in Sides :
             c.owed[v][s] = Share(our, s) + (-SumAmounts(c, Offered(c, v, s)))
                                 + SumAmounts(c, Settled(c, v, s))
      BY BalancedIs
    <2>2. QED
      BY <1>1, <1>3, <2>1
  <1>5. \A s \in Sides : Share(our, s) \in Int
    BY ChanneldAssumption DEF Share
  <1>6. \A s : Carries(c, s) = 0 - 0
    BY <1>2, <1>3 DEF Carries, Net
  <1>7. QED
    BY <1>4, <1>5, <1>6

(* At first. *)
LEMMA OwesInit ==
    ASSUME Init, NEW n \in Nodes
    PROVE  Owes(Node(n), Node(Peer(n))) /\ Closed(Node(n))
  <1>1. ASSUME NEW k \in Nodes
        PROVE  /\ \A v, s \in Sides : Node(k).c.owed[v][s] = Share(InitDb(k).our, s)
               /\ Node(k).p.nextL = 1 /\ Node(k).p.nextR = 1 /\ Node(k).p.phase = "run"
    <2>1. /\ Keeps(k, Node(k)) /\ \A h : Where(Node(k).c, h) = NoHtlc
          /\ Node(k).p.nextL = 1 /\ Node(k).p.nextR = 1 /\ Node(k).p.phase = "run"
      BY KeepsInit
    <2>2. Node(k).d = InitDb(k)
      BY DEF Init, Node
    <2>3. InitDb(k).our \in Int
      BY ChanneldAssumption DEF InitDb
    <2>4. Balanced(Node(k).c, InitDb(k).our)
      BY <2>1, <2>2 DEF Keeps, Store
    <2>5. DOMAIN Node(k).c.htlcs = {}
      <3>1. NodeType(k, Node(k))
        BY TypeInit DEF TypeInv
      <3>2. Node(k).c.htlcs \in HtlcMaps
        BY <3>1 DEF NodeType, GoodChan, ChanRecs
      <3>3. QED
        BY <2>1, <3>2, WhereType
    <2>6. QED
      BY <2>1, <2>3, <2>4, <2>5, EmptyBalances
  <1>2. Peer(n) \in Nodes /\ Nodes = {A, B}
    BY TwoNodes DEF Nodes
  <1>3. \A s \in Sides : Share(InitDb(n).our, s) = Share(InitDb(Peer(n)).our, Other(s))
    BY ChanneldAssumption DEF Share, InitDb, Peer, Nodes, Sides, Other
  <1>4. \A s \in Sides : /\ Other(s) \in Sides /\ "remote" \in Sides /\ "local" \in Sides
                         /\ Share(InitDb(Peer(n)).our, Other(s)) \in Int
    BY ChanneldAssumption DEF Share, InitDb, Sides, Other
  <1> DEFINE x == Node(n)
             z == Node(Peer(n))
  <1>5. /\ ~Under(x, z) /\ x.p.phase = "run"
        /\ \A s \in Sides : x.c.owed["remote"][s] = Share(InitDb(n).our, s)
        /\ \A s \in Sides : z.c.owed["local"][s] = Share(InitDb(Peer(n)).our, s)
    <2>1. /\ x.p.nextR = 1 /\ z.p.nextL = 1 /\ x.p.phase = "run"
          /\ \A v, s \in Sides : x.c.owed[v][s] = Share(InitDb(n).our, s)
          /\ \A v, s \in Sides : z.c.owed[v][s] = Share(InitDb(Peer(n)).our, s)
      BY <1>1, <1>2
    <2> HIDE DEF x, z
    <2>2. QED
      BY <2>1 DEF Under, Sides
  <1> HIDE DEF x, z
  <1>6. Owes(x, z)
    <2> SUFFICES ASSUME NEW s \in Sides
                 PROVE  x.c.owed["remote"][s] = z.c.owed["local"][Other(s)] + 0
      BY <1>5 DEF Owes
    <2>1. /\ x.c.owed["remote"][s] = Share(InitDb(Peer(n)).our, Other(s))
          /\ z.c.owed["local"][Other(s)] = Share(InitDb(Peer(n)).our, Other(s))
      BY <1>3, <1>4, <1>5
    <2>2. QED
      BY <1>4, <2>1
  <1>7. QED
    BY <1>5, <1>6 DEF x, z, Closed

-----------------------------------------------------------------------------
(* What the two nodes keep and agree on, balances and all.                  *)
OwesInv ==
    /\ MatchInv
    /\ \A n \in Nodes : Owes(Node(n), Node(Peer(n))) /\ Closed(Node(n))

(* In every step. *)
LEMMA OwesNext ==
    ASSUME OwesInv, [Next]_vars
    PROVE  OwesInv'
  <1>1. MatchInv /\ TypeInv' /\ Steps3 /\ MatchInv'
    BY TypeStep, MatchNext DEF LinkInv, KeepInv, SettleInv, MatchInv, OwesInv
  <1>2. SUFFICES \A n \in Nodes : Owes(Node(n)', Node(Peer(n))') /\ Closed(Node(n)')
    BY <1>1 DEF OwesInv
  <1>3. CASE \E n \in Nodes : \E out \in Seq(Msgs) :
               NodeStep(n, Node(n), Node(n)', out) /\ Hears(Node(Peer(n)), Node(Peer(n))', out)
    <2>1. PICK n \in Nodes, out \in Seq(Msgs) :
               NodeStep(n, Node(n), Node(n)', out) /\ Hears(Node(Peer(n)), Node(Peer(n))', out)
      BY <1>3
    <2> DEFINE x == Node(n)
               z == Node(Peer(n))
               y == Node(n)'
               w == Node(Peer(n))'
               m == Peer(n)
    <2>2. m \in Nodes /\ Met(n, x, m, z) /\ NodeStep(n, x, y, out) /\ Hears(z, w, out)
      BY <1>1, <2>1, MatchIs
    <2>3. /\ Settles(x, z) /\ Settles(z, x) /\ Owes(x, z) /\ Owes(z, x)
          /\ Closed(x) /\ Closed(z)
      BY <1>1, TwoNodes DEF OwesInv, MatchInv, SettleInv
    <2> HIDE DEF x, y, z, w, m
    <2>4. Owes(y, w) /\ Owes(w, y)
      BY <2>2, <2>3, OwesStep
    <2>5. Closed(y)
      BY <2>2, <2>3, ClosedStep
    <2>6. Closed(w)
      BY <2>2, <2>3 DEF Hears, Closed
    <2>7. (\A k \in Nodes : k = n \/ k = Peer(n)) /\ Peer(Peer(n)) = n
      BY TwoNodes
    <2>8. QED
      BY <2>4, <2>5, <2>6, <2>7 DEF x, y, z, w, m
  <1>4. CASE \A n \in Nodes : Breaks(n, Node(n), Node(n)')
    <2> SUFFICES ASSUME NEW n \in Nodes
                 PROVE  Owes(Node(n)', Node(Peer(n))') /\ Closed(Node(n)')
      OBVIOUS
    <2> DEFINE x == Node(n)
               z == Node(Peer(n))
               y == Node(n)'
               w == Node(Peer(n))'
               m == Peer(n)
    <2>1. m \in Nodes
      BY TwoNodes
    <2>2. /\ NodeType(n, x) /\ NodeType(m, z) /\ Nums(x) /\ Nums(z)
          /\ Keeps(n, x) /\ Keeps(m, z) /\ Owes(x, z)
          /\ Breaks(n, x, y) /\ Breaks(m, z, w)
      BY <1>1, <1>4, <2>1, MatchIs DEF OwesInv
    <2> HIDE DEF x, y, z, w, m
    <2>3. Store(x.c, x.d) /\ Store(z.c, z.d)
      BY <2>2 DEF Keeps
    <2>4. NodeType(n, y)
      BY <2>2, BreakType
    <2>5. Owes(y, w)
      BY <2>1, <2>2, <2>3, <2>4, OwesBreak
    <2>6. Closed(y)
      BY <2>2 DEF Breaks, RestoredPeer, Closed
    <2>7. QED
      BY <2>5, <2>6 DEF y, w
  <1>5. CASE \A n \in Nodes : Reopens(Node(n), Node(n)', Node(Peer(n)))
    <2> SUFFICES ASSUME NEW n \in Nodes
                 PROVE  Owes(Node(n)', Node(Peer(n))') /\ Closed(Node(n)')
      OBVIOUS
    <2> DEFINE x == Node(n)
               z == Node(Peer(n))
               y == Node(n)'
               w == Node(Peer(n))'
    <2>1. Peer(n) \in Nodes /\ Peer(Peer(n)) = n
      BY TwoNodes
    <2>2. /\ NodeType(n, x) /\ NodeType(Peer(n), z) /\ Owes(x, z)
          /\ Reopens(x, y, z) /\ Reopens(z, w, x)
      BY <1>1, <1>5, <2>1, MatchIs DEF OwesInv
    <2> HIDE DEF x, y, z, w
    <2>3. LinkType(x) /\ LinkType(z)
      BY <2>2 DEF NodeType, LinkType
    <2>4. Owes(y, w)
      BY <2>2, <2>3, OwesReopen
    <2>5. Closed(y)
      BY <2>2, <2>3 DEF Reopens, Closed, LinkType, PeerRecs
    <2>6. QED
      BY <2>4, <2>5 DEF y, w
  <1>6. CASE \A n \in Nodes : Node(n)' = Node(n)
    BY <1>6, TwoNodes DEF OwesInv
  <1>7. QED
    BY <1>1, <1>3, <1>4, <1>5, <1>6 DEF Steps3

(* The two nodes' HTLCs match, and each node's view of the other's balances *)
(* is the other's own, but for what is under way between them: the          *)
(* commitments and revocations that a crash can lose, in the order in which *)
(* they were sent.                                                          *)
THEOREM OwesHolds == Spec => []OwesInv
  <1>1. Init => OwesInv
    BY KeepInit, SettleInit, MatchInit, OwesInit DEF SettleInv, MatchInv, OwesInv
  <1>2. OwesInv /\ [Next]_vars => OwesInv'
    BY OwesNext
  <1>3. QED
    BY <1>1, <1>2, PTL DEF Spec

(* ClosingSplitsFunds: two nodes that both hand the channel to closingd     *)
(* have its whole capacity between them, and every view says the same.      *)
THEOREM ClosingAgrees == Spec => []ClosingSplitsFunds
  <1>1. ASSUME OwesInv, NEW n \in Nodes, \A k \in Nodes : peer[k].phase = "closing"
        PROVE  /\ \A v \in Sides : chan[n].owed[v]["local"] = db[n].our
               /\ db[n].our + db[Peer(n)].our = Funding
    <2> DEFINE x == Node(n)
               z == Node(Peer(n))
    <2>1. /\ x.c = chan[n] /\ x.d = db[n] /\ z.c = chan[Peer(n)] /\ z.d = db[Peer(n)]
          /\ x.p.phase = "closing" /\ z.p.phase = "closing"
      BY <1>1, TwoNodes DEF Node
    <2>2. /\ Owes(x, z) /\ Closed(x) /\ Closed(z) /\ Keeps(n, x) /\ Keeps(Peer(n), z)
          /\ NodeType(n, x) /\ NodeType(Peer(n), z)
      BY <1>1, MatchIs DEF OwesInv
    <2> HIDE DEF x, z
    <2>3. /\ DOMAIN x.c.htlcs = {} /\ DOMAIN z.c.htlcs = {}
          /\ Balanced(x.c, x.d.our) /\ Balanced(z.c, z.d.our)
          /\ x.d.our \in Int /\ z.d.our \in Int
      BY <2>1, <2>2 DEF Closed, Keeps, Store, NodeType, DbRecs
    <2>4. /\ \A s \in Sides : Carries(x.c, s) = 0
          /\ \A v, s \in Sides : x.c.owed[v][s] = Share(x.d.our, s)
      BY <2>3, EmptyBalances
    <2>5. \A v, s \in Sides : z.c.owed[v][s] = Share(z.d.our, s)
      BY <2>3, EmptyBalances
    <2>6. \A v \in Sides : x.c.owed[v]["local"] = x.d.our
      BY <2>4 DEF Share, Sides
    <2>7. x.c.owed["remote"]["local"] = z.c.owed["local"]["remote"] + 0
      BY <2>2, <2>4 DEF Owes, Sides, Other
    <2>8. z.c.owed["local"]["remote"] = Funding - z.d.our
      BY <2>5 DEF Share, Sides
    <2>9. x.d.our = (Funding - z.d.our) + 0
      BY <2>6, <2>7, <2>8 DEF Sides
    <2>10. x.d.our + z.d.our = Funding
      BY <2>3, <2>9, ChanneldAssumption
    <2>11. QED
      BY <2>1, <2>6, <2>10
  <1>2. A \in Nodes /\ Peer(A) = B
    BY DEF Nodes, Peer
  <1>3. OwesInv => ClosingSplitsFunds
    BY <1>1, <1>2 DEF ClosingSplitsFunds
  <1>4. QED
    BY <1>3, OwesHolds, PTL

-----------------------------------------------------------------------------
(* The feerates of the two nodes, x being the one that opened the channel.  *)

(* What x's newest signature for z says, and what the one before it says. *)
Older(x) == Young(x.c.fee[2], x.c.fee[4])
Newest(x) == Young(x.c.fee[1], Older(x))
(* What z has signed, and what its own commitment says. *)
Signs(z) == Young(z.c.fee[13], z.c.fee[14])
Bears(z) == Young(z.c.fee[12], Signs(z))

(* No feerate stays halfway through a step of the dance. *)
FeeRest(x, z) ==
    /\ x.c.fee[0] = 0 /\ x.c.fee[3] = 0 /\ z.c.fee[11] = 0
    /\ x.p.revs = x.p.nextR - 1 => x.c.fee[1] = 0

(* z's slots, by what is under way. *)
FeesMeet(x, z) ==
    /\ Bears(z) = IF Under(x, z) THEN Older(x) ELSE Newest(x)
    /\ Signs(z) = IF ~Under(z, x) THEN x.c.fee[4]
                  ELSE IF Owing(x, z) /\ ~z.d.wasRevoke THEN Newest(x) ELSE Older(x)

(* A feerate that z has not committed to is the newest, and is on its way   *)
(* before the commitment.                                                   *)
FeeNot(k) == {m \in Msgs : m.type = "fee" /\ m.rate # k}
FeeGoes(x, z) ==
    /\ z.c.fee[10] # 0 => Under(x, z) /\ z.c.fee[10] = Newest(x)
    /\ Has(z.q, OfType("fee")) => Under(x, z)
    /\ ~Has(z.q, FeeNot(Newest(x)))
    /\ Before(z.q, OfType("fee"), OfType("commit"))
    /\ Talks(x) /\ Under(x, z) /\ x.c.fee[1] # 0 => z.c.fee[10] # 0 \/ Has(z.q, OfType("fee"))
    /\ ~Talks(x) => z.c.fee[10] = 0
    /\ ~Has(x.q, OfType("fee"))

Fees(x, z) == FeeRest(x, z) /\ FeesMeet(x, z) /\ FeeGoes(x, z)

-----------------------------------------------------------------------------
(* The queue r has the feerates of q. *)
FeesAs(q, r) ==
    /\ Has(r, OfType("fee")) <=> Has(q, OfType("fee"))
    /\ \A k : Has(r, FeeNot(k)) => Has(q, FeeNot(k))
    /\ Before(q, OfType("fee"), OfType("commit")) => Before(r, OfType("fee"), OfType("commit"))

(* A wrong feerate is a feerate. *)
LEMMA WrongFee ==
    ASSUME NEW q, ~Has(q, OfType("fee"))
    PROVE  \A k : ~Has(q, FeeNot(k))
  BY DEF Has, OfType, FeeNot

(* No feerate is sent. *)
LEMMA FeesQueued ==
    ASSUME NEW q \in Seq(Msgs), NEW out \in Seq(Msgs), ~Has(out, OfType("fee"))
    PROVE  FeesAs(q, q \o out)
  <1>1. \A k : ~Has(out, FeeNot(k))
    BY WrongFee
  <1>2. Before(out, OfType("fee"), OfType("commit"))
    BY NoneBefore
  <1>3. /\ \A T : Has(q \o out, T) <=> Has(q, T) \/ Has(out, T)
        /\ \A S, T : Before(q \o out, S, T) <=> /\ Before(q, S, T) /\ Before(out, S, T)
                                                /\ ~(Has(q, T) /\ Has(out, S))
    BY Queued
  <1>4. QED
    BY <1>1, <1>2, <1>3 DEF FeesAs

(* No feerate is read. *)
LEMMA FeesPopped ==
    ASSUME NEW q \in Seq(Msgs), q # << >>, Head(q).type # "fee"
    PROVE  FeesAs(q, Tail(q))
  <1>1. Head(q) \notin OfType("fee")
    BY DEF OfType
  <1>2. /\ \A T : Has(q, T) <=> Head(q) \in T \/ Has(Tail(q), T)
        /\ \A S, T : Before(q, S, T) => Before(Tail(q), S, T)
    BY Popped
  <1>3. QED
    BY <1>1, <1>2 DEF FeesAs

(* No feerate and no number moves. *)
LEMMA FeesStay ==
    ASSUME NEW x, NEW z, Fees(x, z), NEW y, NEW w,
           Under(y, w) <=> Under(x, z), Under(w, y) <=> Under(z, x),
           Owing(y, w) <=> Owing(x, z), w.d.wasRevoke = z.d.wasRevoke,
           Talks(y) <=> Talks(x), y.p.revs = x.p.revs, y.p.nextR = x.p.nextR,
           y.c.fee = x.c.fee, w.c.fee = z.c.fee, FeesAs(z.q, w.q), FeesAs(x.q, y.q)
    PROVE  Fees(y, w)
  <1>1. /\ Older(y) = Older(x) /\ Newest(y) = Newest(x) /\ Signs(w) = Signs(z)
        /\ Bears(w) = Bears(z)
    BY DEF Older, Newest, Signs, Bears
  <1>2. FeeRest(y, w)
    BY DEF Fees, FeeRest
  <1>3. FeesMeet(y, w)
    BY <1>1 DEF Fees, FeesMeet
  <1>4. FeeGoes(y, w)
    BY <1>1 DEF Fees, FeeGoes, FeesAs
  <1>5. QED
    BY <1>2, <1>3, <1>4 DEF Fees

-----------------------------------------------------------------------------
(* A step that no feerate is about. *)
NoFee(x, y, out) ==
    /\ Minor(x, y, out) /\ y.c.fee = x.c.fee /\ ~Has(out, OfType("fee"))
    /\ y.q = x.q \/ (x.q # << >> /\ y.q = Tail(x.q) /\ Head(x.q).type # "fee")

(* The opener's, or the other's. *)
LEMMA FeesNoFee ==
    ASSUME NEW n, NEW x, NEW m, NEW z, Met(n, x, m, z), NEW y, NEW out \in Seq(Msgs),
           NoFee(x, y, out), NEW w, Hears(z, w, out)
    PROVE  /\ Fees(x, z) => Fees(y, w)
           /\ Fees(z, x) => Fees(w, y)
  <1>1. x.q \in Seq(Msgs) /\ z.q \in Seq(Msgs)
    BY MetIs
  <1>2. Constant(x, y, z, w)
    BY MinorOrder DEF NoFee
  <1>3. w.p = z.p /\ w.c = z.c /\ w.q = z.q \o out
    BY HearsSame
  <1>4. FeesAs(z.q, w.q)
    <2>1. FeesAs(z.q, z.q \o out)
      BY <1>1, FeesQueued DEF NoFee
    <2>2. QED
      BY <1>3, <2>1
  <1>5. FeesAs(x.q, y.q)
    <2>1. FeesAs(x.q, x.q)
      BY DEF FeesAs
    <2>2. QED
      BY <1>1, <2>1, FeesPopped DEF NoFee
  <1>6. /\ y.c.fee = x.c.fee /\ y.p.revs = x.p.revs /\ y.p.nextR = x.p.nextR
    BY DEF NoFee, Minor, SameNums
  <1>7. /\ Under(y, w) <=> Under(x, z)
        /\ Owing(y, w) <=> Owing(x, z)
        /\ Under(w, y) <=> Under(z, x)
        /\ Owing(w, y) <=> Owing(z, x)
        /\ y.d.wasRevoke = x.d.wasRevoke /\ w.d.wasRevoke = z.d.wasRevoke
        /\ Talks(y) <=> Talks(x)
        /\ Talks(w) <=> Talks(z)
    BY <1>2 DEF Constant
  <1>8. Fees(x, z) => Fees(y, w)
    BY <1>3, <1>4, <1>5, <1>6, <1>7, FeesStay
  <1>9. Fees(z, x) => Fees(w, y)
    BY <1>3, <1>4, <1>5, <1>6, <1>7, FeesStay
  <1>10. QED
    BY <1>8, <1>9

(* Updates of HTLCs, shutdowns and what lightningd saves. *)
LEMMA NoFeeSteps ==
    ASSUME NEW n, NEW x, NodeType(n, x), NEW y, NEW out \in Seq(Msgs),
           \/ Quiet(n, x, y, out) \/ SavesResolution(n, x, y, out) \/ Offers(n, x, y, out)
           \/ Resolves(n, x, y, out) \/ GotAdd(n, x, y, out) \/ GotRemove(n, x, y, out)
    PROVE  NoFee(x, y, out)
  <1>1. x.c \in ChanRecs /\ x.p \in PeerRecs /\ x.d \in DbRecs
    BY DEF NodeType, GoodChan
  <1>2. /\ \A h, rec : with_htlc(x.c, h, rec).fee = x.c.fee
        /\ \A sender, id, a : new_htlc(x.c, sender, id, a).fee = x.c.fee
        /\ \A h, r : remove_htlc(x.c, h, r).fee = x.c.fee
    <2>1. \A h, rec : with_htlc(x.c, h, rec).fee = x.c.fee
      BY <1>1 DEF with_htlc, ChanRecs
    <2>2. QED
      BY <2>1 DEF new_htlc, remove_htlc
  <1>3. \A T : ~Has(<< >>, T)
    BY NoneQueued
  <1>4. \A u \in Msgs : u.type \notin {"fee", "commit", "revoke"} =>
            /\ ~Has(<<u>>, OfType("fee")) /\ ~Has(<<u>>, OfType("commit"))
            /\ ~Has(<<u>>, OfType("revoke"))
    <2> TAKE u \in Msgs
    <2>1. \A T : Has(<<u>>, T) <=> u \in T
      BY OneQueued
    <2>2. QED
      BY <2>1 DEF OfType
  <1>5. CASE Quiet(n, x, y, out) \/ SavesResolution(n, x, y, out)
    <2>1. Idles(x, y, out)
      BY <1>5, IdleSteps
    <2>2. y.c = x.c
      BY <1>5 DEF Quiet, SavesResolution
    <2>3. ~Has(out, OfType("fee")) /\ ~Has(out, OfType("commit")) /\ ~Has(out, OfType("revoke"))
      <3>1. CASE out = << >>
        BY <1>3, <3>1
      <3>2. CASE out = <<ShutdownMsg>>
        <4>1. ShutdownMsg \in Msgs /\ ShutdownMsg.type = "shutdown"
          BY MsgShutdown DEF ShutdownMsg
        <4>2. QED
          BY <1>4, <3>2, <4>1
      <3>3. QED
        BY <2>1, <3>1, <3>2 DEF Idles
    <2>4. Minor(x, y, out)
      BY <2>1, <2>3 DEF Idles, Minor, SameIds, Pops
    <2>5. y.q = x.q \/ (x.q # << >> /\ y.q = Tail(x.q) /\ Head(x.q).type # "fee")
      BY <1>5 DEF Quiet, SavesResolution
    <2>6. QED
      BY <2>2, <2>3, <2>4, <2>5 DEF NoFee
  <1>6. CASE Offers(n, x, y, out)
    <2>1. PICK a \in Nat : /\ y.c = new_htlc(x.c, "local", x.p.htlcId, a)
                           /\ out = <<[type |-> "add", id |-> x.p.htlcId, amount |-> a]>>
      BY <1>6 DEF Offers
    <2> DEFINE u == [type |-> "add", id |-> x.p.htlcId, amount |-> a]
    <2>2. u \in Msgs /\ u.type = "add"
      BY <1>1, MsgAdd DEF PeerRecs
    <2>3. out = <<u>>
      BY <2>1
    <2> HIDE DEF u
    <2>4. ~Has(out, OfType("fee")) /\ ~Has(out, OfType("commit")) /\ ~Has(out, OfType("revoke"))
      BY <1>4, <2>2, <2>3
    <2>5. SameNums(x.p, y.p) /\ y.d.wasRevoke = x.d.wasRevoke /\ Onward(x, y) /\ y.q = x.q
      BY <1>6 DEF Offers, SameNums, Onward
    <2>6. QED
      BY <1>2, <2>1, <2>4, <2>5 DEF Minor, NoFee
  <1>7. CASE Resolves(n, x, y, out)
    <2>1. PICK h \in DOMAIN x.d.htlcs : /\ h \in DOMAIN x.c.htlcs
                                        /\ y.c = remove_htlc(x.c, h, x.d.htlcs[h].r)
                                        /\ out = <<[type |-> x.d.htlcs[h].r, id |-> h[2]]>>
      BY <1>7 DEF Resolves
    <2> DEFINE u == [type |-> x.d.htlcs[h].r, id |-> h[2]]
    <2>2. u \in Msgs /\ u.type \notin {"fee", "commit", "revoke"}
      <3>1. x.d.htlcs[h].r \in {"none", "fulfill", "fail"} /\ h[2] \in Nat
        BY <1>1, <2>1, HtlcMapElim DEF DbRecs, HtlcRecs, HtlcKeys
      <3>2. QED
        BY <3>1, MsgRemove
    <2>3. out = <<u>>
      BY <2>1
    <2> HIDE DEF u
    <2>4. ~Has(out, OfType("fee")) /\ ~Has(out, OfType("commit")) /\ ~Has(out, OfType("revoke"))
      BY <1>4, <2>2, <2>3
    <2>5. SameNums(x.p, y.p) /\ y.d.wasRevoke = x.d.wasRevoke /\ Onward(x, y) /\ y.q = x.q
      BY <1>7 DEF Resolves, SameNums, Onward, PeerKeeps
    <2>6. QED
      BY <1>2, <2>1, <2>4, <2>5 DEF Minor, NoFee
  <1>8. CASE GotAdd(n, x, y, out)
    BY <1>1, <1>2, <1>3, <1>8 DEF GotAdd, Reads, Minor, NoFee, SameNums, Onward
  <1>9. CASE GotRemove(n, x, y, out)
    <2>1. y.c.fee = x.c.fee
      BY <1>2, <1>9 DEF GotRemove
    <2>2. QED
      BY <1>3, <1>9, <2>1 DEF GotRemove, Reads, Minor, NoFee, SameNums, Onward, PeerKeeps
  <1>10. QED
    BY <1>5, <1>6, <1>7, <1>8, <1>9

(* The slots of a channel are numbers. *)
LEMMA SlotNats ==
    ASSUME NEW c, GoodChan(c)
    PROVE  /\ c.fee \in Slots /\ \A i \in 0..19 : c.fee[i] \in Nat
           /\ c.opener = "local" => c.fee[4] # 0
           /\ c.opener = "remote" => c.fee[14] # 0
  BY DEF GoodChan, ChanRecs, Slots, HtlcStates, last_fee_state, SENT_ADD_ACK_REVOCATION,
     RCVD_ADD_ACK_REVOCATION

(* What a received commitment does to the slots. *)
LEMMA TookSlots ==
    ASSUME NEW n \in Nodes, NEW x, NodeType(n, x), NEW y, NEW out, GotCommit(n, x, y, out)
    PROVE  LET f == x.c.fee
               g == y.c.fee
           IN  /\ g[0] = f[0] /\ g[1] = f[1] /\ g[2] = 0 /\ g[3] = 0
               /\ g[4] = Young(Young(f[2], f[3]), f[4])
               /\ g[10] = 0 /\ g[11] = 0 /\ g[12] = Young(Young(f[10], f[11]), f[12])
               /\ g[13] = f[13] /\ g[14] = f[14]
  <1> DEFINE c == x.c
             c1 == channel_rcvd_commit(c)
             f == x.c.fee
             e == c1.fee
             g == y.c.fee
  <1>1. GoodChan(c) /\ GoodChan(c1) /\ y.c = channel_sending_revoke_and_ack(c1)
    BY TookCommit DEF NodeType
  <1>2. e = inc_fee_states(f, {2, 5, 10, 17})
    BY <1>1, FeesMoved
  <1>3. f \in Slots /\ e \in Slots
    BY <1>1, SlotNats
  <1> HIDE DEF c1
  <1>4. g = inc_fee_states(e, {3, 6, 11, 18})
    BY <1>1, FeesMoved
  <1> HIDE DEF f, e, g
  <1>5. /\ e[1] = f[1] /\ e[2] = 0 /\ e[3] = Young(f[2], f[3]) /\ e[4] = f[4]
        /\ e[11] = Young(f[10], f[11]) /\ e[12] = f[12] /\ e[13] = f[13]
        /\ e[14] = f[14] /\ e[0] = f[0] /\ e[10] = 0
    BY <1>2, <1>3, SlotsMoved
  <1>6. /\ g[1] = e[1] /\ g[2] = e[2] /\ g[3] = 0 /\ g[4] = Young(e[3], e[4])
        /\ g[11] = 0 /\ g[12] = Young(e[11], e[12]) /\ g[13] = e[13]
        /\ g[14] = e[14] /\ g[0] = e[0] /\ g[10] = e[10]
    BY <1>3, <1>4, SlotsMoved
  <1>7. QED
    BY <1>5, <1>6 DEF f, g

(* What a received revocation does to them. *)
LEMMA AckSlots ==
    ASSUME NEW n \in Nodes, NEW x, NodeType(n, x), NEW y, NEW out, GotRevoke(n, x, y, out)
    PROVE  LET f == x.c.fee
               g == y.c.fee
           IN  /\ g[0] = f[0] /\ g[1] = 0 /\ g[2] = Young(f[1], f[2]) /\ g[3] = f[3]
               /\ g[4] = f[4]
               /\ g[10] = f[10] /\ g[11] = f[11] /\ g[12] = f[12] /\ g[13] = 0
               /\ g[14] = Young(f[13], f[14])
  <1> DEFINE f == x.c.fee
             g == y.c.fee
  <1>1. GoodChan(x.c) /\ y.c = channel_rcvd_revoke_and_ack(x.c)
    BY DEF NodeType, GotRevoke
  <1>2. g = inc_fee_states(f, {1, 8, 13, 16}) /\ f \in Slots
    BY <1>1, FeesMoved, SlotNats
  <1> HIDE DEF f, g
  <1>3. /\ g[1] = 0 /\ g[2] = Young(f[1], f[2]) /\ g[3] = f[3] /\ g[4] = f[4]
        /\ g[11] = f[11] /\ g[12] = f[12] /\ g[13] = 0
        /\ g[14] = Young(f[13], f[14]) /\ g[0] = f[0] /\ g[10] = f[10]
    BY <1>2, SlotsMoved
  <1>4. QED
    BY <1>3 DEF f, g

(* What a commitment that is sent does to them, and the feerate sent with   *)
(* it.                                                                      *)
LEMMA SentSlots ==
    ASSUME NEW n \in Nodes, NEW x, NodeType(n, x), NEW y, NEW out \in Seq(Msgs),
           SendsCommit(n, x, y, out),
           x.c.opener = "local" => x.c.fee[0] = 0 /\ x.c.fee[1] = 0
    PROVE  LET f == x.c.fee
               g == y.c.fee
           IN  /\ x.c.opener = "local" =>
                    /\ g[0] = 0 /\ g[2] = f[2] /\ g[3] = f[3] /\ g[4] = f[4]
                    /\ Has(out, OfType("fee")) <=> g[1] # 0
                    /\ ~Has(out, FeeNot(g[1]))
                    /\ Before(out, OfType("fee"), OfType("commit"))
                    /\ g[1] # 0 => f[2] = 0
               /\ x.c.opener = "remote" =>
                    /\ g[0] = 0 /\ g[1] = Young(f[0], f[1]) /\ g[2] = f[2] /\ g[3] = f[3]
                    /\ g[10] = f[10] /\ g[11] = f[11] /\ g[12] = 0
                    /\ g[13] = Young(f[12], f[13]) /\ g[14] = f[14]
                    /\ ~Has(out, OfType("fee"))
  <1>0. PICK c1 : Commits(n, x, y, out, c1)
    BY SentCommit
  <1>1. PICK s \in ShutdownMsgs :
          out = FeeMsgs(x.c, c1) \o <<CommitMsg(n, y.c, x.p.nextR)>> \o s
    BY <1>0 DEF Commits
  <1>2. /\ FeeUpdated(x.c, c1) /\ GoodChan(c1) /\ GoodChan(y.c) /\ GoodChan(x.c)
        /\ y.c = channel_sending_commit(c1)
    BY <1>0 DEF Commits, NodeType
  <1> DEFINE f == x.c.fee
             g == y.c.fee
             e == c1.fee
             F == FeeMsgs(x.c, c1)
             m == CommitMsg(n, y.c, x.p.nextR)
             r == e[0]
             fm == [type |-> "fee", rate |-> r]
  <1>3. /\ g[1] = Young(e[0], e[1]) /\ g[2] = e[2] /\ g[3] = e[3] /\ g[4] = e[4]
        /\ g[11] = e[11] /\ g[12] = 0 /\ g[13] = Young(e[12], e[13])
        /\ g[14] = e[14] /\ g[0] = 0 /\ g[10] = e[10]
    <2>1. g = inc_fee_states(e, {0, 7, 12, 15}) /\ e \in Slots
      BY <1>2, FeesMoved, SlotNats
    <2> HIDE DEF e, g
    <2>2. QED
      BY <2>1, SlotsMoved
  <1>4. \/ c1 = x.c /\ F = << >>
        \/ /\ x.c.opener = "local" /\ r \in Nat \ {0} /\ F = <<fm>>
           /\ e[1] = f[1] /\ e[2] = f[2] /\ e[3] = f[3] /\ e[4] = f[4]
    <2>1. CASE c1 = x.c
      BY <2>1 DEF FeeMsgs
    <2>2. CASE c1 # x.c
      <3>1. PICK rate \in Nat \ {0} : c1 = channel_update_feerate(x.c, rate)
        BY <1>2, <2>2 DEF FeeUpdated
      <3>2. x.c.opener = "local"
        BY <1>2, <2>2 DEF FeeUpdated
      <3>3. \A i \in HtlcStates :
                c1.fee[i] = IF i = first_fee_state(x.c.opener) THEN rate ELSE x.c.fee[i]
        BY <1>2, <3>1, UpdateFeerate
      <3>4. first_fee_state("local") = 0
        BY DEF first_fee_state, SENT_ADD_HTLC
      <3>5. r = rate /\ e[1] = f[1] /\ e[2] = f[2] /\ e[3] = f[3] /\ e[4] = f[4]
        BY <3>2, <3>3, <3>4 DEF HtlcStates
      <3>6. F = <<fm>>
        BY <2>2, <3>4 DEF FeeMsgs
      <3>7. QED
        BY <3>2, <3>5, <3>6
    <2>3. QED
      BY <2>1, <2>2
  <1>5. m \in Msgs /\ m.type = "commit"
    <2>1. x.p.nextR \in Int
      BY DEF NodeType, PeerRecs
    <2>2. CommitTx(n, y.c, "remote", x.p.nextR) \in Txs
      BY <1>2, <2>1, CommitTxType DEF Sides
    <2>3. QED
      BY <2>2, MsgCommit DEF CommitMsg
  <1>6. s \in Seq(Msgs) /\ ~Has(s, OfType("fee")) /\ ~Has(s, OfType("commit"))
    <2>1. CASE s = << >>
      BY <2>1, NoneQueued
    <2>2. CASE s = <<ShutdownMsg>>
      <3>1. ShutdownMsg \in Msgs /\ ShutdownMsg.type = "shutdown"
        BY MsgShutdown DEF ShutdownMsg
      <3>2. <<ShutdownMsg>> \in Seq(Msgs) /\ \A T : Has(<<ShutdownMsg>>, T) <=> ShutdownMsg \in T
        BY <3>1, OneQueued
      <3>3. QED
        BY <2>2, <3>1, <3>2 DEF OfType
    <2>3. QED
      BY <2>1, <2>2 DEF ShutdownMsgs
  <1>7. /\ F \in Seq(Msgs) /\ ~Has(F, OfType("commit"))
        /\ c1 = x.c => ~Has(F, OfType("fee"))
        /\ ~(c1 = x.c) => Has(F, OfType("fee")) /\ ~Has(F, FeeNot(r))
    <2>1. CASE c1 = x.c
      <3>1. F = << >>
        BY <2>1 DEF FeeMsgs
      <3>2. QED
        BY <2>1, <3>1, NoneQueued
    <2>2. CASE ~(c1 = x.c)
      <3>1. F = <<fm>> /\ r \in Nat \ {0}
        BY <1>4, <2>2
      <3>2. fm \in Msgs /\ fm.type = "fee" /\ fm.rate = r
        BY <3>1, MsgFee
      <3> HIDE DEF fm, F
      <3>3. <<fm>> \in Seq(Msgs) /\ \A T : Has(<<fm>>, T) <=> fm \in T
        BY <3>2, OneQueued
      <3>4. QED
        BY <2>2, <3>1, <3>2, <3>3 DEF OfType, FeeNot
    <2>3. QED
      BY <2>1, <2>2
  <1>8. /\ Has(out, OfType("fee")) <=> Has(F, OfType("fee"))
        /\ \A k : Has(out, FeeNot(k)) <=> Has(F, FeeNot(k))
        /\ Before(out, OfType("fee"), OfType("commit"))
    <2> DEFINE u == <<m>>
               v == F \o u
    <2>1. u \in Seq(Msgs) /\ \A T : (Has(u, T) <=> m \in T)
      BY <1>5, OneQueued
    <2>2. ~Has(u, OfType("fee"))
      BY <1>5, <2>1 DEF OfType
    <2>3. out = v \o s
      BY <1>1
    <2> HIDE DEF F, u
    <2>4. /\ v \in Seq(Msgs)
          /\ \A T : Has(v, T) <=> Has(F, T) \/ Has(u, T)
          /\ \A S, T : Before(v, S, T) <=> /\ Before(F, S, T) /\ Before(u, S, T)
                                           /\ ~(Has(F, T) /\ Has(u, S))
      BY <1>7, <2>1, Queued
    <2> HIDE DEF v
    <2>5. /\ \A T : Has(v \o s, T) <=> Has(v, T) \/ Has(s, T)
          /\ \A S, T : Before(v \o s, S, T) <=> /\ Before(v, S, T) /\ Before(s, S, T)
                                                /\ ~(Has(v, T) /\ Has(s, S))
      BY <1>6, <2>4, Queued
    <2>6. /\ Before(F, OfType("fee"), OfType("commit"))
          /\ Before(u, OfType("fee"), OfType("commit"))
          /\ Before(s, OfType("fee"), OfType("commit"))
      BY <1>6, <1>7, <2>2, NoneBefore
    <2>7. \A k : ~Has(u, FeeNot(k)) /\ ~Has(s, FeeNot(k))
      BY <1>6, <2>2, WrongFee
    <2>8. QED
      BY <1>6, <1>7, <2>2, <2>3, <2>4, <2>5, <2>6, <2>7
  <1> HIDE DEF f, g, e, F, m, fm
  <1>9. CASE x.c.opener = "local"
    <2>1. CASE c1 = x.c
      <3>1. e = f
        BY <2>1 DEF e, f
      <3>2. e[0] = 0 /\ e[1] = 0
        BY <1>9, <3>1 DEF f
      <3>3. g[1] = 0 /\ g[2] = f[2] /\ g[3] = f[3] /\ g[4] = f[4] /\ g[0] = 0
        BY <1>3, <3>1, <3>2 DEF Young
      <3>4. ~Has(out, OfType("fee"))
        BY <1>7, <1>8, <2>1
      <3>5. ~Has(out, FeeNot(g[1]))
        BY <3>4, WrongFee
      <3>6. QED
        BY <1>8, <1>9, <3>3, <3>4, <3>5 DEF f, g
    <2>2. CASE ~(c1 = x.c)
      <3>1. e[0] \in Nat \ {0} /\ e[1] = f[1] /\ e[2] = f[2] /\ e[3] = f[3] /\ e[4] = f[4]
        BY <1>4, <2>2
      <3>2. g[1] = r /\ g[1] # 0 /\ g[2] = f[2] /\ g[3] = f[3] /\ g[4] = f[4] /\ g[0] = 0
        BY <1>3, <3>1 DEF Young
      <3>3. Has(out, OfType("fee")) /\ ~Has(out, FeeNot(g[1]))
        BY <1>7, <1>8, <2>2, <3>2
      <3>4. f[2] = 0
        <4>1. feerate_changes_done(f) /\ f[4] # 0
          BY <1>2, <1>9, <2>2, SlotNats DEF FeeUpdated, f
        <4>2. QED
          BY <4>1 DEF feerate_changes_done, HtlcStates
      <3>5. QED
        BY <1>8, <1>9, <3>2, <3>3, <3>4 DEF f, g
    <2>3. QED
      BY <2>1, <2>2
  <1>10. CASE x.c.opener = "remote"
    <2>1. c1 = x.c
      BY <1>4, <1>10
    <2>2. e = f
      BY <2>1 DEF e, f
    <2>3. ~Has(out, OfType("fee"))
      BY <1>7, <1>8, <2>1
    <2>4. QED
      BY <1>3, <1>10, <2>2, <2>3 DEF f, g
  <1>11. x.c.opener \in {"local", "remote"}
    BY <1>2 DEF GoodChan, ChanRecs, Sides
  <1>12. QED
    BY <1>9, <1>10, <1>11

(* send_commit() of the node that opened the channel. *)
LEMMA FeesSent ==
    ASSUME NEW n \in Nodes, NEW x, NEW m, NEW z, Met(n, x, m, z), Fees(x, z),
           x.c.opener = "local",
           NEW y, NEW out \in Seq(Msgs), SendsCommit(n, x, y, out), NEW w, Hears(z, w, out)
    PROVE  Fees(y, w)
  <1>1. /\ NodeType(n, x) /\ LinkType(x) /\ LinkType(z) /\ LinkNums(x, z)
        /\ x.q \in Seq(Msgs) /\ z.q \in Seq(Msgs)
    BY MetIs
  <1>2. /\ y.p.phase = "run" /\ x.p.revs = x.p.nextR - 1
        /\ y.p \in PeerRecs /\ y.p.nextR = x.p.nextR + 1 /\ y.p.nextL = x.p.nextL
        /\ y.p.revs = x.p.revs /\ y.q = x.q
    BY DEF SendsCommit
  <1>3. /\ w.d.wasRevoke = z.d.wasRevoke /\ w.p = z.p /\ w.c = z.c /\ w.q = z.q \o out
    BY HearsSame
  <1>4. /\ ~Under(x, z) /\ ~Owing(x, z) /\ Under(y, w) /\ ~Owing(y, w)
        /\ Under(w, y) <=> Under(z, x)
        /\ ~Has(z.q, OfType("commit"))
    BY <1>1, <1>2, <1>3, FlagsSent
  <1> DEFINE f == x.c.fee
             g == y.c.fee
  <1>5. f[0] = 0 /\ f[1] = 0 /\ f[3] = 0 /\ z.c.fee[11] = 0
    BY <1>2 DEF Fees, FeeRest
  <1>6. /\ g[0] = 0 /\ g[2] = f[2] /\ g[3] = f[3] /\ g[4] = f[4]
        /\ Has(out, OfType("fee")) <=> g[1] # 0
        /\ ~Has(out, FeeNot(g[1]))
        /\ Before(out, OfType("fee"), OfType("commit"))
    BY <1>1, <1>5, SentSlots
  <1>7. Older(y) = Older(x) /\ Newest(x) = Older(x)
    BY <1>5, <1>6 DEF Older, Newest, Young
  <1>8. g[1] # 0 => Newest(y) = g[1]
    BY DEF Newest, Young
  <1>9. Signs(w) = Signs(z) /\ Bears(w) = Bears(z)
    BY <1>3 DEF Signs, Bears
  <1> HIDE DEF f, g
  <1>10. FeeRest(y, w)
    <2>1. ~(y.p.revs = y.p.nextR - 1)
      BY <1>1, <1>2 DEF LinkType, PeerRecs
    <2>2. QED
      BY <1>3, <1>5, <1>6, <2>1 DEF FeeRest, g
  <1>11. FeesMeet(y, w)
    BY <1>3, <1>4, <1>6, <1>7, <1>9 DEF Fees, FeesMeet, f, g
  <1>12. FeeGoes(y, w)
    <2>1. ~Has(z.q, OfType("fee")) /\ z.c.fee[10] = 0 /\ ~Has(x.q, OfType("fee"))
      BY <1>4 DEF Fees, FeeGoes
    <2>2. \A k : ~Has(z.q, FeeNot(k))
      BY <2>1, WrongFee
    <2>3. Before(z.q, OfType("fee"), OfType("commit"))
      BY <2>1, NoneBefore
    <2>4. /\ \A T : Has(z.q \o out, T) <=> Has(z.q, T) \/ Has(out, T)
          /\ \A S, T : Before(z.q \o out, S, T) <=> /\ Before(z.q, S, T) /\ Before(out, S, T)
                                                    /\ ~(Has(z.q, T) /\ Has(out, S))
      BY <1>1, Queued
    <2>5. Before(w.q, OfType("fee"), OfType("commit"))
      BY <1>3, <1>4, <1>6, <2>3, <2>4
    <2>6. Has(w.q, OfType("fee")) <=> g[1] # 0
      BY <1>3, <1>6, <2>1, <2>4
    <2>7. ~Has(w.q, FeeNot(Newest(y)))
      <3>1. CASE g[1] = 0
        <4>1. ~Has(w.q, OfType("fee"))
          BY <2>6, <3>1
        <4>2. QED
          BY <4>1, WrongFee
      <3>2. CASE g[1] # 0
        <4>1. ~Has(w.q, FeeNot(g[1]))
          BY <1>3, <1>6, <2>2, <2>4
        <4>2. QED
          BY <1>8, <3>2, <4>1
      <3>3. QED
        BY <3>1, <3>2
    <2>8. Talks(y)
      BY <1>2 DEF Talks
    <2>9. QED
      BY <1>2, <1>3, <1>4, <2>1, <2>5, <2>6, <2>7, <2>8 DEF FeeGoes, g
  <1>13. QED
    BY <1>10, <1>11, <1>12 DEF Fees

(* send_commit() of the other node. *)
LEMMA FeesSentBack ==
    ASSUME NEW n \in Nodes, NEW x, NEW m, NEW z, Met(n, x, m, z), Fees(z, x),
           x.c.opener = "remote",
           NEW y, NEW out \in Seq(Msgs), SendsCommit(n, x, y, out), NEW w, Hears(z, w, out)
    PROVE  Fees(w, y)
  <1>1. /\ NodeType(n, x) /\ LinkType(x) /\ LinkType(z) /\ LinkNums(x, z) /\ LinkNums(z, x)
        /\ x.q \in Seq(Msgs) /\ z.q \in Seq(Msgs)
    BY MetIs
  <1>2. /\ y.p.phase = "run" /\ x.p.revs = x.p.nextR - 1
        /\ y.p \in PeerRecs /\ y.p.nextR = x.p.nextR + 1 /\ y.p.nextL = x.p.nextL
        /\ y.p.revs = x.p.revs /\ y.q = x.q
    BY DEF SendsCommit
  <1>3. /\ Talks(w) <=> Talks(z)
        /\ w.p = z.p /\ w.c = z.c /\ w.q = z.q \o out
    BY HearsSame
  <1>4. /\ ~Under(x, z) /\ Under(y, w)
        /\ Under(w, y) <=> Under(z, x)
        /\ Owing(w, y) <=> Owing(z, x)
    BY <1>1, <1>2, <1>3, FlagsSent
  <1>5. ~y.d.wasRevoke
    BY <1>1, CommitMoves
  <1> DEFINE f == x.c.fee
             g == y.c.fee
  <1>6. /\ g[10] = f[10] /\ g[11] = f[11] /\ g[12] = 0
        /\ g[13] = Young(f[12], f[13]) /\ g[14] = f[14]
        /\ ~Has(out, OfType("fee"))
    BY <1>1, SentSlots
  <1>7. Bears(y) = Bears(x) /\ Signs(y) = Bears(x)
    BY <1>6 DEF Signs, Bears, Young
  <1>8. Older(w) = Older(z) /\ Newest(w) = Newest(z)
    BY <1>3 DEF Older, Newest
  <1> HIDE DEF f, g
  <1>9. FeeRest(w, y)
    BY <1>3, <1>6 DEF Fees, FeeRest, f, g
  <1>10. FeesMeet(w, y)
    <2>1. Bears(y) = IF Under(w, y) THEN Older(w) ELSE Newest(w)
      BY <1>4, <1>7, <1>8 DEF Fees, FeesMeet
    <2>2. ~(Under(z, x) /\ Owing(z, x))
      BY <1>1, OneAtATime
    <2>3. ~Under(z, x) /\ ~Owing(z, x) => Newest(z) = Older(z)
      <3>1. ~Under(z, x) /\ ~Owing(z, x) => z.p.revs = z.p.nextR - 1
        <4>1. /\ z.p.nextR \in Nat /\ z.p.revs \in Nat /\ x.p.nextL \in Nat
              /\ z.p.revs <= x.p.nextL - 1 /\ x.p.nextL <= z.p.nextR
              /\ z.p.nextR <= z.p.revs + 2
          BY <1>1, Numbers
        <4>2. \A i, j, k \in Nat : /\ j <= k - 1 /\ k <= i /\ i <= j + 2
                                   /\ i # k + 1 /\ j # k - 2
                                   => j = i - 1
          OBVIOUS
        <4>3. QED
          BY <4>1, <4>2 DEF Under, Owing
      <3>2. z.p.revs = z.p.nextR - 1 => z.c.fee[1] = 0
        BY DEF Fees, FeeRest
      <3>3. QED
        BY <3>1, <3>2 DEF Newest, Young
    <2>4. QED
      BY <1>4, <1>5, <1>7, <1>8, <2>1, <2>2, <2>3 DEF FeesMeet
  <1>11. FeeGoes(w, y)
    <2>1. FeesAs(z.q, z.q \o out)
      BY <1>1, <1>6, FeesQueued
    <2>2. ~Has(w.q, OfType("fee"))
      BY <1>3, <2>1 DEF FeesAs, Fees, FeeGoes
    <2>3. QED
      BY <1>2, <1>3, <1>4, <1>6, <1>8, <2>2 DEF Fees, FeeGoes, f, g
  <1>12. QED
    BY <1>9, <1>10, <1>11 DEF Fees

(* handle_peer_feechange() *)
LEMMA FeesHeard ==
    ASSUME NEW n \in Nodes, NEW x, NEW m, NEW z, Met(n, x, m, z), Fees(z, x),
           x.c.opener = "remote",
           NEW y, NEW out \in Seq(Msgs), GotFee(n, x, y, out), NEW w, Hears(z, w, out)
    PROVE  Fees(w, y)
  <1> DEFINE u == Head(x.q)
             f == x.c.fee
             g == y.c.fee
  <1>1. /\ NodeType(n, x) /\ LinkType(x) /\ LinkType(z) /\ Link(z, x)
        /\ x.q \in Seq(Msgs) /\ z.q \in Seq(Msgs) /\ GoodChan(x.c)
    BY MetIs DEF NodeType
  <1>2. /\ x.p.phase = "run" /\ x.q # << >> /\ u.type = "fee" /\ y.q = Tail(x.q)
        /\ y.c = channel_update_feerate(x.c, u.rate) /\ y.p = x.p /\ y.d = x.d /\ out = << >>
    BY DEF GotFee, Reads
  <1>3. /\ Talks(w) <=> Talks(z)
        /\ w.p = z.p /\ w.c = z.c /\ w.q = z.q \o out
    BY HearsSame
  <1>4. w.q = z.q
    <2>1. z.q \o << >> = z.q
      BY <1>1
    <2>2. QED
      BY <1>2, <1>3, <2>1
  <1>5. u \in Msgs /\ \A T : Has(x.q, T) <=> u \in T \/ Has(Tail(x.q), T)
    BY <1>1, <1>2, Popped
  <1>6. \A S, T : Before(x.q, S, T) => Before(Tail(x.q), S, T)
    BY <1>1, <1>2, Popped
  <1>7. u.rate = Newest(z) /\ u.rate \in Nat \ {0} /\ Under(z, x)
    <2>1. u.rate \in Nat \ {0}
      BY <1>2, <1>5, MsgFields
    <2>2. Has(x.q, OfType("fee")) /\ u \notin FeeNot(Newest(z))
      BY <1>2, <1>5 DEF OfType, Fees, FeeGoes
    <2>3. QED
      BY <1>2, <1>5, <2>1, <2>2 DEF FeeNot, Fees, FeeGoes
  <1>8. Talks(z)
    BY <1>1, <1>2, ReaderTalks
  <1>9. g[10] = u.rate /\ g[11] = f[11] /\ g[12] = f[12] /\ g[13] = f[13] /\ g[14] = f[14]
    <2> DEFINE c == x.c
               c2 == y.c
               r == u.rate
    <2>0. GoodChan(c) /\ r \in Nat /\ c2 = channel_update_feerate(c, r) /\ c.opener = "remote"
      BY <1>1, <1>2, <1>7
    <2> HIDE DEF c, c2, r, u
    <2>1. \A i \in HtlcStates : c2.fee[i] = IF i = first_fee_state(c.opener) THEN r ELSE c.fee[i]
      BY <2>0, UpdateFeerate
    <2>2. first_fee_state("remote") = 10
      BY DEF first_fee_state, RCVD_ADD_HTLC
    <2>3. QED
      <3>1. \A i \in HtlcStates : g[i] = IF i = 10 THEN u.rate ELSE f[i]
        BY <2>0, <2>1, <2>2 DEF c, c2, r
      <3>2. /\ 10 \in HtlcStates /\ 11 \in HtlcStates /\ 12 \in HtlcStates /\ 13 \in HtlcStates
            /\ 14 \in HtlcStates
        BY DEF HtlcStates
      <3> HIDE DEF f, g, u
      <3>3. QED
        BY <3>1, <3>2
  <1>10. /\ Under(y, w) <=> Under(x, z)
         /\ Under(w, y) <=> Under(z, x)
         /\ Owing(w, y) <=> Owing(z, x)
    BY <1>2, <1>3 DEF Under, Owing
  <1>11. /\ Older(w) = Older(z) /\ Newest(w) = Newest(z) /\ Signs(y) = Signs(x)
         /\ Bears(y) = Bears(x)
    BY <1>3, <1>9 DEF Older, Newest, Signs, Bears
  <1> HIDE DEF u, f, g
  <1>12. FeeRest(w, y)
    BY <1>3, <1>9 DEF Fees, FeeRest, f, g
  <1>13. FeesMeet(w, y)
    BY <1>2, <1>3, <1>10, <1>11 DEF Fees, FeesMeet
  <1>14. FeeGoes(w, y)
    <2>1. /\ ~Has(y.q, FeeNot(Newest(w))) /\ Before(y.q, OfType("fee"), OfType("commit"))
      BY <1>2, <1>5, <1>6, <1>11 DEF Fees, FeeGoes
    <2>2. ~Has(w.q, OfType("fee"))
      BY <1>4 DEF Fees, FeeGoes
    <2>3. y.c.fee[10] # 0 /\ y.c.fee[10] = Newest(w)
      BY <1>7, <1>9, <1>11 DEF g
    <2>4. QED
      BY <1>3, <1>7, <1>8, <1>10, <2>1, <2>2, <2>3 DEF FeeGoes
  <1>15. QED
    BY <1>12, <1>13, <1>14 DEF Fees

(* A commitment read is answered by a revocation and no more. *)
LEMMA RevokeOnly ==
    ASSUME NEW n, NEW x, NodeType(n, x), NEW y, NEW out, GotCommit(n, x, y, out)
    PROVE  ~Has(out, OfType("fee"))
  <1>1. out = <<RevokeMsg(x.p.nextL - 1)>>
    BY DEF GotCommit
  <1>2. x.p.nextL - 1 \in Int
    BY DEF NodeType, PeerRecs
  <1>3. RevokeMsg(x.p.nextL - 1) \in Msgs /\ RevokeMsg(x.p.nextL - 1).type = "revoke"
    BY <1>2, MsgRevoke DEF RevokeMsg
  <1>4. \A T : Has(out, T) <=> RevokeMsg(x.p.nextL - 1) \in T
    BY <1>1, <1>3, OneQueued
  <1>5. QED
    BY <1>3, <1>4 DEF OfType

(* handle_peer_commit_sig() of the node that opened the channel. *)
LEMMA FeesTook ==
    ASSUME NEW n \in Nodes, NEW x, NEW m, NEW z, Met(n, x, m, z), Fees(x, z),
           NEW y, NEW out \in Seq(Msgs), GotCommit(n, x, y, out), NEW w, Hears(z, w, out)
    PROVE  Fees(y, w)
  <1>1. /\ NodeType(n, x) /\ LinkType(x) /\ LinkType(z) /\ LinkNums(x, z) /\ LinkNums(z, x)
        /\ x.q \in Seq(Msgs) /\ z.q \in Seq(Msgs)
    BY MetIs
  <1>2. /\ x.p.phase = "run" /\ y.p.phase \in {"run", "closing"}
        /\ x.q # << >> /\ Head(x.q).type = "commit" /\ y.q = Tail(x.q)
        /\ y.p \in PeerRecs /\ y.p.nextL = x.p.nextL + 1 /\ y.p.nextR = x.p.nextR
        /\ y.p.revs = x.p.revs
    BY DEF GotCommit, Reads, Goes
  <1>3. /\ w.d.wasRevoke = z.d.wasRevoke /\ w.p = z.p /\ w.c = z.c /\ w.q = z.q \o out
    BY HearsSame
  <1>4. /\ Under(z, x) /\ ~Under(w, y)
        /\ Under(y, w) <=> Under(x, z)
    BY <1>1, <1>2, <1>3, FlagsTook
  <1>5. ~z.d.wasRevoke => ~Owing(x, z)
    BY <1>2, CommitRead
  <1> DEFINE f == x.c.fee
             g == y.c.fee
  <1>6. /\ g[0] = f[0] /\ g[1] = f[1] /\ g[2] = 0 /\ g[3] = 0
        /\ g[4] = Young(Young(f[2], f[3]), f[4])
    BY <1>1, TookSlots
  <1>7. f[0] = 0 /\ f[3] = 0
    BY DEF Fees, FeeRest
  <1>8. Older(y) = Older(x) /\ Newest(y) = Newest(x) /\ y.c.fee[4] = Older(x)
    BY <1>6, <1>7 DEF Older, Newest, Young
  <1>9. Signs(w) = Signs(z) /\ Bears(w) = Bears(z)
    BY <1>3 DEF Signs, Bears
  <1> HIDE DEF f, g
  <1>10. FeeRest(y, w)
    BY <1>2, <1>3, <1>6, <1>7 DEF Fees, FeeRest, f, g
  <1>11. FeesMeet(y, w)
    BY <1>4, <1>5, <1>8, <1>9 DEF Fees, FeesMeet
  <1>12. FeeGoes(y, w)
    <2>1. FeesAs(z.q, w.q)
      <3>1. ~Has(out, OfType("fee"))
        BY <1>1, RevokeOnly
      <3>2. FeesAs(z.q, z.q \o out)
        BY <1>1, <3>1, FeesQueued
      <3>3. QED
        BY <1>3, <3>2
    <2>2. FeesAs(x.q, y.q)
      BY <1>1, <1>2, FeesPopped
    <2>3. Talks(x) /\ Talks(y)
      BY <1>2 DEF Talks
    <2>4. y.c.fee[1] = x.c.fee[1]
      BY <1>6 DEF f, g
    <2>5. QED
      BY <1>3, <1>4, <1>8, <2>1, <2>2, <2>3, <2>4 DEF Fees, FeeGoes, FeesAs
  <1>13. QED
    BY <1>10, <1>11, <1>12 DEF Fees

(* handle_peer_commit_sig() of the other node. *)
LEMMA FeesTookBack ==
    ASSUME NEW n \in Nodes, NEW x, NEW m, NEW z, Met(n, x, m, z), Fees(z, x),
           NEW y, NEW out \in Seq(Msgs), GotCommit(n, x, y, out), NEW w, Hears(z, w, out)
    PROVE  Fees(w, y)
  <1>1. /\ NodeType(n, x) /\ LinkType(x) /\ LinkType(z) /\ LinkNums(x, z) /\ LinkNums(z, x)
        /\ x.q \in Seq(Msgs) /\ z.q \in Seq(Msgs) /\ Link(z, x) /\ Store(x.c, x.d)
    BY MetIs
  <1>2. /\ x.p.phase = "run"
        /\ x.q # << >> /\ Head(x.q).type = "commit" /\ y.q = Tail(x.q)
        /\ y.p \in PeerRecs /\ y.p.nextL = x.p.nextL + 1 /\ y.p.nextR = x.p.nextR
        /\ y.p.revs = x.p.revs
    BY DEF GotCommit, Reads
  <1>3. /\ Talks(w) <=> Talks(z)
        /\ w.p = z.p /\ w.c = z.c /\ w.q = z.q \o out
    BY HearsSame
  <1>4. /\ Under(z, x) /\ ~Owing(z, x) /\ ~Under(w, y) /\ Owing(w, y)
        /\ Under(y, w) <=> Under(x, z)
    BY <1>1, <1>2, <1>3, FlagsTook
  <1>5. y.d.wasRevoke
    BY <1>1, TookMoves
  <1>6. Talks(z)
    BY <1>1, <1>2, ReaderTalks
  <1>7. ~Has(x.q, OfType("fee")) /\ ~Has(y.q, OfType("fee"))
    <2>1. Head(x.q) \in Msgs
      BY <1>1, <1>2, Popped
    <2>2. Head(x.q) \in OfType("commit") /\ Head(x.q) \notin OfType("fee")
      BY <1>2, <2>1 DEF OfType
    <2>3. Before(x.q, OfType("fee"), OfType("commit"))
      BY DEF Fees, FeeGoes
    <2>4. ~Has(x.q, OfType("fee"))
      BY <1>1, <1>2, <2>2, <2>3, HeadFirst
    <2>5. FeesAs(x.q, Tail(x.q))
      BY <1>1, <1>2, FeesPopped
    <2>6. QED
      BY <1>2, <2>4, <2>5 DEF FeesAs
  <1> DEFINE f == x.c.fee
             g == y.c.fee
  <1>8. /\ g[10] = 0 /\ g[11] = 0 /\ g[12] = Young(Young(f[10], f[11]), f[12])
        /\ g[13] = f[13] /\ g[14] = f[14]
    BY <1>1, TookSlots
  <1>9. f[11] = 0
    BY DEF Fees, FeeRest
  <1>10. Signs(y) = Signs(x) /\ Bears(y) = Young(f[10], Bears(x))
    BY <1>8, <1>9 DEF Signs, Bears, Young
  <1>11. Older(w) = Older(z) /\ Newest(w) = Newest(z) /\ w.c.fee[4] = z.c.fee[4]
    BY <1>3 DEF Older, Newest
  <1> HIDE DEF f, g
  <1>12. Bears(x) = Older(z)
    BY <1>4 DEF Fees, FeesMeet
  <1>13. Bears(y) = Newest(z)
    <2>1. CASE f[10] # 0
      <3>1. f[10] = Newest(z)
        BY <2>1 DEF Fees, FeeGoes, f
      <3>2. QED
        BY <1>10, <2>1, <3>1 DEF Young
    <2>2. CASE f[10] = 0
      <3>1. z.c.fee[1] = 0
        BY <1>4, <1>6, <1>7, <2>2 DEF Fees, FeeGoes, f
      <3>2. QED
        BY <1>10, <1>12, <2>2, <3>1 DEF Newest, Young
    <2>3. QED
      BY <2>1, <2>2
  <1>14. FeeRest(w, y)
    BY <1>3, <1>8 DEF Fees, FeeRest, f, g
  <1>15. FeesMeet(w, y)
    <2>1. Signs(x) = IF ~Under(x, z) THEN z.c.fee[4] ELSE Older(z)
      BY <1>4 DEF Fees, FeesMeet
    <2>2. QED
      BY <1>4, <1>5, <1>10, <1>11, <1>13, <2>1 DEF FeesMeet
  <1>16. FeeGoes(w, y)
    <2>1. ~Has(w.q, OfType("fee"))
      <3>1. ~Has(out, OfType("fee"))
        BY <1>1, RevokeOnly
      <3>2. FeesAs(z.q, z.q \o out)
        BY <1>1, <3>1, FeesQueued
      <3>3. QED
        BY <1>3, <3>2 DEF FeesAs, Fees, FeeGoes
    <2>2. \A k : ~Has(y.q, FeeNot(k))
      BY <1>7, WrongFee
    <2>3. Before(y.q, OfType("fee"), OfType("commit"))
      BY <1>7, NoneBefore
    <2>4. y.c.fee[10] = 0
      BY <1>8 DEF g
    <2>5. QED
      BY <1>4, <1>7, <2>1, <2>2, <2>3, <2>4 DEF FeeGoes
  <1>17. QED
    BY <1>14, <1>15, <1>16 DEF Fees

(* handle_peer_revoke_and_ack() of the node that opened the channel. *)
LEMMA FeesAcked ==
    ASSUME NEW n \in Nodes, NEW x, NEW m, NEW z, Met(n, x, m, z), Fees(x, z),
           NEW y, NEW out \in Seq(Msgs), GotRevoke(n, x, y, out), NEW w, Hears(z, w, out)
    PROVE  Fees(y, w)
  <1>1. /\ NodeType(n, x) /\ LinkType(x) /\ LinkType(z) /\ LinkNums(x, z) /\ LinkNums(z, x)
        /\ x.q \in Seq(Msgs) /\ z.q \in Seq(Msgs) /\ Link(z, x) /\ InOrder(z, x)
    BY MetIs
  <1>2. /\ x.p.phase = "run" /\ y.p.phase \in {"run", "closing"}
        /\ x.q # << >> /\ Head(x.q).type = "revoke" /\ y.q = Tail(x.q)
        /\ y.p \in PeerRecs /\ y.p.nextL = x.p.nextL /\ y.p.nextR = x.p.nextR
        /\ y.p.revs = x.p.revs + 1 /\ out = << >>
    BY DEF GotRevoke, Reads, Goes
  <1>3. /\ w.d.wasRevoke = z.d.wasRevoke /\ w.p = z.p /\ w.c = z.c /\ w.q = z.q \o out
    BY HearsSame
  <1>4. /\ Owing(x, z) /\ ~Under(x, z) /\ ~Under(y, w) /\ ~Owing(y, w)
        /\ Under(w, y) <=> Under(z, x)
    BY <1>1, <1>2, <1>3, FlagsAcked
  <1>5. ~(Under(z, x) /\ z.d.wasRevoke)
    <2>1. Head(x.q) \in Msgs
      BY <1>1, <1>2, Popped
    <2>2. Head(x.q) \in OfType("revoke") /\ Head(x.q) \notin OfType("commit")
      BY <1>2, <2>1 DEF OfType
    <2>3. Talks(z)
      BY <1>1, <1>2, ReaderTalks
    <2>4. Has(x.q, OfType("commit")) => ~Before(x.q, OfType("commit"), OfType("revoke"))
      BY <1>1, <1>2, <2>2, HeadFirst
    <2>5. QED
      BY <1>1, <2>3, <2>4 DEF InOrder
  <1> DEFINE f == x.c.fee
             g == y.c.fee
  <1>6. /\ g[0] = f[0] /\ g[1] = 0 /\ g[2] = Young(f[1], f[2]) /\ g[3] = f[3]
        /\ g[4] = f[4]
    BY <1>1, AckSlots
  <1>7. f[0] = 0 /\ f[3] = 0
    BY DEF Fees, FeeRest
  <1>8. Older(y) = Newest(x) /\ Newest(y) = Newest(x) /\ y.c.fee[4] = x.c.fee[4]
    BY <1>6 DEF Older, Newest, Young
  <1>9. Signs(w) = Signs(z) /\ Bears(w) = Bears(z)
    BY <1>3 DEF Signs, Bears
  <1> HIDE DEF f, g
  <1>10. FeeRest(y, w)
    BY <1>3, <1>6, <1>7 DEF Fees, FeeRest, f, g
  <1>11. FeesMeet(y, w)
    BY <1>4, <1>5, <1>8, <1>9 DEF Fees, FeesMeet
  <1>12. FeeGoes(y, w)
    <2>1. w.q = z.q
      <3>1. z.q \o << >> = z.q
        BY <1>1
      <3>2. QED
        BY <1>2, <1>3, <3>1
    <2>2. ~Has(w.q, OfType("fee")) /\ w.c.fee[10] = 0
      BY <1>3, <1>4, <2>1 DEF Fees, FeeGoes
    <2>3. \A k : ~Has(w.q, FeeNot(k))
      BY <2>2, WrongFee
    <2>4. Before(w.q, OfType("fee"), OfType("commit"))
      BY <2>2, NoneBefore
    <2>5. FeesAs(x.q, y.q)
      BY <1>1, <1>2, FeesPopped
    <2>6. ~Has(y.q, OfType("fee"))
      BY <2>5 DEF FeesAs, Fees, FeeGoes
    <2>7. QED
      BY <1>4, <2>2, <2>3, <2>4, <2>6 DEF FeeGoes
  <1>13. QED
    BY <1>10, <1>11, <1>12 DEF Fees

(* handle_peer_revoke_and_ack() of the other node. *)
LEMMA FeesAckedBack ==
    ASSUME NEW n \in Nodes, NEW x, NEW m, NEW z, Met(n, x, m, z), Fees(z, x),
           NEW y, NEW out \in Seq(Msgs), GotRevoke(n, x, y, out), NEW w, Hears(z, w, out)
    PROVE  Fees(w, y)
  <1>1. /\ NodeType(n, x) /\ LinkType(x) /\ LinkType(z) /\ LinkNums(x, z) /\ LinkNums(z, x)
        /\ x.q \in Seq(Msgs) /\ z.q \in Seq(Msgs)
    BY MetIs
  <1>2. /\ x.q # << >> /\ Head(x.q).type = "revoke" /\ y.q = Tail(x.q)
        /\ y.p \in PeerRecs /\ y.p.nextL = x.p.nextL /\ y.p.nextR = x.p.nextR
        /\ y.p.revs = x.p.revs + 1 /\ out = << >>
    BY DEF GotRevoke, Reads
  <1>3. /\ Talks(w) <=> Talks(z)
        /\ w.p = z.p /\ w.c = z.c /\ w.q = z.q \o out
    BY HearsSame
  <1>4. /\ ~Under(x, z) /\ ~Under(y, w)
        /\ Under(w, y) <=> Under(z, x)
    BY <1>1, <1>2, <1>3, FlagsAcked
  <1> DEFINE f == x.c.fee
             g == y.c.fee
  <1>5. /\ g[10] = f[10] /\ g[11] = f[11] /\ g[12] = f[12] /\ g[13] = 0
        /\ g[14] = Young(f[13], f[14])
    BY <1>1, AckSlots
  <1>6. Signs(y) = Signs(x) /\ Bears(y) = Bears(x)
    BY <1>5 DEF Signs, Bears, Young
  <1>7. Older(w) = Older(z) /\ Newest(w) = Newest(z) /\ w.c.fee[4] = z.c.fee[4]
    BY <1>3 DEF Older, Newest
  <1> HIDE DEF f, g
  <1>8. FeeRest(w, y)
    BY <1>3, <1>5 DEF Fees, FeeRest, f, g
  <1>9. FeesMeet(w, y)
    BY <1>4, <1>6, <1>7 DEF Fees, FeesMeet
  <1>10. FeeGoes(w, y)
    <2>1. w.q = z.q
      <3>1. z.q \o << >> = z.q
        BY <1>1
      <3>2. QED
        BY <1>2, <1>3, <3>1
    <2>2. FeesAs(x.q, y.q)
      BY <1>1, <1>2, FeesPopped
    <2>3. y.c.fee[10] = x.c.fee[10]
      BY <1>5 DEF f, g
    <2>4. QED
      BY <1>3, <1>4, <1>7, <2>1, <2>2, <2>3 DEF Fees, FeeGoes, FeesAs
  <1>11. QED
    BY <1>8, <1>9, <1>10 DEF Fees

(* The feerate that an answer to a reestablish message repeats.             *)
LEMMA AnswerFee ==
    ASSUME NEW n \in Nodes, NEW x, NEW m, NEW z, Met(n, x, m, z),
           NEW y, NEW out \in Seq(Msgs), Answers(n, x, y, out)
    PROVE  /\ Has(out, OfType("fee")) <=> x.c.opener = "local" /\ Under(x, z)
           /\ x.c.opener = "local" => ~Has(out, FeeNot(channel_feerate(x.c, "remote")))
           /\ Before(out, OfType("fee"), OfType("commit"))
  <1> DEFINE c == x.c
             p == x.p
             d == x.d
             e == Head(x.q)
             again == e.nc = p.nextR - 1
             cm == CommitMsg(n, c, p.nextR - 1)
             rv == RevokeMsg(p.nextL - 2)
             ls == d.lastSent
             k == channel_feerate(c, "remote")
  <1>1. NodeType(n, x) /\ Store(x.c, x.d) /\ (Has(out, OfType("commit")) <=> Under(x, z))
    BY MetIs, AnswerMeans
  <1>2. GoodChan(c) /\ p \in PeerRecs /\ d \in DbRecs /\ out = Answer(n, c, p, d, e)
    BY <1>1 DEF NodeType, Answers
  <1>3. /\ cm.type = "commit" /\ rv.type = "revoke" /\ ShutdownMsg.type = "shutdown"
        /\ FeeMsg(c).type = "fee" /\ FeeMsg(c).rate = k
        /\ \A h : AddMsg(c, h).type = "add"
    BY DEF CommitMsg, RevokeMsg, ShutdownMsg, FeeMsg, AddMsg
  <1>4. \A h \in in_state(c, 15) \cup in_state(c, 16) : RemoveMsg(c, h).type \in {"fulfill", "fail"}
    <2>1. /\ \A h \in in_state(c, 15) \cup in_state(c, 16) :
               h \in DOMAIN c.htlcs /\ Where(c, h) \in {15, 16}
      BY DEF in_state, Where, State
    <2>2. Resolved(c) /\ c.htlcs \in HtlcMaps
      BY <1>1, <1>2 DEF Store, GoodChan, ChanRecs
    <2>3. \A h \in DOMAIN c.htlcs : c.htlcs[h].r \in {"none", "fulfill", "fail"}
      BY <2>2, WhereType
    <2>4. \A h \in DOMAIN c.htlcs : Where(c, h) \in {15, 16} => c.htlcs[h].r # "none"
      BY <2>2 DEF Resolved
    <2>5. QED
      BY <2>1, <2>3, <2>4 DEF RemoveMsg
  <1>5. FeeMsg(c) \in Msgs
    <2>1. k \in Nat \ {0}
      BY <1>2, FeerateType DEF Sides
    <2>2. QED
      BY <2>1, MsgFee DEF FeeMsg
  <1> HIDE DEF c, p, d, e, again, cm, rv, k
  <1>6. /\ \A T : Has(out, T) <=>
             \/ again /\ \/ \E h \in ls \cap in_state(c, 16) : RemoveMsg(c, h) \in T
                         \/ \E h \in ls \cap in_state(c, 1) : AddMsg(c, h) \in T
                         \/ c.opener = "local" /\ FeeMsg(c) \in T
                         \/ cm \in T
             \/ e.nr = p.nextL - 2 /\ rv \in T
             \/ p.sendShut /\ ShutdownMsg \in T
             \/ \E h \in in_state(c, 15) : RemoveMsg(c, h) \in T
        /\ Before(out, OfType("fee"), OfType("commit"))
    BY <1>2, Answered DEF again, cm, rv
  <1>7. again <=> Under(x, z)
    <2>1. GoodChan(c) /\ p \in PeerRecs /\ d \in DbRecs /\ out = Answer(n, c, p, d, e)
      BY <1>2
    <2>2. /\ Has(out, OfType("commit")) <=> e.nc = p.nextR - 1
          /\ Has(out, OfType("revoke")) <=> e.nr = p.nextL - 2
          /\ ~Has(out, RevokeNot(p.nextL - 2)) /\ ~Has(out, OfType("reestablish"))
          /\ One(out, OfType("commit")) /\ One(out, OfType("revoke"))
      BY <2>1, AnswerOut
    <2>3. QED
      BY <1>1, <2>2 DEF again
  <1>8. ASSUME NEW T, \A g \in T : g.type = "fee"
        PROVE  Has(out, T) <=> again /\ c.opener = "local" /\ FeeMsg(c) \in T
    <2>1. /\ cm \notin T /\ rv \notin T /\ ShutdownMsg \notin T
          /\ \A h : AddMsg(c, h) \notin T
          /\ \A h \in in_state(c, 15) \cup in_state(c, 16) : RemoveMsg(c, h) \notin T
      BY <1>3, <1>4, <1>8
    <2>2. QED
      BY <1>6, <2>1
  <1>9. /\ \A g \in OfType("fee") : g.type = "fee"
        /\ \A g \in FeeNot(k) : g.type = "fee"
        /\ FeeMsg(c) \in OfType("fee") /\ FeeMsg(c) \notin FeeNot(k)
    BY <1>3, <1>5 DEF OfType, FeeNot
  <1>10. Has(out, OfType("fee")) <=> c.opener = "local" /\ Under(x, z)
    BY <1>7, <1>8, <1>9
  <1>11. ~Has(out, FeeNot(k))
    BY <1>8, <1>9
  <1>12. QED
    BY <1>6, <1>10, <1>11 DEF c, k

(* peer_reconnect() of the node that opened the channel. *)
LEMMA FeesAnswered ==
    ASSUME NEW n \in Nodes, NEW x, NEW m, NEW z, Met(n, x, m, z), Fees(x, z),
           x.c.opener = "local",
           NEW y, NEW out \in Seq(Msgs), Answers(n, x, y, out), NEW w, Hears(z, w, out)
    PROVE  Fees(y, w)
  <1>1. /\ NodeType(n, x) /\ LinkType(x) /\ LinkType(z) /\ GoodChan(x.c)
        /\ x.q \in Seq(Msgs) /\ z.q \in Seq(Msgs)
    BY MetIs DEF NodeType
  <1>2. /\ x.p.phase = "reestablish" /\ x.q # << >> /\ y.q = Tail(x.q)
        /\ SameNums(x.p, y.p) /\ y.c = x.c /\ y.d = x.d
    BY DEF Answers, PeerKeeps, SameNums
  <1>3. /\ w.d.wasRevoke = z.d.wasRevoke /\ w.p = z.p /\ w.c = z.c /\ w.q = z.q \o out
    BY HearsSame
  <1>4. /\ Under(y, w) <=> Under(x, z)
        /\ Owing(y, w) <=> Owing(x, z)
        /\ Under(w, y) <=> Under(z, x)
    BY <1>2, <1>3 DEF Under, Owing, SameNums
  <1>5. /\ \A T : Has(z.q, T) => \E e \in T : e.type = "reestablish"
        /\ Head(x.q).type = "reestablish"
    BY AnswerMeans
  <1>6. ~Has(z.q, OfType("fee")) /\ ~Has(z.q, OfType("commit"))
    BY <1>5 DEF OfType
  <1>7. /\ Has(out, OfType("fee")) <=> Under(x, z)
        /\ ~Has(out, FeeNot(channel_feerate(x.c, "remote")))
        /\ Before(out, OfType("fee"), OfType("commit"))
    BY AnswerFee
  <1>8. channel_feerate(x.c, "remote") = Newest(x)
    <2>1. channel_feerate(x.c, "remote")
            = Young(x.c.fee[1], Young(x.c.fee[2], Young(x.c.fee[3], x.c.fee[4])))
      BY <1>1, FeerateIs
    <2>2. x.c.fee[3] = 0
      BY DEF Fees, FeeRest
    <2>3. QED
      BY <2>1, <2>2 DEF Newest, Older, Young
  <1>9. /\ Older(y) = Older(x) /\ Newest(y) = Newest(x) /\ Signs(w) = Signs(z)
        /\ Bears(w) = Bears(z)
    BY <1>2, <1>3 DEF Older, Newest, Signs, Bears
  <1>10. FeeRest(y, w)
    BY <1>2, <1>3 DEF Fees, FeeRest, SameNums
  <1>11. FeesMeet(y, w)
    BY <1>2, <1>3, <1>4, <1>9 DEF Fees, FeesMeet
  <1>12. FeeGoes(y, w)
    <2>1. w.c.fee[10] = 0
      BY <1>2, <1>3 DEF Fees, FeeGoes, Talks
    <2>2. /\ \A T : Has(z.q \o out, T) <=> Has(z.q, T) \/ Has(out, T)
          /\ \A S, T : Before(z.q \o out, S, T) <=> /\ Before(z.q, S, T) /\ Before(out, S, T)
                                                    /\ ~(Has(z.q, T) /\ Has(out, S))
      BY <1>1, Queued
    <2>3. \A j : ~Has(z.q, FeeNot(j))
      BY <1>6, WrongFee
    <2>4. Before(z.q, OfType("fee"), OfType("commit"))
      BY <1>6, NoneBefore
    <2>5. Has(w.q, OfType("fee")) <=> Under(x, z)
      BY <1>3, <1>6, <1>7, <2>2
    <2>6. ~Has(w.q, FeeNot(Newest(x)))
      BY <1>3, <1>7, <1>8, <2>2, <2>3
    <2>7. Before(w.q, OfType("fee"), OfType("commit"))
      BY <1>3, <1>6, <1>7, <2>2, <2>4
    <2>8. ~Has(y.q, OfType("fee"))
      <3>1. FeesAs(x.q, Tail(x.q))
        BY <1>1, <1>2, <1>5, FeesPopped
      <3>2. QED
        BY <1>2, <3>1 DEF FeesAs, Fees, FeeGoes
    <2>9. QED
      BY <1>4, <1>9, <2>1, <2>5, <2>6, <2>7, <2>8 DEF FeeGoes
  <1>13. QED
    BY <1>10, <1>11, <1>12 DEF Fees

(* peer_reconnect() of the other node. *)
LEMMA FeesAnsweredBack ==
    ASSUME NEW n \in Nodes, NEW x, NEW m, NEW z, Met(n, x, m, z), Fees(z, x),
           x.c.opener = "remote",
           NEW y, NEW out \in Seq(Msgs), Answers(n, x, y, out), NEW w, Hears(z, w, out)
    PROVE  Fees(w, y)
  <1>1. x.q \in Seq(Msgs) /\ z.q \in Seq(Msgs)
    BY MetIs
  <1>2. /\ x.q # << >> /\ y.q = Tail(x.q) /\ SameNums(x.p, y.p) /\ y.c = x.c /\ y.d = x.d
    BY DEF Answers, PeerKeeps, SameNums
  <1>3. /\ Talks(w) <=> Talks(z)
        /\ w.p = z.p /\ w.c = z.c /\ w.q = z.q \o out
    BY HearsSame
  <1>4. /\ Under(y, w) <=> Under(x, z)
        /\ Owing(w, y) <=> Owing(z, x)
        /\ Under(w, y) <=> Under(z, x)
    BY <1>2, <1>3 DEF Under, Owing, SameNums
  <1>5. Head(x.q).type = "reestablish"
    BY AnswerMeans
  <1>6. ~Has(out, OfType("fee"))
    BY AnswerFee
  <1>7. FeesAs(z.q, z.q \o out) /\ FeesAs(x.q, Tail(x.q))
    BY <1>1, <1>2, <1>5, <1>6, FeesQueued, FeesPopped
  <1>8. FeesAs(z.q, w.q) /\ FeesAs(x.q, y.q)
    BY <1>2, <1>3, <1>7
  <1>9. QED
    BY <1>2, <1>3, <1>4, <1>8, FeesStay

(* Whatever a node does. *)
LEMMA FeesStep ==
    ASSUME NEW n \in Nodes, NEW x, NEW m \in Nodes, NEW z, Met(n, x, m, z),
           n = A => Fees(x, z), n # A => Fees(z, x),
           NEW y, NEW out \in Seq(Msgs), NodeStep(n, x, y, out), NEW w, Hears(z, w, out)
    PROVE  /\ n = A => Fees(y, w)
           /\ n # A => Fees(w, y)
  <1>1. NodeType(n, x) /\ x.q \in Seq(Msgs)
    BY MetIs
  <1>2. /\ n = A => x.c.opener = "local"
        /\ n # A => x.c.opener = "remote"
    BY <1>1 DEF NodeType, OpenerSide
  <1>3. CASE \/ Quiet(n, x, y, out) \/ SavesResolution(n, x, y, out) \/ Offers(n, x, y, out)
             \/ Resolves(n, x, y, out) \/ GotAdd(n, x, y, out) \/ GotRemove(n, x, y, out)
    <2>1. NoFee(x, y, out)
      BY <1>1, <1>3, NoFeeSteps
    <2>2. (Fees(x, z) => Fees(y, w)) /\ (Fees(z, x) => Fees(w, y))
      BY <2>1, FeesNoFee
    <2>3. QED
      BY <2>2
  <1>4. CASE GotFee(n, x, y, out)
    <2>1. n # A
      <3>1. x.q # << >> /\ Head(x.q).type = "fee"
        BY <1>4 DEF GotFee, Reads
      <3>2. Has(x.q, OfType("fee"))
        BY <1>1, <3>1, Popped DEF OfType
      <3>3. QED
        BY <3>2 DEF Fees, FeeGoes
    <2>2. QED
      BY <1>2, <1>4, <2>1, FeesHeard
  <1>5. CASE SendsCommit(n, x, y, out)
    <2>1. n = A => Fees(y, w)
      BY <1>2, <1>5, FeesSent
    <2>2. n # A => Fees(w, y)
      BY <1>2, <1>5, FeesSentBack
    <2>3. QED
      BY <2>1, <2>2
  <1>6. CASE GotCommit(n, x, y, out)
    <2>1. n = A => Fees(y, w)
      BY <1>6, FeesTook
    <2>2. n # A => Fees(w, y)
      BY <1>6, FeesTookBack
    <2>3. QED
      BY <2>1, <2>2
  <1>7. CASE GotRevoke(n, x, y, out)
    <2>1. n = A => Fees(y, w)
      BY <1>7, FeesAcked
    <2>2. n # A => Fees(w, y)
      BY <1>7, FeesAckedBack
    <2>3. QED
      BY <2>1, <2>2
  <1>8. CASE Answers(n, x, y, out)
    <2>1. n = A => Fees(y, w)
      BY <1>2, <1>8, FeesAnswered
    <2>2. n # A => Fees(w, y)
      BY <1>2, <1>8, FeesAnsweredBack
    <2>3. QED
      BY <2>1, <2>2
  <1>9. QED
    BY <1>3, <1>4, <1>5, <1>6, <1>7, <1>8 DEF NodeStep

(* The slots that a new channeld starts with. *)
LEMMA BreakSlots ==
    ASSUME NEW k \in Nodes, NEW u, NodeType(k, u), NEW v, Breaks(k, u, v), Store(u.c, u.d)
    PROVE  \A i \in 0..4 \cup 10..14 : v.c.fee[i] = IF i \in {0, 10} THEN 0 ELSE u.c.fee[i]
  <1>1. v.c.fee = towire_fee_states(u.c.fee)
    BY StoreRestored DEF Breaks, NodeType
  <1>2. u.c.fee \in Slots
    BY SlotNats DEF NodeType
  <1> DEFINE f == u.c.fee
             t == towire_fee_states(f)
  <1> HIDE DEF f, t
  <1>3. \A i \in HtlcStates : t[i] = IF i \in {0, 10} THEN 0
                ELSE IF i \in {8, 9, 18, 19} THEN 0 ELSE f[i]
    BY <1>2, WireFees DEF f, t
  <1>4. \A i \in 0..4 \cup 10..14 : i \in HtlcStates /\ i \notin {8, 9, 18, 19}
    BY DEF HtlcStates
  <1>5. \A i \in 0..4 \cup 10..14 : t[i] = IF i \in {0, 10} THEN 0 ELSE f[i]
    BY <1>3, <1>4
  <1>6. QED
    BY <1>1, <1>5 DEF f, t

(* The connection breaks. *)
LEMMA FeesBreak ==
    ASSUME NEW n \in Nodes, NEW x, NodeType(n, x), NEW y, Breaks(n, x, y), Store(x.c, x.d),
           NEW m \in Nodes, NEW z, NodeType(m, z), NEW w, Breaks(m, z, w), Store(z.c, z.d),
           Nums(x), Nums(z), Fees(x, z)
    PROVE  Fees(y, w)
  <1>1. SameNums(x.p, y.p) /\ y.p.phase = "down" /\ y.d = x.d /\ y.q = << >>
    BY BreakMoves
  <1>2. SameNums(z.p, w.p) /\ w.d = z.d /\ w.q = << >>
    BY BreakMoves
  <1>3. /\ Under(y, w) <=> Under(x, z)
        /\ Owing(y, w) <=> Owing(x, z)
        /\ Under(w, y) <=> Under(z, x)
    BY <1>1, <1>2, FlagsSame
  <1>4. /\ y.c.fee[0] = 0 /\ y.c.fee[1] = x.c.fee[1] /\ y.c.fee[2] = x.c.fee[2]
        /\ y.c.fee[3] = x.c.fee[3] /\ y.c.fee[4] = x.c.fee[4]
    <2>1. \A i \in 0..4 \cup 10..14 : y.c.fee[i] = IF i \in {0, 10} THEN 0 ELSE x.c.fee[i]
      BY BreakSlots
    <2>2. QED
      BY <2>1
  <1>5. /\ w.c.fee[10] = 0 /\ w.c.fee[11] = z.c.fee[11] /\ w.c.fee[12] = z.c.fee[12]
        /\ w.c.fee[13] = z.c.fee[13] /\ w.c.fee[14] = z.c.fee[14]
    <2>1. \A i \in 0..4 \cup 10..14 : w.c.fee[i] = IF i \in {0, 10} THEN 0 ELSE z.c.fee[i]
      BY BreakSlots
    <2>2. QED
      BY <2>1
  <1>6. /\ Older(y) = Older(x) /\ Newest(y) = Newest(x) /\ Signs(w) = Signs(z)
        /\ Bears(w) = Bears(z)
    BY <1>4, <1>5 DEF Older, Newest, Signs, Bears
  <1>7. FeeRest(y, w)
    BY <1>1, <1>4, <1>5 DEF Fees, FeeRest, SameNums
  <1>8. FeesMeet(y, w)
    BY <1>2, <1>3, <1>4, <1>6 DEF Fees, FeesMeet
  <1>9. FeeGoes(y, w)
    <2>1. /\ \A T : ~Has(y.q, T) /\ ~Has(w.q, T)
          /\ Before(w.q, OfType("fee"), OfType("commit"))
      BY <1>1, <1>2, NoneQueued
    <2>2. ~Talks(y)
      BY <1>1 DEF Talks
    <2>3. QED
      BY <1>5, <2>1, <2>2 DEF FeeGoes
  <1>10. QED
    BY <1>7, <1>8, <1>9 DEF Fees

(* A new connection opens. *)
LEMMA FeesReopen ==
    ASSUME NEW x, LinkType(x), NEW z, LinkType(z), Fees(x, z),
           NEW y, Reopens(x, y, z), NEW w, Reopens(z, w, x)
    PROVE  Fees(y, w)
  <1>1. /\ y.c = x.c /\ w.c = z.c /\ SameNums(x.p, y.p) /\ SameNums(z.p, w.p)
        /\ w.d = z.d /\ ~Talks(x) /\ ~Talks(y)
        /\ y.q = <<reestablish(z.p)>> /\ w.q = <<reestablish(x.p)>>
    BY DEF Reopens, LinkType, SameNums, PeerRecs, Talks
  <1>2. /\ Under(y, w) <=> Under(x, z)
        /\ Owing(y, w) <=> Owing(x, z)
        /\ Under(w, y) <=> Under(z, x)
    BY <1>1, FlagsSame
  <1>3. ASSUME NEW u, LinkType(u)
        PROVE  ~Has(<<reestablish(u.p)>>, OfType("fee"))
    <2> DEFINE e == reestablish(u.p)
    <2>1. e \in Msgs /\ e.type = "reestablish"
      BY <1>3, MsgReestablish DEF reestablish, LinkType, PeerRecs
    <2> HIDE DEF e
    <2>2. \A T : Has(<<e>>, T) <=> e \in T
      BY <2>1, OneQueued
    <2>3. ~Has(<<e>>, OfType("fee"))
      BY <2>1, <2>2 DEF OfType
    <2>4. QED
      BY <2>3 DEF e
  <1>4. ~Has(y.q, OfType("fee")) /\ ~Has(w.q, OfType("fee"))
    BY <1>1, <1>3
  <1>5. /\ \A k : ~Has(w.q, FeeNot(k))
        /\ Before(w.q, OfType("fee"), OfType("commit"))
    BY <1>4, WrongFee, NoneBefore
  <1>6. /\ Older(y) = Older(x) /\ Newest(y) = Newest(x) /\ Signs(w) = Signs(z)
        /\ Bears(w) = Bears(z)
    BY <1>1 DEF Older, Newest, Signs, Bears
  <1>7. FeeRest(y, w)
    BY <1>1 DEF Fees, FeeRest, SameNums
  <1>8. FeesMeet(y, w)
    BY <1>1, <1>2, <1>6 DEF Fees, FeesMeet
  <1>9. FeeGoes(y, w)
    BY <1>1, <1>4, <1>5 DEF Fees, FeeGoes
  <1>10. QED
    BY <1>7, <1>8, <1>9 DEF Fees

(* At first. *)
LEMMA FeesInit ==
    ASSUME Init
    PROVE  Fees(Node(A), Node(B))
  <1>1. A \in Nodes /\ B \in Nodes
    BY DEF Nodes
  <1>2. ASSUME NEW n \in Nodes
        PROVE  /\ Node(n).c.fee = new_fee_states(OpenerSide(n), InitialFeerate)
               /\ Node(n).q = << >> /\ Node(n).p.nextL = 1 /\ Node(n).p.nextR = 1
    <2> DEFINE d == InitDb(n)
    <2>1. d \in DbRecs /\ d.fee[last_fee_state(OpenerSide(n))] # 0 /\ Node(n).d = d
      <3>1. Node(n).d = d
        BY DEF Init, Node
      <3>2. NodeType(n, Node(n))
        BY TypeInit DEF TypeInv
      <3>3. QED
        BY <3>1, <3>2 DEF NodeType
    <2>2. d.fee = new_fee_states(OpenerSide(n), InitialFeerate)
      BY DEF InitDb
    <2> HIDE DEF d
    <2>3. RestoredChannel(n, d).fee = d.fee
      BY <2>1, RestoredType
    <2>4. /\ Node(n).q = << >> /\ Node(n).p.nextL = 1 /\ Node(n).p.nextR = 1
          /\ Node(n).c = RestoredChannel(n, InitDb(n))
      BY KeepsInit
    <2>5. QED
      BY <2>2, <2>3, <2>4 DEF d
  <1> DEFINE x == Node(A)
             z == Node(B)
             f == x.c.fee
             g == z.c.fee
             r == InitialFeerate
  <1>3. /\ f = [i \in HtlcStates |-> IF i = 4 THEN r ELSE 0]
        /\ g = [i \in HtlcStates |-> IF i = 14 THEN r ELSE 0]
        /\ x.q = << >> /\ z.q = << >> /\ x.p.nextR = 1 /\ z.p.nextL = 1
        /\ z.p.nextR = 1 /\ x.p.nextL = 1
    <2>1. /\ f = new_fee_states("local", r) /\ x.q = << >> /\ x.p.nextL = 1 /\ x.p.nextR = 1
      BY <1>1, <1>2 DEF OpenerSide
    <2>2. /\ g = new_fee_states("remote", r) /\ z.q = << >> /\ z.p.nextL = 1 /\ z.p.nextR = 1
      BY <1>1, <1>2, ChanneldAssumption DEF OpenerSide
    <2>3. last_fee_state("local") = 4 /\ last_fee_state("remote") = 14
      BY DEF last_fee_state, SENT_ADD_ACK_REVOCATION, RCVD_ADD_ACK_REVOCATION
    <2>4. QED
      BY <2>1, <2>2, <2>3 DEF new_fee_states
  <1> HIDE DEF x, z, f, g, r
  <1>4. /\ f[0] = 0 /\ f[1] = 0 /\ f[2] = 0 /\ f[3] = 0 /\ f[4] = r
        /\ g[10] = 0 /\ g[11] = 0 /\ g[12] = 0 /\ g[13] = 0 /\ g[14] = r
    BY <1>3 DEF HtlcStates
  <1>5. ~Under(x, z) /\ ~Under(z, x)
    BY <1>3 DEF Under
  <1>6. /\ Older(x) = r /\ Newest(x) = r /\ Signs(z) = r /\ Bears(z) = r
    BY <1>4 DEF Older, Newest, Signs, Bears, Young, f, g
  <1>7. FeeRest(x, z)
    BY <1>4 DEF FeeRest, f, g
  <1>8. FeesMeet(x, z)
    BY <1>4, <1>5, <1>6 DEF FeesMeet, f
  <1>9. FeeGoes(x, z)
    <2>1. /\ \A T : ~Has(x.q, T) /\ ~Has(z.q, T)
          /\ Before(z.q, OfType("fee"), OfType("commit"))
      BY <1>3, NoneQueued
    <2>2. QED
      BY <1>4, <1>5, <2>1 DEF FeeGoes, g
  <1>10. QED
    BY <1>7, <1>8, <1>9 DEF Fees, x, z

-----------------------------------------------------------------------------
(* What the two nodes keep and agree on, feerates too; A opened the channel. *)
FeesInv == OwesInv /\ Fees(Node(A), Node(B))

(* In every step. *)
LEMMA FeesNext ==
    ASSUME FeesInv, [Next]_vars
    PROVE  FeesInv'
  <1>1. OwesInv /\ OwesInv' /\ MatchInv /\ Steps3
    <2>1. OwesInv /\ MatchInv
      BY DEF FeesInv, OwesInv
    <2>2. Steps3
      BY <2>1, TypeStep DEF LinkInv, KeepInv, SettleInv, MatchInv
    <2>3. QED
      BY <2>1, <2>2, OwesNext
  <1>2. SUFFICES Fees(Node(A)', Node(B)')
    BY <1>1 DEF FeesInv
  <1>3. /\ A \in Nodes /\ B \in Nodes /\ Peer(A) = B /\ Peer(B) = A /\ B # A
        /\ \A n \in Nodes : n = A \/ n = B
    BY ChanneldAssumption DEF Nodes, Peer
  <1>4. Fees(Node(A), Node(B))
    BY DEF FeesInv
  <1>5. CASE \E n \in Nodes : \E out \in Seq(Msgs) :
               NodeStep(n, Node(n), Node(n)', out) /\ Hears(Node(Peer(n)), Node(Peer(n))', out)
    <2>1. PICK n \in Nodes, out \in Seq(Msgs) :
               NodeStep(n, Node(n), Node(n)', out) /\ Hears(Node(Peer(n)), Node(Peer(n))', out)
      BY <1>5
    <2> DEFINE x == Node(n)
               z == Node(Peer(n))
               y == Node(n)'
               w == Node(Peer(n))'
               m == Peer(n)
    <2>2. m \in Nodes /\ Met(n, x, m, z) /\ NodeStep(n, x, y, out) /\ Hears(z, w, out)
      BY <1>1, <2>1, MatchIs
    <2>3. /\ n = A => Fees(x, z)
          /\ n # A => Fees(z, x)
      BY <1>3, <1>4
    <2> HIDE DEF x, y, z, w, m
    <2>4. /\ n = A => Fees(y, w)
          /\ n # A => Fees(w, y)
      BY <2>2, <2>3, FeesStep
    <2>5. QED
      BY <1>3, <2>4 DEF x, y, z, w, m
  <1> DEFINE x == Node(A)
             z == Node(B)
             y == Node(A)'
             w == Node(B)'
  <1>6. /\ NodeType(A, x) /\ NodeType(B, z) /\ Nums(x) /\ Nums(z)
        /\ Keeps(A, x) /\ Keeps(B, z)
    BY <1>1, <1>3, MatchIs
  <1>7. CASE \A n \in Nodes : Breaks(n, Node(n), Node(n)')
    <2>1. Breaks(A, x, y) /\ Breaks(B, z, w) /\ Fees(x, z)
      BY <1>3, <1>4, <1>7
    <2> HIDE DEF x, y, z, w
    <2>2. Store(x.c, x.d) /\ Store(z.c, z.d)
      BY <1>6 DEF Keeps
    <2>3. Fees(y, w)
      BY <1>3, <1>6, <2>1, <2>2, FeesBreak
    <2>4. QED
      BY <2>3 DEF y, w
  <1>8. CASE \A n \in Nodes : Reopens(Node(n), Node(n)', Node(Peer(n)))
    <2>1. Reopens(x, y, z) /\ Reopens(z, w, x) /\ Fees(x, z)
      BY <1>3, <1>4, <1>8
    <2> HIDE DEF x, y, z, w
    <2>2. LinkType(x) /\ LinkType(z)
      BY <1>6 DEF NodeType, LinkType
    <2>3. Fees(y, w)
      BY <2>1, <2>2, FeesReopen
    <2>4. QED
      BY <2>3 DEF y, w
  <1>9. CASE \A n \in Nodes : Node(n)' = Node(n)
    BY <1>3, <1>4, <1>9
  <1>10. QED
    BY <1>1, <1>5, <1>7, <1>8, <1>9 DEF Steps3

(* What is under way between the two nodes accounts for every difference    *)
(* between them, and a feerate that the opener has committed to is at the   *)
(* other node, or in the messages that come before the commitment, or is    *)
(* repeated after a reestablish.                                            *)
THEOREM FeesHold == Spec => []FeesInv
  <1>1. Init => FeesInv
    BY KeepInit, SettleInit, MatchInit, OwesInit, FeesInit
       DEF SettleInv, MatchInv, OwesInv, FeesInv
  <1>2. FeesInv /\ [Next]_vars => FeesInv'
    BY FeesNext
  <1>3. QED
    BY <1>1, <1>2, PTL DEF Spec

(* Where one node's view of the other's commitment has an HTLC, the other's *)
(* own has the same one.                                                    *)
LEMMA SameHtlcsSigned ==
    ASSUME NEW n \in Nodes, NEW x, NEW m, NEW z, Met(n, x, m, z), m = Peer(n), ~Under(x, z)
    PROVE  {<<NodeOf(n, h[1]), h[2], Amount(x.c, h)>> : h \in committed(x.c, "remote")}
             = {<<NodeOf(m, h[1]), h[2], Amount(z.c, h)>> : h \in committed(z.c, "local")}
  <1>1. /\ x.c.htlcs \in HtlcMaps /\ z.c.htlcs \in HtlcMaps
        /\ \A k \in Nat : /\ Paired(x, z, k) /\ SameAmount(x, z, k)
                          /\ Paired(z, x, k) /\ SameAmount(z, x, k)
    BY MetIs DEF NodeType, GoodChan, ChanRecs
  <1> DEFINE P == committed(x.c, "remote")
             Q == committed(z.c, "local")
             Flip(h) == <<Other(h[1]), h[2]>>
             S(h) == <<NodeOf(n, h[1]), h[2], Amount(x.c, h)>>
             T(h) == <<NodeOf(m, h[1]), h[2], Amount(z.c, h)>>
  <1>2. /\ \A h : h \in P <=> Where(x.c, h) \in (1..7) \cup (13..15)
        /\ \A h : h \in Q <=> Where(z.c, h) \in (3..5) \cup (11..17)
        /\ P \subseteq HtlcKeys /\ Q \subseteq HtlcKeys
    <2>1. /\ Committed("remote") = (1..7) \cup (13..15)
          /\ Committed("local") = (3..5) \cup (11..17)
      BY DEF Committed
    <2>2. NoHtlc \notin (1..7) \cup (13..15) /\ NoHtlc \notin (3..5) \cup (11..17)
      BY DEF NoHtlc
    <2>3. /\ \A h \in DOMAIN x.c.htlcs : h \in HtlcKeys
          /\ \A h \in DOMAIN z.c.htlcs : h \in HtlcKeys
      BY <1>1, WhereType
    <2>4. QED
      BY <2>1, <2>2, <2>3 DEF committed, State, Where
  <1>3. ASSUME NEW k \in Nat
        PROVE  /\ <<"local", k>> \in P <=> <<"remote", k>> \in Q
               /\ <<"local", k>> \in P =>
                    x.c.htlcs[<<"local", k>>].amount = z.c.htlcs[<<"remote", k>>].amount
    <2> DEFINE s == Mine(x, k)
               t == Theirs(z, k)
    <2>1. /\ <<"local", k>> \in P <=> s \in (1..7) \cup (13..15)
          /\ <<"remote", k>> \in Q <=> t \in (3..5) \cup (11..17)
      BY <1>2 DEF Mine, Theirs
    <2>2. Ends(s, t, Under(x, z), Owing(x, z), Under(z, x), Owing(z, x),
               x.d.wasRevoke, z.d.wasRevoke)
      BY <1>1 DEF Paired
    <2>3. s # NoHtlc /\ t # NoHtlc =>
            z.c.htlcs[<<"remote", k>>].amount = x.c.htlcs[<<"local", k>>].amount
      BY <1>1 DEF SameAmount
    <2> HIDE DEF s, t, P, Q
    <2>4. /\ s \in (1..7) \cup (13..15) <=> t \in (3..5) \cup (11..17)
          /\ s \in (1..7) \cup (13..15) => s # NoHtlc /\ t # NoHtlc
      BY <2>2 DEF Ends, NoHtlc
    <2>5. QED
      BY <2>1, <2>3, <2>4
  <1>4. ASSUME NEW k \in Nat
        PROVE  /\ <<"remote", k>> \in P <=> <<"local", k>> \in Q
               /\ <<"remote", k>> \in P =>
                    x.c.htlcs[<<"remote", k>>].amount = z.c.htlcs[<<"local", k>>].amount
    <2> DEFINE s == Mine(z, k)
               t == Theirs(x, k)
    <2>1. /\ <<"remote", k>> \in P <=> t \in (1..7) \cup (13..15)
          /\ <<"local", k>> \in Q <=> s \in (3..5) \cup (11..17)
      BY <1>2 DEF Mine, Theirs
    <2>2. Ends(s, t, Under(z, x), Owing(z, x), Under(x, z), Owing(x, z),
               z.d.wasRevoke, x.d.wasRevoke)
      BY <1>1 DEF Paired
    <2>3. s # NoHtlc /\ t # NoHtlc =>
            x.c.htlcs[<<"remote", k>>].amount = z.c.htlcs[<<"local", k>>].amount
      BY <1>1 DEF SameAmount
    <2> HIDE DEF s, t, P, Q
    <2>4. /\ t \in (1..7) \cup (13..15) <=> s \in (3..5) \cup (11..17)
          /\ t \in (1..7) \cup (13..15) => s # NoHtlc /\ t # NoHtlc
      BY <2>2 DEF Ends, NoHtlc
    <2>5. QED
      BY <2>1, <2>3, <2>4
  <1>5. \A h \in HtlcKeys : \E k \in Nat : h = <<"local", k>> \/ h = <<"remote", k>>
    BY DEF HtlcKeys, Sides
  <1>6. NodeOf(n, "local") = NodeOf(m, "remote") /\ NodeOf(n, "remote") = NodeOf(m, "local")
    BY TwoNodes DEF NodeOf
  <1> HIDE DEF P, Q
  <1>7. ASSUME NEW h \in P
        PROVE  \E g \in Q : S(h) = T(g)
    <2>1. PICK k \in Nat : h = <<"local", k>> \/ h = <<"remote", k>>
      BY <1>2, <1>5, <1>7
    <2>2. CASE h = <<"local", k>>
      <3>1. /\ <<"remote", k>> \in Q
            /\ x.c.htlcs[<<"local", k>>].amount = z.c.htlcs[<<"remote", k>>].amount
        BY <1>3, <1>7, <2>2
      <3>2. S(h) = T(<<"remote", k>>)
        BY <1>6, <2>2, <3>1 DEF Amount
      <3>3. QED
        BY <3>1, <3>2
    <2>3. CASE h = <<"remote", k>>
      <3>1. /\ <<"local", k>> \in Q
            /\ x.c.htlcs[<<"remote", k>>].amount = z.c.htlcs[<<"local", k>>].amount
        BY <1>4, <1>7, <2>3
      <3>2. S(h) = T(<<"local", k>>)
        BY <1>6, <2>3, <3>1 DEF Amount
      <3>3. QED
        BY <3>1, <3>2
    <2>4. QED
      BY <2>1, <2>2, <2>3
  <1>8. ASSUME NEW g \in Q
        PROVE  \E h \in P : S(h) = T(g)
    <2>1. PICK k \in Nat : g = <<"local", k>> \/ g = <<"remote", k>>
      BY <1>2, <1>5, <1>8
    <2>2. CASE g = <<"remote", k>>
      <3>1. /\ <<"local", k>> \in P
            /\ x.c.htlcs[<<"local", k>>].amount = z.c.htlcs[<<"remote", k>>].amount
        BY <1>3, <1>8, <2>2
      <3>2. S(<<"local", k>>) = T(g)
        BY <1>6, <2>2, <3>1 DEF Amount
      <3>3. QED
        BY <3>1, <3>2
    <2>3. CASE g = <<"local", k>>
      <3>1. /\ <<"remote", k>> \in P
            /\ x.c.htlcs[<<"remote", k>>].amount = z.c.htlcs[<<"local", k>>].amount
        BY <1>4, <1>8, <2>3
      <3>2. S(<<"remote", k>>) = T(g)
        BY <1>6, <2>3, <3>1 DEF Amount
      <3>3. QED
        BY <3>1, <3>2
    <2>4. QED
      BY <2>1, <2>2, <2>3
  <1> HIDE DEF S, T
  <1>9. {S(h) : h \in P} = {T(g) : g \in Q}
    BY <1>7, <1>8
  <1>10. QED
    BY <1>9 DEF S, T, P, Q

(* The feerates of the opener x and the other node z, and their views. *)
LEMMA SameFeerates ==
    ASSUME NEW x, NEW z, GoodChan(x.c), GoodChan(z.c), x.c.opener = "local",
           z.c.opener = "remote", Fees(x, z)
    PROVE  /\ ~Under(x, z) => channel_feerate(x.c, "remote") = channel_feerate(z.c, "local")
           /\ ~Under(z, x) => channel_feerate(z.c, "remote") = channel_feerate(x.c, "local")
  <1>1. /\ channel_feerate(x.c, "remote")
             = Young(x.c.fee[1], Young(x.c.fee[2], Young(x.c.fee[3], x.c.fee[4])))
        /\ channel_feerate(x.c, "local") = Young(x.c.fee[3], x.c.fee[4])
    BY FeerateIs
  <1>2. /\ channel_feerate(z.c, "local")
             = Young(z.c.fee[11], Young(z.c.fee[12], Young(z.c.fee[13], z.c.fee[14])))
        /\ channel_feerate(z.c, "remote") = Young(z.c.fee[13], z.c.fee[14])
    BY FeerateIs
  <1>3. x.c.fee[3] = 0 /\ z.c.fee[11] = 0
    BY DEF Fees, FeeRest
  <1>4. /\ channel_feerate(x.c, "remote") = Newest(x)
        /\ channel_feerate(x.c, "local") = x.c.fee[4]
        /\ channel_feerate(z.c, "local") = Bears(z)
        /\ channel_feerate(z.c, "remote") = Signs(z)
    BY <1>1, <1>2, <1>3 DEF Newest, Older, Bears, Signs, Young
  <1>5. QED
    BY <1>4 DEF Fees, FeesMeet

(* The two views of a commitment, once it has been received. *)
LEMMA FeesAgree == FeesInv => CommitmentsAgree
  <1>1. ASSUME FeesInv, NEW n \in Nodes, peer[n].nextR = peer[Peer(n)].nextL
        PROVE  CommitTx(n, chan[n], "remote", 0) = CommitTx(Peer(n), chan[Peer(n)], "local", 0)
    <2> DEFINE x == Node(n)
               z == Node(Peer(n))
               m == Peer(n)
    <2>1. /\ m \in Nodes /\ Peer(m) = n /\ m # n /\ \A k \in Nodes : k = n \/ k = m
      BY TwoNodes
    <2>2. x.c = chan[n] /\ z.c = chan[m] /\ x.p.nextR = z.p.nextL
      BY <1>1, <2>1 DEF Node
    <2>3. Met(n, x, m, z) /\ Owes(x, z)
      BY <1>1, MatchIs DEF FeesInv, OwesInv
    <2>4. /\ n = A => Fees(x, z)
          /\ n # A => Fees(z, x)
      <3>1. n = A => Peer(n) = B
        BY DEF Peer
      <3>2. n # A => Peer(n) = A /\ n = B
        BY DEF Peer, Nodes
      <3>3. QED
        BY <1>1, <3>1, <3>2 DEF FeesInv
    <2> HIDE DEF x, z, m
    <2>5. NodeType(n, x) /\ NodeType(m, z) /\ GoodChan(x.c) /\ GoodChan(z.c) /\ LinkType(z)
      BY <2>3, MetIs DEF NodeType
    <2>6. ~Under(x, z)
      <3>1. z.p.nextL \in Nat
        BY <2>5 DEF LinkType, PeerRecs
      <3>2. QED
        BY <2>2, <3>1 DEF Under
    <2>7. channel_feerate(x.c, "remote") = channel_feerate(z.c, "local")
      <3>1. CASE n = A
        <4>1. x.c.opener = "local" /\ z.c.opener = "remote"
          BY <2>1, <2>5, <3>1 DEF NodeType, OpenerSide
        <4>2. QED
          BY <2>4, <2>5, <2>6, <3>1, <4>1, SameFeerates
      <3>2. CASE n # A
        <4>1. m = A
          BY <2>1, <3>2 DEF Nodes
        <4>2. x.c.opener = "remote" /\ z.c.opener = "local"
          BY <2>5, <3>2, <4>1 DEF NodeType, OpenerSide
        <4>3. QED
          BY <2>4, <2>5, <2>6, <3>2, <4>2, SameFeerates
      <3>3. QED
        BY <3>1, <3>2
    <2>8. {<<NodeOf(n, h[1]), h[2], Amount(x.c, h)>> : h \in committed(x.c, "remote")}
             = {<<NodeOf(m, h[1]), h[2], Amount(z.c, h)>> : h \in committed(z.c, "local")}
      BY <2>3, <2>6, SameHtlcsSigned DEF m
    <2>9. ASSUME NEW s \in Sides
          PROVE  x.c.owed["remote"][s] = z.c.owed["local"][Other(s)]
      <3>1. x.c.owed["remote"][s] = z.c.owed["local"][Other(s)] + 0
        BY <2>3, <2>6 DEF Owes
      <3>2. z.c.owed["local"][Other(s)] \in Int
        <4>1. z.c.owed \in Balances
          BY <2>5 DEF GoodChan, ChanRecs
        <4>2. "local" \in Sides /\ Other(s) \in Sides
          BY DEF Sides, Other
        <4>3. QED
          BY <4>1, <4>2 DEF Balances
      <3> DEFINE i == z.c.owed["local"][Other(s)]
      <3> HIDE DEF i
      <3>3. i + 0 = i
        BY <3>2 DEF i
      <3>4. QED
        BY <3>1, <3>3 DEF i
    <2>10. [k \in Nodes |-> x.c.owed["remote"][IF k = n THEN "local" ELSE "remote"]]
             = [k \in Nodes |-> z.c.owed["local"][IF k = m THEN "local" ELSE "remote"]]
      <3>1. /\ x.c.owed["remote"]["local"] = z.c.owed["local"]["remote"]
            /\ x.c.owed["remote"]["remote"] = z.c.owed["local"]["local"]
        BY <2>9 DEF Sides, Other
      <3>2. QED
        BY <2>1, <3>1
    <2>11. CommitTx(n, x.c, "remote", 0) = CommitTx(m, z.c, "local", 0)
      BY <2>7, <2>8, <2>10 DEF CommitTx
    <2>12. QED
      BY <2>2, <2>11 DEF m
  <1>2. QED
    BY <1>1 DEF CommitmentsAgree

(* CommitmentsAgree: while no commitment is under way to a node, its own    *)
(* commitment and the one its peer has signed for it are the same           *)
(* transaction: feerate, balances and HTLCs.                                *)
THEOREM SameCommitments == Spec => []CommitmentsAgree
  BY FeesAgree, FeesHold, PTL

-----------------------------------------------------------------------------
(* Where a feerate may wait, x being the node that opened the channel: x    *)
(* has one on the way to z's commitment or to its own, never both; z leaves *)
(* none with x when it may sign again; and one that z's commitment bears    *)
(* and z has not signed for x came after the commitment that z has sent.    *)
Turns(x, z) ==
    /\ x.c.fee[1] # 0 => x.c.fee[2] = 0
    /\ z.c.fee[0] = 0 /\ z.c.fee[1] = 0 /\ z.c.fee[2] = 0 /\ z.c.fee[3] = 0
    /\ z.p.revs = z.p.nextR - 1 => z.c.fee[13] = 0
    /\ Under(z, x) /\ z.c.fee[12] # 0 => z.d.wasRevoke /\ Owing(x, z)
    /\ Owing(z, x) /\ Under(x, z) /\ x.d.wasRevoke => z.c.fee[12] = 0

(* No slot that it speaks of and no number moves. *)
LEMMA TurnsStay ==
    ASSUME NEW x, NEW z, Turns(x, z), NEW y, NEW w,
           Under(y, w) <=> Under(x, z), Under(w, y) <=> Under(z, x),
           Owing(y, w) <=> Owing(x, z), Owing(w, y) <=> Owing(z, x),
           w.d.wasRevoke = z.d.wasRevoke, y.d.wasRevoke = x.d.wasRevoke,
           w.p.revs = z.p.revs, w.p.nextR = z.p.nextR,
           y.c.fee[1] = x.c.fee[1], y.c.fee[2] = x.c.fee[2],
           w.c.fee[0] = z.c.fee[0], w.c.fee[1] = z.c.fee[1], w.c.fee[2] = z.c.fee[2],
           w.c.fee[3] = z.c.fee[3], w.c.fee[12] = z.c.fee[12], w.c.fee[13] = z.c.fee[13]
    PROVE  Turns(y, w)
  BY DEF Turns

(* send_commit() of the node that opened the channel. *)
LEMMA TurnsSent ==
    ASSUME NEW n \in Nodes, NEW x, NEW m, NEW z, Met(n, x, m, z), Fees(x, z), Turns(x, z),
           x.c.opener = "local",
           NEW y, NEW out \in Seq(Msgs), SendsCommit(n, x, y, out), NEW w, Hears(z, w, out)
    PROVE  Turns(y, w)
  <1>1. /\ NodeType(n, x) /\ LinkType(x) /\ LinkType(z) /\ LinkNums(x, z)
        /\ x.q \in Seq(Msgs) /\ z.q \in Seq(Msgs)
    BY MetIs
  <1>2. /\ x.p.revs = x.p.nextR - 1
        /\ y.p \in PeerRecs /\ y.p.nextR = x.p.nextR + 1 /\ y.p.nextL = x.p.nextL
        /\ y.p.revs = x.p.revs /\ y.q = x.q
    BY DEF SendsCommit
  <1>3. w.p = z.p /\ w.c = z.c
    BY HearsSame
  <1>4. /\ ~Owing(x, z)
        /\ Under(w, y) <=> Under(z, x)
    BY <1>1, <1>2, <1>3, FlagsSent
  <1>5. ~y.d.wasRevoke
    BY <1>1, CommitMoves
  <1>6. x.c.fee[0] = 0 /\ x.c.fee[1] = 0
    BY <1>2 DEF Fees, FeeRest
  <1>7. y.c.fee[2] = x.c.fee[2] /\ (y.c.fee[1] # 0 => x.c.fee[2] = 0)
    BY <1>1, <1>6, SentSlots
  <1>8. QED
    BY <1>3, <1>4, <1>5, <1>7 DEF Turns

(* send_commit() of the other node. *)
LEMMA TurnsSentBack ==
    ASSUME NEW n \in Nodes, NEW x, NEW m, NEW z, Met(n, x, m, z), Turns(z, x),
           x.c.opener = "remote",
           NEW y, NEW out \in Seq(Msgs), SendsCommit(n, x, y, out), NEW w, Hears(z, w, out)
    PROVE  Turns(w, y)
  <1>1. NodeType(n, x) /\ LinkType(x)
    BY MetIs
  <1>2. /\ x.p.revs = x.p.nextR - 1 /\ y.p.nextR = x.p.nextR + 1 /\ y.p.revs = x.p.revs
    BY DEF SendsCommit
  <1>3. w.c = z.c
    BY HearsSame
  <1>4. /\ y.c.fee[0] = 0 /\ y.c.fee[1] = Young(x.c.fee[0], x.c.fee[1])
        /\ y.c.fee[2] = x.c.fee[2] /\ y.c.fee[3] = x.c.fee[3] /\ y.c.fee[12] = 0
    BY <1>1, SentSlots
  <1>5. y.p.revs # y.p.nextR - 1
    BY <1>1, <1>2 DEF LinkType, PeerRecs
  <1>6. y.c.fee[1] = 0
    BY <1>4 DEF Turns, Young
  <1>7. QED
    BY <1>3, <1>4, <1>5, <1>6 DEF Turns

(* handle_peer_commit_sig() of the node that opened the channel. *)
LEMMA TurnsTook ==
    ASSUME NEW n \in Nodes, NEW x, NEW m, NEW z, Met(n, x, m, z), Turns(x, z),
           NEW y, NEW out \in Seq(Msgs), GotCommit(n, x, y, out), NEW w, Hears(z, w, out)
    PROVE  Turns(y, w)
  <1>1. /\ NodeType(n, x) /\ LinkType(x) /\ LinkType(z) /\ LinkNums(x, z) /\ LinkNums(z, x)
        /\ x.q \in Seq(Msgs) /\ z.q \in Seq(Msgs)
    BY MetIs
  <1>2. /\ x.q # << >> /\ Head(x.q).type = "commit" /\ y.q = Tail(x.q)
        /\ y.p \in PeerRecs /\ y.p.nextL = x.p.nextL + 1 /\ y.p.nextR = x.p.nextR
        /\ y.p.revs = x.p.revs
    BY DEF GotCommit, Reads
  <1>3. w.p = z.p /\ w.c = z.c
    BY HearsSame
  <1>4. /\ Under(z, x) /\ ~Under(w, y)
        /\ Under(y, w) <=> Under(x, z)
    BY <1>1, <1>2, <1>3, FlagsTook
  <1>5. ~(Under(x, z) /\ Owing(x, z))
    BY <1>1, OneAtATime
  <1>6. y.c.fee[2] = 0
    BY <1>1, TookSlots
  <1>7. QED
    BY <1>3, <1>4, <1>5, <1>6 DEF Turns

(* handle_peer_commit_sig() of the other node. *)
LEMMA TurnsTookBack ==
    ASSUME NEW n \in Nodes, NEW x, NEW m, NEW z, Met(n, x, m, z), Turns(z, x),
           NEW y, NEW out \in Seq(Msgs), GotCommit(n, x, y, out), NEW w, Hears(z, w, out)
    PROVE  Turns(w, y)
  <1>1. /\ NodeType(n, x) /\ LinkType(x) /\ LinkType(z) /\ LinkNums(x, z) /\ LinkNums(z, x)
        /\ x.q \in Seq(Msgs) /\ z.q \in Seq(Msgs) /\ Store(x.c, x.d)
    BY MetIs
  <1>2. /\ x.q # << >> /\ Head(x.q).type = "commit" /\ y.q = Tail(x.q)
        /\ y.p \in PeerRecs /\ y.p.nextL = x.p.nextL + 1 /\ y.p.nextR = x.p.nextR
        /\ y.p.revs = x.p.revs
    BY DEF GotCommit, Reads
  <1>3. w.p = z.p /\ w.c = z.c
    BY HearsSame
  <1>4. ~Under(w, y) /\ Owing(w, y)
    BY <1>1, <1>2, <1>3, FlagsTook
  <1>5. y.d.wasRevoke
    BY <1>1, TookMoves
  <1>6. /\ y.c.fee[0] = x.c.fee[0] /\ y.c.fee[1] = x.c.fee[1] /\ y.c.fee[2] = 0
        /\ y.c.fee[3] = 0 /\ y.c.fee[13] = x.c.fee[13]
    BY <1>1, TookSlots
  <1>7. QED
    BY <1>2, <1>3, <1>4, <1>5, <1>6 DEF Turns

(* handle_peer_revoke_and_ack() of the node that opened the channel. *)
LEMMA TurnsAcked ==
    ASSUME NEW n \in Nodes, NEW x, NEW m, NEW z, Met(n, x, m, z), Turns(x, z),
           NEW y, NEW out \in Seq(Msgs), GotRevoke(n, x, y, out), NEW w, Hears(z, w, out)
    PROVE  Turns(y, w)
  <1>1. /\ NodeType(n, x) /\ LinkType(x) /\ LinkType(z) /\ LinkNums(x, z) /\ LinkNums(z, x)
        /\ x.q \in Seq(Msgs) /\ z.q \in Seq(Msgs) /\ Link(z, x) /\ InOrder(z, x)
    BY MetIs
  <1>2. /\ x.p.phase = "run"
        /\ x.q # << >> /\ Head(x.q).type = "revoke" /\ y.q = Tail(x.q)
        /\ y.p \in PeerRecs /\ y.p.nextL = x.p.nextL /\ y.p.nextR = x.p.nextR
        /\ y.p.revs = x.p.revs + 1
    BY DEF GotRevoke, Reads
  <1>3. w.p = z.p /\ w.c = z.c
    BY HearsSame
  <1>4. /\ ~Under(y, w)
        /\ Under(w, y) <=> Under(z, x)
    BY <1>1, <1>2, <1>3, FlagsAcked
  <1>5. ~(Under(z, x) /\ z.d.wasRevoke)
    <2>1. Head(x.q) \in Msgs
      BY <1>1, <1>2, Popped
    <2>2. Head(x.q) \in OfType("revoke") /\ Head(x.q) \notin OfType("commit")
      BY <1>2, <2>1 DEF OfType
    <2>3. Talks(z)
      BY <1>1, <1>2, ReaderTalks
    <2>4. Has(x.q, OfType("commit")) => ~Before(x.q, OfType("commit"), OfType("revoke"))
      BY <1>1, <1>2, <2>2, HeadFirst
    <2>5. QED
      BY <1>1, <2>3, <2>4 DEF InOrder
  <1>6. y.c.fee[1] = 0
    BY <1>1, AckSlots
  <1>7. QED
    BY <1>3, <1>4, <1>5, <1>6 DEF Turns

(* handle_peer_revoke_and_ack() of the other node. *)
LEMMA TurnsAckedBack ==
    ASSUME NEW n \in Nodes, NEW x, NEW m, NEW z, Met(n, x, m, z), Turns(z, x),
           NEW y, NEW out \in Seq(Msgs), GotRevoke(n, x, y, out), NEW w, Hears(z, w, out)
    PROVE  Turns(w, y)
  <1>1. /\ NodeType(n, x) /\ LinkType(x) /\ LinkType(z) /\ LinkNums(x, z) /\ LinkNums(z, x)
        /\ x.q \in Seq(Msgs) /\ z.q \in Seq(Msgs) /\ Turns(z, x)
    BY MetIs
  <1>2. /\ x.q # << >> /\ Head(x.q).type = "revoke" /\ y.q = Tail(x.q)
        /\ y.p \in PeerRecs /\ y.p.nextL = x.p.nextL /\ y.p.nextR = x.p.nextR
        /\ y.p.revs = x.p.revs + 1
    BY DEF GotRevoke, Reads
  <1>3. w.p = z.p /\ w.c = z.c
    BY HearsSame
  <1>4. ~Under(y, w) /\ ~Owing(y, w)
    BY <1>1, <1>2, <1>3, FlagsAcked
  <1> DEFINE f == x.c.fee
             g == y.c.fee
  <1>5. /\ g[0] = f[0] /\ g[1] = 0 /\ g[2] = Young(f[1], f[2]) /\ g[3] = f[3] /\ g[13] = 0
    BY <1>1, AckSlots
  <1>6. f[0] = 0 /\ f[1] = 0 /\ f[2] = 0 /\ f[3] = 0
    BY DEF Turns
  <1> HIDE DEF f, g
  <1>7. g[0] = 0 /\ g[1] = 0 /\ g[2] = 0 /\ g[3] = 0 /\ g[13] = 0
    BY <1>5, <1>6 DEF Young
  <1>8. QED
    BY <1>3, <1>4, <1>7 DEF Turns, f, g

(* handle_peer_feechange() fills one slot. *)
LEMMA HeardSlots ==
    ASSUME NEW n \in Nodes, NEW x, NodeType(n, x), x.q \in Seq(Msgs),
           x.c.opener = "remote", NEW y, NEW out, GotFee(n, x, y, out)
    PROVE  /\ y.c.fee[10] # 0
           /\ \A i \in HtlcStates : i # 10 => y.c.fee[i] = x.c.fee[i]
  <1> DEFINE u == Head(x.q)
             c == x.c
             c2 == y.c
             r == u.rate
  <1>1. GoodChan(c) /\ c.opener = "remote"
    BY DEF NodeType
  <1>2. /\ x.q # << >> /\ u.type = "fee" /\ c2 = channel_update_feerate(c, r)
    BY DEF GotFee, Reads
  <1>3. u \in Msgs
    BY <1>2, Popped
  <1>4. r \in Nat \ {0}
    BY <1>2, <1>3, MsgFields
  <1> HIDE DEF c, c2, r, u
  <1>5. \A i \in HtlcStates : c2.fee[i] = IF i = first_fee_state(c.opener) THEN r ELSE c.fee[i]
    BY <1>1, <1>2, <1>4, UpdateFeerate
  <1>6. first_fee_state("remote") = 10
    BY DEF first_fee_state, RCVD_ADD_HTLC
  <1>7. 10 \in HtlcStates
    BY DEF HtlcStates
  <1>8. QED
    BY <1>1, <1>4, <1>5, <1>6, <1>7 DEF c, c2

(* A step that is no update_fee, no commitment and no revocation.           *)
LEMMA TurnsNoFee ==
    ASSUME NEW n, NEW x, NEW m, NEW z, Met(n, x, m, z), NEW y, NEW out \in Seq(Msgs),
           NoFee(x, y, out), NEW w, Hears(z, w, out)
    PROVE  /\ Turns(x, z) => Turns(y, w)
           /\ Turns(z, x) => Turns(w, y)
  <1>1. Constant(x, y, z, w)
    BY MinorOrder DEF NoFee
  <1>2. w.p = z.p /\ w.c = z.c
    BY HearsSame
  <1>3. /\ y.c.fee = x.c.fee /\ y.p.revs = x.p.revs /\ y.p.nextR = x.p.nextR
    BY DEF NoFee, Minor, SameNums
  <1>4. /\ Under(y, w) <=> Under(x, z)
        /\ Owing(y, w) <=> Owing(x, z)
        /\ Under(w, y) <=> Under(z, x)
        /\ Owing(w, y) <=> Owing(z, x)
        /\ y.d.wasRevoke = x.d.wasRevoke /\ w.d.wasRevoke = z.d.wasRevoke
    BY <1>1 DEF Constant
  <1>5. Turns(x, z) => Turns(y, w)
    BY <1>2, <1>3, <1>4, TurnsStay
  <1>6. Turns(z, x) => Turns(w, y)
    BY <1>2, <1>3, <1>4, TurnsStay
  <1>7. QED
    BY <1>5, <1>6

(* handle_peer_feechange() *)
LEMMA TurnsHeard ==
    ASSUME NEW n \in Nodes, NEW x, NEW m, NEW z, Met(n, x, m, z), Turns(z, x),
           x.c.opener = "remote",
           NEW y, NEW out \in Seq(Msgs), GotFee(n, x, y, out), NEW w, Hears(z, w, out)
    PROVE  Turns(w, y)
  <1>1. NodeType(n, x) /\ x.q \in Seq(Msgs)
    BY MetIs
  <1>2. y.p = x.p /\ y.d = x.d
    BY DEF GotFee
  <1>3. w.p = z.p /\ w.c = z.c /\ w.d.wasRevoke = z.d.wasRevoke
    BY HearsSame
  <1>4. \A i \in HtlcStates : i # 10 => y.c.fee[i] = x.c.fee[i]
    BY <1>1, HeardSlots
  <1>5. /\ y.c.fee[0] = x.c.fee[0] /\ y.c.fee[1] = x.c.fee[1] /\ y.c.fee[2] = x.c.fee[2]
        /\ y.c.fee[3] = x.c.fee[3] /\ y.c.fee[12] = x.c.fee[12] /\ y.c.fee[13] = x.c.fee[13]
    BY <1>4 DEF HtlcStates
  <1>6. /\ Under(y, w) <=> Under(x, z)
        /\ Under(w, y) <=> Under(z, x)
        /\ Owing(w, y) <=> Owing(z, x)
        /\ Owing(y, w) <=> Owing(x, z)
    BY <1>2, <1>3 DEF Under, Owing
  <1>7. QED
    BY <1>2, <1>3, <1>5, <1>6, TurnsStay

(* peer_reconnect() *)
LEMMA TurnsAnswered ==
    ASSUME NEW n, NEW x, NEW m, NEW z, Met(n, x, m, z), NEW y, NEW out \in Seq(Msgs),
           Answers(n, x, y, out), NEW w, Hears(z, w, out)
    PROVE  /\ Turns(x, z) => Turns(y, w)
           /\ Turns(z, x) => Turns(w, y)
  <1>1. SameNums(x.p, y.p) /\ y.c = x.c /\ y.d = x.d
    BY DEF Answers, PeerKeeps, SameNums
  <1>2. w.p = z.p /\ w.c = z.c /\ w.d.wasRevoke = z.d.wasRevoke
    BY HearsSame
  <1>3. /\ Under(y, w) <=> Under(x, z)
        /\ Under(w, y) <=> Under(z, x)
        /\ Owing(w, y) <=> Owing(z, x)
        /\ Owing(y, w) <=> Owing(x, z)
    BY <1>1, <1>2 DEF Under, Owing, SameNums
  <1>4. y.p.revs = x.p.revs /\ y.p.nextR = x.p.nextR
    BY <1>1 DEF SameNums
  <1>5. Turns(x, z) => Turns(y, w)
    BY <1>1, <1>2, <1>3, <1>4, TurnsStay
  <1>6. Turns(z, x) => Turns(w, y)
    BY <1>1, <1>2, <1>3, <1>4, TurnsStay
  <1>7. QED
    BY <1>5, <1>6

(* The node that opened the channel reads no update_fee. *)
LEMMA OpenerSetsFees ==
    ASSUME NEW n, NEW x, x.q \in Seq(Msgs), NEW z, Fees(x, z), NEW y, NEW out
    PROVE  ~GotFee(n, x, y, out)
  <1>1. SUFFICES ASSUME GotFee(n, x, y, out) PROVE FALSE
    OBVIOUS
  <1>2. x.q # << >> /\ Head(x.q).type = "fee"
    BY <1>1 DEF GotFee, Reads
  <1>3. Has(x.q, OfType("fee"))
    BY <1>2, Popped DEF OfType
  <1>4. QED
    BY <1>3 DEF Fees, FeeGoes

(* Whatever a node does. *)
LEMMA TurnsStep ==
    ASSUME NEW n \in Nodes, NEW x, NEW m \in Nodes, NEW z, Met(n, x, m, z),
           n = A => Fees(x, z) /\ Turns(x, z), n # A => Turns(z, x),
           NEW y, NEW out \in Seq(Msgs), NodeStep(n, x, y, out), NEW w, Hears(z, w, out)
    PROVE  /\ n = A => Turns(y, w)
           /\ n # A => Turns(w, y)
  <1>1. NodeType(n, x) /\ x.q \in Seq(Msgs)
    BY MetIs
  <1>2. /\ n = A => x.c.opener = "local"
        /\ n # A => x.c.opener = "remote"
    BY <1>1 DEF NodeType, OpenerSide
  <1>3. CASE \/ Quiet(n, x, y, out) \/ SavesResolution(n, x, y, out) \/ Offers(n, x, y, out)
             \/ Resolves(n, x, y, out) \/ GotAdd(n, x, y, out) \/ GotRemove(n, x, y, out)
    <2>1. NoFee(x, y, out)
      BY <1>1, <1>3, NoFeeSteps
    <2>2. (Turns(x, z) => Turns(y, w)) /\ (Turns(z, x) => Turns(w, y))
      BY <2>1, TurnsNoFee
    <2>3. QED
      BY <2>2
  <1>4. CASE GotFee(n, x, y, out)
    <2>1. n # A
      BY <1>1, <1>4, OpenerSetsFees
    <2>2. QED
      BY <1>2, <1>4, <2>1, TurnsHeard
  <1>5. CASE SendsCommit(n, x, y, out)
    <2>1. n = A => Turns(y, w)
      BY <1>2, <1>5, TurnsSent
    <2>2. n # A => Turns(w, y)
      BY <1>2, <1>5, TurnsSentBack
    <2>3. QED
      BY <2>1, <2>2
  <1>6. CASE GotCommit(n, x, y, out)
    <2>1. n = A => Turns(y, w)
      BY <1>6, TurnsTook
    <2>2. n # A => Turns(w, y)
      BY <1>6, TurnsTookBack
    <2>3. QED
      BY <2>1, <2>2
  <1>7. CASE GotRevoke(n, x, y, out)
    <2>1. n = A => Turns(y, w)
      BY <1>7, TurnsAcked
    <2>2. n # A => Turns(w, y)
      BY <1>7, TurnsAckedBack
    <2>3. QED
      BY <2>1, <2>2
  <1>8. CASE Answers(n, x, y, out)
    <2>1. (Turns(x, z) => Turns(y, w)) /\ (Turns(z, x) => Turns(w, y))
      BY <1>8, TurnsAnswered
    <2>2. QED
      BY <2>1
  <1>9. QED
    BY <1>3, <1>4, <1>5, <1>6, <1>7, <1>8 DEF NodeStep

(* The connection breaks. *)
LEMMA TurnsBreak ==
    ASSUME NEW n \in Nodes, NEW x, NodeType(n, x), NEW y, Breaks(n, x, y), Store(x.c, x.d),
           NEW m \in Nodes, NEW z, NodeType(m, z), NEW w, Breaks(m, z, w), Store(z.c, z.d),
           Nums(x), Nums(z), Turns(x, z)
    PROVE  Turns(y, w)
  <1>1. SameNums(x.p, y.p) /\ y.d = x.d
    BY BreakMoves
  <1>2. SameNums(z.p, w.p) /\ w.d = z.d
    BY BreakMoves
  <1>3. /\ Under(y, w) <=> Under(x, z)
        /\ Owing(y, w) <=> Owing(x, z)
        /\ Under(w, y) <=> Under(z, x)
        /\ Owing(w, y) <=> Owing(z, x)
    BY <1>1, <1>2, FlagsSame
  <1>4. y.c.fee[1] = x.c.fee[1] /\ y.c.fee[2] = x.c.fee[2]
    <2>1. \A i \in 0..4 \cup 10..14 : y.c.fee[i] = IF i \in {0, 10} THEN 0 ELSE x.c.fee[i]
      BY BreakSlots
    <2>2. QED
      BY <2>1
  <1>5. /\ w.c.fee[0] = 0 /\ w.c.fee[1] = z.c.fee[1] /\ w.c.fee[2] = z.c.fee[2]
        /\ w.c.fee[3] = z.c.fee[3] /\ w.c.fee[12] = z.c.fee[12] /\ w.c.fee[13] = z.c.fee[13]
    <2>1. \A i \in 0..4 \cup 10..14 : w.c.fee[i] = IF i \in {0, 10} THEN 0 ELSE z.c.fee[i]
      BY BreakSlots
    <2>2. QED
      BY <2>1
  <1>6. w.p.revs = z.p.revs /\ w.p.nextR = z.p.nextR /\ z.c.fee[0] = 0
    BY <1>2 DEF SameNums, Turns
  <1>7. QED
    BY <1>1, <1>2, <1>3, <1>4, <1>5, <1>6, TurnsStay

(* A new connection opens. *)
LEMMA TurnsReopen ==
    ASSUME NEW x, LinkType(x), NEW z, LinkType(z), Turns(x, z),
           NEW y, Reopens(x, y, z), NEW w, Reopens(z, w, x)
    PROVE  Turns(y, w)
  <1>1. /\ y.c = x.c /\ w.c = z.c /\ SameNums(x.p, y.p) /\ SameNums(z.p, w.p)
        /\ w.d = z.d /\ y.d = x.d
    BY DEF Reopens, LinkType, SameNums, PeerRecs
  <1>2. /\ Under(y, w) <=> Under(x, z)
        /\ Owing(y, w) <=> Owing(x, z)
        /\ Under(w, y) <=> Under(z, x)
        /\ Owing(w, y) <=> Owing(z, x)
    BY <1>1, FlagsSame
  <1>3. w.p.revs = z.p.revs /\ w.p.nextR = z.p.nextR
    BY <1>1 DEF SameNums
  <1>4. QED
    BY <1>1, <1>2, <1>3, TurnsStay

-----------------------------------------------------------------------------
(* A step of one node in which a feerate lands on another, as FeeClash has it. *)
Clash(x, y, i, j) ==
    /\ j = i + 1 \/ (j = i + 2 /\ y.p.nextL # x.p.nextL)
    /\ j < last_fee_state(x.c.opener)
    /\ x.c.fee[i] # 0 /\ y.c.fee[i] = 0
    /\ x.c.fee[j] # 0 /\ y.c.fee[j] # 0


(* A commitment lands no feerate on another but on one that is the same, or *)
(* is long in force.                                                        *)
LEMMA TookClash ==
    ASSUME NEW n \in Nodes, NEW x, NEW m, NEW z, Met(n, x, m, z), Fees(z, x), Turns(z, x),
           NEW y, NEW out \in Seq(Msgs), GotCommit(n, x, y, out), NEW w, Hears(z, w, out),
           x.c.fee[10] # 0, x.c.fee[12] # 0
    PROVE  x.c.fee[12] \in {x.c.fee[10], x.c.fee[14]}
  <1>1. /\ NodeType(n, x) /\ LinkType(x) /\ LinkType(z) /\ LinkNums(x, z) /\ LinkNums(z, x)
        /\ x.q \in Seq(Msgs) /\ z.q \in Seq(Msgs)
    BY MetIs
  <1>2. /\ x.p.phase = "run"
        /\ x.q # << >> /\ Head(x.q).type = "commit" /\ y.q = Tail(x.q)
        /\ y.p \in PeerRecs /\ y.p.nextL = x.p.nextL + 1 /\ y.p.nextR = x.p.nextR
        /\ y.p.revs = x.p.revs
    BY DEF GotCommit, Reads
  <1>3. w.p = z.p
    BY HearsSame
  <1>4. Under(z, x)
    BY <1>1, <1>2, <1>3, FlagsTook
  <1>5. ~Under(x, z)
    <2>1. ~(Under(z, x) /\ Owing(z, x))
      BY <1>1, OneAtATime
    <2>2. QED
      BY <1>4, <2>1 DEF Turns
  <1>6. ~Owing(x, z)
    <2>1. ~z.d.wasRevoke => ~Owing(x, z)
      BY <1>2, CommitRead
    <2>2. QED
      BY <1>4, <2>1 DEF Turns
  <1>7. x.p.revs = x.p.nextR - 1
    <2>1. /\ x.p.nextR \in Nat /\ x.p.revs \in Nat /\ z.p.nextL \in Nat
          /\ x.p.revs <= z.p.nextL - 1 /\ z.p.nextL <= x.p.nextR
          /\ x.p.nextR <= x.p.revs + 2
      BY <1>1, Numbers
    <2>2. \A i, j, k \in Nat : /\ j <= k - 1 /\ k <= i /\ i <= j + 2
                               /\ i # k + 1 /\ j # k - 2
                               => j = i - 1
      OBVIOUS
    <2>3. QED
      BY <1>5, <1>6, <2>1, <2>2 DEF Under, Owing
  <1>8. x.c.fee[13] = 0
    BY <1>7 DEF Turns
  <1>9. x.c.fee[12] = Older(z) /\ x.c.fee[10] = Newest(z) /\ x.c.fee[14] = z.c.fee[4]
    <2>1. Bears(x) = Older(z) /\ Signs(x) = z.c.fee[4] /\ x.c.fee[10] = Newest(z)
      BY <1>4, <1>5 DEF Fees, FeesMeet, FeeGoes
    <2>2. Bears(x) = x.c.fee[12] /\ Signs(x) = x.c.fee[14]
      BY <1>8 DEF Bears, Signs, Young
    <2>3. QED
      BY <2>1, <2>2
  <1>10. z.c.fee[1] = 0 => Newest(z) = Older(z)
    BY DEF Newest, Young
  <1>11. z.c.fee[1] # 0 => Older(z) = z.c.fee[4]
    BY DEF Older, Young, Turns
  <1>12. QED
    BY <1>9, <1>10, <1>11

(* The node that opened the channel never has a feerate land on another. *)
LEMMA OpenerClash ==
    ASSUME NEW x, NEW z, Fees(x, z), Turns(x, z), x.c.opener = "local", NEW y,
           NEW i \in AddingStates, NEW j \in AddingStates
    PROVE  ~Clash(x, y, i, j)
  <1> DEFINE f == x.c.fee
             g == y.c.fee
  <1>1. f[0] = 0 /\ f[3] = 0 /\ (f[1] # 0 => f[2] = 0)
    BY DEF Fees, FeeRest, Turns
  <1>2. SUFFICES ASSUME Clash(x, y, i, j) PROVE FALSE
    OBVIOUS
  <1>3. /\ f[i] # 0 /\ g[i] = 0 /\ f[j] # 0 /\ g[j] # 0
        /\ j = i + 1 \/ j = i + 2
        /\ j < 4
    <2>1. last_fee_state("local") = 4
      BY DEF last_fee_state, SENT_ADD_ACK_REVOCATION
    <2>2. QED
      BY <1>2, <2>1 DEF Clash
  <1> HIDE DEF f, g
  <1>4. i = 1 \/ i = 2
    <2>1. i \in 0..3
      BY <1>3 DEF AddingStates
    <2>2. QED
      BY <1>1, <1>3, <2>1
  <1>5. f[j] # 0 /\ j \in {2, 3}
    BY <1>3, <1>4
  <1>6. i = 1 => j = 3
    BY <1>1, <1>3, <1>4, <1>5
  <1>7. j = 3
    BY <1>3, <1>4, <1>5, <1>6
  <1>8. QED
    BY <1>1, <1>5, <1>7

(* The other node has one land on another only in a received commitment. *)
LEMMA OtherClash ==
    ASSUME NEW n \in Nodes, NEW x, NEW m, NEW z, Met(n, x, m, z), Fees(z, x), Turns(z, x),
           x.c.opener = "remote",
           NEW y, NEW out \in Seq(Msgs), NodeStep(n, x, y, out), NEW w, Hears(z, w, out),
           NEW i \in AddingStates, NEW j \in AddingStates, Clash(x, y, i, j)
    PROVE  x.c.fee[j] \in {x.c.fee[i], x.c.fee[14]}
  <1> DEFINE f == x.c.fee
             g == y.c.fee
  <1>1. NodeType(n, x) /\ x.q \in Seq(Msgs)
    BY MetIs
  <1>2. f[0] = 0 /\ f[1] = 0 /\ f[2] = 0 /\ f[3] = 0 /\ f[11] = 0
    BY DEF Fees, FeeRest, Turns
  <1>3. /\ f[i] # 0 /\ g[i] = 0 /\ f[j] # 0 /\ g[j] # 0
        /\ j = i + 1 \/ j = i + 2
        /\ j < 14
    <2>1. last_fee_state("remote") = 14
      BY DEF last_fee_state, RCVD_ADD_ACK_REVOCATION
    <2>2. QED
      BY <2>1 DEF Clash
  <1>4. (i = 10 /\ j = 12) \/ (i = 12 /\ j = 13)
    <2> HIDE DEF f, g
    <2>1. i \in 0..3 \cup 10..13 /\ j \in 0..3 \cup 10..13
      BY DEF AddingStates
    <2>2. i \notin 0..3 /\ i # 11 /\ j # 11
      BY <1>2, <1>3
    <2>3. QED
      BY <1>3, <2>1, <2>2
  <1>5. f[i] # 0 /\ g[i] = 0
    BY <1>3
  <1>6. CASE \/ Quiet(n, x, y, out) \/ SavesResolution(n, x, y, out) \/ Offers(n, x, y, out)
             \/ Resolves(n, x, y, out) \/ GotAdd(n, x, y, out) \/ GotRemove(n, x, y, out)
             \/ Answers(n, x, y, out)
    <2>1. \/ NoFee(x, y, out)
          \/ Answers(n, x, y, out)
      BY <1>1, <1>6, NoFeeSteps
    <2>2. g = f
      BY <2>1 DEF NoFee, Answers
    <2>3. QED
      BY <1>5, <2>2
  <1>7. CASE GotFee(n, x, y, out)
    <2>1. g[10] # 0 /\ \A k \in HtlcStates : k # 10 => g[k] = f[k]
      BY <1>1, <1>7, HeardSlots
    <2>2. 12 \in HtlcStates
      BY DEF HtlcStates
    <2>3. QED
      BY <1>4, <1>5, <2>1, <2>2
  <1>8. CASE SendsCommit(n, x, y, out)
    <2>1. g[10] = f[10]
      BY <1>1, <1>8, SentSlots
    <2>2. f[13] = 0
      BY <1>8 DEF SendsCommit, Turns
    <2>3. QED
      BY <1>3, <1>4, <2>1, <2>2
  <1>9. CASE GotCommit(n, x, y, out)
    <2>1. g[12] = Young(Young(f[10], f[11]), f[12])
      BY <1>1, <1>9, TookSlots
    <2>2. CASE i = 10 /\ j = 12
      BY <1>3, <1>9, <2>2, TookClash
    <2>3. CASE i = 12
      <3> HIDE DEF f, g
      <3>1. QED
        BY <1>2, <1>5, <2>1, <2>3 DEF Young
    <2>4. QED
      BY <1>4, <2>2, <2>3
  <1>10. CASE GotRevoke(n, x, y, out)
    <2>1. g[10] = f[10] /\ g[12] = f[12]
      BY <1>1, <1>10, AckSlots
    <2>2. QED
      BY <1>4, <1>5, <2>1
  <1>11. QED
    BY <1>6, <1>7, <1>8, <1>9, <1>10 DEF NodeStep

-----------------------------------------------------------------------------
(* What the two nodes agree on, and where a feerate may wait. *)
TurnsInv == FeesInv /\ Turns(Node(A), Node(B))

(* At first. *)
LEMMA TurnsInit ==
    ASSUME Init, Fees(Node(A), Node(B))
    PROVE  Turns(Node(A), Node(B))
  <1>1. A \in Nodes /\ B \in Nodes /\ A # B
    BY ChanneldAssumption DEF Nodes
  <1>2. ASSUME NEW n \in Nodes
        PROVE  /\ Node(n).c.fee = new_fee_states(OpenerSide(n), InitialFeerate)
               /\ Node(n).p.nextL = 1 /\ Node(n).p.nextR = 1
    <2> DEFINE d == InitDb(n)
    <2>1. d \in DbRecs /\ d.fee[last_fee_state(OpenerSide(n))] # 0 /\ Node(n).d = d
      <3>1. Node(n).d = d
        BY DEF Init, Node
      <3>2. NodeType(n, Node(n))
        BY TypeInit DEF TypeInv
      <3>3. QED
        BY <3>1, <3>2 DEF NodeType
    <2>2. d.fee = new_fee_states(OpenerSide(n), InitialFeerate)
      BY DEF InitDb
    <2> HIDE DEF d
    <2>3. RestoredChannel(n, d).fee = d.fee
      BY <2>1, RestoredType
    <2>4. /\ Node(n).p.nextL = 1 /\ Node(n).p.nextR = 1
          /\ Node(n).c = RestoredChannel(n, InitDb(n))
      BY KeepsInit
    <2>5. QED
      BY <2>2, <2>3, <2>4 DEF d
  <1>3. last_fee_state("local") = 4 /\ last_fee_state("remote") = 14
    BY DEF last_fee_state, SENT_ADD_ACK_REVOCATION, RCVD_ADD_ACK_REVOCATION
  <1>4. ASSUME NEW n \in Nodes
        PROVE  \A i \in {0, 1, 2, 3, 12, 13} : Node(n).c.fee[i] = 0
    <2>1. OpenerSide(n) \in {"local", "remote"}
      BY DEF OpenerSide
    <2>2. \A i \in {0, 1, 2, 3, 12, 13} : i \in HtlcStates /\ i # last_fee_state(OpenerSide(n))
      BY <1>3, <2>1 DEF HtlcStates
    <2>3. Node(n).c.fee = new_fee_states(OpenerSide(n), InitialFeerate)
      BY <1>2
    <2>4. QED
      BY <2>2, <2>3 DEF new_fee_states
  <1> DEFINE x == Node(A)
             z == Node(B)
  <1>5. /\ x.c.fee[1] = 0 /\ z.c.fee[0] = 0 /\ z.c.fee[1] = 0 /\ z.c.fee[2] = 0
        /\ z.c.fee[3] = 0 /\ z.c.fee[12] = 0 /\ z.c.fee[13] = 0
    BY <1>1, <1>4
  <1> HIDE DEF x, z
  <1>6. QED
    BY <1>5 DEF Turns, x, z

(* In every step. *)
LEMMA TurnsNext ==
    ASSUME TurnsInv, [Next]_vars
    PROVE  /\ TurnsInv'
           /\ \A n \in Nodes : \A i, j \in AddingStates : FeeClash(n, i, j) =>
                chan[n].fee[j] \in {chan[n].fee[i],
                                    chan[n].fee[last_fee_state(chan[n].opener)]}
  <1>1. FeesInv /\ FeesInv' /\ MatchInv /\ Steps3
    <2>1. FeesInv /\ MatchInv
      BY DEF TurnsInv, FeesInv, OwesInv
    <2>2. Steps3
      BY <2>1, TypeStep DEF LinkInv, KeepInv, SettleInv, MatchInv
    <2>3. QED
      BY <2>1, <2>2, FeesNext
  <1>2. /\ A \in Nodes /\ B \in Nodes /\ Peer(A) = B /\ Peer(B) = A /\ B # A
        /\ \A n \in Nodes : n = A \/ n = B
    BY ChanneldAssumption DEF Nodes, Peer
  <1>3. Fees(Node(A), Node(B)) /\ Turns(Node(A), Node(B))
    BY DEF TurnsInv, FeesInv
  <1>4. ASSUME NEW n \in Nodes, NEW i \in AddingStates, NEW j \in AddingStates,
               FeeClash(n, i, j)
        PROVE  /\ Clash(Node(n), Node(n)', i, j)
               /\ Node(n)'.p.phase # "down"
               /\ Node(n)'.c.fee # Node(n).c.fee
    BY <1>4 DEF FeeClash, Clash, Node
  <1> DEFINE KeepsFees(n) == \A i, j \in AddingStates : FeeClash(n, i, j) =>
                 chan[n].fee[j] \in {chan[n].fee[i],
                                     chan[n].fee[last_fee_state(chan[n].opener)]}
  <1>5. SUFFICES Turns(Node(A)', Node(B)') /\ \A n \in Nodes : KeepsFees(n)
    BY <1>1 DEF TurnsInv
  <1>6. CASE \E n \in Nodes : \E out \in Seq(Msgs) :
               NodeStep(n, Node(n), Node(n)', out) /\ Hears(Node(Peer(n)), Node(Peer(n))', out)
    <2>1. PICK n \in Nodes, out \in Seq(Msgs) :
               NodeStep(n, Node(n), Node(n)', out) /\ Hears(Node(Peer(n)), Node(Peer(n))', out)
      BY <1>6
    <2> DEFINE x == Node(n)
               z == Node(Peer(n))
               y == Node(n)'
               w == Node(Peer(n))'
               m == Peer(n)
    <2>2. m \in Nodes /\ Met(n, x, m, z) /\ NodeStep(n, x, y, out) /\ Hears(z, w, out)
      BY <1>1, <2>1, MatchIs
    <2>3. /\ n = A => Fees(x, z) /\ Turns(x, z)
          /\ n # A => Fees(z, x) /\ Turns(z, x)
      BY <1>2, <1>3
    <2>4. Turns(Node(A)', Node(B)')
      <3> HIDE DEF x, y, z, w, m
      <3>1. /\ n = A => Turns(y, w)
            /\ n # A => Turns(w, y)
        BY <2>2, <2>3, TurnsStep
      <3>2. QED
        BY <1>2, <3>1 DEF x, y, z, w, m
    <2>5. KeepsFees(n)
      <3>1. SUFFICES ASSUME NEW i \in AddingStates, NEW j \in AddingStates, FeeClash(n, i, j)
                     PROVE  chan[n].fee[j] \in {chan[n].fee[i],
                                  chan[n].fee[last_fee_state(chan[n].opener)]}
        OBVIOUS
      <3>2. Clash(x, y, i, j)
        BY <1>4, <3>1
      <3>3. x.c = chan[n]
        BY DEF Node
      <3>4. NodeType(n, x)
        BY <2>2, MetIs
      <3>5. /\ n = A => x.c.opener = "local"
            /\ n # A => x.c.opener = "remote"
        BY <3>4 DEF NodeType, OpenerSide
      <3> HIDE DEF x, y, z, w, m
      <3>6. n # A
        BY <2>2, <2>3, <3>2, <3>5, OpenerClash
      <3>7. x.c.fee[j] \in {x.c.fee[i], x.c.fee[14]}
        BY <2>2, <2>3, <3>2, <3>5, <3>6, OtherClash
      <3>8. last_fee_state("remote") = 14
        BY DEF last_fee_state, RCVD_ADD_ACK_REVOCATION
      <3>9. QED
        BY <3>3, <3>5, <3>6, <3>7, <3>8
    <2>6. KeepsFees(m)
      <3>1. w.c = z.c
        BY <2>2, HearsSame
      <3>2. QED
        BY <1>4, <2>2, <3>1
    <2>7. n = A \/ n = B
      BY <1>2
    <2>8. \A k \in Nodes : k = n \/ k = m
      BY <1>2, <2>7
    <2> HIDE DEF KeepsFees
    <2>9. \A k \in Nodes : KeepsFees(k)
      BY <2>5, <2>6, <2>8
    <2>10. QED
      BY <2>4, <2>9
  <1> DEFINE x == Node(A)
             z == Node(B)
             y == Node(A)'
             w == Node(B)'
  <1>7. /\ NodeType(A, x) /\ NodeType(B, z) /\ Nums(x) /\ Nums(z)
        /\ Keeps(A, x) /\ Keeps(B, z)
    BY <1>1, <1>2, MatchIs
  <1>8. CASE \A n \in Nodes : Breaks(n, Node(n), Node(n)')
    <2>1. Breaks(A, x, y) /\ Breaks(B, z, w) /\ Turns(x, z)
      BY <1>2, <1>3, <1>8
    <2>2. Turns(Node(A)', Node(B)')
      <3> HIDE DEF x, y, z, w
      <3>1. Store(x.c, x.d) /\ Store(z.c, z.d)
        BY <1>7 DEF Keeps
      <3>2. Turns(y, w)
        BY <1>2, <1>7, <2>1, <3>1, TurnsBreak
      <3>3. QED
        BY <3>2 DEF y, w
    <2>3. \A n \in Nodes : Node(n)'.p.phase = "down"
      <3>1. y.p.phase = "down" /\ w.p.phase = "down"
        <4> HIDE DEF x, y, z, w
        <4>1. Store(x.c, x.d) /\ Store(z.c, z.d)
          BY <1>7 DEF Keeps
        <4>2. QED
          BY <1>2, <1>7, <2>1, <4>1, BreakMoves
      <3>2. QED
        BY <1>2, <3>1
    <2>4. QED
      BY <1>4, <2>2, <2>3
  <1>9. CASE \A n \in Nodes : Reopens(Node(n), Node(n)', Node(Peer(n)))
    <2>1. Reopens(x, y, z) /\ Reopens(z, w, x) /\ Turns(x, z)
      BY <1>2, <1>3, <1>9
    <2>2. Turns(Node(A)', Node(B)')
      <3> HIDE DEF x, y, z, w
      <3>1. LinkType(x) /\ LinkType(z)
        BY <1>7 DEF NodeType, LinkType
      <3>2. Turns(y, w)
        BY <2>1, <3>1, TurnsReopen
      <3>3. QED
        BY <3>2 DEF y, w
    <2>3. \A n \in Nodes : Node(n)'.c = Node(n).c
      BY <1>9 DEF Reopens
    <2>4. QED
      BY <1>4, <2>2, <2>3
  <1>10. CASE \A n \in Nodes : Node(n)' = Node(n)
    <2>1. Turns(Node(A)', Node(B)')
      BY <1>2, <1>3, <1>10
    <2>2. QED
      BY <1>4, <1>10, <2>1
  <1>11. QED
    BY <1>1, <1>6, <1>8, <1>9, <1>10 DEF Steps3

(* NoFeerateLost: no step moves a feerate that is under way onto another,   *)
(* except, in a received commitment, onto the same feerate that the opener  *)
(* has restated after a reestablish, or onto the one long in force.         *)
THEOREM FeeratesKept == Spec => NoFeerateLost
  <1>1. Init => TurnsInv
    <2>1. Init => FeesInv
      BY KeepInit, SettleInit, MatchInit, OwesInit, FeesInit
         DEF SettleInv, MatchInv, OwesInv, FeesInv
    <2>2. QED
      BY <2>1, TurnsInit DEF TurnsInv, FeesInv
  <1>2. TurnsInv /\ [Next]_vars => TurnsInv'
    BY TurnsNext
  <1>3. TurnsInv /\ [Next]_vars =>
          [\A n \in Nodes : \A i, j \in AddingStates : FeeClash(n, i, j) =>
             chan[n].fee[j] \in {chan[n].fee[i],
                                 chan[n].fee[last_fee_state(chan[n].opener)]}]_vars
    BY TurnsNext
  <1>4. QED
    BY <1>1, <1>2, <1>3, PTL DEF Spec, NoFeerateLost
=============================================================================
