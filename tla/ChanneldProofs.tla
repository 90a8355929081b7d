--------------------------- MODULE ChanneldProofs ---------------------------
(* The commitment protocol of channeld and lightningd, for any funding, any *)
(* feerates and any number of HTLCs, restarts, crashes and shutdowns: every *)
(* variable stays well formed, the numbers the two nodes keep stay linked,  *)
(* and the protocol implements CommitDance.  Then what each operation does  *)
(* to a node's channel and to the row that lightningd keeps of it.          *)
EXTENDS Channeld, SetSums

-----------------------------------------------------------------------------
(* What a channel and a database are made of.                               *)

HtlcKeys == Sides \X Nat
HtlcRecs == [state : HtlcStates, amount : Nat, r : {"none", "fulfill", "fail"}]

(* An HTLC's state tells who offered it. *)
GoodHtlc(h, x) ==
    /\ x \in HtlcRecs
    /\ htlc_state_owner(x.state) = h[1]

HtlcMaps ==
    {f \in UNION {[D -> HtlcRecs] : D \in SUBSET HtlcKeys} :
        IsFiniteSet(DOMAIN f) /\ \A h \in DOMAIN f : GoodHtlc(h, f[h])}

Slots == [HtlcStates -> Nat]
Balances == [Sides -> [Sides -> Int]]
ChanRecs == [opener : Sides, htlcs : HtlcMaps, fee : Slots, owed : Balances]

(* A function on HTLCs is a map when each of its HTLCs is good. *)
LEMMA HtlcMapIntro ==
    ASSUME NEW f, f = [h \in DOMAIN f |-> f[h]], IsFiniteSet(DOMAIN f),
           DOMAIN f \subseteq HtlcKeys, \A h \in DOMAIN f : GoodHtlc(h, f[h])
    PROVE  f \in HtlcMaps
  <1>1. f \in [DOMAIN f -> HtlcRecs]
    BY DEF GoodHtlc
  <1>2. QED
    BY <1>1 DEF HtlcMaps

(* And the other way round. *)
LEMMA HtlcMapElim ==
    ASSUME NEW f \in HtlcMaps
    PROVE  /\ f = [h \in DOMAIN f |-> f[h]]
           /\ IsFiniteSet(DOMAIN f)
           /\ DOMAIN f \subseteq HtlcKeys
           /\ \A h \in DOMAIN f : GoodHtlc(h, f[h]) /\ f[h] \in HtlcRecs
  BY DEF HtlcMaps, GoodHtlc

-----------------------------------------------------------------------------
(* Sums of amounts.                                                         *)

(* g sums the amounts of c over every subset of S the way SumAmounts does. *)
SumsAmounts(g, c, S) ==
    g = [s \in SUBSET S |->
            IF s = {} THEN 0 ELSE Amount(c, FirstOf(s)) + g[s \ {FirstOf(s)}]]

(* The sum of the amounts of HTLCs is the sum of any function that has them *)
(* as its values.                                                           *)
LEMMA SumAmountsIs ==
    ASSUME NEW c, NEW S, IsFiniteSet(S), NEW f,
           \A h \in S : Amount(c, h) = f[h]
    PROVE  SumAmounts(c, S) = SumOver(f, S)
  <1>1. ASSUME NEW g
        PROVE  SumsAmounts(g, c, S) <=> Sums(g, f, S)
    <2> DEFINE one(s) == IF s = {} THEN 0 ELSE Amount(c, FirstOf(s)) + g[s \ {FirstOf(s)}]
               two(s) == IF s = {} THEN 0 ELSE f[FirstOf(s)] + g[s \ {FirstOf(s)}]
    <2>1. ASSUME NEW s \in SUBSET S
          PROVE  one(s) = two(s)
      <3>1. s # {} => FirstOf(s) \in S
        BY FirstOfIn
      <3>2. QED
        BY <3>1
    <2> HIDE DEF one, two
    <2>2. [s \in SUBSET S |-> one(s)] = [s \in SUBSET S |-> two(s)]
      BY <2>1
    <2>3. QED
      BY <2>2 DEF one, two, SumsAmounts, Sums
  <1>2. PICK g : Sums(g, f, S) /\ SumOver(f, S) = g[S]
    BY SumIsSums
  <1> DEFINE k == CHOOSE k : SumsAmounts(k, c, S)
  <1>3. SumsAmounts(k, c, S)
    BY <1>1, <1>2
  <1>4. SumAmounts(c, S) = k[S]
    BY DEF SumAmounts, SumsAmounts, MapThenSumSet, MapThenFoldSet, FirstOf
  <1> HIDE DEF k
  <1>5. Sums(k, f, S)
    BY <1>1, <1>3
  <1>6. k[S] = g[S]
    BY <1>2, <1>5, SumsAgree
  <1>7. QED
    BY <1>2, <1>4, <1>6

(* A channel's sums are natural numbers, add up over disjoint sets, and     *)
(* depend on the amounts of those HTLCs only.                               *)
LEMMA AmountsType ==
    ASSUME NEW c, c.htlcs \in HtlcMaps, NEW S, S \subseteq DOMAIN c.htlcs
    PROVE  SumAmounts(c, S) \in Nat /\ IsFiniteSet(S)
  <1> DEFINE f == [h \in DOMAIN c.htlcs |-> Amount(c, h)]
  <1>1. \A h \in S : f[h] \in Nat /\ Amount(c, h) = f[h]
    BY HtlcMapElim DEF Amount, HtlcRecs
  <1>2. IsFiniteSet(S)
    BY HtlcMapElim, FS_Subset
  <1> HIDE DEF f
  <1>3. SumAmounts(c, S) = SumOver(f, S)
    BY <1>1, <1>2, SumAmountsIs
  <1>4. QED
    BY <1>1, <1>2, <1>3, SumRemove

(* Amounts of disjoint sets add up. *)
LEMMA AmountsUnion ==
    ASSUME NEW c, c.htlcs \in HtlcMaps, NEW S, NEW T,
           S \subseteq DOMAIN c.htlcs, T \subseteq DOMAIN c.htlcs, S \cap T = {}
    PROVE  SumAmounts(c, S \cup T) = SumAmounts(c, S) + SumAmounts(c, T)
  <1> DEFINE f == [h \in DOMAIN c.htlcs |-> Amount(c, h)]
  <1>1. \A h \in S \cup T : f[h] \in Nat /\ Amount(c, h) = f[h]
    BY HtlcMapElim DEF Amount, HtlcRecs
  <1>2. IsFiniteSet(S) /\ IsFiniteSet(T) /\ IsFiniteSet(S \cup T)
    BY HtlcMapElim, FS_Subset, FS_Union
  <1> HIDE DEF f
  <1>3. /\ SumAmounts(c, S) = SumOver(f, S)
        /\ SumAmounts(c, T) = SumOver(f, T)
        /\ SumAmounts(c, S \cup T) = SumOver(f, S \cup T)
    BY <1>1, <1>2, SumAmountsIs
  <1>4. (S \cup T) \ S = T
    OBVIOUS
  <1>5. SumOver(f, S \cup T) = SumOver(f, S) + SumOver(f, (S \cup T) \ S)
    BY <1>1, <1>2, SumUnion
  <1>6. QED
    BY <1>3, <1>4, <1>5

(* Equal amounts make equal sums. *)
LEMMA AmountsSame ==
    ASSUME NEW c, NEW d, NEW S, IsFiniteSet(S),
           \A h \in S : Amount(c, h) = Amount(d, h)
    PROVE  SumAmounts(c, S) = SumAmounts(d, S)
  <1> DEFINE f == [h \in S |-> Amount(c, h)]
  <1>1. \A h \in S : Amount(c, h) = f[h] /\ Amount(d, h) = f[h]
    OBVIOUS
  <1> HIDE DEF f
  <1>2. QED
    BY <1>1, SumAmountsIs

(* The sum over no HTLC. *)
LEMMA AmountsNone == \A c : SumAmounts(c, {}) = 0
  <1>1. TAKE c
  <1>2. SumAmounts(c, {}) = SumOver(<< >>, {})
    BY FS_EmptySet, SumAmountsIs
  <1>3. QED
    BY <1>2, SumEmpty

-----------------------------------------------------------------------------
(* The steps of the lifecycle.                                              *)

Steps == {<<"remote", sending_commit_states>>, <<"local", rcvd_revoke_states>>,
          <<"local", rcvd_commit_states>>, <<"remote", sending_revoke_states>>}

(* What a state of the set and the one after it have in common. *)
StepOK(view, i) ==
    /\ i + 1 \in HtlcStates
    /\ i + 1 \notin {0, 10}
    /\ htlc_state_owner(i + 1) = htlc_state_owner(i)
    /\ i \in (0..4) \cup (10..14) <=> i + 1 \in (0..4) \cup (10..14)
    /\ \A v \in Sides :
         /\ i + 1 \in DeadStates =>
              i \in WasCommitted(v) \ Committed(v) /\ i + 1 \in WasCommitted(v) \ Committed(v)
         /\ v # view =>
              /\ i \in WasCommitted(v) <=> i + 1 \in WasCommitted(v)
              /\ i \in Committed(v) <=> i + 1 \in Committed(v)
         /\ i \in Committed(v) => i \in WasCommitted(v)
         /\ i + 1 \in Committed(v) => i + 1 \in WasCommitted(v)
         /\ i \in WasCommitted(v) => i + 1 \in WasCommitted(v)
         /\ i \in WasCommitted(v) /\ i \notin Committed(v) => i + 1 \notin Committed(v)
         /\ i \notin WasCommitted(v) /\ i + 1 \in WasCommitted(v) => i + 1 \in Committed(v)

(* Every state that the dance moves is moved soundly. *)
LEMMA StepStates ==
    ASSUME NEW view, NEW states, <<view, states>> \in Steps, NEW i \in states
    PROVE  StepOK(view, i) /\ i \in HtlcStates
  BY DEF Steps, StepOK, sending_commit_states, rcvd_revoke_states,
         rcvd_commit_states, sending_revoke_states, HtlcStates, DeadStates,
         htlc_state_owner, WasCommitted, Committed, Sides, SENT_ADD_HTLC,
         SENT_REMOVE_REVOCATION, SENT_ADD_REVOCATION, SENT_REMOVE_HTLC,
         SENT_ADD_COMMIT, SENT_REMOVE_ACK_COMMIT, SENT_ADD_ACK_COMMIT,
         SENT_REMOVE_COMMIT, RCVD_ADD_REVOCATION, RCVD_REMOVE_HTLC,
         RCVD_ADD_HTLC, RCVD_REMOVE_REVOCATION, RCVD_ADD_ACK_COMMIT,
         RCVD_REMOVE_COMMIT, RCVD_ADD_COMMIT, RCVD_REMOVE_ACK_COMMIT,
         RCVD_REMOVE_ACK_REVOCATION, SENT_REMOVE_ACK_REVOCATION

-----------------------------------------------------------------------------
(* The balances of a view are what is left of the two shares when every     *)
(* HTLC the view has carried is taken out, and those it no longer carries   *)
(* have been paid or refunded.                                              *)
carried(c, v) == {h \in DOMAIN c.htlcs : State(c, h) \in WasCommitted(v)}
Share(our, s) == IF s = "local" THEN our ELSE Funding - our
Balanced(c, our) ==
    \A v, s \in Sides :
       c.owed[v][s] = Share(our, s) + add_delta(c, carried(c, v), s)
                        + remove_delta(c, carried(c, v) \ committed(c, v), s)

(* Whom the amount of an HTLC that a view drops goes to. *)
Winner(x, h) == IF x.r = "fulfill" THEN Other(h[1]) ELSE h[1]
Offered(c, v, s) == {h \in carried(c, v) : h[1] = s}
Settled(c, v, s) == {h \in carried(c, v) \ committed(c, v) : s = Winner(c.htlcs[h], h)}

(* Balances as sums of amounts. *)
LEMMA BalancedIs ==
    ASSUME NEW c, NEW our
    PROVE  Balanced(c, our) <=>
             \A v, s \in Sides :
                c.owed[v][s] = Share(our, s) + (-SumAmounts(c, Offered(c, v, s)))
                                 + SumAmounts(c, Settled(c, v, s))
  BY DEF Balanced, add_delta, remove_delta, Offered, Settled, Winner

(* The HTLCs that a step drops for good, and what our_msat becomes. *)
Dying(c, states) == {h \in moving(c, states) : State(c, h) + 1 \in DeadStates}
Paid(c, states, s) ==
    SumAmounts(c, {h \in Dying(c, states) : h[1] = s /\ c.htlcs[h].r = "fulfill"})

(* The HTLCs that enter and leave the view's commitment. *)
Entering(c, view, states) ==
    {h \in moving(c, states) : /\ State(c, h) \notin Committed(view)
                               /\ State(c, h) + 1 \in Committed(view)}
Leaving(c, view, states) ==
    {h \in moving(c, states) : /\ State(c, h) \in Committed(view)
                               /\ State(c, h) + 1 \notin Committed(view)}

(* change_htlcs(), field by field. *)
LEMMA ChangeFields ==
    ASSUME NEW c \in ChanRecs, NEW view, NEW states, <<view, states>> \in Steps
    PROVE  LET c2 == change_htlcs(c, view, states)
               mv == moving(c, states)
           IN  /\ c2 \in ChanRecs
               /\ c2.opener = c.opener
               /\ c2.fee = inc_fee_states(c.fee, states)
               /\ DOMAIN c2.htlcs = DOMAIN c.htlcs \ Dying(c, states)
               /\ \A h \in DOMAIN c2.htlcs :
                    /\ Amount(c2, h) = Amount(c, h)
                    /\ c2.htlcs[h].r = c.htlcs[h].r
                    /\ State(c2, h) = IF h \in mv THEN State(c, h) + 1 ELSE State(c, h)
               /\ \A v, s \in Sides :
                    c2.owed[v][s] =
                      IF v # view THEN c.owed[v][s]
                      ELSE c.owed[v][s] + add_delta(c, Entering(c, view, states), s)
                                        + remove_delta(c, Leaving(c, view, states), s)
  <1> DEFINE c2 == change_htlcs(c, view, states)
             mv == moving(c, states)
             enters == {h \in mv : /\ State(c, h) \notin Committed(view)
                                   /\ State(c, h) + 1 \in Committed(view)}
             leaves == {h \in mv : /\ State(c, h) \in Committed(view)
                                   /\ State(c, h) + 1 \notin Committed(view)}
             alive == {h \in DOMAIN c.htlcs :
                         ~(h \in mv /\ State(c, h) + 1 \in DeadStates)}
             hs == [h \in alive |-> IF h \in mv THEN [c.htlcs[h] EXCEPT !.state = @ + 1]
                                                ELSE c.htlcs[h]]
             ow == [c.owed EXCEPT ![view] = [s \in Sides |-> @[s]
                       + add_delta(c, enters, s) + remove_delta(c, leaves, s)]]
  <1>1. c.htlcs \in HtlcMaps /\ view \in Sides
    BY DEF ChanRecs, Steps, Sides
  <1>2. c2 = [opener |-> c.opener, htlcs |-> hs,
              fee |-> inc_fee_states(c.fee, states), owed |-> ow]
    <2> DEFINE new == [s \in Sides |-> c.owed[view][s] + add_delta(c, enters, s)
                                                     + remove_delta(c, leaves, s)]
    <2>1. c2 = [c EXCEPT !.htlcs = hs, !.owed[view] = new,
                         !.fee = inc_fee_states(c.fee, states)]
      BY DEF change_htlcs
    <2>2. ow = [c.owed EXCEPT ![view] = new]
      OBVIOUS
    <2> HIDE DEF hs, new, ow, c2
    <2>3. QED
      BY <2>1, <2>2 DEF ChanRecs
  <1>3. ASSUME NEW h \in alive
        PROVE  /\ GoodHtlc(h, hs[h])
               /\ hs[h].amount = Amount(c, h) /\ hs[h].r = c.htlcs[h].r
               /\ hs[h].state = IF h \in mv THEN State(c, h) + 1 ELSE State(c, h)
    <2>1. GoodHtlc(h, c.htlcs[h]) /\ c.htlcs[h] \in HtlcRecs
      BY <1>1, HtlcMapElim
    <2>2. CASE h \in mv
      <3>1. State(c, h) \in states
        BY <2>2 DEF moving
      <3>2. StepOK(view, State(c, h))
        BY <3>1, StepStates
      <3>3. hs[h] = [c.htlcs[h] EXCEPT !.state = @ + 1]
        BY <2>2
      <3> HIDE DEF hs
      <3>4. /\ hs[h] \in HtlcRecs /\ hs[h].amount = Amount(c, h)
            /\ hs[h].r = c.htlcs[h].r /\ hs[h].state = State(c, h) + 1
        BY <2>1, <3>2, <3>3 DEF HtlcRecs, StepOK, State, Amount
      <3>5. QED
        BY <2>1, <2>2, <3>2, <3>4 DEF GoodHtlc, StepOK, State
    <2>3. CASE h \notin mv
      BY <2>1, <2>3 DEF State, Amount
    <2>4. QED
      BY <2>2, <2>3
  <1>4. hs \in HtlcMaps
    <2>1. /\ DOMAIN hs = alive /\ alive \subseteq DOMAIN c.htlcs
          /\ hs = [h \in DOMAIN hs |-> hs[h]]
      OBVIOUS
    <2>2. IsFiniteSet(DOMAIN hs) /\ DOMAIN hs \subseteq HtlcKeys
      BY <1>1, <2>1, HtlcMapElim, FS_Subset
    <2>3. \A h \in DOMAIN hs : GoodHtlc(h, hs[h])
      BY <1>3
    <2> HIDE DEF hs
    <2>4. QED
      BY <2>1, <2>2, <2>3, HtlcMapIntro
  <1>5. ow \in Balances
    <2>1. \A s \in Sides : add_delta(c, enters, s) \in Int /\ remove_delta(c, leaves, s) \in Int
      <3>1. TAKE s \in Sides
      <3>2. enters \subseteq DOMAIN c.htlcs /\ leaves \subseteq DOMAIN c.htlcs
        BY DEF moving
      <3> HIDE DEF enters, leaves
      <3>3. /\ SumAmounts(c, {h \in enters : h[1] = s}) \in Nat
            /\ SumAmounts(c, {h \in leaves : s = IF c.htlcs[h].r = "fulfill"
                                     THEN Other(h[1]) ELSE h[1]}) \in Nat
        BY <1>1, <3>2, AmountsType
      <3>4. QED
        BY <3>3 DEF add_delta, remove_delta
    <2> HIDE DEF enters, leaves
    <2>2. QED
      BY <1>1, <2>1 DEF ChanRecs, Balances
  <1>6. inc_fee_states(c.fee, states) \in Slots
    BY DEF inc_fee_states, Slots, ChanRecs, HtlcStates
  <1> HIDE DEF hs, ow, mv, alive, c2
  <1>7. c2 \in ChanRecs
    BY <1>2, <1>4, <1>5, <1>6 DEF ChanRecs
  <1>8. DOMAIN hs = alive /\ alive = DOMAIN c.htlcs \ Dying(c, states)
    BY DEF hs, alive, mv, Dying, moving
  <1>9. \A h \in DOMAIN c2.htlcs :
          /\ Amount(c2, h) = Amount(c, h)
          /\ c2.htlcs[h].r = c.htlcs[h].r
          /\ State(c2, h) = IF h \in mv THEN State(c, h) + 1 ELSE State(c, h)
    BY <1>2, <1>3, <1>8 DEF Amount, State
  <1>11. \A v, s \in Sides :
           c2.owed[v][s] =
             IF v # view THEN c.owed[v][s]
             ELSE c.owed[v][s] + add_delta(c, Entering(c, view, states), s)
                               + remove_delta(c, Leaving(c, view, states), s)
    <2>1. enters = Entering(c, view, states) /\ leaves = Leaving(c, view, states)
      BY DEF Entering, Leaving, mv
    <2> HIDE DEF enters, leaves
    <2>2. QED
      BY <1>1, <1>2, <2>1 DEF ow, ChanRecs, Balances
  <1>12. QED
    BY <1>2, <1>7, <1>8, <1>9, <1>11 DEF c2, mv, alive

(* A step keeps the balances of both views in order when the shares settle  *)
(* the HTLCs it drops.                                                      *)
LEMMA ChangeBalanced ==
    ASSUME NEW c \in ChanRecs, NEW our \in Int, Funding \in Int, Balanced(c, our),
           NEW view, NEW states, <<view, states>> \in Steps
    PROVE  Balanced(change_htlcs(c, view, states),
                    our + Paid(c, states, "remote") - Paid(c, states, "local"))
  <1> DEFINE c2 == change_htlcs(c, view, states)
             mv == moving(c, states)
             D == Dying(c, states)
             our2 == our + Paid(c, states, "remote") - Paid(c, states, "local")
  <1>1. c.htlcs \in HtlcMaps /\ view \in Sides
    BY DEF ChanRecs, Steps, Sides
  <1>2. /\ c2 \in ChanRecs
        /\ DOMAIN c2.htlcs = DOMAIN c.htlcs \ D
        /\ \A h \in DOMAIN c2.htlcs :
             /\ Amount(c2, h) = Amount(c, h)
             /\ c2.htlcs[h].r = c.htlcs[h].r
             /\ State(c2, h) = IF h \in mv THEN State(c, h) + 1 ELSE State(c, h)
        /\ \A v, s \in Sides :
             c2.owed[v][s] =
               IF v # view THEN c.owed[v][s]
               ELSE c.owed[v][s] + add_delta(c, Entering(c, view, states), s)
                                 + remove_delta(c, Leaving(c, view, states), s)
    BY ChangeFields
  <1>3. \A h \in mv : StepOK(view, State(c, h))
    BY StepStates DEF moving
  <1>4. D \subseteq mv /\ mv \subseteq DOMAIN c.htlcs
    BY DEF Dying, moving
  <1> HIDE DEF c2, mv, D, our2
  <1>5. SUFFICES ASSUME NEW v \in Sides, NEW s \in Sides
                 PROVE  c2.owed[v][s] = Share(our2, s) + (-SumAmounts(c2, Offered(c2, v, s)))
                                           + SumAmounts(c2, Settled(c2, v, s))
    <2>1. ASSUME \A v, s \in Sides :
                   c2.owed[v][s] = Share(our2, s) + (-SumAmounts(c2, Offered(c2, v, s)))
                                      + SumAmounts(c2, Settled(c2, v, s))
          PROVE  Balanced(c2, our2)
      BY <2>1, BalancedIs
    <2>2. QED
      BY <2>1 DEF c2, our2
  <1> DEFINE E == IF v = view THEN {h \in Entering(c, view, states) : h[1] = s} ELSE {}
             L == IF v = view THEN {h \in Leaving(c, view, states) : s = Winner(c.htlcs[h], h)}
                  ELSE {}
             DO == {h \in D : h[1] = s}
             DS == {h \in D : s = Winner(c.htlcs[h], h)}
             O == Offered(c, v, s)
             S == Settled(c, v, s)
             O2 == Offered(c2, v, s)
             S2 == Settled(c2, v, s)
  <1>6. /\ O2 \cup DO = O \cup E /\ O2 \cap DO = {} /\ O \cap E = {}
        /\ O2 \subseteq DOMAIN c2.htlcs /\ O \subseteq DOMAIN c.htlcs
        /\ E \subseteq DOMAIN c.htlcs /\ DO \subseteq DOMAIN c.htlcs
    <2>1. /\ O2 \subseteq DOMAIN c2.htlcs /\ O \subseteq DOMAIN c.htlcs
          /\ E \subseteq DOMAIN c.htlcs /\ DO \subseteq DOMAIN c.htlcs
      BY <1>4 DEF Offered, carried, Entering, mv
    <2>2. ASSUME NEW h \in DOMAIN c.htlcs
          PROVE  /\ h \in O2 \/ h \in DO <=> h \in O \/ h \in E
                 /\ ~(h \in O2 /\ h \in DO) /\ ~(h \in O /\ h \in E)
      <3>1. h \in O <=> h[1] = s /\ State(c, h) \in WasCommitted(v)
        BY DEF Offered, carried
      <3>2. h \in DO <=> h[1] = s /\ h \in D
        BY <1>4
      <3>3. h \in E <=> v = view /\ h[1] = s /\ h \in mv /\ State(c, h) \notin Committed(v)
                         /\ State(c, h) + 1 \in Committed(v)
        BY DEF Entering, mv
      <3>4. h \in O2 <=> h[1] = s /\ h \notin D /\ State(c2, h) \in WasCommitted(v)
        BY <1>2 DEF Offered, carried
      <3>5. h \in D => h \in mv /\ State(c, h) + 1 \in DeadStates
        BY DEF D, Dying, mv
      <3>6. h \notin D => State(c2, h) = IF h \in mv THEN State(c, h) + 1 ELSE State(c, h)
        BY <1>2
      <3>7. h \in mv => StepOK(view, State(c, h))
        BY <1>3
      <3> HIDE DEF O, DO, E, O2
      <3>8. QED
        BY <3>1, <3>2, <3>3, <3>4, <3>5, <3>6, <3>7 DEF StepOK
    <2> HIDE DEF O, DO, E, O2
    <2>3. DOMAIN c2.htlcs \subseteq DOMAIN c.htlcs
      BY <1>2
    <2>4. QED
      BY <2>1, <2>2, <2>3
  <1>7. /\ S2 \cup DS = S \cup L /\ S2 \cap DS = {} /\ S \cap L = {}
        /\ S2 \subseteq DOMAIN c2.htlcs /\ S \subseteq DOMAIN c.htlcs
        /\ L \subseteq DOMAIN c.htlcs /\ DS \subseteq DOMAIN c.htlcs
    <2>1. /\ S2 \subseteq DOMAIN c2.htlcs /\ S \subseteq DOMAIN c.htlcs
          /\ L \subseteq DOMAIN c.htlcs /\ DS \subseteq DOMAIN c.htlcs
      BY <1>4 DEF Settled, carried, Leaving, mv
    <2>2. ASSUME NEW h \in DOMAIN c.htlcs
          PROVE  /\ h \in S2 \/ h \in DS <=> h \in S \/ h \in L
                 /\ ~(h \in S2 /\ h \in DS) /\ ~(h \in S /\ h \in L)
      <3> DEFINE wins == s = Winner(c.htlcs[h], h)
      <3>1. h \in S <=> wins /\ State(c, h) \in WasCommitted(v) \ Committed(v)
        BY DEF Settled, carried, committed
      <3>2. h \in DS <=> wins /\ h \in D
        BY <1>4
      <3>3. h \in L <=> v = view /\ wins /\ h \in mv /\ State(c, h) \in Committed(v)
                         /\ State(c, h) + 1 \notin Committed(v)
        BY DEF Leaving, mv
      <3>4. h \in S2 <=> wins /\ h \notin D /\ State(c2, h) \in WasCommitted(v) \ Committed(v)
        BY <1>2 DEF Settled, carried, committed, Winner
      <3>5. h \in D => h \in mv /\ State(c, h) + 1 \in DeadStates
        BY DEF D, Dying, mv
      <3>6. h \notin D => State(c2, h) = IF h \in mv THEN State(c, h) + 1 ELSE State(c, h)
        BY <1>2
      <3>7. h \in mv => StepOK(view, State(c, h))
        BY <1>3
      <3> HIDE DEF wins, S, DS, L, S2
      <3>8. QED
        BY <3>1, <3>2, <3>3, <3>4, <3>5, <3>6, <3>7 DEF StepOK
    <2> HIDE DEF S, DS, L, S2
    <2>3. DOMAIN c2.htlcs \subseteq DOMAIN c.htlcs
      BY <1>2
    <2>4. QED
      BY <2>1, <2>2, <2>3
  <1>8. /\ SumAmounts(c2, O2) = SumAmounts(c, O2)
        /\ SumAmounts(c2, S2) = SumAmounts(c, S2)
    <2>1. IsFiniteSet(O2) /\ IsFiniteSet(S2)
      BY <1>2, <1>6, <1>7, AmountsType DEF ChanRecs
    <2> HIDE DEF O2, S2
    <2>2. QED
      BY <1>2, <1>6, <1>7, <2>1, AmountsSame
  <1>9. /\ O2 \subseteq DOMAIN c.htlcs /\ S2 \subseteq DOMAIN c.htlcs
    BY <1>2, <1>6, <1>7
  <1>10. c.owed[v][s] = Share(our, s) + (-SumAmounts(c, O)) + SumAmounts(c, S)
    BY BalancedIs
  <1>11. c2.owed[v][s] = c.owed[v][s] + (-SumAmounts(c, E)) + SumAmounts(c, L)
    <2>1. CASE v = view
      BY <1>2, <2>1 DEF add_delta, remove_delta, Winner
    <2>2. CASE v # view
      BY <1>2, <2>2, AmountsNone DEF ChanRecs, Balances
    <2>3. QED
      BY <2>1, <2>2
  <1> DEFINE LF == {h \in D : h[1] = "local" /\ c.htlcs[h].r = "fulfill"}
             LN == {h \in D : h[1] = "local" /\ c.htlcs[h].r # "fulfill"}
             RF == {h \in D : h[1] = "remote" /\ c.htlcs[h].r = "fulfill"}
             RN == {h \in D : h[1] = "remote" /\ c.htlcs[h].r # "fulfill"}
  <1>12. our2 = our + SumAmounts(c, RF) - SumAmounts(c, LF)
    BY DEF our2, Paid, D
  <1>13. /\ DO = IF s = "local" THEN LF \cup LN ELSE RF \cup RN
         /\ DS = IF s = "local" THEN LN \cup RF ELSE RN \cup LF
         /\ LF \cap LN = {} /\ RF \cap RN = {} /\ LN \cap RF = {} /\ RN \cap LF = {}
         /\ LF \cup LN \cup RF \cup RN \subseteq DOMAIN c.htlcs
    <2>1. \A h \in D : h[1] \in Sides
      BY <1>1, <1>4, HtlcMapElim DEF HtlcKeys
    <2>2. QED
      BY <1>4, <2>1 DEF Winner, Other, Sides
  <1> HIDE DEF LF, LN, RF, RN, DO, DS, O, S, E, L, O2, S2
  <1>14. /\ SumAmounts(c, DO) = IF s = "local" THEN SumAmounts(c, LF) + SumAmounts(c, LN)
                                ELSE SumAmounts(c, RF) + SumAmounts(c, RN)
         /\ SumAmounts(c, DS) = IF s = "local" THEN SumAmounts(c, LN) + SumAmounts(c, RF)
                                ELSE SumAmounts(c, RN) + SumAmounts(c, LF)
    BY <1>1, <1>13, AmountsUnion
  <1>15. /\ SumAmounts(c, O2) + SumAmounts(c, DO) = SumAmounts(c, O) + SumAmounts(c, E)
         /\ SumAmounts(c, S2) + SumAmounts(c, DS) = SumAmounts(c, S) + SumAmounts(c, L)
    <2>1. SumAmounts(c, O2 \cup DO) = SumAmounts(c, O2) + SumAmounts(c, DO)
      BY <1>1, <1>6, <1>9, AmountsUnion
    <2>2. SumAmounts(c, O \cup E) = SumAmounts(c, O) + SumAmounts(c, E)
      BY <1>1, <1>6, AmountsUnion
    <2>3. SumAmounts(c, S2 \cup DS) = SumAmounts(c, S2) + SumAmounts(c, DS)
      BY <1>1, <1>7, <1>9, AmountsUnion
    <2>4. SumAmounts(c, S \cup L) = SumAmounts(c, S) + SumAmounts(c, L)
      BY <1>1, <1>7, AmountsUnion
    <2>5. QED
      BY <1>6, <1>7, <2>1, <2>2, <2>3, <2>4
  <1>16. \A T \in {O, E, O2, DO, S, L, S2, DS, LF, LN, RF, RN} : SumAmounts(c, T) \in Nat
    BY <1>1, <1>6, <1>7, <1>9, <1>13, AmountsType
  <1>17. QED
    <2>1. s = "local" \/ s = "remote"
      BY DEF Sides
    <2>2. c.owed[v][s] \in Int
      BY DEF ChanRecs, Balances
    <2>3. /\ SumAmounts(c, O2) \in Nat /\ SumAmounts(c, DO) \in Nat
          /\ SumAmounts(c, O) \in Nat /\ SumAmounts(c, E) \in Nat
          /\ SumAmounts(c, S2) \in Nat /\ SumAmounts(c, DS) \in Nat
          /\ SumAmounts(c, S) \in Nat /\ SumAmounts(c, L) \in Nat
          /\ SumAmounts(c, LF) \in Nat /\ SumAmounts(c, LN) \in Nat
          /\ SumAmounts(c, RF) \in Nat /\ SumAmounts(c, RN) \in Nat
      BY <1>16
    <2>4. CASE s = "local"
      BY <1>8, <1>10, <1>11, <1>12, <1>14, <1>15, <2>2, <2>3, <2>4 DEF Share, O2, S2
    <2>5. CASE s = "remote"
      BY <1>8, <1>10, <1>11, <1>12, <1>14, <1>15, <2>2, <2>3, <2>5 DEF Share, O2, S2
    <2>6. QED
      BY <2>1, <2>4, <2>5

-----------------------------------------------------------------------------
(* Queues of messages: whether one of a set is in the queue, whether at     *)
(* most one is, and whether those of a set all come before those of         *)
(* another.                                                                 *)
Has(q, T) == \E i \in DOMAIN q : q[i] \in T
One(q, T) == \A i, j \in DOMAIN q : q[i] \in T /\ q[j] \in T => i = j
Before(q, S, T) == \A i, j \in DOMAIN q : q[i] \in S /\ q[j] \in T => i < j

(* An empty queue. *)
LEMMA NoneQueued ==
    \A S, T : ~Has(<< >>, T) /\ One(<< >>, T) /\ Before(<< >>, S, T)
  BY DEF Has, One, Before

(* A queue of one message. *)
LEMMA OneQueued ==
    ASSUME NEW M, NEW m \in M
    PROVE  /\ <<m>> \in Seq(M)
           /\ \A S, T : /\ Has(<<m>>, T) <=> m \in T
                        /\ One(<<m>>, T)
                        /\ Before(<<m>>, S, T) <=> ~(m \in S /\ m \in T)
  BY DEF Has, One, Before

(* Messages sent after others. *)
LEMMA Queued ==
    ASSUME NEW M, NEW q \in Seq(M), NEW r \in Seq(M)
    PROVE  /\ q \o r \in Seq(M)
           /\ \A S, T :
                /\ Has(q \o r, T) <=> Has(q, T) \/ Has(r, T)
                /\ One(q \o r, T) <=> /\ One(q, T) /\ One(r, T)
                                      /\ ~(Has(q, T) /\ Has(r, T))
                /\ Before(q \o r, S, T) <=> /\ Before(q, S, T) /\ Before(r, S, T)
                                            /\ ~(Has(q, T) /\ Has(r, S))
  <1> DEFINE u == q \o r
  <1>1. /\ u \in Seq(M) /\ DOMAIN u = 1..(Len(q) + Len(r))
        /\ DOMAIN q = 1..Len(q) /\ DOMAIN r = 1..Len(r)
        /\ Len(q) \in Nat /\ Len(r) \in Nat
    OBVIOUS
  <1>2. /\ \A i \in DOMAIN q : i \in DOMAIN u /\ u[i] = q[i]
        /\ \A i \in DOMAIN r : Len(q) + i \in DOMAIN u /\ u[Len(q) + i] = r[i]
    OBVIOUS
  <1>3. \A i \in DOMAIN u : i \in DOMAIN q \/ \E j \in DOMAIN r : i = Len(q) + j
    <2>1. TAKE i \in DOMAIN u
    <2>2. i <= Len(q) => i \in DOMAIN q
      BY <1>1
    <2>3. ~(i <= Len(q)) => i - Len(q) \in DOMAIN r /\ i = Len(q) + (i - Len(q))
      BY <1>1
    <2>4. QED
      BY <2>2, <2>3
  <1> HIDE DEF u
  <1>4. SUFFICES ASSUME NEW S, NEW T
                 PROVE  /\ Has(u, T) <=> Has(q, T) \/ Has(r, T)
                        /\ One(u, T) <=> /\ One(q, T) /\ One(r, T)
                                         /\ ~(Has(q, T) /\ Has(r, T))
                        /\ Before(u, S, T) <=> /\ Before(q, S, T) /\ Before(r, S, T)
                                               /\ ~(Has(q, T) /\ Has(r, S))
    BY <1>1 DEF u
  <1>5. Has(u, T) <=> Has(q, T) \/ Has(r, T)
    BY <1>2, <1>3 DEF Has
  <1>6. ASSUME One(u, T)
        PROVE  One(q, T) /\ One(r, T) /\ ~(Has(q, T) /\ Has(r, T))
    <2>1. One(q, T) /\ One(r, T)
      BY <1>1, <1>2, <1>6 DEF One
    <2>2. ASSUME NEW i \in DOMAIN q, NEW j \in DOMAIN r, q[i] \in T, r[j] \in T
          PROVE  FALSE
      <3>1. i = Len(q) + j
        BY <1>2, <1>6, <2>2 DEF One
      <3>2. QED
        BY <1>1, <3>1
    <2>3. QED
      BY <2>1, <2>2 DEF Has
  <1>7. ASSUME One(q, T), One(r, T), ~(Has(q, T) /\ Has(r, T))
        PROVE  One(u, T)
    BY <1>2, <1>3, <1>7 DEF One, Has
  <1>8. ASSUME Before(u, S, T)
        PROVE  Before(q, S, T) /\ Before(r, S, T) /\ ~(Has(q, T) /\ Has(r, S))
    <2>1. Before(q, S, T)
      BY <1>2, <1>8 DEF Before
    <2>2. ASSUME NEW i \in DOMAIN r, NEW j \in DOMAIN r, r[i] \in S, r[j] \in T
          PROVE  i < j
      <3>1. Len(q) + i < Len(q) + j
        BY <1>2, <1>8, <2>2 DEF Before
      <3>2. QED
        BY <1>1, <3>1
    <2>3. ASSUME NEW i \in DOMAIN q, NEW j \in DOMAIN r, q[i] \in T, r[j] \in S
          PROVE  FALSE
      <3>1. Len(q) + j < i
        BY <1>2, <1>8, <2>3 DEF Before
      <3>2. QED
        BY <1>1, <3>1
    <2>4. QED
      BY <2>1, <2>2, <2>3 DEF Before, Has
  <1>9. ASSUME Before(q, S, T), Before(r, S, T), ~(Has(q, T) /\ Has(r, S))
        PROVE  Before(u, S, T)
    <2>1. SUFFICES ASSUME NEW i \in DOMAIN u, NEW j \in DOMAIN u, u[i] \in S, u[j] \in T
                   PROVE  i < j
      BY DEF Before
    <2>2. CASE i \in DOMAIN q /\ j \in DOMAIN q
      BY <1>2, <1>9, <2>1, <2>2 DEF Before
    <2>3. ASSUME i \in DOMAIN q, NEW k \in DOMAIN r, j = Len(q) + k
          PROVE  i < j
      BY <1>1, <2>3
    <2>4. ASSUME j \in DOMAIN q, NEW k \in DOMAIN r, i = Len(q) + k
          PROVE  i < j
      BY <1>2, <1>9, <2>1, <2>4 DEF Has
    <2>5. ASSUME NEW k \in DOMAIN r, i = Len(q) + k, NEW l \in DOMAIN r, j = Len(q) + l
          PROVE  i < j
      <3>1. k < l
        BY <1>2, <1>9, <2>1, <2>5 DEF Before
      <3>2. QED
        BY <1>1, <2>5, <3>1
    <2>6. QED
      BY <1>3, <2>2, <2>3, <2>4, <2>5
  <1>10. QED
    BY <1>5, <1>6, <1>7, <1>8, <1>9

(* A message read off the queue. *)
LEMMA Popped ==
    ASSUME NEW M, NEW q \in Seq(M), q # << >>
    PROVE  /\ Head(q) \in M /\ Tail(q) \in Seq(M)
           /\ \A S, T :
                /\ Has(q, T) <=> Head(q) \in T \/ Has(Tail(q), T)
                /\ One(q, T) <=> /\ One(Tail(q), T)
                                 /\ ~(Head(q) \in T /\ Has(Tail(q), T))
                /\ Before(q, S, T) <=>
                     /\ Before(Tail(q), S, T)
                     /\ ~(Head(q) \in T /\ (Head(q) \in S \/ Has(Tail(q), S)))
  <1>1. Head(q) \in M /\ Tail(q) \in Seq(M) /\ q = <<Head(q)>> \o Tail(q)
    OBVIOUS
  <1>2. <<Head(q)>> \in Seq(M)
    BY <1>1, OneQueued
  <1> DEFINE h == <<Head(q)>>
             t == Tail(q)
  <1>3. \A S, T :
          /\ Has(h \o t, T) <=> Has(h, T) \/ Has(t, T)
          /\ One(h \o t, T) <=> /\ One(h, T) /\ One(t, T)
                                /\ ~(Has(h, T) /\ Has(t, T))
          /\ Before(h \o t, S, T) <=> /\ Before(h, S, T) /\ Before(t, S, T)
                                      /\ ~(Has(h, T) /\ Has(t, S))
    BY <1>1, <1>2, Queued
  <1>4. \A S, T : /\ Has(h, T) <=> Head(q) \in T
                  /\ One(h, T)
                  /\ Before(h, S, T) <=> ~(Head(q) \in S /\ Head(q) \in T)
    BY <1>1, OneQueued
  <1> HIDE DEF h, t
  <1>5. q = h \o t
    BY <1>1 DEF h, t
  <1>6. ASSUME NEW S, NEW T
        PROVE  /\ Has(q, T) <=> Head(q) \in T \/ Has(t, T)
               /\ One(q, T) <=> One(t, T) /\ ~(Head(q) \in T /\ Has(t, T))
               /\ Before(q, S, T) <=>
                    /\ Before(t, S, T)
                    /\ ~(Head(q) \in T /\ (Head(q) \in S \/ Has(t, S)))
    <2>1. /\ Has(q, T) <=> Has(h, T) \/ Has(t, T)
          /\ One(q, T) <=> /\ One(h, T) /\ One(t, T)
                           /\ ~(Has(h, T) /\ Has(t, T))
          /\ Before(q, S, T) <=> /\ Before(h, S, T) /\ Before(t, S, T)
                                 /\ ~(Has(h, T) /\ Has(t, S))
      BY <1>3, <1>5
    <2>2. /\ Has(h, T) <=> Head(q) \in T
          /\ One(h, T)
          /\ Before(h, S, T) <=> ~(Head(q) \in S /\ Head(q) \in T)
      BY <1>4
    <2>3. QED
      BY <2>1, <2>2
  <1>7. QED
    BY <1>1, <1>6 DEF t

-----------------------------------------------------------------------------
(* HTLCs of one side can be put in the order of their ids.                  *)

(* s lists T in the order of the ids. *)
Lists(s, T) ==
    /\ s \in [1..Cardinality(T) -> T]
    /\ \A i, j \in DOMAIN s : i < j => s[i][2] < s[j][2]

(* One of them has the largest id. *)
LEMMA LargestId ==
    ASSUME NEW hs, IsFiniteSet(hs), hs # {}, \A h \in hs : h[2] \in Nat
    PROVE  \E x \in hs : \A y \in hs : y[2] <= x[2]
  <1> DEFINE Good == {T \in SUBSET hs : T = {} \/ \E x \in T : \A y \in T : y[2] <= x[2]}
  <1>1. ASSUME NEW T \in SUBSET hs, \A U \in SUBSET T : U # T => U \in Good
        PROVE  T \in Good
    <2>1. CASE T = {}
      BY <2>1
    <2>2. CASE T # {}
      <3>1. PICK z \in T : TRUE
        BY <2>2
      <3>2. T \ {z} \in Good
        BY <1>1, <3>1
      <3>3. CASE T \ {z} = {}
        BY <3>1, <3>3
      <3>4. CASE T \ {z} # {}
        <4>1. PICK x \in T \ {z} : \A y \in T \ {z} : y[2] <= x[2]
          BY <3>2, <3>4
        <4>2. CASE z[2] <= x[2]
          <5>1. \A y \in T : y[2] <= x[2]
            BY <4>1, <4>2
          <5>2. QED
            BY <5>1
        <4>3. CASE ~(z[2] <= x[2])
          <5>1. \A y \in T : y[2] <= z[2]
            BY <4>1, <4>3
          <5>2. QED
            BY <5>1
        <4>4. QED
          BY <4>2, <4>3
      <3>5. QED
        BY <3>3, <3>4
    <2>3. QED
      BY <2>1, <2>2
  <1> HIDE DEF Good
  <1>2. hs \in Good
    BY <1>1, SubsetInduction
  <1>3. QED
    BY <1>2 DEF Good

(* They have a list. *)
LEMMA ListExists ==
    ASSUME NEW side, NEW hs, IsFiniteSet(hs), hs \subseteq {side} \X Nat
    PROVE  \E s : Lists(s, hs)
  <1> DEFINE Good == {T \in SUBSET hs : \E s : Lists(s, T)}
  <1>1. ASSUME NEW T \in SUBSET hs, \A U \in SUBSET T : U # T => U \in Good
        PROVE  T \in Good
    <2>1. IsFiniteSet(T)
      BY FS_Subset
    <2>2. CASE T = {}
      <3>1. << >> \in [1..0 -> {}]
        OBVIOUS
      <3>2. Lists(<< >>, T)
        BY <2>2, <3>1, FS_EmptySet DEF Lists
      <3>3. QED
        BY <3>2
    <2>3. CASE T # {}
      <3>1. PICK x \in T : \A y \in T : y[2] <= x[2]
        <4>1. \A h \in T : h[2] \in Nat
          OBVIOUS
        <4>2. QED
          BY <2>1, <2>3, <4>1, LargestId
      <3> DEFINE U == T \ {x}
                 k == Cardinality(U)
      <3>2. U \in Good
        BY <1>1, <3>1
      <3>3. PICK s : Lists(s, U)
        BY <3>2
      <3>4. k \in Nat /\ Cardinality(T) = k + 1
        <4>1. IsFiniteSet(U) /\ k = Cardinality(T) - 1
          BY <2>1, <3>1, FS_RemoveElement
        <4>2. k \in Nat /\ Cardinality(T) \in Nat
          BY <2>1, <4>1, FS_CardinalityType
        <4>3. QED
          BY <4>1, <4>2
      <3>5. \A y \in U : y[2] < x[2]
        <4>1. TAKE y \in U
        <4>2. y[2] <= x[2] /\ y # x /\ y \in {side} \X Nat /\ x \in {side} \X Nat
          BY <3>1
        <4>3. y = <<side, y[2]>> /\ x = <<side, x[2]>>
          BY <4>2
        <4>4. QED
          BY <4>2, <4>3
      <3> HIDE DEF U, k
      <3> DEFINE t == [i \in 1..(k + 1) |-> IF i = k + 1 THEN x ELSE s[i]]
      <3>6. DOMAIN s = 1..k /\ \A i \in 1..k : s[i] \in U
        BY <3>3 DEF Lists, k
      <3>7. t \in [1..(k + 1) -> T]
        BY <3>1, <3>4, <3>6 DEF U
      <3>8. ASSUME NEW i \in 1..(k + 1), NEW j \in 1..(k + 1), i < j
            PROVE  t[i][2] < t[j][2]
        <4>1. i \in 1..k /\ t[i] = s[i]
          BY <3>4, <3>8
        <4>2. CASE j = k + 1
          BY <3>5, <3>6, <4>1, <4>2
        <4>3. CASE j # k + 1
          <5>1. j \in 1..k /\ t[j] = s[j]
            BY <3>4, <4>3
          <5>2. QED
            BY <3>3, <3>6, <3>8, <4>1, <5>1 DEF Lists
        <4>4. QED
          BY <4>2, <4>3
      <3>9. Lists(t, T)
        <4>1. DOMAIN t = 1..(k + 1)
          OBVIOUS
        <4> HIDE DEF t
        <4>2. QED
          BY <3>4, <3>7, <3>8, <4>1 DEF Lists
      <3>10. QED
        BY <3>9
    <2>4. QED
      BY <2>2, <2>3
  <1> HIDE DEF Good
  <1>2. hs \in Good
    BY <1>1, SubsetInduction
  <1>3. QED
    BY <1>2 DEF Good

(* ById() lists each of them once. *)
LEMMA ByIdLists ==
    ASSUME NEW side, NEW hs, IsFiniteSet(hs), hs \subseteq {side} \X Nat
    PROVE  /\ ById(hs) \in Seq(hs)
           /\ \A h \in hs : \E i \in DOMAIN ById(hs) : ById(hs)[i] = h
           /\ \A i, j \in DOMAIN ById(hs) : ById(hs)[i][2] = ById(hs)[j][2] => i = j
  <1> DEFINE s == ById(hs)
             k == Cardinality(hs)
  <1>1. Lists(s, hs)
    BY ListExists DEF ById, Lists
  <1>2. k \in Nat
    BY FS_CardinalityType
  <1>3. s \in [1..k -> hs] /\ DOMAIN s = 1..k
    BY <1>1 DEF Lists
  <1> HIDE DEF s, k
  <1>4. s \in Seq(hs)
    BY <1>2, <1>3
  <1>5. \A i, j \in 1..k : s[i][2] = s[j][2] => i = j
    <2>1. TAKE i, j \in 1..k
    <2>2. s[i][2] \in Nat /\ s[j][2] \in Nat
      BY <1>3
    <2>3. i < j \/ j < i \/ i = j
      BY <1>2
    <2>4. QED
      BY <1>1, <1>3, <2>2, <2>3 DEF Lists
  <1>6. s \in Injection(1..k, hs)
    BY <1>3, <1>5 DEF Injection, IsInjective
  <1>7. s \in Surjection(1..k, hs)
    <2>1. Cardinality(1..k) = k
      BY <1>2, FS_Interval
    <2>2. QED
      BY <1>6, <2>1, FS_Injection DEF k
  <1>8. \A h \in hs : \E i \in 1..k : s[i] = h
    BY <1>7 DEF Surjection
  <1>9. QED
    BY <1>3, <1>4, <1>5, <1>8 DEF s

-----------------------------------------------------------------------------
(* What the variables hold.                                                 *)

Txs == [num : Int, feerate : Nat, owed : [Nodes -> Int],
        htlcs : SUBSET (Nodes \X Nat \X Nat)]

Msgs ==
    [type : {"reestablish"}, nc : Nat, nr : Nat]
    \cup [type : {"add"}, id : Nat, amount : Nat]
    \cup [type : {"none", "fulfill", "fail"}, id : Nat]
    \cup [type : {"fee"}, rate : Nat \ {0}]
    \cup [type : {"commit"}, tx : Txs]
    \cup [type : {"revoke"}, num : Int]
    \cup [type : {"shutdown"}]

(* What a message of each type carries. *)
LEMMA MsgFields ==
    ASSUME NEW m \in Msgs
    PROVE  /\ m.type \in {"reestablish", "add", "none", "fulfill", "fail", "fee",
                          "commit", "revoke", "shutdown"}
           /\ m.type = "add" => m.id \in Nat /\ m.amount \in Nat
           /\ m.type \in {"none", "fulfill", "fail"} => m.id \in Nat
           /\ m.type = "fee" => m.rate \in Nat \ {0}
           /\ m.type = "commit" => m.tx \in Txs
           /\ m.type = "revoke" => m.num \in Int
  BY DEF Msgs

(* The messages the daemons send. *)
LEMMA MsgAdd == \A k, a \in Nat : [type |-> "add", id |-> k, amount |-> a] \in Msgs
  BY DEF Msgs
(* A removal. *)
LEMMA MsgRemove ==
    \A r \in {"none", "fulfill", "fail"}, k \in Nat : [type |-> r, id |-> k] \in Msgs
  BY DEF Msgs
(* A feerate. *)
LEMMA MsgFee == \A x \in Nat \ {0} : [type |-> "fee", rate |-> x] \in Msgs
  BY DEF Msgs
(* A commitment. *)
LEMMA MsgCommit == \A tx \in Txs : [type |-> "commit", tx |-> tx] \in Msgs
  BY DEF Msgs
(* A revocation. *)
LEMMA MsgRevoke == \A i \in Int : [type |-> "revoke", num |-> i] \in Msgs
  BY DEF Msgs
(* A shutdown. *)
LEMMA MsgShutdown == [type |-> "shutdown"] \in Msgs
  BY DEF Msgs
(* A channel_reestablish. *)
LEMMA MsgReestablish ==
    \A i, j \in Nat : [type |-> "reestablish", nc |-> i, nr |-> j] \in Msgs
  BY DEF Msgs

OfType(t) == {m \in Msgs : m.type = t}

PeerRecs ==
    [nextL : Nat, nextR : Nat, revs : Nat, timer : BOOLEAN, lastEmpty : Nat,
     htlcId : Nat, desired : Nat \ {0},
     phase : {"run", "closing", "down", "reestablish"},
     sendShut : BOOLEAN, shutL : BOOLEAN, shutR : BOOLEAN]
DbRecs ==
    [htlcs : HtlcMaps, fee : Slots, our : Int, nextL : Nat, nextR : Nat,
     revs : Nat, wasRevoke : BOOLEAN, lastSent : SUBSET HtlcKeys, htlcId : Nat,
     shutting : BOOLEAN, rshut : BOOLEAN]
PipeRecs == [offer : Nat, shut : BOOLEAN, got : BOOLEAN]

(* A channel has a feerate in force. *)
GoodChan(c) == c \in ChanRecs /\ c.fee[last_fee_state(c.opener)] # 0

-----------------------------------------------------------------------------
(* A channel's feerates are what its fee slots say, the youngest first.     *)
Young(x, y) == IF x # 0 THEN x ELSE y
(* channel_feerate() of either side, slot by slot. *)
LEMMA FeerateIs ==
    ASSUME NEW c, GoodChan(c)
    PROVE  /\ c.opener = "local" =>
                /\ channel_feerate(c, "remote")
                     = Young(c.fee[1], Young(c.fee[2], Young(c.fee[3], c.fee[4])))
                /\ channel_feerate(c, "local") = Young(c.fee[3], c.fee[4])
           /\ c.opener = "remote" =>
                /\ channel_feerate(c, "local")
                     = Young(c.fee[11], Young(c.fee[12], Young(c.fee[13], c.fee[14])))
                /\ channel_feerate(c, "remote") = Young(c.fee[13], c.fee[14])
  <1> DEFINE f == c.fee
             current(side, i) ==
               /\ f[i] # 0
               /\ i \in Committed(side)
               /\ \A j \in first_fee_state(c.opener)..(i - 1) :
                     ~(f[j] # 0 /\ j \in Committed(side))
             found(side) ==
               CHOOSE i \in first_fee_state(c.opener)..last_fee_state(c.opener) :
                  current(side, i)
  <1>1. \A side : channel_feerate(c, side) = f[found(side)]
    BY DEF channel_feerate, get_feerate
  <1>2. f[last_fee_state(c.opener)] # 0
    BY DEF GoodChan
  <1> HIDE DEF f
  <1>3. ASSUME NEW side, NEW i \in first_fee_state(c.opener)..last_fee_state(c.opener),
               current(side, i),
               \A j \in first_fee_state(c.opener)..last_fee_state(c.opener) :
                  current(side, j) => j = i
        PROVE  channel_feerate(c, side) = f[i]
    <2>1. found(side) = i
      BY <1>3
    <2>2. QED
      BY <1>1, <2>1
  <1>4. ASSUME c.opener = "local"
        PROVE  /\ channel_feerate(c, "remote") = Young(f[1], Young(f[2], Young(f[3], f[4])))
               /\ channel_feerate(c, "local") = Young(f[3], f[4])
    <2>1. /\ first_fee_state(c.opener) = 0 /\ last_fee_state(c.opener) = 4
          /\ \A i \in 0..4 : i \in Committed("remote") <=> i \in 1..4
          /\ \A i \in 0..4 : i \in Committed("local") <=> i \in 3..4
      BY <1>4 DEF first_fee_state, last_fee_state, Committed, SENT_ADD_HTLC,
                  SENT_ADD_ACK_REVOCATION
    <2>2. \A i \in 0..4 :
            /\ current("remote", i) <=> f[i] # 0 /\ i \in 1..4 /\ \A j \in 1..(i - 1) : f[j] = 0
            /\ current("local", i) <=> f[i] # 0 /\ i \in 3..4 /\ \A j \in 3..(i - 1) : f[j] = 0
      BY <2>1
    <2> DEFINE r == IF f[1] # 0 THEN 1 ELSE IF f[2] # 0 THEN 2 ELSE IF f[3] # 0 THEN 3 ELSE 4
               l == IF f[3] # 0 THEN 3 ELSE 4
    <2>3. /\ r \in 0..4 /\ current("remote", r)
          /\ \A j \in 0..4 : current("remote", j) => j = r
      <3> HIDE DEF current
      <3>1. QED
        BY <1>2, <2>1, <2>2
    <2>4. /\ l \in 0..4 /\ current("local", l)
          /\ \A j \in 0..4 : current("local", j) => j = l
      <3> HIDE DEF current
      <3>1. QED
        BY <1>2, <2>1, <2>2
    <2> HIDE DEF current, r, l
    <2>5. /\ channel_feerate(c, "remote") = f[r]
          /\ channel_feerate(c, "local") = f[l]
      BY <1>3, <2>1, <2>3, <2>4
    <2>6. QED
      BY <2>5 DEF r, l, Young
  <1>5. ASSUME c.opener = "remote"
        PROVE  /\ channel_feerate(c, "local") = Young(f[11], Young(f[12], Young(f[13], f[14])))
               /\ channel_feerate(c, "remote") = Young(f[13], f[14])
    <2>1. /\ first_fee_state(c.opener) = 10 /\ last_fee_state(c.opener) = 14
          /\ \A i \in 10..14 : i \in Committed("local") <=> i \in 11..14
          /\ \A i \in 10..14 : i \in Committed("remote") <=> i \in 13..14
      BY <1>5 DEF first_fee_state, last_fee_state, Committed, RCVD_ADD_HTLC,
                  RCVD_ADD_ACK_REVOCATION
    <2>2. \A i \in 10..14 :
            /\ current("local", i) <=> f[i] # 0 /\ i \in 11..14 /\ \A j \in 11..(i - 1) : f[j] = 0
            /\ current("remote", i) <=> f[i] # 0 /\ i \in 13..14 /\ \A j \in 13..(i - 1) : f[j] = 0
      BY <2>1
    <2> DEFINE l == IF f[11] # 0 THEN 11 ELSE IF f[12] # 0 THEN 12 ELSE IF f[13] # 0 THEN 13 ELSE 14
               r == IF f[13] # 0 THEN 13 ELSE 14
    <2>3. /\ l \in 10..14 /\ current("local", l)
          /\ \A j \in 10..14 : current("local", j) => j = l
      <3> HIDE DEF current
      <3>1. QED
        BY <1>2, <2>1, <2>2
    <2>4. /\ r \in 10..14 /\ current("remote", r)
          /\ \A j \in 10..14 : current("remote", j) => j = r
      <3> HIDE DEF current
      <3>1. QED
        BY <1>2, <2>1, <2>2
    <2> HIDE DEF current, r, l
    <2>5. /\ channel_feerate(c, "local") = f[l]
          /\ channel_feerate(c, "remote") = f[r]
      BY <1>3, <2>1, <2>3, <2>4
    <2>6. QED
      BY <2>5 DEF r, l, Young
  <1>6. QED
    BY <1>4, <1>5 DEF f

(* They are positive. *)
LEMMA FeerateType ==
    ASSUME NEW c, GoodChan(c), NEW v \in Sides
    PROVE  channel_feerate(c, v) \in Nat \ {0}
  <1>1. /\ c.opener \in Sides /\ c.fee[last_fee_state(c.opener)] # 0
        /\ \A i \in 0..19 : c.fee[i] \in Nat
    BY DEF GoodChan, ChanRecs, Slots, HtlcStates
  <1>2. CASE c.opener = "local"
    <2>1. c.fee[4] # 0
      BY <1>1, <1>2 DEF last_fee_state, SENT_ADD_ACK_REVOCATION
    <2>2. QED
      BY <1>1, <1>2, <2>1, FeerateIs DEF Young, Sides
  <1>3. CASE c.opener = "remote"
    <2>1. c.fee[14] # 0
      BY <1>1, <1>3 DEF last_fee_state, RCVD_ADD_ACK_REVOCATION
    <2>2. QED
      BY <1>1, <1>3, <2>1, FeerateIs DEF Young, Sides
  <1>4. QED
    BY <1>1, <1>2, <1>3 DEF Sides

-----------------------------------------------------------------------------
(* What each operation makes of a channel.                                  *)

(* Putting a good HTLC into a channel. *)
LEMMA WithHtlc ==
    ASSUME NEW c, GoodChan(c), NEW h \in HtlcKeys, NEW x, GoodHtlc(h, x)
    PROVE  LET c2 == with_htlc(c, h, x)
           IN  /\ GoodChan(c2)
               /\ c2.opener = c.opener /\ c2.fee = c.fee /\ c2.owed = c.owed
               /\ DOMAIN c2.htlcs = DOMAIN c.htlcs \cup {h}
               /\ c2.htlcs[h] = x
               /\ \A g \in DOMAIN c.htlcs : g # h => c2.htlcs[g] = c.htlcs[g]
  <1> DEFINE hs == [g \in DOMAIN c.htlcs \cup {h} |-> IF g = h THEN x ELSE c.htlcs[g]]
             c2 == with_htlc(c, h, x)
  <1>1. c \in ChanRecs /\ c.htlcs \in HtlcMaps
    BY DEF GoodChan, ChanRecs
  <1>2. hs \in HtlcMaps
    <2>1. /\ DOMAIN hs = DOMAIN c.htlcs \cup {h} /\ hs = [g \in DOMAIN hs |-> hs[g]]
          /\ \A g \in DOMAIN hs : hs[g] = IF g = h THEN x ELSE c.htlcs[g]
      OBVIOUS
    <2> HIDE DEF hs
    <2>2. /\ IsFiniteSet(DOMAIN c.htlcs) /\ DOMAIN c.htlcs \subseteq HtlcKeys
          /\ \A g \in DOMAIN c.htlcs : GoodHtlc(g, c.htlcs[g])
      BY <1>1, HtlcMapElim
    <2>3. IsFiniteSet(DOMAIN hs)
      BY <2>1, <2>2, FS_AddElement
    <2>4. DOMAIN hs \subseteq HtlcKeys /\ \A g \in DOMAIN hs : GoodHtlc(g, hs[g])
      BY <2>1, <2>2
    <2>5. QED
      BY <2>1, <2>3, <2>4, HtlcMapIntro
  <1>3. c2 = [c EXCEPT !.htlcs = hs]
    BY DEF with_htlc
  <1>4. /\ DOMAIN hs = DOMAIN c.htlcs \cup {h}
        /\ hs[h] = x
        /\ \A g \in DOMAIN c.htlcs : g # h => hs[g] = c.htlcs[g]
    OBVIOUS
  <1> HIDE DEF hs, c2
  <1>5. /\ c2 \in ChanRecs /\ c2.opener = c.opener /\ c2.fee = c.fee
        /\ c2.owed = c.owed /\ c2.htlcs = hs
    BY <1>1, <1>2, <1>3 DEF ChanRecs
  <1>6. QED
    BY <1>4, <1>5 DEF GoodChan, c2

(* channel_add_htlc() *)
LEMMA NewHtlc ==
    ASSUME NEW c, GoodChan(c), NEW s \in Sides, NEW k \in Nat, NEW a \in Nat
    PROVE  LET c2 == new_htlc(c, s, k, a)
               h == <<s, k>>
           IN  /\ GoodChan(c2)
               /\ c2.opener = c.opener /\ c2.fee = c.fee /\ c2.owed = c.owed
               /\ DOMAIN c2.htlcs = DOMAIN c.htlcs \cup {h}
               /\ State(c2, h) = IF s = "local" THEN 0 ELSE 10
               /\ Amount(c2, h) = a /\ c2.htlcs[h].r = "none"
               /\ \A g \in DOMAIN c.htlcs : g # h => c2.htlcs[g] = c.htlcs[g]
  <1> DEFINE c2 == new_htlc(c, s, k, a)
             h == <<s, k>>
             x == [state |-> IF s = "local" THEN SENT_ADD_HTLC ELSE RCVD_ADD_HTLC,
                   amount |-> a, r |-> "none"]
  <1>1. h \in HtlcKeys /\ GoodHtlc(h, x)
    BY DEF HtlcKeys, GoodHtlc, HtlcRecs, HtlcStates, htlc_state_owner, SENT_ADD_HTLC,
           RCVD_ADD_HTLC, Sides
  <1>2. c2 = with_htlc(c, h, x)
    BY DEF new_htlc
  <1>3. /\ x.state = IF s = "local" THEN 0 ELSE 10
        /\ x.amount = a /\ x.r = "none"
    BY DEF SENT_ADD_HTLC, RCVD_ADD_HTLC
  <1> HIDE DEF x, h, c2
  <1>4. /\ GoodChan(c2)
        /\ c2.opener = c.opener /\ c2.fee = c.fee /\ c2.owed = c.owed
        /\ DOMAIN c2.htlcs = DOMAIN c.htlcs \cup {h}
        /\ c2.htlcs[h] = x
        /\ \A g \in DOMAIN c.htlcs : g # h => c2.htlcs[g] = c.htlcs[g]
    BY <1>1, <1>2, WithHtlc
  <1>5. QED
    BY <1>3, <1>4 DEF State, Amount, c2, h

(* channel_fulfill_htlc(), channel_fail_htlc() *)
LEMMA RemoveHtlc ==
    ASSUME NEW c, GoodChan(c), NEW h \in DOMAIN c.htlcs,
           NEW r \in {"none", "fulfill", "fail"}, State(c, h) \notin {9, 19}
    PROVE  LET c2 == remove_htlc(c, h, r)
           IN  /\ GoodChan(c2)
               /\ c2.opener = c.opener /\ c2.fee = c.fee /\ c2.owed = c.owed
               /\ DOMAIN c2.htlcs = DOMAIN c.htlcs
               /\ State(c2, h) = State(c, h) + 1
               /\ Amount(c2, h) = Amount(c, h) /\ c2.htlcs[h].r = r
               /\ \A g \in DOMAIN c.htlcs : g # h => c2.htlcs[g] = c.htlcs[g]
  <1> DEFINE c2 == remove_htlc(c, h, r)
             x == [c.htlcs[h] EXCEPT !.state = @ + 1, !.r = r]
  <1>1. h \in HtlcKeys /\ c.htlcs[h] \in HtlcRecs /\ GoodHtlc(h, c.htlcs[h])
    BY HtlcMapElim DEF GoodChan, ChanRecs
  <1>2. /\ x \in HtlcRecs /\ x.state = State(c, h) + 1
        /\ x.amount = Amount(c, h) /\ x.r = r
    <2> DEFINE y == c.htlcs[h]
    <2>1. x = [y EXCEPT !.state = @ + 1, !.r = r]
      OBVIOUS
    <2>2. y \in HtlcRecs /\ y.state # 19 /\ y.state = State(c, h) /\ y.amount = Amount(c, h)
      BY <1>1 DEF State, Amount
    <2> HIDE DEF x, y
    <2>3. x = [state |-> y.state + 1, amount |-> y.amount, r |-> r]
      BY <2>1, <2>2 DEF HtlcRecs
    <2>4. y.state + 1 \in HtlcStates /\ y.amount \in Nat
      BY <2>2 DEF HtlcRecs, HtlcStates
    <2>5. QED
      BY <2>2, <2>3, <2>4 DEF HtlcRecs
  <1>3. c2 = with_htlc(c, h, x)
    BY DEF remove_htlc
  <1> HIDE DEF x, c2
  <1>4. GoodHtlc(h, x)
    BY <1>1, <1>2 DEF GoodHtlc, htlc_state_owner, State, HtlcRecs, HtlcStates, RCVD_ADD_HTLC
  <1>5. /\ GoodChan(c2)
        /\ c2.opener = c.opener /\ c2.fee = c.fee /\ c2.owed = c.owed
        /\ DOMAIN c2.htlcs = DOMAIN c.htlcs \cup {h}
        /\ c2.htlcs[h] = x
        /\ \A g \in DOMAIN c.htlcs : g # h => c2.htlcs[g] = c.htlcs[g]
    BY <1>1, <1>3, <1>4, WithHtlc
  <1>6. QED
    BY <1>2, <1>5 DEF State, Amount, c2

(* channel_update_feerate() *)
LEMMA UpdateFeerate ==
    ASSUME NEW c, GoodChan(c), NEW rate \in Nat
    PROVE  LET c2 == channel_update_feerate(c, rate)
           IN  /\ GoodChan(c2)
               /\ c2.opener = c.opener /\ c2.htlcs = c.htlcs /\ c2.owed = c.owed
               /\ \A i \in HtlcStates :
                    c2.fee[i] = IF i = first_fee_state(c.opener) THEN rate ELSE c.fee[i]
  <1> DEFINE f == start_fee_update(c.fee, c.opener, rate)
             c2 == channel_update_feerate(c, rate)
  <1>1. c \in ChanRecs /\ c.opener \in Sides /\ c.fee \in Slots
        /\ c.fee[last_fee_state(c.opener)] # 0
    BY DEF GoodChan, ChanRecs
  <1>2. first_fee_state(c.opener) \in HtlcStates
        /\ last_fee_state(c.opener) \in HtlcStates \ {first_fee_state(c.opener)}
    BY DEF first_fee_state, last_fee_state, HtlcStates, SENT_ADD_HTLC, RCVD_ADD_HTLC,
           SENT_ADD_ACK_REVOCATION, RCVD_ADD_ACK_REVOCATION
  <1>3. /\ f \in Slots
        /\ \A i \in HtlcStates :
             f[i] = IF i = first_fee_state(c.opener) THEN rate ELSE c.fee[i]
    BY <1>1, <1>2 DEF start_fee_update, Slots
  <1>4. c2 = [c EXCEPT !.fee = f]
    BY DEF channel_update_feerate
  <1> HIDE DEF f, c2
  <1>5. /\ c2 \in ChanRecs /\ c2.opener = c.opener /\ c2.fee = f
        /\ c2.owed = c.owed /\ c2.htlcs = c.htlcs
    BY <1>1, <1>3, <1>4 DEF ChanRecs
  <1>6. c2.fee[last_fee_state(c2.opener)] # 0
    BY <1>1, <1>2, <1>3, <1>5
  <1>7. QED
    BY <1>3, <1>5, <1>6 DEF GoodChan, c2

(* change_htlcs() leaves a good channel. *)
LEMMA ChangeGood ==
    ASSUME NEW c, GoodChan(c), NEW view, NEW states, <<view, states>> \in Steps
    PROVE  GoodChan(change_htlcs(c, view, states))
  <1> DEFINE c2 == change_htlcs(c, view, states)
             l == last_fee_state(c.opener)
  <1>1. c \in ChanRecs /\ c.opener \in Sides /\ c.fee \in Slots /\ c.fee[l] # 0
    BY DEF GoodChan, ChanRecs
  <1>2. c2 \in ChanRecs /\ c2.opener = c.opener /\ c2.fee = inc_fee_states(c.fee, states)
    BY <1>1, ChangeFields
  <1>3. l \in {4, 14} /\ l \notin AddingStates /\ l - 1 \in HtlcStates /\ l \in HtlcStates
    BY <1>1 DEF last_fee_state, SENT_ADD_ACK_REVOCATION, RCVD_ADD_ACK_REVOCATION,
           AddingStates, HtlcStates
  <1> HIDE DEF l, c2
  <1>4. inc_fee_states(c.fee, states)[l] # 0
    BY <1>1, <1>3 DEF inc_fee_states
  <1>5. QED
    BY <1>2, <1>4 DEF GoodChan, c2, l

(* init_channel() leaves a good channel with its balances in order. *)
LEMMA Restored ==
    ASSUME NEW n, NEW d, d.htlcs \in HtlcMaps, d.fee \in Slots, d.our \in Int,
           d.fee[last_fee_state(OpenerSide(n))] # 0
    PROVE  LET c == RestoredChannel(n, d)
           IN  /\ GoodChan(c)
               /\ c.opener = OpenerSide(n) /\ c.htlcs = d.htlcs /\ c.fee = d.fee
               /\ Balanced(c, d.our)
  <1> DEFINE c == RestoredChannel(n, d)
             o == [v \in Sides |-> [s \in Sides |-> IF s = "local" THEN d.our ELSE Funding - d.our]]
             z == [opener |-> OpenerSide(n), htlcs |-> d.htlcs, fee |-> d.fee, owed |-> o]
             was(v) == {h \in DOMAIN d.htlcs : d.htlcs[h].state \in WasCommitted(v)}
             p(v, s) == o[v][s] + add_delta(z, was(v), s)
                                + remove_delta(z, was(v) \ committed(z, v), s)
             w == [v \in Sides |-> [s \in Sides |-> p(v, s)]]
  <1>1. c = [z EXCEPT !.owed = w]
    BY DEF RestoredChannel, channel_force_htlcs
  <1>2. Funding \in Int
    BY ChanneldAssumption
  <1>3. /\ z.opener = OpenerSide(n) /\ z.htlcs = d.htlcs /\ z.fee = d.fee
        /\ \A v, s \in Sides : o[v][s] = Share(d.our, s)
    BY DEF Share
  <1>4. \A v \in Sides : was(v) = carried(z, v) /\ was(v) \subseteq DOMAIN z.htlcs
    BY DEF carried, State
  <1>5. c = [opener |-> OpenerSide(n), htlcs |-> d.htlcs, fee |-> d.fee, owed |-> w]
    <2> HIDE DEF w, o, c
    <2>1. QED
      BY <1>1
  <1>6. /\ c.opener = OpenerSide(n) /\ c.htlcs = d.htlcs /\ c.fee = d.fee
        /\ \A v, s \in Sides : c.owed[v][s] = p(v, s)
    <2> HIDE DEF c, p
    <2>1. QED
      BY <1>5
  <1> HIDE DEF was, z, o, c
  <1>7. ASSUME NEW v \in Sides, NEW s \in Sides
        PROVE  /\ add_delta(z, was(v), s) \in Int
               /\ remove_delta(z, was(v) \ committed(z, v), s) \in Int
               /\ add_delta(z, was(v), s) = add_delta(c, carried(c, v), s)
               /\ remove_delta(z, was(v) \ committed(z, v), s)
                    = remove_delta(c, carried(c, v) \ committed(c, v), s)
               /\ p(v, s) \in Int
    <2>1. carried(c, v) = was(v) /\ committed(c, v) = committed(z, v)
      BY <1>3, <1>4, <1>6 DEF carried, committed, State
    <2> DEFINE S == {h \in was(v) : h[1] = s}
               T == {h \in was(v) \ committed(z, v) :
                       s = IF c.htlcs[h].r = "fulfill" THEN Other(h[1]) ELSE h[1]}
    <2>2. /\ SumAmounts(z, S) \in Nat /\ SumAmounts(z, T) \in Nat
          /\ IsFiniteSet(S) /\ IsFiniteSet(T)
      <3>1. S \subseteq DOMAIN z.htlcs /\ T \subseteq DOMAIN z.htlcs
        BY <1>4
      <3> HIDE DEF S, T
      <3>2. QED
        BY <1>3, <3>1, AmountsType
    <2>3. \A h : Amount(z, h) = Amount(c, h)
      BY <1>3, <1>6 DEF Amount
    <2>4. SumAmounts(z, S) = SumAmounts(c, S) /\ SumAmounts(z, T) = SumAmounts(c, T)
      <3> HIDE DEF S, T
      <3>1. QED
        BY <2>2, <2>3, AmountsSame
    <2>5. /\ add_delta(z, was(v), s) = -SumAmounts(z, S)
          /\ remove_delta(z, was(v) \ committed(z, v), s) = SumAmounts(z, T)
          /\ add_delta(c, was(v), s) = -SumAmounts(c, S)
          /\ remove_delta(c, was(v) \ committed(z, v), s) = SumAmounts(c, T)
      BY <1>3, <1>6 DEF add_delta, remove_delta
    <2> HIDE DEF S, T
    <2>6. o[v][s] \in Int
      BY <1>2, <1>3 DEF Share
    <2>7. QED
      BY <2>1, <2>2, <2>4, <2>5, <2>6
  <1>8. c \in ChanRecs
    <2>1. OpenerSide(n) \in Sides
      BY DEF OpenerSide, Sides
    <2>2. w \in Balances
      <3> HIDE DEF p
      <3>1. QED
        BY <1>7 DEF Balances
    <2> HIDE DEF w
    <2>3. QED
      BY <1>5, <2>1, <2>2 DEF ChanRecs
  <1>9. Balanced(c, d.our)
    BY <1>3, <1>6, <1>7 DEF Balanced
  <1>10. QED
    BY <1>6, <1>8, <1>9 DEF GoodChan, c

(* What a commitment says. *)
LEMMA CommitTxType ==
    ASSUME NEW n \in Nodes, NEW c, GoodChan(c), NEW v \in Sides, NEW num \in Int
    PROVE  CommitTx(n, c, v, num) \in Txs
  <1>1. channel_feerate(c, v) \in Nat
    BY FeerateType
  <1>2. [m \in Nodes |-> c.owed[v][IF m = n THEN "local" ELSE "remote"]] \in [Nodes -> Int]
    BY DEF GoodChan, ChanRecs, Balances, Sides
  <1>3. {<<NodeOf(n, h[1]), h[2], Amount(c, h)>> : h \in committed(c, v)}
           \in SUBSET (Nodes \X Nat \X Nat)
    <2>1. ASSUME NEW h \in committed(c, v)
          PROVE  <<NodeOf(n, h[1]), h[2], Amount(c, h)>> \in Nodes \X Nat \X Nat
      <3>1. h \in DOMAIN c.htlcs
        BY DEF committed
      <3>2. h \in HtlcKeys /\ c.htlcs[h] \in HtlcRecs
        BY <3>1, HtlcMapElim DEF GoodChan, ChanRecs
      <3>3. NodeOf(n, h[1]) \in Nodes /\ h[2] \in Nat /\ Amount(c, h) \in Nat
        BY <3>2 DEF HtlcKeys, HtlcRecs, Amount, NodeOf, Peer, Nodes
      <3>4. QED
        BY <3>3
    <2>2. QED
      BY <2>1
  <1>4. QED
    BY <1>1, <1>2, <1>3 DEF CommitTx, Txs

-----------------------------------------------------------------------------
(* What lightningd's side of a step makes of the database.                  *)

(* What the peer gets of the HTLCs this side offered. *)
PaidBy(b, hs, s) == SumAmounts(b, {h \in hs : h[1] = s /\ b.htlcs[h].r = "fulfill"})

(* What lightningd has saved of a channel that went from b to c, `mv` being *)
(* the HTLCs that moved.                                                    *)
Saved(d, e, b, c, mv) ==
    LET dead == {h \in mv : h \notin DOMAIN c.htlcs}
    IN  /\ e \in DbRecs
        /\ DOMAIN e.htlcs = (DOMAIN d.htlcs \cup mv) \ dead
        /\ \A h \in DOMAIN e.htlcs :
             e.htlcs[h] = IF h \in mv THEN c.htlcs[h] ELSE d.htlcs[h]
        /\ e.our = d.our + PaidBy(b, dead, "remote") - PaidBy(b, dead, "local")
        /\ e.fee = towire_fee_states(c.fee)

(* The rows of the HTLCs that changed and still live are rewritten. *)
LEMMA RecordFields ==
    ASSUME NEW d \in DbRecs, NEW c, GoodChan(c), NEW b, GoodChan(b),
           NEW changed, changed \subseteq DOMAIN b.htlcs
    PROVE  LET e == RecordHtlcs(d, c, b, changed)
           IN  /\ Saved(d, e, b, c, changed) /\ e \in DbRecs
               /\ e.nextL = d.nextL /\ e.nextR = d.nextR /\ e.revs = d.revs
               /\ e.wasRevoke = d.wasRevoke /\ e.lastSent = d.lastSent
               /\ e.htlcId = d.htlcId /\ e.shutting = d.shutting /\ e.rshut = d.rshut
  <1> DEFINE e == RecordHtlcs(d, c, b, changed)
             dead == {h \in changed : h \notin DOMAIN c.htlcs}
             paid(s) == PaidBy(b, dead, s)
             D == (DOMAIN d.htlcs \cup changed) \ dead
             hs == [h \in D |-> IF h \in changed THEN c.htlcs[h] ELSE d.htlcs[h]]
             our == d.our + paid("remote") - paid("local")
             fee == towire_fee_states(c.fee)
  <1>1. e = [d EXCEPT !.htlcs = hs, !.our = our, !.fee = fee]
    BY DEF RecordHtlcs, PaidBy
  <1>2. /\ d.htlcs \in HtlcMaps /\ c.htlcs \in HtlcMaps /\ b.htlcs \in HtlcMaps
        /\ d.our \in Int /\ c.fee \in Slots
    BY DEF GoodChan, ChanRecs, DbRecs
  <1>3. hs \in HtlcMaps
    <2>1. /\ DOMAIN hs = D /\ hs = [h \in DOMAIN hs |-> hs[h]]
          /\ \A h \in D : hs[h] = IF h \in changed THEN c.htlcs[h] ELSE d.htlcs[h]
      OBVIOUS
    <2> HIDE DEF hs
    <2>2. /\ IsFiniteSet(DOMAIN d.htlcs) /\ DOMAIN d.htlcs \subseteq HtlcKeys
          /\ \A h \in DOMAIN d.htlcs : GoodHtlc(h, d.htlcs[h])
          /\ DOMAIN c.htlcs \subseteq HtlcKeys
          /\ \A h \in DOMAIN c.htlcs : GoodHtlc(h, c.htlcs[h])
          /\ IsFiniteSet(DOMAIN b.htlcs)
      BY <1>2, HtlcMapElim
    <2>3. IsFiniteSet(D)
      <3>1. IsFiniteSet(changed)
        BY <2>2, FS_Subset
      <3>2. IsFiniteSet(DOMAIN d.htlcs \cup changed)
        BY <2>2, <3>1, FS_Union
      <3>3. QED
        BY <3>2, FS_Subset
    <2>4. D \subseteq HtlcKeys /\ \A h \in D : GoodHtlc(h, hs[h])
      BY <2>1, <2>2
    <2>5. QED
      BY <2>1, <2>3, <2>4, HtlcMapIntro
  <1>4. \A s : paid(s) \in Nat
    <2>1. TAKE s
    <2> DEFINE T == {h \in dead : h[1] = s /\ b.htlcs[h].r = "fulfill"}
    <2>2. T \subseteq DOMAIN b.htlcs
      OBVIOUS
    <2> HIDE DEF T
    <2>3. SumAmounts(b, T) \in Nat
      BY <1>2, <2>2, AmountsType
    <2>4. QED
      BY <2>3 DEF T, PaidBy
  <1>5. our \in Int
    <2> HIDE DEF paid
    <2>1. QED
      BY <1>2, <1>4
  <1>6. fee \in Slots
    BY <1>2 DEF towire_fee_states, Slots
  <1>7. DOMAIN hs = D /\ \A h \in D : hs[h] = IF h \in changed THEN c.htlcs[h] ELSE d.htlcs[h]
    OBVIOUS
  <1> HIDE DEF hs, our, fee, e, D
  <1>8. /\ e \in DbRecs /\ e.htlcs = hs /\ e.our = our /\ e.fee = fee
        /\ e.nextL = d.nextL /\ e.nextR = d.nextR /\ e.revs = d.revs
        /\ e.wasRevoke = d.wasRevoke /\ e.lastSent = d.lastSent
        /\ e.htlcId = d.htlcId /\ e.shutting = d.shutting /\ e.rshut = d.rshut
    BY <1>1, <1>3, <1>5, <1>6 DEF DbRecs
  <1>9. QED
    BY <1>7, <1>8 DEF e, our, fee, D, Saved

(* What approx_max_feerate() and so the next feerate may be. *)
LEMMA FeeTarget ==
    ASSUME NEW c, GoodChan(c), NEW p, p.desired \in Nat \ {0}
    PROVE  fee_target(p, c) \in Nat \ {0}
  <1>1. channel_feerate(c, "remote") \in Nat \ {0}
    BY FeerateType DEF Sides
  <1>2. approx_max_feerate(c) \in Int
    <2> DEFINE view == Other(c.opener)
               avail == c.owed[view][c.opener]
                          + add_delta(c, adding(c, view), c.opener)
                          - AnchorCost - Reserve
               w == commit_tx_weight(num_untrimmed(c, view))
    <2>1. c.htlcs \in HtlcMaps /\ c.opener \in Sides /\ view \in Sides /\ c.owed \in Balances
      BY DEF GoodChan, ChanRecs, Other, Sides
    <2>2. add_delta(c, adding(c, view), c.opener) \in Int
      <3> DEFINE T == {h \in adding(c, view) : h[1] = c.opener}
      <3>1. T \subseteq DOMAIN c.htlcs
        BY DEF adding
      <3> HIDE DEF T
      <3>2. SumAmounts(c, T) \in Nat
        BY <2>1, <3>1, AmountsType
      <3>3. QED
        BY <3>2 DEF add_delta, T
    <2>3. avail \in Int
      BY <2>1, <2>2, FullChannelAssumption DEF Balances
    <2>4. w \in Int /\ w > 0
      <3>1. /\ IsFiniteSet(committed(c, view)) /\ IsFiniteSet(adding(c, view))
            /\ removing(c, view) \subseteq committed(c, view)
        <4>1. committed(c, view) \subseteq DOMAIN c.htlcs /\ adding(c, view) \subseteq DOMAIN c.htlcs
          BY DEF committed, adding
        <4>2. QED
          BY <2>1, <4>1, HtlcMapElim, FS_Subset DEF removing
      <3>2. /\ Cardinality(committed(c, view)) \in Nat /\ Cardinality(adding(c, view)) \in Nat
            /\ IsFiniteSet(removing(c, view))
        BY <3>1, FS_CardinalityType, FS_Subset
      <3>3. /\ Cardinality(removing(c, view)) \in Nat
            /\ Cardinality(removing(c, view)) <= Cardinality(committed(c, view))
        BY <3>1, <3>2, FS_CardinalityType, FS_Subset
      <3>4. num_untrimmed(c, view) \in Nat
        BY <3>2, <3>3 DEF num_untrimmed
      <3>5. \A x, y \in Nat : x * y \in Nat
        OBVIOUS
      <3>6. QED
        BY <3>4, <3>5, FullChannelAssumption DEF commit_tx_weight
    <2> HIDE DEF avail, w
    <2>5. approx_max_feerate(c) = IF avail < 0 THEN 0 ELSE avail \div w
      BY DEF approx_max_feerate, avail, w
    <2>6. QED
      BY <2>3, <2>4, <2>5
  <1>3. /\ \A x, y \in Int : Min({x, y}) \in {x, y} /\ Max({x, y}) \in {x, y}
                            /\ Max({x, y}) >= x
        /\ p.desired \in Int
    <2>1. SUFFICES ASSUME NEW x \in Int, NEW y \in Int
                   PROVE  /\ Min({x, y}) \in {x, y} /\ Max({x, y}) \in {x, y}
                          /\ Max({x, y}) >= x
      OBVIOUS
    <2>2. (\E z \in {x, y} : \A w \in {x, y} : z <= w) /\ (\E z \in {x, y} : \A w \in {x, y} : z >= w)
      <3>1. x <= y \/ y <= x
        OBVIOUS
      <3>2. QED
        BY <3>1
    <2>3. QED
      BY <2>2 DEF Min, Max
  <1> DEFINE x == channel_feerate(c, "remote")
             y == Min({p.desired, approx_max_feerate(c)})
  <1>4. y \in Int
    <2>1. Min({p.desired, approx_max_feerate(c)}) \in {p.desired, approx_max_feerate(c)}
      BY <1>2, <1>3, Zenon
    <2>2. QED
      BY <1>2, <2>1
  <1>5. Max({x, y}) \in {x, y} /\ Max({x, y}) >= x
    BY <1>1, <1>3, <1>4
  <1>6. fee_target(p, c) = IF p.desired > x THEN Max({x, y}) ELSE p.desired
    BY DEF fee_target
  <1> HIDE DEF x, y
  <1>7. x \in Nat \ {0}
    BY <1>1 DEF x
  <1>8. QED
    BY <1>4, <1>5, <1>6, <1>7

-----------------------------------------------------------------------------
(* What is sent again.                                                      *)

RemoveMsg(c, h) == [type |-> c.htlcs[h].r, id |-> h[2]]
AddMsg(c, h) == [type |-> "add", id |-> h[2], amount |-> Amount(c, h)]
FeeMsg(c) == [type |-> "fee", rate |-> channel_feerate(c, "remote")]
CommitMsg(n, c, num) == [type |-> "commit", tx |-> CommitTx(n, c, "remote", num)]
RevokeMsg(num) == [type |-> "revoke", num |-> num]
ShutdownMsg == [type |-> "shutdown"]

AddOf(k) == {m \in Msgs : m.type = "add" /\ m.id = k}
RemoveOf(k) == {m \in Msgs : m.type \in {"fulfill", "fail"} /\ m.id = k}

(* The HTLCs in a state belong to the side the state says. *)
LEMMA InState ==
    ASSUME NEW c, GoodChan(c), NEW s \in HtlcStates
    PROVE  /\ in_state(c, s) \subseteq DOMAIN c.htlcs
           /\ in_state(c, s) \subseteq {htlc_state_owner(s)} \X Nat
           /\ IsFiniteSet(in_state(c, s))
           /\ \A h \in in_state(c, s) :
                /\ Amount(c, h) \in Nat /\ c.htlcs[h].r \in {"none", "fulfill", "fail"}
                /\ h[2] \in Nat
  <1>1. in_state(c, s) \subseteq DOMAIN c.htlcs
    BY DEF in_state
  <1>2. /\ IsFiniteSet(DOMAIN c.htlcs) /\ DOMAIN c.htlcs \subseteq HtlcKeys
        /\ \A h \in DOMAIN c.htlcs : GoodHtlc(h, c.htlcs[h]) /\ c.htlcs[h] \in HtlcRecs
    BY HtlcMapElim DEF GoodChan, ChanRecs
  <1>3. ASSUME NEW h \in in_state(c, s)
        PROVE  /\ h \in {htlc_state_owner(s)} \X Nat
               /\ Amount(c, h) \in Nat /\ c.htlcs[h].r \in {"none", "fulfill", "fail"}
               /\ h[2] \in Nat
    <2>1. h \in HtlcKeys /\ GoodHtlc(h, c.htlcs[h]) /\ c.htlcs[h].state = s
      BY <1>1, <1>2 DEF in_state, State
    <2>2. h[1] = htlc_state_owner(s)
      BY <2>1 DEF GoodHtlc
    <2>3. QED
      BY <1>1, <1>2, <2>1, <2>2 DEF HtlcKeys, HtlcRecs, Amount
  <1>4. QED
    BY <1>1, <1>2, <1>3, FS_Subset

(* send_fail_or_fulfill() sends one message for each HTLC. *)
LEMMA RemovesAgain ==
    ASSUME NEW c, NEW hs, IsFiniteSet(hs), NEW side, hs \subseteq {side} \X Nat,
           \A h \in hs : c.htlcs[h].r \in {"none", "fulfill", "fail"}
    PROVE  LET s == send_fail_or_fulfill(c, hs)
           IN  /\ s \in Seq(Msgs)
               /\ \A T : Has(s, T) <=> \E h \in hs : RemoveMsg(c, h) \in T
               /\ \A k : One(s, RemoveOf(k))
               /\ \A t : t \notin {"none", "fulfill", "fail"} => ~Has(s, OfType(t))
  <1> DEFINE o == ById(hs)
             s == send_fail_or_fulfill(c, hs)
  <1>1. /\ o \in Seq(hs)
        /\ \A h \in hs : \E i \in DOMAIN o : o[i] = h
        /\ \A i, j \in DOMAIN o : o[i][2] = o[j][2] => i = j
    BY ByIdLists
  <1>2. s = [i \in DOMAIN o |-> RemoveMsg(c, o[i])]
    BY DEF send_fail_or_fulfill, RemoveMsg
  <1> HIDE DEF o, s
  <1>3. DOMAIN o = 1..Len(o) /\ Len(o) \in Nat /\ \A i \in DOMAIN o : o[i] \in hs
    BY <1>1
  <1>4. DOMAIN s = DOMAIN o /\ \A i \in DOMAIN s : s[i] = RemoveMsg(c, o[i])
    BY <1>2
  <1>5. \A h \in hs : /\ RemoveMsg(c, h) \in Msgs
                      /\ RemoveMsg(c, h).id = h[2]
                      /\ RemoveMsg(c, h).type \in {"none", "fulfill", "fail"}
    BY MsgRemove DEF RemoveMsg
  <1>6. s \in [1..Len(o) -> Msgs]
    BY <1>2, <1>3, <1>5
  <1>7. s \in Seq(Msgs)
    BY <1>3, <1>6
  <1>8. \A T : Has(s, T) <=> \E h \in hs : RemoveMsg(c, h) \in T
    BY <1>1, <1>3, <1>4 DEF Has
  <1>9. ASSUME NEW k
        PROVE  One(s, RemoveOf(k))
    <2>1. \A m \in RemoveOf(k) : m.id = k
      BY DEF RemoveOf
    <2>2. ASSUME NEW i \in DOMAIN s, NEW j \in DOMAIN s,
                 s[i] \in RemoveOf(k), s[j] \in RemoveOf(k)
          PROVE  i = j
      <3>1. s[i].id = o[i][2] /\ s[j].id = o[j][2]
        BY <1>3, <1>4, <1>5
      <3>2. s[i].id = k /\ s[j].id = k
        BY <2>1, <2>2
      <3>3. QED
        BY <1>1, <1>4, <3>1, <3>2
    <2>3. QED
      BY <2>2 DEF One
  <1>10. ASSUME NEW t, t \notin {"none", "fulfill", "fail"}
         PROVE  ~Has(s, OfType(t))
    BY <1>5, <1>8, <1>10 DEF OfType
  <1>11. QED
    BY <1>7, <1>8, <1>9, <1>10 DEF s

(* So do the additions that go again. *)
LEMMA AddsAgain ==
    ASSUME NEW c, NEW hs, IsFiniteSet(hs), NEW side, hs \subseteq {side} \X Nat,
           \A h \in hs : Amount(c, h) \in Nat
    PROVE  LET o == ById(hs)
               s == [i \in DOMAIN o |-> [type |-> "add", id |-> o[i][2],
                                         amount |-> Amount(c, o[i])]]
           IN  /\ s \in Seq(Msgs)
               /\ \A T : Has(s, T) <=> \E h \in hs : AddMsg(c, h) \in T
               /\ \A k : One(s, AddOf(k))
               /\ \A t : t # "add" => ~Has(s, OfType(t))
  <1> DEFINE o == ById(hs)
             s == [i \in DOMAIN o |-> [type |-> "add", id |-> o[i][2],
                                         amount |-> Amount(c, o[i])]]
  <1>1. /\ o \in Seq(hs)
        /\ \A h \in hs : \E i \in DOMAIN o : o[i] = h
        /\ \A i, j \in DOMAIN o : o[i][2] = o[j][2] => i = j
    BY ByIdLists
  <1>2. s = [i \in DOMAIN o |-> AddMsg(c, o[i])]
    BY DEF AddMsg
  <1> HIDE DEF o, s
  <1>3. DOMAIN o = 1..Len(o) /\ Len(o) \in Nat /\ \A i \in DOMAIN o : o[i] \in hs
    BY <1>1
  <1>4. DOMAIN s = DOMAIN o /\ \A i \in DOMAIN s : s[i] = AddMsg(c, o[i])
    BY <1>2
  <1>5. \A h \in hs : /\ AddMsg(c, h) \in Msgs
                      /\ AddMsg(c, h).id = h[2]
                      /\ AddMsg(c, h).type = "add"
    BY MsgAdd DEF AddMsg
  <1>6. s \in [1..Len(o) -> Msgs]
    BY <1>2, <1>3, <1>5
  <1>7. s \in Seq(Msgs)
    BY <1>3, <1>6
  <1>8. \A T : Has(s, T) <=> \E h \in hs : AddMsg(c, h) \in T
    BY <1>1, <1>3, <1>4 DEF Has
  <1>9. ASSUME NEW k
        PROVE  One(s, AddOf(k))
    <2>1. \A m \in AddOf(k) : m.id = k
      BY DEF AddOf
    <2>2. ASSUME NEW i \in DOMAIN s, NEW j \in DOMAIN s,
                 s[i] \in AddOf(k), s[j] \in AddOf(k)
          PROVE  i = j
      <3>1. s[i].id = o[i][2] /\ s[j].id = o[j][2]
        BY <1>3, <1>4, <1>5
      <3>2. s[i].id = k /\ s[j].id = k
        BY <2>1, <2>2
      <3>3. QED
        BY <1>1, <1>4, <3>1, <3>2
    <2>3. QED
      BY <2>2 DEF One
  <1>10. ASSUME NEW t, t # "add"
         PROVE  ~Has(s, OfType(t))
    BY <1>5, <1>8, <1>10 DEF OfType
  <1>11. QED
    BY <1>7, <1>8, <1>9, <1>10 DEF s, o

(* resend_commitment(): the updates it covers, then the commitment. *)
LEMMA Resent ==
    ASSUME NEW n \in Nodes, NEW c, GoodChan(c), NEW ls, NEW num \in Int
    PROVE  LET R == resend_commitment(n, c, ls, num)
           IN  /\ R \in Seq(Msgs)
               /\ \A T : Has(R, T) <=>
                    \/ \E h \in ls \cap in_state(c, 16) : RemoveMsg(c, h) \in T
                    \/ \E h \in ls \cap in_state(c, 1) : AddMsg(c, h) \in T
                    \/ c.opener = "local" /\ FeeMsg(c) \in T
                    \/ CommitMsg(n, c, num) \in T
               /\ One(R, OfType("commit"))
               /\ \A k : One(R, AddOf(k)) /\ One(R, RemoveOf(k))
               /\ \A S : (\A m \in S : m.type # "commit") => Before(R, S, OfType("commit"))
  <1> DEFINE R == resend_commitment(n, c, ls, num)
             RM == ls \cap in_state(c, 16)
             AD == ls \cap in_state(c, 1)
             o == ById(AD)
             a == send_fail_or_fulfill(c, RM)
             b == [i \in DOMAIN o |-> [type |-> "add", id |-> o[i][2],
                                       amount |-> Amount(c, o[i])]]
             f == IF c.opener = "local" THEN <<FeeMsg(c)>> ELSE << >>
             z == <<CommitMsg(n, c, num)>>
  <1>1. R = ((a \o b) \o f) \o z
    BY DEF resend_commitment, SENT_ADD_COMMIT, SENT_REMOVE_COMMIT, FeeMsg, CommitMsg, resent_tx
  <1>2. /\ IsFiniteSet(RM) /\ RM \subseteq {"remote"} \X Nat
        /\ \A h \in RM : c.htlcs[h].r \in {"none", "fulfill", "fail"}
        /\ IsFiniteSet(AD) /\ AD \subseteq {"local"} \X Nat
        /\ \A h \in AD : Amount(c, h) \in Nat
    <2>1. 16 \in HtlcStates /\ 1 \in HtlcStates /\ htlc_state_owner(16) = "remote"
          /\ htlc_state_owner(1) = "local"
      BY DEF HtlcStates, htlc_state_owner, RCVD_ADD_HTLC
    <2>2. QED
      BY <2>1, InState, FS_Subset
  <1> HIDE DEF RM, AD
  <1>3. /\ a \in Seq(Msgs)
        /\ \A T : Has(a, T) <=> \E h \in RM : RemoveMsg(c, h) \in T
        /\ \A k : One(a, RemoveOf(k))
        /\ \A t : t \notin {"none", "fulfill", "fail"} => ~Has(a, OfType(t))
    BY <1>2, RemovesAgain
  <1>4. /\ b \in Seq(Msgs)
        /\ \A T : Has(b, T) <=> \E h \in AD : AddMsg(c, h) \in T
        /\ \A k : One(b, AddOf(k))
        /\ \A t : t # "add" => ~Has(b, OfType(t))
    BY <1>2, AddsAgain
  <1>5. FeeMsg(c) \in Msgs /\ FeeMsg(c).type = "fee"
    BY MsgFee, FeerateType DEF FeeMsg, Sides
  <1>6. CommitMsg(n, c, num) \in Msgs /\ CommitMsg(n, c, num).type = "commit"
    <2>1. CommitTx(n, c, "remote", num) \in Txs
      BY CommitTxType DEF Sides
    <2>2. QED
      BY <2>1, MsgCommit DEF CommitMsg
  <1>7. /\ f \in Seq(Msgs)
        /\ \A T : Has(f, T) <=> c.opener = "local" /\ FeeMsg(c) \in T
        /\ \A T : One(f, T)
        /\ \A t : t # "fee" => ~Has(f, OfType(t))
    <2>1. CASE c.opener = "local"
      <3>1. f = <<FeeMsg(c)>>
        BY <2>1
      <3> HIDE DEF f
      <3>2. QED
        BY <1>5, <2>1, <3>1, OneQueued DEF OfType
    <2>2. CASE c.opener # "local"
      <3>1. f = << >>
        BY <2>2
      <3> HIDE DEF f
      <3>2. << >> \in Seq(Msgs)
        OBVIOUS
      <3>3. QED
        BY <2>2, <3>1, <3>2, NoneQueued
    <2>3. QED
      BY <2>1, <2>2
  <1>8. /\ z \in Seq(Msgs)
        /\ \A T : Has(z, T) <=> CommitMsg(n, c, num) \in T
        /\ \A T : One(z, T)
        /\ \A t : t # "commit" => ~Has(z, OfType(t))
        /\ \A S, T : (\A m \in S : m.type # "commit") => Before(z, S, T)
    BY <1>6, OneQueued DEF OfType
  <1> HIDE DEF a, b, f, z, R
  <1> DEFINE w == a \o b
  <1>9. /\ w \in Seq(Msgs)
        /\ \A T : Has(w, T) <=> Has(a, T) \/ Has(b, T)
        /\ \A T : One(w, T) <=> One(a, T) /\ One(b, T) /\ ~(Has(a, T) /\ Has(b, T))
    BY <1>3, <1>4, Queued
  <1> HIDE DEF w
  <1> DEFINE u == w \o f
  <1>10. /\ u \in Seq(Msgs)
         /\ \A T : Has(u, T) <=> Has(w, T) \/ Has(f, T)
         /\ \A T : One(u, T) <=> One(w, T) /\ One(f, T) /\ ~(Has(w, T) /\ Has(f, T))
    BY <1>7, <1>9, Queued
  <1> HIDE DEF u
  <1>11. /\ R \in Seq(Msgs)
         /\ \A T : Has(R, T) <=> Has(u, T) \/ Has(z, T)
         /\ \A T : One(R, T) <=> One(u, T) /\ One(z, T) /\ ~(Has(u, T) /\ Has(z, T))
         /\ \A S, T : Before(R, S, T) <=> /\ Before(u, S, T) /\ Before(z, S, T)
                                          /\ ~(Has(u, T) /\ Has(z, S))
    <2>1. R = u \o z
      BY <1>1 DEF u, w
    <2>2. QED
      BY <1>8, <1>10, <2>1, Queued
  <1>12. \A T : Has(R, T) <=>
           \/ \E h \in RM : RemoveMsg(c, h) \in T
           \/ \E h \in AD : AddMsg(c, h) \in T
           \/ c.opener = "local" /\ FeeMsg(c) \in T
           \/ CommitMsg(n, c, num) \in T
    BY <1>3, <1>4, <1>7, <1>8, <1>9, <1>10, <1>11
  <1>13. ~Has(u, OfType("commit"))
    BY <1>3, <1>4, <1>7, <1>9, <1>10
  <1>14. \A q, T : ~Has(q, T) => One(q, T)
    BY DEF Has, One
  <1>15. One(R, OfType("commit"))
    BY <1>8, <1>11, <1>13, <1>14
  <1>16. ASSUME NEW k
         PROVE  One(R, AddOf(k)) /\ One(R, RemoveOf(k))
    <2>1. /\ \A q : Has(q, AddOf(k)) => Has(q, OfType("add"))
          /\ \A q : Has(q, RemoveOf(k)) => Has(q, OfType("fulfill")) \/ Has(q, OfType("fail"))
      BY DEF Has, AddOf, RemoveOf, OfType
    <2>2. /\ ~Has(a, AddOf(k)) /\ ~Has(f, AddOf(k)) /\ ~Has(z, AddOf(k))
          /\ ~Has(b, RemoveOf(k)) /\ ~Has(f, RemoveOf(k)) /\ ~Has(z, RemoveOf(k))
      BY <1>3, <1>4, <1>7, <1>8, <2>1
    <2>3. One(u, AddOf(k)) /\ One(u, RemoveOf(k))
      BY <1>3, <1>4, <1>7, <1>9, <1>10, <1>14, <2>2
    <2>4. QED
      BY <1>8, <1>11, <2>2, <2>3
  <1>17. ASSUME NEW S, \A m \in S : m.type # "commit"
         PROVE  Before(R, S, OfType("commit"))
    <2>1. Before(u, S, OfType("commit"))
      BY <1>13 DEF Before, Has
    <2>2. ~Has(z, S)
      BY <1>6, <1>8, <1>17
    <2>3. QED
      BY <1>8, <1>11, <1>17, <2>1, <2>2
  <1>18. QED
    BY <1>11, <1>12, <1>15, <1>16, <1>17 DEF R, RM, AD

(* What peer_reconnect() sends in answer to the reestablish message m. *)
Answer(n, c, p, d, m) ==
    retransmit(d.wasRevoke,
               IF m.nc = p.nextR - 1
               THEN resend_commitment(n, c, d.lastSent, p.nextR - 1) ELSE << >>,
               IF m.nr = p.nextL - 2 THEN <<RevokeMsg(p.nextL - 2)>> ELSE << >>)
      \o shutdown_msgs(p)
      \o send_fail_or_fulfill(c, in_state(c, SENT_REMOVE_HTLC))

(* What peer_reconnect() sends, message by message. *)
LEMMA Answered ==
    ASSUME NEW n \in Nodes, NEW c, GoodChan(c), NEW p \in PeerRecs, NEW d \in DbRecs, NEW m
    PROVE  LET out == Answer(n, c, p, d, m)
               again == m.nc = p.nextR - 1
           IN  /\ out \in Seq(Msgs)
               /\ \A T : Has(out, T) <=>
                    \/ again /\ \/ \E h \in d.lastSent \cap in_state(c, 16) :
                                     RemoveMsg(c, h) \in T
                                \/ \E h \in d.lastSent \cap in_state(c, 1) :
                                     AddMsg(c, h) \in T
                                \/ c.opener = "local" /\ FeeMsg(c) \in T
                                \/ CommitMsg(n, c, p.nextR - 1) \in T
                    \/ m.nr = p.nextL - 2 /\ RevokeMsg(p.nextL - 2) \in T
                    \/ p.sendShut /\ ShutdownMsg \in T
                    \/ \E h \in in_state(c, 15) : RemoveMsg(c, h) \in T
               /\ One(out, OfType("commit")) /\ One(out, OfType("revoke"))
               /\ \A k : One(out, AddOf(k)) /\ One(out, RemoveOf(k))
               /\ \A k : Before(out, AddOf(k), OfType("commit"))
               /\ Before(out, OfType("fee"), OfType("commit"))
               /\ \A k : <<"remote", k>> \notin in_state(c, 15) =>
                           Before(out, RemoveOf(k), OfType("commit"))
               /\ \A k : <<"remote", k>> \notin in_state(c, 16) =>
                           Before(out, OfType("commit"), RemoveOf(k))
               /\ d.wasRevoke => Before(out, OfType("commit"), OfType("revoke"))
               /\ ~d.wasRevoke => Before(out, OfType("revoke"), OfType("commit"))
  <1> DEFINE out == Answer(n, c, p, d, m)
             again == m.nc = p.nextR - 1
             R == resend_commitment(n, c, d.lastSent, p.nextR - 1)
             x == IF again THEN R ELSE << >>
             y == IF m.nr = p.nextL - 2 THEN <<RevokeMsg(p.nextL - 2)>> ELSE << >>
             z == shutdown_msgs(p)
             w == send_fail_or_fulfill(c, in_state(c, 15))
             u == IF d.wasRevoke THEN x \o y ELSE y \o x
             v == u \o z
  <1>1. out = v \o w
    BY DEF Answer, retransmit, SENT_REMOVE_HTLC
  <1>2. /\ p.nextR - 1 \in Int /\ p.nextL - 2 \in Int
    BY DEF PeerRecs
  <1>3. << >> \in Seq(Msgs)
    OBVIOUS
  <1>4. /\ R \in Seq(Msgs)
        /\ \A T : Has(R, T) <=>
             \/ \E h \in d.lastSent \cap in_state(c, 16) : RemoveMsg(c, h) \in T
             \/ \E h \in d.lastSent \cap in_state(c, 1) : AddMsg(c, h) \in T
             \/ c.opener = "local" /\ FeeMsg(c) \in T
             \/ CommitMsg(n, c, p.nextR - 1) \in T
        /\ One(R, OfType("commit"))
        /\ \A k : One(R, AddOf(k)) /\ One(R, RemoveOf(k))
        /\ \A S : (\A e \in S : e.type # "commit") => Before(R, S, OfType("commit"))
    BY <1>2, Resent
  <1> HIDE DEF R
  <1>5. /\ x \in Seq(Msgs)
        /\ \A T : Has(x, T) <=> again /\ Has(R, T)
        /\ One(x, OfType("commit"))
        /\ \A k : One(x, AddOf(k)) /\ One(x, RemoveOf(k))
        /\ \A S : (\A e \in S : e.type # "commit") => Before(x, S, OfType("commit"))
    <2>1. CASE again
      BY <1>4, <2>1
    <2>2. CASE ~again
      <3>1. x = << >>
        BY <2>2
      <3> HIDE DEF x, again
      <3>2. QED
        BY <1>3, <2>2, <3>1, NoneQueued
    <2>3. QED
      BY <2>1, <2>2
  <1>6. RevokeMsg(p.nextL - 2) \in Msgs /\ RevokeMsg(p.nextL - 2).type = "revoke"
    BY <1>2, MsgRevoke DEF RevokeMsg
  <1>7. /\ y \in Seq(Msgs)
        /\ \A T : Has(y, T) <=> m.nr = p.nextL - 2 /\ RevokeMsg(p.nextL - 2) \in T
        /\ \A T : One(y, T)
        /\ \A S, T : (\A e \in S : e.type # "revoke") => Before(y, S, T)
        /\ \A S, T : (\A e \in T : e.type # "revoke") => Before(y, S, T)
        /\ \A t : t # "revoke" => ~Has(y, OfType(t))
    <2>1. CASE m.nr = p.nextL - 2
      <3>1. y = <<RevokeMsg(p.nextL - 2)>>
        BY <2>1
      <3> HIDE DEF y
      <3>2. QED
        BY <1>6, <2>1, <3>1, OneQueued DEF OfType
    <2>2. CASE m.nr # p.nextL - 2
      <3>1. y = << >>
        BY <2>2
      <3> HIDE DEF y
      <3>2. QED
        BY <1>3, <2>2, <3>1, NoneQueued
    <2>3. QED
      BY <2>1, <2>2
  <1>8. ShutdownMsg \in Msgs /\ ShutdownMsg.type = "shutdown"
    BY MsgShutdown DEF ShutdownMsg
  <1>9. /\ z \in Seq(Msgs)
        /\ \A T : Has(z, T) <=> p.sendShut /\ ShutdownMsg \in T
        /\ \A T : One(z, T)
        /\ \A S, T : (\A e \in S : e.type # "shutdown") => Before(z, S, T)
        /\ \A t : t # "shutdown" => ~Has(z, OfType(t))
    <2>1. CASE p.sendShut
      <3>1. z = <<ShutdownMsg>>
        BY <2>1 DEF shutdown_msgs, ShutdownMsg
      <3> HIDE DEF z
      <3>2. QED
        BY <1>8, <2>1, <3>1, OneQueued DEF OfType
    <2>2. CASE ~p.sendShut
      <3>1. z = << >>
        BY <2>2 DEF shutdown_msgs
      <3> HIDE DEF z
      <3>2. QED
        BY <1>3, <2>2, <3>1, NoneQueued
    <2>3. QED
      BY <2>1, <2>2
  <1>10. /\ w \in Seq(Msgs)
         /\ \A T : Has(w, T) <=> \E h \in in_state(c, 15) : RemoveMsg(c, h) \in T
         /\ \A k : One(w, RemoveOf(k))
         /\ \A t : t \notin {"none", "fulfill", "fail"} => ~Has(w, OfType(t))
    <2>1. 15 \in HtlcStates /\ htlc_state_owner(15) = "remote"
      BY DEF HtlcStates, htlc_state_owner, RCVD_ADD_HTLC
    <2>2. /\ in_state(c, 15) \subseteq {"remote"} \X Nat /\ IsFiniteSet(in_state(c, 15))
          /\ \A h \in in_state(c, 15) : c.htlcs[h].r \in {"none", "fulfill", "fail"}
      BY <2>1, InState
    <2>3. QED
      BY <2>2, RemovesAgain
  <1> HIDE DEF again, x, y, z, w, out
  <1>11. /\ u \in Seq(Msgs)
         /\ \A T : Has(u, T) <=> Has(x, T) \/ Has(y, T)
         /\ \A T : One(u, T) <=> One(x, T) /\ One(y, T) /\ ~(Has(x, T) /\ Has(y, T))
         /\ d.wasRevoke => \A S, T : Before(u, S, T) <=>
              Before(x, S, T) /\ Before(y, S, T) /\ ~(Has(x, T) /\ Has(y, S))
         /\ ~d.wasRevoke => \A S, T : Before(u, S, T) <=>
              Before(y, S, T) /\ Before(x, S, T) /\ ~(Has(y, T) /\ Has(x, S))
    <2>1. CASE d.wasRevoke
      <3>1. u = x \o y
        BY <2>1
      <3> HIDE DEF u
      <3>2. QED
        BY <1>5, <1>7, <2>1, <3>1, Queued
    <2>2. CASE ~d.wasRevoke
      <3>1. u = y \o x
        BY <2>2
      <3> HIDE DEF u
      <3>2. QED
        BY <1>5, <1>7, <2>2, <3>1, Queued
    <2>3. QED
      BY <2>1, <2>2
  <1> HIDE DEF u
  <1>12. /\ v \in Seq(Msgs)
         /\ \A T : Has(v, T) <=> Has(u, T) \/ Has(z, T)
         /\ \A T : One(v, T) <=> One(u, T) /\ One(z, T) /\ ~(Has(u, T) /\ Has(z, T))
         /\ \A S, T : Before(v, S, T) <=>
              Before(u, S, T) /\ Before(z, S, T) /\ ~(Has(u, T) /\ Has(z, S))
    BY <1>9, <1>11, Queued
  <1> HIDE DEF v
  <1>13. /\ out \in Seq(Msgs)
         /\ \A T : Has(out, T) <=> Has(v, T) \/ Has(w, T)
         /\ \A T : One(out, T) <=> One(v, T) /\ One(w, T) /\ ~(Has(v, T) /\ Has(w, T))
         /\ \A S, T : Before(out, S, T) <=>
              Before(v, S, T) /\ Before(w, S, T) /\ ~(Has(v, T) /\ Has(w, S))
    BY <1>1, <1>10, <1>12, Queued
  <1>14. \A T : Has(out, T) <=>
           \/ again /\ \/ \E h \in d.lastSent \cap in_state(c, 16) :
                            RemoveMsg(c, h) \in T
                       \/ \E h \in d.lastSent \cap in_state(c, 1) :
                            AddMsg(c, h) \in T
                       \/ c.opener = "local" /\ FeeMsg(c) \in T
                       \/ CommitMsg(n, c, p.nextR - 1) \in T
           \/ m.nr = p.nextL - 2 /\ RevokeMsg(p.nextL - 2) \in T
           \/ p.sendShut /\ ShutdownMsg \in T
           \/ \E h \in in_state(c, 15) : RemoveMsg(c, h) \in T
    <2>1. TAKE T
    <2>2. Has(out, T) <=> Has(x, T) \/ Has(y, T) \/ Has(z, T) \/ Has(w, T)
      BY <1>11, <1>12, <1>13
    <2>3. QED
      BY <1>4, <1>5, <1>7, <1>9, <1>10, <2>2
  <1>15. /\ \A q, T : ~Has(q, T) => One(q, T)
         /\ \A q, S, T : ~Has(q, T) => Before(q, S, T) /\ Before(q, T, S)
    BY DEF Has, One, Before
  <1>16. /\ \A q, k : Has(q, AddOf(k)) => Has(q, OfType("add"))
         /\ \A q, k : Has(q, RemoveOf(k)) => Has(q, OfType("fulfill")) \/ Has(q, OfType("fail"))
    BY DEF Has, AddOf, RemoveOf, OfType
  <1>17. /\ \A h \in in_state(c, 16) \cup in_state(c, 15) :
              /\ h = <<"remote", h[2]>> /\ RemoveMsg(c, h).id = h[2]
              /\ RemoveMsg(c, h).type \in {"none", "fulfill", "fail"}
         /\ \A h : AddMsg(c, h).type = "add"
         /\ FeeMsg(c).type = "fee" /\ CommitMsg(n, c, p.nextR - 1).type = "commit"
    <2>1. /\ 15 \in HtlcStates /\ htlc_state_owner(15) = "remote"
          /\ 16 \in HtlcStates /\ htlc_state_owner(16) = "remote"
      BY DEF HtlcStates, htlc_state_owner, RCVD_ADD_HTLC
    <2>2. \A h \in in_state(c, 16) \cup in_state(c, 15) :
              /\ h \in {"remote"} \X Nat
              /\ c.htlcs[h].r \in {"none", "fulfill", "fail"}
      BY <2>1, InState
    <2>3. QED
      BY <2>2 DEF RemoveMsg, AddMsg, FeeMsg, CommitMsg
  <1>18. ~Has(x, OfType("revoke"))
    BY <1>4, <1>5, <1>17 DEF OfType
  <1>19. ASSUME NEW k
         PROVE  /\ Has(x, RemoveOf(k)) => <<"remote", k>> \in in_state(c, 16)
                /\ Has(w, RemoveOf(k)) => <<"remote", k>> \in in_state(c, 15)
    <2>1. \A e \in RemoveOf(k) : e.id = k /\ e.type \in {"fulfill", "fail"}
      BY DEF RemoveOf
    <2>2. ASSUME NEW h \in in_state(c, 16) \cup in_state(c, 15), RemoveMsg(c, h) \in RemoveOf(k)
          PROVE  h = <<"remote", k>>
      <3>1. h[2] = k /\ h = <<"remote", h[2]>>
        BY <1>17, <2>1, <2>2
      <3>2. QED
        BY <3>1
    <2>3. ASSUME Has(x, RemoveOf(k))
          PROVE  <<"remote", k>> \in in_state(c, 16)
      <3>1. Has(R, RemoveOf(k))
        BY <1>5, <2>3
      <3>2. PICK h \in d.lastSent \cap in_state(c, 16) : RemoveMsg(c, h) \in RemoveOf(k)
        <4>1. /\ \A h : AddMsg(c, h) \notin RemoveOf(k)
              /\ FeeMsg(c) \notin RemoveOf(k) /\ CommitMsg(n, c, p.nextR - 1) \notin RemoveOf(k)
          BY <1>17, <2>1
        <4>2. QED
          BY <1>4, <3>1, <4>1
      <3>3. QED
        BY <2>2, <3>2
    <2>4. ASSUME Has(w, RemoveOf(k))
          PROVE  <<"remote", k>> \in in_state(c, 15)
      BY <1>10, <2>2, <2>4
    <2>5. QED
      BY <2>3, <2>4
  <1>20. \A k : /\ ~Has(y, AddOf(k)) /\ ~Has(z, AddOf(k)) /\ ~Has(w, AddOf(k))
                /\ ~Has(y, RemoveOf(k)) /\ ~Has(z, RemoveOf(k))
    BY <1>7, <1>9, <1>10, <1>16
  <1>21. /\ ~Has(y, OfType("commit")) /\ ~Has(z, OfType("commit")) /\ ~Has(w, OfType("commit"))
         /\ ~Has(z, OfType("revoke")) /\ ~Has(w, OfType("revoke"))
         /\ ~Has(y, OfType("fee")) /\ ~Has(z, OfType("fee")) /\ ~Has(w, OfType("fee"))
    BY <1>7, <1>9, <1>10
  <1>22. One(out, OfType("commit")) /\ One(out, OfType("revoke"))
    BY <1>5, <1>7, <1>11, <1>12, <1>13, <1>15, <1>18, <1>21
  <1>23. ASSUME NEW k
         PROVE  One(out, AddOf(k)) /\ One(out, RemoveOf(k))
    <2>1. \A h : ~(h \in in_state(c, 15) /\ h \in in_state(c, 16))
      BY DEF in_state
    <2>2. One(u, AddOf(k)) /\ One(u, RemoveOf(k))
      BY <1>5, <1>7, <1>11, <1>20
    <2>3. One(v, AddOf(k)) /\ One(v, RemoveOf(k))
      BY <1>9, <1>12, <1>20, <2>2
    <2>4. ~(Has(v, RemoveOf(k)) /\ Has(w, RemoveOf(k)))
      BY <1>11, <1>12, <1>19, <1>20, <2>1
    <2>5. QED
      BY <1>10, <1>13, <1>15, <1>20, <2>3, <2>4
  <1>24. ASSUME NEW S, \A e \in S : e.type \notin {"commit", "revoke", "shutdown"}, ~Has(w, S)
         PROVE  Before(out, S, OfType("commit"))
    <2>1. ~Has(y, S) /\ ~Has(z, S)
      BY <1>6, <1>7, <1>8, <1>9, <1>24
    <2>2. Before(x, S, OfType("commit"))
      BY <1>5, <1>24
    <2>3. Before(u, S, OfType("commit"))
      BY <1>11, <1>15, <1>21, <2>1, <2>2
    <2>4. Before(v, S, OfType("commit"))
      BY <1>12, <1>15, <1>21, <2>1, <2>3
    <2>5. QED
      BY <1>13, <1>15, <1>21, <1>24, <2>4
  <1>25. \A k : Before(out, AddOf(k), OfType("commit"))
    <2>1. TAKE k
    <2>2. \A e \in AddOf(k) : e.type \notin {"commit", "revoke", "shutdown"}
      BY DEF AddOf
    <2>3. QED
      BY <1>20, <1>24, <2>2
  <1>26. Before(out, OfType("fee"), OfType("commit"))
    <2>1. \A e \in OfType("fee") : e.type \notin {"commit", "revoke", "shutdown"}
      BY DEF OfType
    <2>2. QED
      BY <1>21, <1>24, <2>1
  <1>27. ASSUME NEW k, <<"remote", k>> \notin in_state(c, 15)
         PROVE  Before(out, RemoveOf(k), OfType("commit"))
    <2>1. \A e \in RemoveOf(k) : e.type \notin {"commit", "revoke", "shutdown"}
      BY DEF RemoveOf
    <2>2. QED
      BY <1>19, <1>24, <1>27, <2>1
  <1>28. ASSUME NEW k, <<"remote", k>> \notin in_state(c, 16)
         PROVE  Before(out, OfType("commit"), RemoveOf(k))
    <2>1. ~Has(v, RemoveOf(k))
      BY <1>11, <1>12, <1>19, <1>20, <1>28
    <2>2. QED
      BY <1>13, <1>15, <1>21, <2>1
  <1>29. /\ d.wasRevoke => Before(out, OfType("commit"), OfType("revoke"))
         /\ ~d.wasRevoke => Before(out, OfType("revoke"), OfType("commit"))
    <2>1. /\ d.wasRevoke => Before(u, OfType("commit"), OfType("revoke"))
          /\ ~d.wasRevoke => Before(u, OfType("revoke"), OfType("commit"))
      BY <1>11, <1>15, <1>18, <1>21
    <2>2. /\ d.wasRevoke => Before(v, OfType("commit"), OfType("revoke"))
          /\ ~d.wasRevoke => Before(v, OfType("revoke"), OfType("commit"))
      BY <1>12, <1>15, <1>21, <2>1
    <2>3. QED
      BY <1>13, <1>15, <1>21, <2>2
  <1>30. QED
    BY <1>13, <1>14, <1>22, <1>23, <1>25, <1>26, <1>27, <1>28, <1>29 DEF out, again

-----------------------------------------------------------------------------
(* The state of a node and the messages on their way to it.                 *)
Node(n) == [c |-> chan[n], p |-> peer[n], d |-> db[n], q |-> net[n], g |-> signed[n]]

NodeType(n, x) ==
    /\ GoodChan(x.c) /\ x.c.opener = OpenerSide(n)
    /\ x.p \in PeerRecs
    /\ x.d \in DbRecs /\ x.d.fee[last_fee_state(OpenerSide(n))] # 0
    /\ x.q \in Seq(Msgs)
    /\ x.g \in Txs

BudgetRecs == [htlcs : [Nodes -> Nat], rates : Seq(Nat \ {0}), cuts : Nat,
               closers : SUBSET Nodes]

(* The variables are functions on the nodes; what they hold. *)
Shape ==
    /\ chan = [n \in Nodes |-> chan[n]] /\ peer = [n \in Nodes |-> peer[n]]
    /\ db = [n \in Nodes |-> db[n]] /\ net = [n \in Nodes |-> net[n]]
    /\ signed = [n \in Nodes |-> signed[n]]
    /\ pipe \in [Nodes -> PipeRecs]
    /\ target \in Nat \ {0}
    /\ budget \in BudgetRecs

TypeInv == Shape /\ \A n \in Nodes : NodeType(n, Node(n))

-----------------------------------------------------------------------------
(* What a step of n makes of its state x, and what it sends; without the    *)
(* fields that no invariant is about.                                       *)

PeerKeeps(p, p2) ==
    /\ p2 \in PeerRecs
    /\ p2.nextL = p.nextL /\ p2.nextR = p.nextR /\ p2.revs = p.revs
    /\ p2.htlcId = p.htlcId
DbKeeps(d, d2) ==
    /\ d2 \in DbRecs
    /\ d2.htlcs = d.htlcs /\ d2.fee = d.fee /\ d2.our = d.our
    /\ d2.nextL = d.nextL /\ d2.nextR = d.nextR /\ d2.revs = d.revs
    /\ d2.wasRevoke = d.wasRevoke /\ d2.lastSent = d.lastSent /\ d2.htlcId = d.htlcId

(* The main loop goes on, or ends with nothing left in the channel. *)
Goes(p2, c2) ==
    \/ p2.phase = "run"
    \/ p2.phase = "closing" /\ DOMAIN c2.htlcs = {} /\ p2.revs = p2.nextR - 1

ShutdownMsgs == {<< >>, <<ShutdownMsg>>}

Quiet(n, x, y, out) ==
    /\ y.c = x.c /\ y.g = x.g
    /\ PeerKeeps(x.p, y.p) /\ (y.p.phase = x.p.phase \/ (x.p.phase = "run" /\ Goes(y.p, y.c)))
    /\ DbKeeps(x.d, y.d)
    /\ y.q = x.q \/ /\ x.q # << >> /\ y.q = Tail(x.q) /\ Head(x.q).type = "shutdown"
                    /\ x.p.phase \in {"run", "closing"}
    /\ out = << >> \/ (x.p.phase = "run" /\ out \in ShutdownMsgs)

Offers(n, x, y, out) ==
    /\ x.p.phase = "run" /\ y.p.phase = "run"
    /\ \E a \in Nat :
         /\ y.c = new_htlc(x.c, "local", x.p.htlcId, a)
         /\ out = <<[type |-> "add", id |-> x.p.htlcId, amount |-> a]>>
    /\ <<"local", x.p.htlcId>> \notin DOMAIN x.c.htlcs
    /\ y.p \in PeerRecs /\ y.p.htlcId = x.p.htlcId + 1
    /\ y.p.nextL = x.p.nextL /\ y.p.nextR = x.p.nextR /\ y.p.revs = x.p.revs
    /\ y.d = x.d /\ y.q = x.q /\ y.g = x.g

(* lightningd settles an HTLC in its database, and channeld hears of it. *)
SavesResolution(n, x, y, out) ==
    /\ x.p.phase # "down"
    /\ \E h \in DOMAIN x.d.htlcs, r \in {"fulfill", "fail"} :
         /\ x.d.htlcs[h].state = RCVD_ADD_ACK_REVOCATION
         /\ y.d = [x.d EXCEPT !.htlcs = [@ EXCEPT ![h] =
                     [x.d.htlcs[h] EXCEPT !.state = SENT_REMOVE_HTLC, !.r = r]]]
    /\ y.c = x.c /\ y.p = x.p /\ y.q = x.q /\ y.g = x.g /\ out = << >>
Resolves(n, x, y, out) ==
    /\ x.p.phase = "run" /\ y.p.phase = "run"
    /\ \E h \in DOMAIN x.d.htlcs :
         /\ x.d.htlcs[h].state = SENT_REMOVE_HTLC
         /\ h \in DOMAIN x.c.htlcs
         /\ State(x.c, h) < SENT_REMOVE_HTLC
         /\ y.c = remove_htlc(x.c, h, x.d.htlcs[h].r)
         /\ out = <<[type |-> x.d.htlcs[h].r, id |-> h[2]]>>
    /\ PeerKeeps(x.p, y.p)
    /\ y.d = x.d /\ y.q = x.q /\ y.g = x.g

(* The update reads the message at the head of the queue. *)
Reads(x, y, type) ==
    /\ x.p.phase = "run" /\ x.q # << >> /\ Head(x.q).type = type /\ y.q = Tail(x.q)
GotAdd(n, x, y, out) ==
    /\ Reads(x, y, "add")
    /\ y.c = new_htlc(x.c, "remote", Head(x.q).id, Head(x.q).amount)
    /\ y.p = x.p /\ y.d = x.d /\ y.g = x.g /\ out = << >>
GotRemove(n, x, y, out) ==
    /\ Reads(x, y, "fulfill") \/ Reads(x, y, "fail")
    /\ LET h == <<"local", Head(x.q).id>>
       IN  IF remove_htlc_ok(x.c, h) THEN y.c = remove_htlc(x.c, h, Head(x.q).type)
           ELSE y.c = x.c
    /\ PeerKeeps(x.p, y.p) /\ y.p.phase = "run"
    /\ y.d = x.d /\ y.g = x.g /\ out = << >>
GotFee(n, x, y, out) ==
    /\ Reads(x, y, "fee")
    /\ y.c = channel_update_feerate(x.c, Head(x.q).rate)
    /\ y.p = x.p /\ y.d = x.d /\ y.g = x.g /\ out = << >>

(* The channel with the fee update the next commitment brings, if any. *)
FeeUpdated(c, c1) ==
    \/ c1 = c
    \/ /\ c.opener = "local" /\ feerate_changes_done(c.fee)
       /\ \E r \in Nat \ {0} : c1 = channel_update_feerate(c, r)
FeeMsgs(c, c1) ==
    IF c1 = c THEN << >>
    ELSE <<[type |-> "fee", rate |-> c1.fee[first_fee_state("local")]]>>
SendsCommit(n, x, y, out) ==
    /\ x.p.phase = "run" /\ y.p.phase = "run" /\ x.p.revs = x.p.nextR - 1
    /\ \E c1, d1, s :
         /\ FeeUpdated(x.c, c1) /\ DbKeeps(x.d, d1) /\ s \in ShutdownMsgs
         /\ any_change(c1, sending_commit_states)
         /\ y.c = channel_sending_commit(c1)
         /\ y.d = peer_sending_commitsig(d1, y.c, c1, moving(c1, sending_commit_states))
         /\ out = FeeMsgs(x.c, c1) \o <<CommitMsg(n, y.c, x.p.nextR)>> \o s
    /\ y.p \in PeerRecs /\ y.p.nextR = x.p.nextR + 1
    /\ y.p.nextL = x.p.nextL /\ y.p.revs = x.p.revs /\ y.p.htlcId = x.p.htlcId
    /\ y.q = x.q /\ y.g = CommitTx(n, y.c, "remote", x.p.nextR)

GotCommit(n, x, y, out) ==
    /\ Reads(x, y, "commit")
    /\ y.c = channel_sending_revoke_and_ack(channel_rcvd_commit(x.c))
    /\ \E d1 : DbKeeps(x.d, d1)
               /\ y.d = peer_got_commitsig(d1, y.c, x.c, moving(x.c, rcvd_commit_states))
    /\ out = <<RevokeMsg(x.p.nextL - 1)>>
    /\ y.p \in PeerRecs /\ y.p.nextL = x.p.nextL + 1
    /\ y.p.nextR = x.p.nextR /\ y.p.revs = x.p.revs /\ y.p.htlcId = x.p.htlcId
    /\ Goes(y.p, y.c) /\ y.g = x.g
GotRevoke(n, x, y, out) ==
    /\ Reads(x, y, "revoke")
    /\ y.c = channel_rcvd_revoke_and_ack(x.c)
    /\ \E d1 : DbKeeps(x.d, d1)
               /\ y.d = peer_got_revoke(d1, y.c, x.c, moving(x.c, rcvd_revoke_states))
    /\ out = << >>
    /\ y.p \in PeerRecs /\ y.p.revs = x.p.revs + 1
    /\ y.p.nextL = x.p.nextL /\ y.p.nextR = x.p.nextR /\ y.p.htlcId = x.p.htlcId
    /\ Goes(y.p, y.c) /\ y.g = x.g

Answers(n, x, y, out) ==
    /\ x.p.phase = "reestablish" /\ x.q # << >> /\ y.q = Tail(x.q)
    /\ out = Answer(n, x.c, x.p, x.d, Head(x.q))
    /\ PeerKeeps(x.p, y.p) /\ Goes(y.p, y.c)
    /\ y.c = x.c /\ y.d = x.d /\ y.g = x.g

NodeStep(n, x, y, out) ==
    \/ Quiet(n, x, y, out) \/ Offers(n, x, y, out) \/ SavesResolution(n, x, y, out)
    \/ Resolves(n, x, y, out) \/ GotAdd(n, x, y, out) \/ GotRemove(n, x, y, out)
    \/ GotFee(n, x, y, out) \/ SendsCommit(n, x, y, out) \/ GotCommit(n, x, y, out)
    \/ GotRevoke(n, x, y, out) \/ Answers(n, x, y, out)

(* The other node's state when it is only sent something. *)
Hears(x, y, out) ==
    /\ y.c = x.c /\ y.p = x.p /\ y.d = x.d /\ y.g = x.g /\ y.q = x.q \o out

(* Both nodes lose the connection, or open a new one. *)
Breaks(n, x, y) ==
    /\ y.c = RestoredChannel(n, x.d) /\ y.p = RestoredPeer(n, x.d, "down")
    /\ y.d = x.d /\ y.q = << >> /\ y.g = x.g
Reopens(x, y, z) ==
    /\ x.p.phase = "down"
    /\ y.c = x.c /\ y.p = [x.p EXCEPT !.phase = "reestablish"]
    /\ y.d = x.d /\ y.q = <<reestablish(z.p)>> /\ y.g = x.g

(* Every step is one of these. *)
Steps3 ==
    \/ \E n \in Nodes : \E out \in Seq(Msgs) :
         NodeStep(n, Node(n), Node(n)', out) /\ Hears(Node(Peer(n)), Node(Peer(n))', out)
    \/ \A n \in Nodes : Breaks(n, Node(n), Node(n)')
    \/ \A n \in Nodes : Reopens(Node(n), Node(n)', Node(Peer(n)))
    \/ \A n \in Nodes : Node(n)' = Node(n)

(* The two nodes. *)
LEMMA TwoNodes ==
    \A n \in Nodes : /\ Peer(n) \in Nodes /\ Peer(n) # n /\ Peer(Peer(n)) = n
                     /\ \A m \in Nodes : m = n \/ m = Peer(n)
  BY ChanneldAssumption DEF Nodes, Peer

(* A step of n. *)
Acts(n) ==
    \E out \in Seq(Msgs) :
       NodeStep(n, Node(n), Node(n)', out) /\ Hears(Node(Peer(n)), Node(Peer(n))', out)

(* What it takes to be one. *)
LEMMA ActsIntro ==
    ASSUME TypeInv, NEW n \in Nodes, NEW out \in Seq(Msgs),
           NodeStep(n, Node(n), Node(n)', out),
           chan'[Peer(n)] = chan[Peer(n)], peer'[Peer(n)] = peer[Peer(n)],
           db'[Peer(n)] = db[Peer(n)], signed'[Peer(n)] = signed[Peer(n)],
           net'[Peer(n)] = net[Peer(n)] \o out
    PROVE  Acts(n)
  BY DEF Acts, Hears, Node

(* Nothing sent. *)
LEMMA NothingSent ==
    ASSUME TypeInv
    PROVE  /\ << >> \in Seq(Msgs)
           /\ \A n \in Nodes : net[n] = net[n] \o << >> /\ net[n] \in Seq(Msgs)
  <1>1. \A n \in Nodes : net[n] \in Seq(Msgs)
    BY DEF TypeInv, NodeType, Node
  <1>2. \A q \in Seq(Msgs) : q \o << >> = q
    OBVIOUS
  <1>3. QED
    BY <1>1, <1>2

(* channeld offers an HTLC. *)
LEMMA OfferActs ==
    ASSUME TypeInv, NEW n \in Nodes, handle_offer_htlc(n)
    PROVE  Acts(n)
  <1> DEFINE x == Node(n)
             y == Node(n)'
             a == pipe[n].offer
             m == [type |-> "add", id |-> peer[n].htlcId, amount |-> a]
  <1>1. a \in Nat /\ peer[n] \in PeerRecs
    BY DEF TypeInv, Shape, PipeRecs, NodeType, Node
  <1>2. Peer(n) # n /\ Peer(n) \in Nodes
    BY TwoNodes
  <1>3. CASE add_htlc_ok(chan[n], "local", peer[n].htlcId, a)
    <2>1. /\ chan' = [chan EXCEPT ![n] = new_htlc(chan[n], "local", peer[n].htlcId, a)]
          /\ peer' = [peer EXCEPT ![n].htlcId = peer[n].htlcId + 1, ![n].timer = TRUE]
          /\ net' = [net EXCEPT ![Peer(n)] = net[Peer(n)] \o <<m>>]
          /\ db' = db /\ signed' = signed /\ peer[n].phase = "run"
      BY <1>3 DEF handle_offer_htlc, Send, Running
    <2>2. <<"local", peer[n].htlcId>> \notin DOMAIN chan[n].htlcs
      BY <1>3 DEF add_htlc_ok
    <2>3. /\ chan'[n] = new_htlc(chan[n], "local", peer[n].htlcId, a)
          /\ chan'[Peer(n)] = chan[Peer(n)]
          /\ peer'[n] = [peer[n] EXCEPT !.htlcId = peer[n].htlcId + 1, !.timer = TRUE]
          /\ peer'[Peer(n)] = peer[Peer(n)]
          /\ net'[n] = net[n] /\ net'[Peer(n)] = net[Peer(n)] \o <<m>>
      BY <1>2, <2>1 DEF TypeInv, Shape
    <2>4. /\ peer'[n] \in PeerRecs /\ peer'[n].htlcId = peer[n].htlcId + 1
          /\ peer'[n].nextL = peer[n].nextL /\ peer'[n].nextR = peer[n].nextR
          /\ peer'[n].revs = peer[n].revs /\ peer'[n].phase = peer[n].phase
      <3>1. peer[n].htlcId + 1 \in Nat
        BY <1>1 DEF PeerRecs
      <3>2. QED
        BY <1>1, <2>3, <3>1 DEF PeerRecs
    <2>5. Offers(n, x, y, <<m>>)
      BY <1>1, <2>1, <2>2, <2>3, <2>4 DEF Offers, Node
    <2>6. <<m>> \in Seq(Msgs)
      BY <1>1, MsgAdd, OneQueued DEF PeerRecs
    <2>7. QED
      BY <2>1, <2>3, <2>5, <2>6, ActsIntro DEF NodeStep
  <1>4. CASE ~add_htlc_ok(chan[n], "local", peer[n].htlcId, a)
    <2>1. UNCHANGED <<chan, peer, net, db, signed>>
      BY <1>4 DEF handle_offer_htlc
    <2>2. Quiet(n, x, y, << >>)
      BY <1>1, <2>1 DEF Quiet, Node, PeerKeeps, DbKeeps, TypeInv, NodeType
    <2>3. QED
      BY <2>1, <2>2, ActsIntro, NothingSent, TwoNodes DEF NodeStep
  <1>5. QED
    BY <1>3, <1>4

(* channeld's main loop, its shutdown message, and lightningd's report. *)
LEMMA LoopGoes ==
    ASSUME NEW p \in PeerRecs, NEW c, GoodChan(c), p.phase = "run"
    PROVE  /\ PeerKeeps(p, MainLoop(p, c)) /\ Goes(MainLoop(p, c), c)
  <1>1. CASE shutdown_complete(p, c)
    <2>1. MainLoop(p, c) = [p EXCEPT !.phase = "closing"]
      BY <1>1 DEF MainLoop
    <2>2. DOMAIN c.htlcs = {} /\ p.revs = p.nextR - 1
      <3>1. IsFiniteSet(DOMAIN c.htlcs)
        BY HtlcMapElim DEF GoodChan, ChanRecs
      <3>2. QED
        BY <1>1, <3>1, FS_EmptySet DEF shutdown_complete, num_channel_htlcs
    <2>3. QED
      BY <2>1, <2>2 DEF PeerRecs, PeerKeeps, Goes
  <1>2. CASE ~shutdown_complete(p, c)
    BY <1>2 DEF MainLoop, PeerKeeps, Goes
  <1>3. QED
    BY <1>1, <1>2

(* The commit timer is started. *)
LEMMA TimerStarts ==
    \A p \in PeerRecs : /\ PeerKeeps(p, [p EXCEPT !.timer = TRUE])
                        /\ [p EXCEPT !.timer = TRUE].phase = p.phase
  BY DEF PeerKeeps, PeerRecs

(* maybe_send_shutdown() sends one message and moves no number. *)
LEMMA ShutdownSent ==
    ASSUME NEW p \in PeerRecs
    PROVE  /\ shutdown_msgs(p) \in ShutdownMsgs /\ ShutdownMsgs \subseteq Seq(Msgs)
           /\ PeerKeeps(p, maybe_send_shutdown(p))
           /\ maybe_send_shutdown(p).phase = p.phase
  <1>1. ShutdownMsgs \subseteq Seq(Msgs)
    <2>1. <<ShutdownMsg>> \in Seq(Msgs) /\ << >> \in Seq(Msgs)
      BY MsgShutdown, OneQueued DEF ShutdownMsg
    <2>2. QED
      BY <2>1 DEF ShutdownMsgs
  <1>2. shutdown_msgs(p) \in ShutdownMsgs
    BY DEF shutdown_msgs, ShutdownMsgs, ShutdownMsg
  <1>3. PeerKeeps(p, maybe_send_shutdown(p)) /\ maybe_send_shutdown(p).phase = p.phase
    BY DEF PeerKeeps, maybe_send_shutdown, PeerRecs
  <1>4. QED
    BY <1>1, <1>2, <1>3

(* A report of a shutdown leaves the rest of the row alone. *)
LEMMA ReportKeeps ==
    ASSUME TypeInv, NEW n \in Nodes
    PROVE  DbKeeps(db[n], Reported(n))
  <1>1. db[n] \in DbRecs
    BY DEF TypeInv, NodeType, Node
  <1>2. QED
    BY <1>1 DEF Reported, peer_got_shutdown, DbKeeps, DbRecs

(* A step that leaves the channel alone. *)
LEMMA QuietActs ==
    ASSUME TypeInv, NEW n \in Nodes, NEW out, out \in ShutdownMsgs,
           out = << >> \/ peer[n].phase = "run",
           chan' = chan, signed' = signed,
           peer'[Peer(n)] = peer[Peer(n)], db'[Peer(n)] = db[Peer(n)],
           PeerKeeps(peer[n], peer'[n]), DbKeeps(db[n], db'[n]),
           peer'[n].phase = peer[n].phase
             \/ (peer[n].phase = "run" /\ Goes(peer'[n], chan[n])),
           net'[n] = net[n] \/ /\ net[n] # << >> /\ net'[n] = Tail(net[n])
                               /\ Head(net[n]).type = "shutdown"
                               /\ peer[n].phase \in {"run", "closing"},
           net'[Peer(n)] = net[Peer(n)] \o out
    PROVE  Acts(n)
  <1>1. out \in Seq(Msgs)
    <2>1. peer[n] \in PeerRecs
      BY DEF TypeInv, NodeType, Node
    <2>2. QED
      BY <2>1, ShutdownSent
  <1>2. Quiet(n, Node(n), Node(n)', out)
    BY DEF Quiet, Node
  <1>3. QED
    BY <1>1, <1>2, ActsIntro DEF NodeStep

(* The commands that leave the channel alone, and what lightningd does.     *)
LEMMA QuietSteps ==
    ASSUME TypeInv, NEW n \in Nodes,
           \/ handle_feerates(n) \/ LightningdClose(n) \/ handle_shutdown_cmd(n)
           \/ send_commit_not_now(n) \/ LightningdGotShutdown(n)
    PROVE  Acts(n)
  <1>1. /\ Peer(n) # n /\ Peer(n) \in Nodes
        /\ peer[n] \in PeerRecs /\ db[n] \in DbRecs /\ target \in Nat \ {0}
    BY TwoNodes DEF TypeInv, Shape, NodeType, Node
  <1>2. /\ << >> \in ShutdownMsgs /\ net[Peer(n)] = net[Peer(n)] \o << >>
        /\ PeerKeeps(peer[n], peer[n]) /\ DbKeeps(db[n], db[n])
    BY <1>1, NothingSent DEF ShutdownMsgs, PeerKeeps, DbKeeps
  <1>3. CASE handle_feerates(n)
    <2>1. /\ chan' = chan /\ signed' = signed /\ db' = db /\ net' = net
          /\ peer' = [peer EXCEPT ![n].desired = target,
                  ![n].timer = peer[n].timer \/ peer[n].nextL # 1 \/ peer[n].nextR # 1]
      BY <1>3 DEF handle_feerates
    <2> DEFINE t == peer[n].timer \/ peer[n].nextL # 1 \/ peer[n].nextR # 1
    <2>2. t \in BOOLEAN
      OBVIOUS
    <2> HIDE DEF t
    <2>3. /\ peer'[n] = [peer[n] EXCEPT !.desired = target, !.timer = t]
          /\ peer'[Peer(n)] = peer[Peer(n)]
      BY <1>1, <2>1 DEF TypeInv, Shape, t
    <2>4. PeerKeeps(peer[n], peer'[n]) /\ peer'[n].phase = peer[n].phase
      BY <1>1, <2>2, <2>3 DEF PeerKeeps, PeerRecs
    <2>5. QED
      BY <1>2, <2>1, <2>3, <2>4, QuietActs
  <1>4. CASE LightningdClose(n)
    <2>1. /\ chan' = chan /\ signed' = signed /\ peer' = peer /\ net' = net
          /\ db' = [db EXCEPT ![n].shutting = TRUE]
      BY <1>4 DEF LightningdClose
    <2>2. /\ db'[n] = [db[n] EXCEPT !.shutting = TRUE] /\ db'[Peer(n)] = db[Peer(n)]
      BY <1>1, <2>1 DEF TypeInv, Shape
    <2>3. DbKeeps(db[n], db'[n])
      BY <1>1, <2>2 DEF DbKeeps, DbRecs
    <2>4. QED
      BY <1>2, <2>1, <2>2, <2>3, QuietActs
  <1>5. CASE handle_shutdown_cmd(n)
    <2>1. /\ chan' = chan /\ signed' = signed /\ db' = db /\ net' = net
          /\ peer' = [peer EXCEPT ![n].sendShut = TRUE, ![n].timer = TRUE]
      BY <1>5 DEF handle_shutdown_cmd
    <2>2. /\ peer'[n] = [peer[n] EXCEPT !.sendShut = TRUE, !.timer = TRUE]
          /\ peer'[Peer(n)] = peer[Peer(n)]
      BY <1>1, <2>1 DEF TypeInv, Shape
    <2>3. PeerKeeps(peer[n], peer'[n]) /\ peer'[n].phase = peer[n].phase
      BY <1>1, <2>2 DEF PeerKeeps, PeerRecs
    <2>4. QED
      BY <1>2, <2>1, <2>2, <2>3, QuietActs
  <1>6. CASE send_commit_not_now(n)
    <2>1. /\ chan' = chan /\ signed' = signed /\ db' = db /\ net' = net
          /\ peer' = [peer EXCEPT ![n].timer = FALSE]
      BY <1>6 DEF send_commit_not_now
    <2>2. /\ peer'[n] = [peer[n] EXCEPT !.timer = FALSE]
          /\ peer'[Peer(n)] = peer[Peer(n)]
      BY <1>1, <2>1 DEF TypeInv, Shape
    <2>3. PeerKeeps(peer[n], peer'[n]) /\ peer'[n].phase = peer[n].phase
      BY <1>1, <2>2 DEF PeerKeeps, PeerRecs
    <2>4. QED
      BY <1>2, <2>1, <2>2, <2>3, QuietActs
  <1>7. CASE LightningdGotShutdown(n)
    <2>1. /\ chan' = chan /\ signed' = signed /\ peer' = peer /\ net' = net
          /\ db' = [db EXCEPT ![n] = Reported(n)]
      BY <1>7 DEF LightningdGotShutdown
    <2>2. /\ db'[n] = Reported(n) /\ db'[Peer(n)] = db[Peer(n)]
      BY <1>1, <2>1 DEF TypeInv, Shape
    <2>3. DbKeeps(db[n], db'[n])
      BY <2>2, ReportKeeps
    <2>4. QED
      BY <1>2, <2>1, <2>2, <2>3, QuietActs
  <1>8. QED
    BY <1>3, <1>4, <1>5, <1>6, <1>7

(* A commit timer with nothing to commit, and a shutdown received. *)
LEMMA ShutdownSteps ==
    ASSUME TypeInv, NEW n \in Nodes,
           send_commit_nothing(n) \/ handle_peer_shutdown(n)
    PROVE  Acts(n)
  <1>1. /\ Peer(n) # n /\ Peer(n) \in Nodes
        /\ peer[n] \in PeerRecs /\ db[n] \in DbRecs /\ GoodChan(chan[n])
    BY TwoNodes DEF TypeInv, Shape, NodeType, Node
  <1>2. /\ << >> \in ShutdownMsgs /\ net[Peer(n)] = net[Peer(n)] \o << >>
        /\ DbKeeps(db[n], db[n])
    BY <1>1, NothingSent DEF ShutdownMsgs, DbKeeps
  <1>3. CASE send_commit_nothing(n)
    <2> DEFINE p2 == [maybe_send_shutdown(peer[n]) EXCEPT !.timer = FALSE]
               out == shutdown_msgs(peer[n])
    <2>1. /\ chan' = chan /\ signed' = signed /\ db' = db /\ peer[n].phase = "run"
          /\ peer' = [peer EXCEPT ![n] = MainLoop(p2, chan[n])]
          /\ net' = [net EXCEPT ![Peer(n)] = net[Peer(n)] \o out]
      BY <1>3 DEF send_commit_nothing, Send, Running
    <2>2. /\ p2 \in PeerRecs /\ PeerKeeps(peer[n], p2) /\ p2.phase = "run"
          /\ out \in ShutdownMsgs
      BY <1>1, <2>1, ShutdownSent DEF PeerKeeps, PeerRecs
    <2> HIDE DEF p2, out
    <2>3. PeerKeeps(p2, MainLoop(p2, chan[n])) /\ Goes(MainLoop(p2, chan[n]), chan[n])
      BY <1>1, <2>2, LoopGoes
    <2>4. /\ peer'[n] = MainLoop(p2, chan[n]) /\ peer'[Peer(n)] = peer[Peer(n)]
          /\ net'[n] = net[n] /\ net'[Peer(n)] = net[Peer(n)] \o out
      BY <1>1, <2>1 DEF TypeInv, Shape
    <2>5. PeerKeeps(peer[n], peer'[n])
      BY <2>2, <2>3, <2>4 DEF PeerKeeps
    <2>6. QED
      BY <1>2, <2>1, <2>2, <2>3, <2>4, <2>5, QuietActs
  <1>4. CASE handle_peer_shutdown(n)
    <2> DEFINE p == peer[n]
               a == p.sendShut \/ ~p.shutL
               b == p.timer \/ ~p.shutL
               p2 == [p EXCEPT !.shutR = TRUE, !.sendShut = a, !.timer = b]
    <2>1. /\ chan' = chan /\ signed' = signed /\ db' = db /\ peer[n].phase = "run"
          /\ net[n] # << >> /\ Head(net[n]).type = "shutdown"
          /\ peer' = [peer EXCEPT ![n] = MainLoop(p2, chan[n])]
          /\ net' = [net EXCEPT ![n] = Tail(net[n]), ![Peer(n)] = net[Peer(n)] \o << >>]
      BY <1>4 DEF handle_peer_shutdown, Reply, Receives, Running
    <2>2. a \in BOOLEAN /\ b \in BOOLEAN
      OBVIOUS
    <2> HIDE DEF a, b
    <2>3. /\ p2 \in PeerRecs /\ PeerKeeps(peer[n], p2) /\ p2.phase = "run"
      BY <1>1, <2>1, <2>2 DEF PeerKeeps, PeerRecs
    <2> HIDE DEF p2
    <2>4. PeerKeeps(p2, MainLoop(p2, chan[n])) /\ Goes(MainLoop(p2, chan[n]), chan[n])
      BY <1>1, <2>3, LoopGoes
    <2>5. /\ peer'[n] = MainLoop(p2, chan[n]) /\ peer'[Peer(n)] = peer[Peer(n)]
          /\ net'[n] = Tail(net[n]) /\ net'[Peer(n)] = net[Peer(n)] \o << >>
      BY <1>1, <2>1 DEF TypeInv, Shape
    <2>6. PeerKeeps(peer[n], peer'[n])
      BY <2>3, <2>4, <2>5 DEF PeerKeeps
    <2>7. QED
      BY <1>2, <2>1, <2>4, <2>5, <2>6, QuietActs
  <1>5. QED
    BY <1>3, <1>4

(* The connection breaks. *)
LEMMA BreakSteps ==
    ASSUME TypeInv, BreakConnection
    PROVE  \A n \in Nodes : Breaks(n, Node(n), Node(n)')
  BY DEF BreakConnection, Breaks, Node

(* closingd reads something. *)
LEMMA ClosingdSteps ==
    ASSUME TypeInv, NEW n \in Nodes, closingd_in(n)
    PROVE  Acts(n) \/ \A m \in Nodes : Breaks(m, Node(m), Node(m)')
  <1>1. /\ Peer(n) # n /\ Peer(n) \in Nodes
        /\ peer[n] \in PeerRecs /\ db[n] \in DbRecs
    BY TwoNodes DEF TypeInv, Shape, NodeType, Node
  <1>2. /\ << >> \in ShutdownMsgs
        /\ PeerKeeps(peer[n], peer[n]) /\ DbKeeps(db[n], db[n])
    BY <1>1 DEF ShutdownMsgs, PeerKeeps, DbKeeps
  <1>3. CASE Head(net[n]).type = "shutdown"
    <2>1. /\ chan' = chan /\ signed' = signed /\ db' = db /\ peer' = peer
          /\ peer[n].phase = "closing" /\ net[n] # << >>
          /\ net' = [net EXCEPT ![n] = Tail(net[n]), ![Peer(n)] = net[Peer(n)] \o << >>]
      BY <1>3 DEF closingd_in, Reply
    <2>2. net'[n] = Tail(net[n]) /\ net'[Peer(n)] = net[Peer(n)] \o << >>
      BY <1>1, <2>1 DEF TypeInv, Shape
    <2>3. QED
      BY <1>2, <1>3, <2>1, <2>2, QuietActs
  <1>4. CASE Head(net[n]).type # "shutdown"
    BY <1>4, BreakSteps DEF closingd_in
  <1>5. QED
    BY <1>3, <1>4

(* An HTLC settled, in the database and then in the channel. *)
LEMMA ResolveSteps ==
    ASSUME TypeInv, NEW n \in Nodes,
           LightningdResolveHtlc(n) \/ handle_resolution(n)
    PROVE  Acts(n)
  <1>1. /\ Peer(n) # n /\ Peer(n) \in Nodes
        /\ peer[n] \in PeerRecs /\ db[n] \in DbRecs /\ GoodChan(chan[n])
    BY TwoNodes DEF TypeInv, Shape, NodeType, Node
  <1>2. CASE LightningdResolveHtlc(n)
    <2>1. PICK h \in DOMAIN db[n].htlcs, r \in {"fulfill", "fail"} :
            /\ db[n].htlcs[h].state = RCVD_ADD_ACK_REVOCATION
            /\ db' = [db EXCEPT ![n].htlcs[h] =
                        [db[n].htlcs[h] EXCEPT !.state = SENT_REMOVE_HTLC, !.r = r]]
      BY <1>2 DEF LightningdResolveHtlc, may_resolve
    <2>2. chan' = chan /\ peer' = peer /\ net' = net /\ signed' = signed
          /\ peer[n].phase # "down"
      BY <1>2 DEF LightningdResolveHtlc
    <2> DEFINE row == [db[n].htlcs[h] EXCEPT !.state = SENT_REMOVE_HTLC, !.r = r]
    <2> HIDE DEF row
    <2>3. /\ db'[n] = [db[n] EXCEPT !.htlcs = [@ EXCEPT ![h] = row]]
          /\ db'[Peer(n)] = db[Peer(n)]
      <3>1. db' = [db EXCEPT ![n] = [db[n] EXCEPT !.htlcs = [db[n].htlcs EXCEPT ![h] = row]]]
        BY <1>1, <2>1 DEF row
      <3>2. QED
        BY <1>1, <3>1 DEF TypeInv, Shape
    <2>4. SavesResolution(n, Node(n), Node(n)', << >>)
      BY <2>1, <2>2, <2>3 DEF SavesResolution, Node, row
    <2>5. QED
      BY <1>1, <2>2, <2>3, <2>4, NothingSent, ActsIntro DEF NodeStep
  <1>3. CASE handle_resolution(n)
    <2>1. PICK h \in DOMAIN db[n].htlcs :
            /\ db[n].htlcs[h].state = SENT_REMOVE_HTLC
            /\ h \in DOMAIN chan[n].htlcs
            /\ State(chan[n], h) < SENT_REMOVE_HTLC
            /\ chan' = [chan EXCEPT ![n] = remove_htlc(chan[n], h, db[n].htlcs[h].r)]
            /\ net' = [net EXCEPT ![Peer(n)] =
                         net[Peer(n)] \o <<[type |-> db[n].htlcs[h].r, id |-> h[2]]>>]
      BY <1>3 DEF handle_resolution, Send
    <2> DEFINE m == [type |-> db[n].htlcs[h].r, id |-> h[2]]
    <2>2. peer' = [peer EXCEPT ![n].timer = TRUE] /\ db' = db /\ signed' = signed
          /\ peer[n].phase = "run"
      BY <1>3 DEF handle_resolution, Running
    <2>3. /\ chan'[n] = remove_htlc(chan[n], h, db[n].htlcs[h].r)
          /\ chan'[Peer(n)] = chan[Peer(n)]
          /\ peer'[n] = [peer[n] EXCEPT !.timer = TRUE] /\ peer'[Peer(n)] = peer[Peer(n)]
          /\ net'[n] = net[n] /\ net'[Peer(n)] = net[Peer(n)] \o <<m>>
      BY <1>1, <2>1, <2>2 DEF TypeInv, Shape
    <2>4. PeerKeeps(peer[n], peer'[n]) /\ peer'[n].phase = "run"
      BY <1>1, <2>2, <2>3, TimerStarts
    <2>5. Resolves(n, Node(n), Node(n)', <<m>>)
      BY <2>1, <2>2, <2>3, <2>4 DEF Resolves, Node
    <2>6. <<m>> \in Seq(Msgs)
      <3>1. db[n].htlcs \in HtlcMaps
        BY <1>1 DEF DbRecs
      <3>2. h \in HtlcKeys /\ db[n].htlcs[h] \in HtlcRecs
        BY <2>1, <3>1, HtlcMapElim
      <3>3. m \in Msgs
        BY <3>2, MsgRemove DEF HtlcKeys, HtlcRecs
      <3>4. QED
        BY <3>3, OneQueued
    <2>7. QED
      BY <2>2, <2>3, <2>5, <2>6, ActsIntro DEF NodeStep
  <1>4. QED
    BY <1>2, <1>3

(* Updates received. *)
LEMMA UpdateSteps ==
    ASSUME TypeInv, NEW n \in Nodes,
           \/ handle_peer_add_htlc(n) \/ handle_peer_remove_htlc(n)
           \/ handle_peer_feechange(n)
    PROVE  Acts(n)
  <1>1. /\ Peer(n) # n /\ Peer(n) \in Nodes
        /\ peer[n] \in PeerRecs /\ db[n] \in DbRecs /\ GoodChan(chan[n])
    BY TwoNodes DEF TypeInv, Shape, NodeType, Node
  <1>2. CASE handle_peer_add_htlc(n)
    <2>1. /\ chan' = [chan EXCEPT ![n] =
                         new_htlc(chan[n], "remote", Head(net[n]).id, Head(net[n]).amount)]
          /\ net' = [net EXCEPT ![n] = Tail(net[n]), ![Peer(n)] = net[Peer(n)] \o << >>]
          /\ peer' = peer /\ db' = db /\ signed' = signed
          /\ peer[n].phase = "run" /\ net[n] # << >> /\ Head(net[n]).type = "add"
      BY <1>2 DEF handle_peer_add_htlc, Reply, Receives, Running
    <2>2. /\ chan'[n] = new_htlc(chan[n], "remote", Head(net[n]).id, Head(net[n]).amount)
          /\ chan'[Peer(n)] = chan[Peer(n)]
          /\ net'[n] = Tail(net[n]) /\ net'[Peer(n)] = net[Peer(n)] \o << >>
      BY <1>1, <2>1 DEF TypeInv, Shape
    <2>3. GotAdd(n, Node(n), Node(n)', << >>)
      BY <2>1, <2>2 DEF GotAdd, Reads, Node
    <2>4. QED
      BY <2>1, <2>2, <2>3, NothingSent, ActsIntro DEF NodeStep
  <1>3. CASE handle_peer_remove_htlc(n)
    <2> DEFINE m == Head(net[n])
               h == <<"local", m.id>>
               c2 == IF remove_htlc_ok(chan[n], h) THEN remove_htlc(chan[n], h, m.type)
                     ELSE chan[n]
    <2>1. /\ chan' = [chan EXCEPT ![n] = c2]
          /\ net' = [net EXCEPT ![n] = Tail(net[n]), ![Peer(n)] = net[Peer(n)] \o << >>]
          /\ peer' = [peer EXCEPT ![n].timer = TRUE] /\ db' = db /\ signed' = signed
          /\ peer[n].phase = "run" /\ net[n] # << >> /\ m.type \in {"fulfill", "fail"}
      <3>1. CASE remove_htlc_ok(chan[n], h)
        BY <1>3, <3>1 DEF handle_peer_remove_htlc, Reply, Receives, Running
      <3>2. CASE ~remove_htlc_ok(chan[n], h)
        <4>1. chan' = chan
          BY <1>3, <3>2 DEF handle_peer_remove_htlc
        <4>2. chan = [chan EXCEPT ![n] = chan[n]]
          BY DEF TypeInv, Shape
        <4>3. QED
          BY <1>3, <3>2, <4>1, <4>2 DEF handle_peer_remove_htlc, Reply, Receives, Running
      <3>3. QED
        BY <3>1, <3>2
    <2>2. /\ chan'[n] = c2 /\ chan'[Peer(n)] = chan[Peer(n)]
          /\ net'[n] = Tail(net[n]) /\ net'[Peer(n)] = net[Peer(n)] \o << >>
          /\ peer'[n] = [peer[n] EXCEPT !.timer = TRUE] /\ peer'[Peer(n)] = peer[Peer(n)]
      BY <1>1, <2>1 DEF TypeInv, Shape
    <2>3. PeerKeeps(peer[n], peer'[n]) /\ peer'[n].phase = "run"
      BY <1>1, <2>1, <2>2, TimerStarts
    <2>4. GotRemove(n, Node(n), Node(n)', << >>)
      BY <2>1, <2>2, <2>3 DEF GotRemove, Reads, Node
    <2>5. QED
      BY <2>1, <2>2, <2>4, NothingSent, ActsIntro DEF NodeStep
  <1>4. CASE handle_peer_feechange(n)
    <2>1. /\ chan' = [chan EXCEPT ![n] = channel_update_feerate(chan[n], Head(net[n]).rate)]
          /\ net' = [net EXCEPT ![n] = Tail(net[n]), ![Peer(n)] = net[Peer(n)] \o << >>]
          /\ peer' = peer /\ db' = db /\ signed' = signed
          /\ peer[n].phase = "run" /\ net[n] # << >> /\ Head(net[n]).type = "fee"
      BY <1>4 DEF handle_peer_feechange, Reply, Receives, Running
    <2>2. /\ chan'[n] = channel_update_feerate(chan[n], Head(net[n]).rate)
          /\ chan'[Peer(n)] = chan[Peer(n)]
          /\ net'[n] = Tail(net[n]) /\ net'[Peer(n)] = net[Peer(n)] \o << >>
      BY <1>1, <2>1 DEF TypeInv, Shape
    <2>3. GotFee(n, Node(n), Node(n)', << >>)
      BY <2>1, <2>2 DEF GotFee, Reads, Node
    <2>4. QED
      BY <2>1, <2>2, <2>3, NothingSent, ActsIntro DEF NodeStep
  <1>5. QED
    BY <1>2, <1>3, <1>4

(* The channel that send_commit() commits. *)
LEMMA WithFeeUpdate ==
    ASSUME TypeInv, NEW n \in Nodes
    PROVE  /\ FeeUpdated(chan[n], with_fee_update(n))
           /\ GoodChan(with_fee_update(n))
           /\ with_fee_update(n).htlcs = chan[n].htlcs
           /\ with_fee_update(n).opener = chan[n].opener
           /\ with_fee_update(n).owed = chan[n].owed
  <1>1. /\ GoodChan(chan[n]) /\ chan[n].opener = OpenerSide(n) /\ peer[n].desired \in Nat \ {0}
    BY DEF TypeInv, NodeType, Node, PeerRecs
  <1> DEFINE r == fee_target(peer[n], chan[n])
  <1>2. r \in Nat \ {0}
    BY <1>1, FeeTarget
  <1> HIDE DEF r
  <1>3. CASE want_fee_update(n, peer[n], chan[n]) /\ feerate_changes_done(chan[n].fee)
    <2>1. with_fee_update(n) = channel_update_feerate(chan[n], r)
      BY <1>3 DEF with_fee_update, r
    <2>2. chan[n].opener = "local"
      BY <1>1, <1>3 DEF want_fee_update
    <2>3. FeeUpdated(chan[n], with_fee_update(n))
      BY <1>2, <1>3, <2>1, <2>2 DEF FeeUpdated
    <2>4. QED
      BY <1>1, <1>2, <2>1, <2>3, UpdateFeerate
  <1>4. CASE ~(want_fee_update(n, peer[n], chan[n]) /\ feerate_changes_done(chan[n].fee))
    <2>1. with_fee_update(n) = chan[n]
      BY <1>4 DEF with_fee_update
    <2>2. QED
      BY <1>1, <2>1 DEF FeeUpdated
  <1>5. QED
    BY <1>3, <1>4

(* The message that brings the fee update. *)
LEMMA FeeMsgsType ==
    ASSUME NEW c, GoodChan(c), NEW c1, FeeUpdated(c, c1)
    PROVE  FeeMsgs(c, c1) \in Seq(Msgs)
  <1>1. CASE c1 = c
    BY <1>1 DEF FeeMsgs
  <1>2. CASE c1 # c
    <2>1. PICK r \in Nat \ {0} : c1 = channel_update_feerate(c, r) /\ c.opener = "local"
      BY <1>2 DEF FeeUpdated
    <2>2. /\ first_fee_state("local") = 0 /\ first_fee_state(c.opener) = 0 /\ 0 \in HtlcStates
      BY <2>1 DEF first_fee_state, SENT_ADD_HTLC, HtlcStates
    <2>3. c1.fee[0] = r
      BY <2>1, <2>2, UpdateFeerate
    <2>4. FeeMsgs(c, c1) = <<[type |-> "fee", rate |-> r]>>
      BY <1>2, <2>2, <2>3 DEF FeeMsgs
    <2>5. QED
      BY <2>4, MsgFee, OneQueued
  <1>3. QED
    BY <1>1, <1>2

(* send_commit() *)
LEMMA CommitSteps ==
    ASSUME TypeInv, NEW n \in Nodes, send_commit(n)
    PROVE  Acts(n)
  <1> DEFINE p == peer[n]
             c == chan[n]
             c1 == with_fee_update(n)
             c2 == channel_sending_commit(c1)
             mv == moving(c1, sending_commit_states)
             d2 == peer_sending_commitsig(Reported(n), c2, c1, mv)
             p2 == [maybe_send_shutdown(p) EXCEPT !.nextR = @ + 1]
             s == shutdown_msgs(p)
             tx == CommitTx(n, c2, "remote", p.nextR)
             out == FeeMsgs(c, c1) \o <<CommitMsg(n, c2, p.nextR)>> \o s
  <1>1. /\ Peer(n) # n /\ Peer(n) \in Nodes /\ p \in PeerRecs /\ GoodChan(c)
    BY TwoNodes DEF TypeInv, NodeType, Node
  <1>2. /\ p.phase = "run" /\ p.revs = p.nextR - 1
        /\ any_change(c1, sending_commit_states)
        /\ chan' = [chan EXCEPT ![n] = c2] /\ peer' = [peer EXCEPT ![n] = p2]
        /\ db' = [db EXCEPT ![n] = d2]
        /\ net' = [net EXCEPT ![Peer(n)] = net[Peer(n)] \o out]
        /\ signed' = [signed EXCEPT ![n] = tx]
    BY DEF send_commit, Running, awaiting_revocation, Send, CommitMsg, FeeMsgs
  <1>3. FeeUpdated(c, c1) /\ GoodChan(c1)
    BY WithFeeUpdate
  <1>4. DbKeeps(db[n], Reported(n))
    BY ReportKeeps
  <1>5. s \in ShutdownMsgs /\ s \in Seq(Msgs)
    BY <1>1, ShutdownSent
  <1>6. /\ p2 \in PeerRecs /\ p2.nextR = p.nextR + 1 /\ p2.phase = "run"
        /\ p2.nextL = p.nextL /\ p2.revs = p.revs /\ p2.htlcId = p.htlcId
    <2> DEFINE q == maybe_send_shutdown(p)
    <2>1. PeerKeeps(p, q) /\ q.phase = "run"
      BY <1>1, <1>2, ShutdownSent
    <2> HIDE DEF q, p
    <2>2. q \in PeerRecs /\ q.nextR + 1 \in Nat /\ p2 = [q EXCEPT !.nextR = q.nextR + 1]
      BY <2>1 DEF PeerKeeps, PeerRecs, q
    <2> HIDE DEF p2
    <2>3. /\ p2 \in PeerRecs /\ p2.nextR = q.nextR + 1 /\ p2.phase = q.phase
          /\ p2.nextL = q.nextL /\ p2.revs = q.revs /\ p2.htlcId = q.htlcId
      BY <2>2 DEF PeerRecs
    <2>4. QED
      BY <2>1, <2>3 DEF PeerKeeps
  <1>7. GoodChan(c2)
    BY <1>3, ChangeGood DEF channel_sending_commit, Steps
  <1>8. out \in Seq(Msgs)
    <2>1. p.nextR \in Int
      BY <1>1 DEF PeerRecs
    <2>2. tx \in Txs
      BY <1>7, <2>1, CommitTxType DEF Sides
    <2>3. <<CommitMsg(n, c2, p.nextR)>> \in Seq(Msgs)
      BY <2>2, MsgCommit, OneQueued DEF CommitMsg
    <2>4. FeeMsgs(c, c1) \in Seq(Msgs)
      BY <1>1, <1>3, FeeMsgsType
    <2> DEFINE f == FeeMsgs(c, c1)
               m == <<CommitMsg(n, c2, p.nextR)>>
    <2> HIDE DEF f, m, s
    <2>5. f \o m \in Seq(Msgs)
      BY <2>3, <2>4, Queued DEF f, m
    <2>6. f \o m \o s \in Seq(Msgs)
      BY <1>5, <2>5, Queued
    <2>7. QED
      BY <2>6 DEF f, m
  <1> HIDE DEF p2, d2, out, c2
  <1>9. /\ chan'[n] = c2 /\ chan'[Peer(n)] = chan[Peer(n)]
        /\ peer'[n] = p2 /\ peer'[Peer(n)] = peer[Peer(n)]
        /\ db'[n] = d2 /\ db'[Peer(n)] = db[Peer(n)]
        /\ net'[n] = net[n] /\ net'[Peer(n)] = net[Peer(n)] \o out
        /\ signed'[n] = tx /\ signed'[Peer(n)] = signed[Peer(n)]
    BY <1>1, <1>2 DEF TypeInv, Shape
  <1>10. SendsCommit(n, Node(n), Node(n)', out)
    BY <1>2, <1>3, <1>4, <1>5, <1>6, <1>9 DEF SendsCommit, Node, c2, d2, out
  <1>11. QED
    BY <1>8, <1>9, <1>10, ActsIntro DEF NodeStep

(* handle_peer_commit_sig() *)
LEMMA GotCommitSteps ==
    ASSUME TypeInv, NEW n \in Nodes, handle_peer_commit_sig(n)
    PROVE  Acts(n)
  <1> DEFINE p == peer[n]
             c == chan[n]
             c1 == channel_rcvd_commit(c)
             c2 == channel_sending_revoke_and_ack(c1)
             mv == moving(c, rcvd_commit_states)
             d2 == peer_got_commitsig(Reported(n), c2, c, mv)
             e == IF any_change(c, rcvd_commit_states) THEN p.lastEmpty ELSE p.nextL
             t == p.timer \/ revoke_queues_changes(c1) \/ want_fee_update(n, p, c2)
             p2 == [p EXCEPT !.nextL = @ + 1, !.lastEmpty = e, !.timer = t]
             out == <<RevokeMsg(p.nextL - 1)>>
  <1>1. /\ Peer(n) # n /\ Peer(n) \in Nodes /\ p \in PeerRecs /\ GoodChan(c)
    BY TwoNodes DEF TypeInv, NodeType, Node
  <1>2. /\ p.phase = "run" /\ net[n] # << >> /\ Head(net[n]).type = "commit"
        /\ chan' = [chan EXCEPT ![n] = c2]
        /\ peer' = [peer EXCEPT ![n] = MainLoop(p2, c2)]
        /\ db' = [db EXCEPT ![n] = d2]
        /\ net' = [net EXCEPT ![n] = Tail(net[n]), ![Peer(n)] = net[Peer(n)] \o out]
        /\ signed' = signed
    BY DEF handle_peer_commit_sig, Receives, Running, Reply, RevokeMsg
  <1>3. GoodChan(c2)
    <2>1. GoodChan(c1)
      BY <1>1, ChangeGood DEF channel_rcvd_commit, Steps
    <2>2. QED
      BY <2>1, ChangeGood DEF channel_sending_revoke_and_ack, Steps
  <1>4. DbKeeps(db[n], Reported(n))
    BY ReportKeeps
  <1>5. e \in Nat /\ t \in BOOLEAN /\ p.nextL \in Nat /\ p.nextL + 1 \in Nat
    BY <1>1 DEF PeerRecs
  <1> HIDE DEF e, t
  <1>6. /\ p2 \in PeerRecs /\ p2.nextL = p.nextL + 1 /\ p2.phase = "run"
        /\ p2.nextR = p.nextR /\ p2.revs = p.revs /\ p2.htlcId = p.htlcId
    BY <1>1, <1>2, <1>5 DEF PeerRecs
  <1> HIDE DEF p2, c2, d2
  <1>7. PeerKeeps(p2, MainLoop(p2, c2)) /\ Goes(MainLoop(p2, c2), c2)
    BY <1>3, <1>6, LoopGoes
  <1> DEFINE p3 == MainLoop(p2, c2)
  <1> HIDE DEF p3
  <1>8. /\ p3 \in PeerRecs /\ p3.nextL = p.nextL + 1
        /\ p3.nextR = p.nextR /\ p3.revs = p.revs /\ p3.htlcId = p.htlcId /\ Goes(p3, c2)
    BY <1>6, <1>7 DEF PeerKeeps, p3
  <1>9. out \in Seq(Msgs)
    BY <1>5, MsgRevoke, OneQueued DEF RevokeMsg
  <1> HIDE DEF out
  <1>10. /\ chan'[n] = c2 /\ chan'[Peer(n)] = chan[Peer(n)]
         /\ peer'[n] = p3 /\ peer'[Peer(n)] = peer[Peer(n)]
         /\ db'[n] = d2 /\ db'[Peer(n)] = db[Peer(n)]
         /\ net'[n] = Tail(net[n]) /\ net'[Peer(n)] = net[Peer(n)] \o out
    BY <1>1, <1>2 DEF TypeInv, Shape, p3
  <1>11. GotCommit(n, Node(n), Node(n)', out)
    BY <1>2, <1>4, <1>8, <1>10 DEF GotCommit, Reads, Node, c2, d2, out
  <1>12. QED
    BY <1>2, <1>9, <1>10, <1>11, ActsIntro DEF NodeStep

(* handle_peer_revoke_and_ack() *)
LEMMA GotRevokeSteps ==
    ASSUME TypeInv, NEW n \in Nodes, handle_peer_revoke_and_ack(n)
    PROVE  Acts(n)
  <1> DEFINE p == peer[n]
             c == chan[n]
             c2 == channel_rcvd_revoke_and_ack(c)
             mv == moving(c, rcvd_revoke_states)
             d2 == peer_got_revoke(Reported(n), c2, c, mv)
             p2 == [p EXCEPT !.revs = @ + 1, !.timer = TRUE]
  <1>1. /\ Peer(n) # n /\ Peer(n) \in Nodes /\ p \in PeerRecs /\ GoodChan(c)
    BY TwoNodes DEF TypeInv, NodeType, Node
  <1>2. /\ p.phase = "run" /\ net[n] # << >> /\ Head(net[n]).type = "revoke"
        /\ chan' = [chan EXCEPT ![n] = c2]
        /\ peer' = [peer EXCEPT ![n] = MainLoop(p2, c2)]
        /\ db' = [db EXCEPT ![n] = d2]
        /\ net' = [net EXCEPT ![n] = Tail(net[n]), ![Peer(n)] = net[Peer(n)] \o << >>]
        /\ signed' = signed
    BY DEF handle_peer_revoke_and_ack, Receives, Running, Reply
  <1>3. GoodChan(c2)
    BY <1>1, ChangeGood DEF channel_rcvd_revoke_and_ack, Steps
  <1>4. DbKeeps(db[n], Reported(n))
    BY ReportKeeps
  <1>5. p.revs \in Nat /\ p.revs + 1 \in Nat
    BY <1>1 DEF PeerRecs
  <1>6. /\ p2 \in PeerRecs /\ p2.revs = p.revs + 1 /\ p2.phase = "run"
        /\ p2.nextR = p.nextR /\ p2.nextL = p.nextL /\ p2.htlcId = p.htlcId
    BY <1>1, <1>2, <1>5 DEF PeerRecs
  <1> HIDE DEF p2, c2, d2
  <1>7. PeerKeeps(p2, MainLoop(p2, c2)) /\ Goes(MainLoop(p2, c2), c2)
    BY <1>3, <1>6, LoopGoes
  <1> DEFINE p3 == MainLoop(p2, c2)
  <1> HIDE DEF p3
  <1>8. /\ p3 \in PeerRecs /\ p3.revs = p.revs + 1
        /\ p3.nextR = p.nextR /\ p3.nextL = p.nextL /\ p3.htlcId = p.htlcId /\ Goes(p3, c2)
    BY <1>6, <1>7 DEF PeerKeeps, p3
  <1>10. /\ chan'[n] = c2 /\ chan'[Peer(n)] = chan[Peer(n)]
         /\ peer'[n] = p3 /\ peer'[Peer(n)] = peer[Peer(n)]
         /\ db'[n] = d2 /\ db'[Peer(n)] = db[Peer(n)]
         /\ net'[n] = Tail(net[n]) /\ net'[Peer(n)] = net[Peer(n)] \o << >>
    BY <1>1, <1>2 DEF TypeInv, Shape, p3
  <1>11. GotRevoke(n, Node(n), Node(n)', << >>)
    BY <1>2, <1>4, <1>8, <1>10 DEF GotRevoke, Reads, Node, c2, d2
  <1>12. QED
    BY <1>2, <1>10, <1>11, NothingSent, ActsIntro DEF NodeStep

(* The second half of peer_reconnect() *)
LEMMA AnswerSteps ==
    ASSUME TypeInv, NEW n \in Nodes, peer_reconnect(n)
    PROVE  Acts(n)
  <1> DEFINE p == peer[n]
             c == chan[n]
             p2 == [maybe_send_shutdown(p) EXCEPT !.phase = "run", !.timer = TRUE]
             out == Answer(n, c, p, db[n], Head(net[n]))
  <1>1. /\ Peer(n) # n /\ Peer(n) \in Nodes /\ p \in PeerRecs /\ GoodChan(c) /\ db[n] \in DbRecs
    BY TwoNodes DEF TypeInv, NodeType, Node
  <1>2. /\ p.phase = "reestablish" /\ net[n] # << >>
        /\ chan' = chan /\ db' = db /\ signed' = signed
        /\ peer' = [peer EXCEPT ![n] = MainLoop(p2, c)]
        /\ net' = [net EXCEPT ![n] = Tail(net[n]), ![Peer(n)] = net[Peer(n)] \o out]
    BY DEF peer_reconnect, Reply, Answer, RevokeMsg
  <1>3. out \in Seq(Msgs)
    BY <1>1, Answered
  <1>4. PeerKeeps(p, p2) /\ p2.phase = "run" /\ p2 \in PeerRecs
    <2> DEFINE q == maybe_send_shutdown(p)
    <2>1. PeerKeeps(p, q)
      BY <1>1, ShutdownSent
    <2> HIDE DEF q, p
    <2>2. q \in PeerRecs /\ p2 = [q EXCEPT !.phase = "run", !.timer = TRUE]
      BY <2>1 DEF PeerKeeps, PeerRecs, q
    <2> HIDE DEF p2
    <2>3. /\ p2 \in PeerRecs /\ p2.nextR = q.nextR /\ p2.phase = "run"
          /\ p2.nextL = q.nextL /\ p2.revs = q.revs /\ p2.htlcId = q.htlcId
      BY <2>2 DEF PeerRecs
    <2>4. QED
      BY <2>1, <2>3 DEF PeerKeeps
  <1> HIDE DEF p2, out
  <1>5. PeerKeeps(p2, MainLoop(p2, c)) /\ Goes(MainLoop(p2, c), c)
    BY <1>1, <1>4, LoopGoes
  <1> DEFINE p3 == MainLoop(p2, c)
  <1> HIDE DEF p3
  <1>6. PeerKeeps(p, p3) /\ Goes(p3, c)
    BY <1>4, <1>5 DEF PeerKeeps, p3
  <1>7. /\ peer'[n] = p3 /\ peer'[Peer(n)] = peer[Peer(n)]
        /\ net'[n] = Tail(net[n]) /\ net'[Peer(n)] = net[Peer(n)] \o out
    BY <1>1, <1>2 DEF TypeInv, Shape, p3
  <1>8. Answers(n, Node(n), Node(n)', out)
    BY <1>2, <1>6, <1>7 DEF Answers, Node, out
  <1>9. QED
    BY <1>2, <1>3, <1>7, <1>8, ActsIntro DEF NodeStep

(* Every step is one of these. *)
LEMMA NextSteps ==
    ASSUME TypeInv, [Next]_vars
    PROVE  Steps3
  <1>1. CASE UNCHANGED vars
    BY <1>1 DEF vars, Steps3, Node
  <1>2. ASSUME UNCHANGED <<chan, peer, db, net, signed>>
        PROVE  Steps3
    BY <1>2 DEF Steps3, Node
  <1>3. ASSUME NEW n \in Nodes, Acts(n)
        PROVE  Steps3
    BY <1>3 DEF Steps3, Acts
  <1>4. ASSUME BreakConnection
        PROVE  Steps3
    BY <1>4, BreakSteps DEF Steps3
  <1>5. CASE Environment
    <2>1. CASE FeeratesChange
      BY <1>2, <2>1 DEF FeeratesChange
    <2>2. CASE Disconnect
      BY <1>4, <2>2 DEF Disconnect
    <2>3. CASE Reconnect
      <3>1. \A n \in Nodes : Reopens(Node(n), Node(n)', Node(Peer(n)))
        BY <2>3, TwoNodes DEF Reconnect, Reopens, Node
      <3>2. QED
        BY <3>1 DEF Steps3
    <2>4. ASSUME NEW n \in Nodes,
                 \/ LightningdOfferHtlc(n) \/ LightningdResolveHtlc(n)
                 \/ LightningdClose(n) \/ LightningdGotShutdown(n)
          PROVE  Steps3
      <3>1. CASE LightningdOfferHtlc(n)
        BY <1>2, <3>1 DEF LightningdOfferHtlc
      <3>2. CASE LightningdResolveHtlc(n) \/ LightningdClose(n) \/ LightningdGotShutdown(n)
        BY <1>3, <3>2, ResolveSteps, QuietSteps
      <3>3. QED
        BY <2>4, <3>1, <3>2
    <2>5. QED
      BY <1>5, <2>1, <2>2, <2>3, <2>4 DEF Environment
  <1>6. ASSUME NEW n \in Nodes, MasterIn(n) \/ CommitTimer(n)
        PROVE  Steps3
    <2>1. Acts(n)
      BY <1>6, OfferActs, ResolveSteps, QuietSteps, ShutdownSteps, CommitSteps
         DEF MasterIn, CommitTimer
    <2>2. QED
      BY <1>3, <2>1
  <1>7. ASSUME NEW n \in Nodes, PeerIn(n)
        PROVE  Steps3
    <2>1. CASE reject_empty_commit_sig(n)
      BY <1>4, <2>1 DEF reject_empty_commit_sig
    <2>2. CASE closingd_in(n)
      <3>1. Acts(n) \/ \A m \in Nodes : Breaks(m, Node(m), Node(m)')
        BY <2>2, ClosingdSteps
      <3>2. QED
        BY <1>3, <3>1 DEF Steps3
    <2>3. CASE ~reject_empty_commit_sig(n) /\ ~closingd_in(n)
      <3>1. Acts(n)
        BY <1>7, <2>3, UpdateSteps, GotCommitSteps, GotRevokeSteps, ShutdownSteps, AnswerSteps
           DEF PeerIn
      <3>2. QED
        BY <1>3, <3>1
    <2>4. QED
      BY <2>1, <2>2, <2>3
  <1>8. QED
    BY <1>1, <1>5, <1>6, <1>7 DEF Next

(* What a function on the nodes is after an update. *)
LEMMA FunUpdate ==
    ASSUME NEW f, f = [n \in Nodes |-> f[n]], NEW g, NEW k
    PROVE  /\ \A x : g = [f EXCEPT ![k] = x] => g = [n \in Nodes |-> g[n]]
           /\ \A x, y, j : g = [f EXCEPT ![k] = x, ![j] = y] => g = [n \in Nodes |-> g[n]]
  OBVIOUS

(* One pipe is written. *)
LEMMA PipeUpdate ==
    ASSUME NEW f \in [Nodes -> PipeRecs], NEW n \in Nodes, NEW g,
           \/ \E a \in Nat : g = [f EXCEPT ![n].offer = a]
           \/ \E b \in BOOLEAN : g = [f EXCEPT ![n].shut = b]
           \/ \E b \in BOOLEAN : g = [f EXCEPT ![n].got = b]
    PROVE  g \in [Nodes -> PipeRecs]
  <1>1. f[n] \in PipeRecs
    OBVIOUS
  <1>2. \A x \in PipeRecs : /\ \A a \in Nat : [x EXCEPT !.offer = a] \in PipeRecs
                            /\ \A b \in BOOLEAN : [x EXCEPT !.shut = b] \in PipeRecs
                            /\ \A b \in BOOLEAN : [x EXCEPT !.got = b] \in PipeRecs
    BY DEF PipeRecs
  <1>3. \E x \in PipeRecs : g = [f EXCEPT ![n] = x]
    BY <1>1, <1>2
  <1>4. QED
    BY <1>3

(* The variables are functions on the nodes. *)
Changes(f, g) ==
    \/ g = f
    \/ \E k, x : g = [f EXCEPT ![k] = x]
    \/ \E k, j, x, y : g = [f EXCEPT ![k] = x, ![j] = y]

(* Steps that write one or two entries keep the shape. *)
LEMMA ChangesShape ==
    ASSUME Shape, Changes(chan, chan'), Changes(peer, peer'), Changes(db, db'),
           Changes(net, net'), Changes(signed, signed'), pipe' \in [Nodes -> PipeRecs],
           target' \in Nat \ {0}, budget' \in BudgetRecs
    PROVE  Shape'
  <1>1. ASSUME NEW f, NEW g, f = [n \in Nodes |-> f[n]], Changes(f, g)
        PROVE  g = [n \in Nodes |-> g[n]]
    <2>1. CASE g = f
      BY <1>1, <2>1
    <2>2. CASE \E k, x : g = [f EXCEPT ![k] = x]
      BY <1>1, <2>2
    <2>3. CASE \E k, j, x, y : g = [f EXCEPT ![k] = x, ![j] = y]
      BY <1>1, <2>3
    <2>4. QED
      BY <1>1, <2>1, <2>2, <2>3 DEF Changes
  <1>2. chan' = [n \in Nodes |-> chan'[n]]
    BY <1>1 DEF Shape
  <1>3. peer' = [n \in Nodes |-> peer'[n]]
    BY <1>1 DEF Shape
  <1>4. db' = [n \in Nodes |-> db'[n]]
    BY <1>1 DEF Shape
  <1>5. net' = [n \in Nodes |-> net'[n]]
    BY <1>1 DEF Shape
  <1>6. signed' = [n \in Nodes |-> signed'[n]]
    BY <1>1 DEF Shape
  <1>7. QED
    BY <1>2, <1>3, <1>4, <1>5, <1>6 DEF Shape

(* So does a lost connection. *)
LEMMA ShapeBreak ==
    ASSUME Shape, BreakConnection, budget' \in BudgetRecs
    PROVE  Shape'
  <1>1. [n \in Nodes |-> EmptyPipe] \in [Nodes -> PipeRecs]
    BY DEF EmptyPipe, PipeRecs
  <1>2. QED
    BY <1>1 DEF BreakConnection, Shape

(* So they stay. *)
LEMMA ShapeStep ==
    ASSUME Shape, [Next]_vars
    PROVE  Shape'
  <1>1. CASE UNCHANGED vars
    BY <1>1 DEF vars, Shape
  <1>2. ASSUME BreakConnection, budget' \in BudgetRecs
        PROVE  Shape'
    BY <1>2, ShapeBreak
  <1>3. CASE FeeratesChange
    <2>1. Changes(chan, chan') /\ Changes(peer, peer') /\ Changes(db, db') /\ Changes(net, net') /\ Changes(signed, signed')
      BY <1>3 DEF FeeratesChange, Changes
    <2>2. pipe' \in [Nodes -> PipeRecs] /\ target' \in Nat \ {0} /\ budget' \in BudgetRecs
      <3>1. budget \in BudgetRecs /\ budget.rates \in Seq(Nat \ {0}) /\ budget.rates # << >>
        BY <1>3 DEF FeeratesChange, Shape, BudgetRecs
      <3>2. Head(budget.rates) \in Nat \ {0} /\ Tail(budget.rates) \in Seq(Nat \ {0})
        BY <3>1
      <3>3. QED
        BY <1>3, <3>1, <3>2 DEF FeeratesChange, BudgetRecs, Shape
    <2>3. QED
      BY <2>1, <2>2, ChangesShape
  <1>4. ASSUME NEW n \in Nodes, LightningdOfferHtlc(n)
        PROVE  Shape'
    <2>1. Changes(chan, chan') /\ Changes(peer, peer') /\ Changes(db, db') /\ Changes(net, net') /\ Changes(signed, signed')
      BY <1>4 DEF LightningdOfferHtlc, Changes
    <2>2. pipe' \in [Nodes -> PipeRecs]
      BY <1>4, PipeUpdate, ChanneldAssumption DEF LightningdOfferHtlc, Shape
    <2>3. target' \in Nat \ {0} /\ budget' \in BudgetRecs
      BY <1>4 DEF LightningdOfferHtlc, Shape
    <2>4. QED
      BY <2>1, <2>2, <2>3, ChangesShape
  <1>5. ASSUME NEW n \in Nodes, LightningdResolveHtlc(n)
        PROVE  Shape'
    <2>1. Changes(db, db')
      BY <1>5 DEF LightningdResolveHtlc, Changes
    <2>2. Changes(chan, chan') /\ Changes(peer, peer') /\ Changes(net, net') /\ Changes(signed, signed')
      BY <1>5 DEF LightningdResolveHtlc, Changes
    <2>3. pipe' \in [Nodes -> PipeRecs] /\ target' \in Nat \ {0} /\ budget' \in BudgetRecs
      BY <1>5 DEF LightningdResolveHtlc, Shape
    <2>4. QED
      BY <2>1, <2>2, <2>3, ChangesShape
  <1>6. ASSUME NEW n \in Nodes, LightningdClose(n)
        PROVE  Shape'
    <2>1. Changes(db, db')
      BY <1>6 DEF LightningdClose, Changes
    <2>2. Changes(chan, chan') /\ Changes(peer, peer') /\ Changes(net, net') /\ Changes(signed, signed')
      BY <1>6 DEF LightningdClose, Changes
    <2>3. pipe' \in [Nodes -> PipeRecs]
      BY <1>6, PipeUpdate, ChanneldAssumption DEF LightningdClose, Shape
    <2>4. target' \in Nat \ {0} /\ budget' \in BudgetRecs
      BY <1>6 DEF LightningdClose, Shape
    <2>5. QED
      BY <2>1, <2>2, <2>3, <2>4, ChangesShape
  <1>7. ASSUME NEW n \in Nodes, LightningdGotShutdown(n)
        PROVE  Shape'
    <2>1. Changes(db, db')
      BY <1>7 DEF LightningdGotShutdown, Changes
    <2>2. Changes(chan, chan') /\ Changes(peer, peer') /\ Changes(net, net') /\ Changes(signed, signed')
      BY <1>7 DEF LightningdGotShutdown, Changes
    <2>3. pipe' \in [Nodes -> PipeRecs]
      BY <1>7, PipeUpdate, ChanneldAssumption DEF LightningdGotShutdown, Shape
    <2>4. target' \in Nat \ {0} /\ budget' \in BudgetRecs
      BY <1>7 DEF LightningdGotShutdown, Shape
    <2>5. QED
      BY <2>1, <2>2, <2>3, <2>4, ChangesShape
  <1>8. ASSUME NEW n \in Nodes, handle_offer_htlc(n)
        PROVE  Shape'
    <2>1. Changes(chan, chan')
      BY <1>8 DEF handle_offer_htlc, Changes
    <2>2. Changes(peer, peer')
      <3>1. CASE add_htlc_ok(chan[n], "local", peer[n].htlcId, pipe[n].offer)
        <4>1. peer' = [peer EXCEPT ![n].htlcId = @ + 1, ![n].timer = TRUE]
          BY <1>8, <3>1 DEF handle_offer_htlc
        <4>2. QED
          BY <4>1 DEF Changes
      <3>2. CASE ~add_htlc_ok(chan[n], "local", peer[n].htlcId, pipe[n].offer)
        BY <1>8, <3>2 DEF handle_offer_htlc, Changes
      <3>3. QED
        BY <3>1, <3>2
    <2>3. Changes(net, net')
      BY <1>8 DEF handle_offer_htlc, Send, Changes
    <2>4. Changes(db, db') /\ Changes(signed, signed')
      BY <1>8 DEF handle_offer_htlc, Changes
    <2>5. pipe' \in [Nodes -> PipeRecs]
      BY <1>8, PipeUpdate, ChanneldAssumption DEF handle_offer_htlc, Shape
    <2>6. target' \in Nat \ {0} /\ budget' \in BudgetRecs
      BY <1>8 DEF handle_offer_htlc, Shape
    <2>7. QED
      BY <2>1, <2>2, <2>3, <2>4, <2>5, <2>6, ChangesShape
  <1>9. ASSUME NEW n \in Nodes, handle_resolution(n)
        PROVE  Shape'
    <2>1. Changes(chan, chan')
      BY <1>9 DEF handle_resolution, Changes
    <2>2. Changes(peer, peer')
      BY <1>9 DEF handle_resolution, Changes
    <2>3. Changes(net, net')
      BY <1>9 DEF handle_resolution, Send, Changes
    <2>4. Changes(db, db') /\ Changes(signed, signed')
      BY <1>9 DEF handle_resolution, Changes
    <2>5. pipe' \in [Nodes -> PipeRecs] /\ target' \in Nat \ {0} /\ budget' \in BudgetRecs
      BY <1>9 DEF handle_resolution, Shape
    <2>6. QED
      BY <2>1, <2>2, <2>3, <2>4, <2>5, ChangesShape
  <1>10. ASSUME NEW n \in Nodes, handle_feerates(n)
        PROVE  Shape'
    <2>1. Changes(peer, peer')
      BY <1>10 DEF handle_feerates, Changes
    <2>2. Changes(chan, chan') /\ Changes(db, db') /\ Changes(net, net') /\ Changes(signed, signed')
      BY <1>10 DEF handle_feerates, Changes
    <2>3. pipe' \in [Nodes -> PipeRecs] /\ target' \in Nat \ {0} /\ budget' \in BudgetRecs
      BY <1>10 DEF handle_feerates, Shape
    <2>4. QED
      BY <2>1, <2>2, <2>3, ChangesShape
  <1>11. ASSUME NEW n \in Nodes, handle_shutdown_cmd(n)
        PROVE  Shape'
    <2>1. Changes(peer, peer')
      BY <1>11 DEF handle_shutdown_cmd, Changes
    <2>2. Changes(chan, chan') /\ Changes(db, db') /\ Changes(net, net') /\ Changes(signed, signed')
      BY <1>11 DEF handle_shutdown_cmd, Changes
    <2>3. pipe' \in [Nodes -> PipeRecs]
      BY <1>11, PipeUpdate, ChanneldAssumption DEF handle_shutdown_cmd, Shape
    <2>4. target' \in Nat \ {0} /\ budget' \in BudgetRecs
      BY <1>11 DEF handle_shutdown_cmd, Shape
    <2>5. QED
      BY <2>1, <2>2, <2>3, <2>4, ChangesShape
  <1>12. ASSUME NEW n \in Nodes, send_commit_not_now(n)
        PROVE  Shape'
    <2>1. Changes(peer, peer')
      BY <1>12 DEF send_commit_not_now, Changes
    <2>2. Changes(chan, chan') /\ Changes(db, db') /\ Changes(net, net') /\ Changes(signed, signed')
      BY <1>12 DEF send_commit_not_now, Changes
    <2>3. pipe' \in [Nodes -> PipeRecs] /\ target' \in Nat \ {0} /\ budget' \in BudgetRecs
      BY <1>12 DEF send_commit_not_now, Shape
    <2>4. QED
      BY <2>1, <2>2, <2>3, ChangesShape
  <1>13. ASSUME NEW n \in Nodes, send_commit_nothing(n)
        PROVE  Shape'
    <2>1. Changes(peer, peer')
      BY <1>13 DEF send_commit_nothing, Changes
    <2>2. Changes(net, net')
      BY <1>13 DEF send_commit_nothing, Send, Changes
    <2>3. Changes(chan, chan') /\ Changes(db, db') /\ Changes(signed, signed')
      BY <1>13 DEF send_commit_nothing, Changes
    <2>4. pipe' \in [Nodes -> PipeRecs] /\ target' \in Nat \ {0} /\ budget' \in BudgetRecs
      BY <1>13 DEF send_commit_nothing, Shape
    <2>5. QED
      BY <2>1, <2>2, <2>3, <2>4, ChangesShape
  <1>14. ASSUME NEW n \in Nodes, send_commit(n)
        PROVE  Shape'
    <2>1. Changes(chan, chan')
      BY <1>14 DEF send_commit, Changes
    <2>2. Changes(peer, peer')
      BY <1>14 DEF send_commit, Changes
    <2>3. Changes(db, db')
      BY <1>14 DEF send_commit, Changes
    <2>4. Changes(net, net')
      BY <1>14 DEF send_commit, Send, Changes
    <2>5. Changes(signed, signed')
      BY <1>14 DEF send_commit, Changes
    <2>6. pipe' \in [Nodes -> PipeRecs]
      BY <1>14, PipeUpdate, ChanneldAssumption DEF send_commit, Shape
    <2>7. target' \in Nat \ {0} /\ budget' \in BudgetRecs
      BY <1>14 DEF send_commit, Shape
    <2>8. QED
      BY <2>1, <2>2, <2>3, <2>4, <2>5, <2>6, <2>7, ChangesShape
  <1>15. ASSUME NEW n \in Nodes, handle_peer_add_htlc(n)
        PROVE  Shape'
    <2>1. Changes(chan, chan')
      BY <1>15 DEF handle_peer_add_htlc, Changes
    <2>2. Changes(net, net')
      BY <1>15 DEF handle_peer_add_htlc, Reply, Changes
    <2>3. Changes(peer, peer') /\ Changes(db, db') /\ Changes(signed, signed')
      BY <1>15 DEF handle_peer_add_htlc, Changes
    <2>4. pipe' \in [Nodes -> PipeRecs] /\ target' \in Nat \ {0} /\ budget' \in BudgetRecs
      BY <1>15 DEF handle_peer_add_htlc, Shape
    <2>5. QED
      BY <2>1, <2>2, <2>3, <2>4, ChangesShape
  <1>16. ASSUME NEW n \in Nodes, handle_peer_remove_htlc(n)
        PROVE  Shape'
    <2>1. Changes(chan, chan')
      BY <1>16 DEF handle_peer_remove_htlc, Changes
    <2>2. Changes(peer, peer')
      BY <1>16 DEF handle_peer_remove_htlc, Changes
    <2>3. Changes(net, net')
      BY <1>16 DEF handle_peer_remove_htlc, Reply, Changes
    <2>4. Changes(db, db') /\ Changes(signed, signed')
      BY <1>16 DEF handle_peer_remove_htlc, Changes
    <2>5. pipe' \in [Nodes -> PipeRecs] /\ target' \in Nat \ {0} /\ budget' \in BudgetRecs
      BY <1>16 DEF handle_peer_remove_htlc, Shape
    <2>6. QED
      BY <2>1, <2>2, <2>3, <2>4, <2>5, ChangesShape
  <1>17. ASSUME NEW n \in Nodes, handle_peer_feechange(n)
        PROVE  Shape'
    <2>1. Changes(chan, chan')
      BY <1>17 DEF handle_peer_feechange, Changes
    <2>2. Changes(net, net')
      BY <1>17 DEF handle_peer_feechange, Reply, Changes
    <2>3. Changes(peer, peer') /\ Changes(db, db') /\ Changes(signed, signed')
      BY <1>17 DEF handle_peer_feechange, Changes
    <2>4. pipe' \in [Nodes -> PipeRecs] /\ target' \in Nat \ {0} /\ budget' \in BudgetRecs
      BY <1>17 DEF handle_peer_feechange, Shape
    <2>5. QED
      BY <2>1, <2>2, <2>3, <2>4, ChangesShape
  <1>18. ASSUME NEW n \in Nodes, handle_peer_commit_sig(n)
        PROVE  Shape'
    <2>1. Changes(chan, chan')
      BY <1>18 DEF handle_peer_commit_sig, Changes
    <2>2. Changes(peer, peer')
      BY <1>18 DEF handle_peer_commit_sig, Changes
    <2>3. Changes(db, db')
      BY <1>18 DEF handle_peer_commit_sig, Changes
    <2>4. Changes(net, net')
      BY <1>18 DEF handle_peer_commit_sig, Reply, Changes
    <2>5. Changes(signed, signed')
      BY <1>18 DEF handle_peer_commit_sig, Changes
    <2>6. pipe' \in [Nodes -> PipeRecs]
      BY <1>18, PipeUpdate, ChanneldAssumption DEF handle_peer_commit_sig, Shape
    <2>7. target' \in Nat \ {0} /\ budget' \in BudgetRecs
      BY <1>18 DEF handle_peer_commit_sig, Shape
    <2>8. QED
      BY <2>1, <2>2, <2>3, <2>4, <2>5, <2>6, <2>7, ChangesShape
  <1>19. ASSUME NEW n \in Nodes, handle_peer_revoke_and_ack(n)
        PROVE  Shape'
    <2>1. Changes(chan, chan')
      BY <1>19 DEF handle_peer_revoke_and_ack, Changes
    <2>2. Changes(peer, peer')
      BY <1>19 DEF handle_peer_revoke_and_ack, Changes
    <2>3. Changes(db, db')
      BY <1>19 DEF handle_peer_revoke_and_ack, Changes
    <2>4. Changes(net, net')
      BY <1>19 DEF handle_peer_revoke_and_ack, Reply, Changes
    <2>5. Changes(signed, signed')
      BY <1>19 DEF handle_peer_revoke_and_ack, Changes
    <2>6. pipe' \in [Nodes -> PipeRecs]
      BY <1>19, PipeUpdate, ChanneldAssumption DEF handle_peer_revoke_and_ack, Shape
    <2>7. target' \in Nat \ {0} /\ budget' \in BudgetRecs
      BY <1>19 DEF handle_peer_revoke_and_ack, Shape
    <2>8. QED
      BY <2>1, <2>2, <2>3, <2>4, <2>5, <2>6, <2>7, ChangesShape
  <1>20. ASSUME NEW n \in Nodes, handle_peer_shutdown(n)
        PROVE  Shape'
    <2>1. Changes(peer, peer')
      BY <1>20 DEF handle_peer_shutdown, Changes
    <2>2. Changes(net, net')
      BY <1>20 DEF handle_peer_shutdown, Reply, Changes
    <2>3. Changes(chan, chan') /\ Changes(db, db') /\ Changes(signed, signed')
      BY <1>20 DEF handle_peer_shutdown, Changes
    <2>4. pipe' \in [Nodes -> PipeRecs]
      BY <1>20, PipeUpdate, ChanneldAssumption DEF handle_peer_shutdown, Shape
    <2>5. target' \in Nat \ {0} /\ budget' \in BudgetRecs
      BY <1>20 DEF handle_peer_shutdown, Shape
    <2>6. QED
      BY <2>1, <2>2, <2>3, <2>4, <2>5, ChangesShape
  <1>21. ASSUME NEW n \in Nodes, peer_reconnect(n)
        PROVE  Shape'
    <2>1. Changes(peer, peer')
      BY <1>21 DEF peer_reconnect, Changes
    <2>2. Changes(net, net')
      BY <1>21 DEF peer_reconnect, Reply, Changes
    <2>3. Changes(chan, chan') /\ Changes(db, db') /\ Changes(signed, signed')
      BY <1>21 DEF peer_reconnect, Changes
    <2>4. pipe' \in [Nodes -> PipeRecs] /\ target' \in Nat \ {0} /\ budget' \in BudgetRecs
      BY <1>21 DEF peer_reconnect, Shape
    <2>5. QED
      BY <2>1, <2>2, <2>3, <2>4, ChangesShape
  <1>22. CASE Disconnect
    <2>1. budget \in BudgetRecs /\ budget.cuts > 0
      BY <1>22 DEF Disconnect, Shape
    <2>2. [budget EXCEPT !.cuts = @ - 1] \in BudgetRecs
      <3>1. budget.cuts - 1 \in Nat
        BY <2>1 DEF BudgetRecs
      <3>2. QED
        BY <2>1, <3>1 DEF BudgetRecs
    <2>3. QED
      BY <1>2, <1>22, <2>2 DEF Disconnect
  <1>23. CASE Reconnect
    BY <1>23 DEF Reconnect, Shape
  <1>24. ASSUME NEW n \in Nodes, reject_empty_commit_sig(n) \/ closingd_in(n)
        PROVE  Shape'
    <2>1. budget' \in BudgetRecs
      BY <1>24 DEF reject_empty_commit_sig, closingd_in, Shape
    <2>2. CASE BreakConnection
      BY <1>2, <2>1, <2>2
    <2>3. CASE ~BreakConnection
      <3>1. closingd_in(n) /\ Head(net[n]).type = "shutdown"
        <4>1. ~reject_empty_commit_sig(n)
          BY <2>3 DEF reject_empty_commit_sig
        <4>2. closingd_in(n)
          BY <1>24, <4>1
        <4>3. QED
          BY <2>3, <4>2 DEF closingd_in
      <3>2. Changes(net, net')
        <4>1. Reply(n, << >>)
          BY <3>1 DEF closingd_in
        <4>2. QED
          BY <4>1 DEF Reply, Changes
      <3>3. /\ Changes(chan, chan') /\ Changes(peer, peer') /\ Changes(db, db')
            /\ Changes(signed, signed')
        BY <3>1 DEF closingd_in, Changes
      <3>4. pipe' \in [Nodes -> PipeRecs] /\ target' \in Nat \ {0}
        BY <3>1 DEF closingd_in, Shape
      <3>5. QED
        BY <2>1, <3>2, <3>3, <3>4, ChangesShape
    <2>4. QED
      BY <2>2, <2>3
  <1>25. CASE Environment
    BY <1>25, <1>3, <1>22, <1>23, <1>4, <1>5, <1>6, <1>7 DEF Environment
  <1>26. ASSUME NEW n \in Nodes, MasterIn(n) \/ CommitTimer(n)
        PROVE  Shape'
    BY <1>26, <1>8, <1>9, <1>10, <1>11, <1>12, <1>13, <1>14 DEF MasterIn, CommitTimer
  <1>27. ASSUME NEW n \in Nodes, PeerIn(n)
        PROVE  Shape'
    BY <1>27, <1>15, <1>16, <1>17, <1>18, <1>19, <1>20, <1>21, <1>24 DEF PeerIn
  <1>28. QED
    BY <1>1, <1>25, <1>26, <1>27 DEF Next

-----------------------------------------------------------------------------
(* The feerate in force is committed on both sides. *)
LEMMA WireFees ==
    ASSUME NEW f \in Slots
    PROVE  /\ towire_fee_states(f) \in Slots
           /\ towire_fee_states(f)[4] = f[4] /\ towire_fee_states(f)[14] = f[14]
           /\ \A i \in HtlcStates : towire_fee_states(f)[i] = IF i \in {0, 10} THEN 0
                  ELSE IF i \in {8, 9, 18, 19} THEN 0 ELSE f[i]
  <1>1. \A i \in HtlcStates : i \in Committed("local") \cup Committed("remote")
                               <=> i \notin {0, 10, 8, 9, 18, 19}
    BY DEF Committed, HtlcStates
  <1>2. \A i \in HtlcStates : f[i] \in Nat
    BY DEF Slots
  <1>3. QED
    BY <1>1, <1>2 DEF towire_fee_states, Slots, HtlcStates

(* A saved row has a feerate in force. *)
LEMMA SavedFee ==
    ASSUME NEW n, NEW d, NEW e, NEW b, NEW c, NEW mv, Saved(d, e, b, c, mv), GoodChan(c),
           c.opener = OpenerSide(n)
    PROVE  e \in DbRecs /\ e.fee[last_fee_state(OpenerSide(n))] # 0
  <1>1. c.fee \in Slots /\ c.fee[last_fee_state(OpenerSide(n))] # 0
    BY DEF GoodChan, ChanRecs
  <1>2. e \in DbRecs /\ e.fee = towire_fee_states(c.fee)
    BY DEF Saved
  <1>3. last_fee_state(OpenerSide(n)) \in {4, 14}
    BY DEF last_fee_state, SENT_ADD_ACK_REVOCATION, RCVD_ADD_ACK_REVOCATION
  <1>4. QED
    BY <1>1, <1>2, <1>3, WireFees

(* The HTLCs of this commitment that are new to the peer. *)
Added(c, mv) == {h \in mv : State(c, h) = 1}

(* peer_sending_commitsig() *)
LEMMA SentSaved ==
    ASSUME NEW d0 \in DbRecs, NEW d, DbKeeps(d0, d), NEW b, GoodChan(b), NEW c, GoodChan(c),
           NEW mv, mv \subseteq DOMAIN b.htlcs
    PROVE  LET e == peer_sending_commitsig(d, c, b, mv)
           IN  /\ Saved(d0, e, b, c, mv)
               /\ e.nextL = d0.nextL /\ e.nextR = d0.nextR + 1 /\ e.revs = d0.revs
               /\ ~e.wasRevoke /\ e.lastSent = mv
               /\ e.htlcId = d0.htlcId + Cardinality(Added(c, mv))
  <1> DEFINE e == peer_sending_commitsig(d, c, b, mv)
             f == RecordHtlcs(d, c, b, mv)
             k == d.htlcId + Cardinality(Added(c, mv))
  <1>1. d \in DbRecs
    BY DEF DbKeeps
  <1>2. /\ f \in DbRecs /\ Saved(d, f, b, c, mv)
        /\ f.nextL = d.nextL /\ f.nextR = d.nextR /\ f.revs = d.revs
        /\ f.wasRevoke = d.wasRevoke /\ f.lastSent = d.lastSent /\ f.htlcId = d.htlcId
    BY <1>1, RecordFields
  <1>3. e = [f EXCEPT !.nextR = f.nextR + 1, !.wasRevoke = FALSE, !.lastSent = mv,
                      !.htlcId = f.htlcId + Cardinality(Added(c, mv))]
    BY DEF peer_sending_commitsig, SENT_ADD_COMMIT, Added
  <1>4. k \in Nat /\ d.nextR + 1 \in Nat /\ mv \in SUBSET HtlcKeys
    <2>1. IsFiniteSet(DOMAIN b.htlcs) /\ DOMAIN b.htlcs \subseteq HtlcKeys
      BY HtlcMapElim DEF GoodChan, ChanRecs
    <2>2. IsFiniteSet(Added(c, mv))
      BY <2>1, FS_Subset DEF Added
    <2>3. Cardinality(Added(c, mv)) \in Nat
      BY <2>2, FS_CardinalityType
    <2>4. d.htlcId \in Nat /\ d.nextR \in Nat
      BY <1>1 DEF DbRecs
    <2>5. QED
      BY <2>1, <2>3, <2>4
  <1> DEFINE K == Cardinality(Added(c, mv))
  <1> HIDE DEF e, f, K
  <1>7. e = [f EXCEPT !.nextR = d.nextR + 1, !.wasRevoke = FALSE, !.lastSent = mv, !.htlcId = k]
    <2>1. e = [f EXCEPT !.nextR = f.nextR + 1, !.wasRevoke = FALSE, !.lastSent = mv,
                        !.htlcId = f.htlcId + K]
      BY <1>3 DEF K
    <2>2. k = d.htlcId + K
      BY DEF K
    <2> HIDE DEF k
    <2>3. QED
      BY <1>2, <2>1, <2>2
  <1> HIDE DEF k
  <1>5. /\ e \in DbRecs /\ e.htlcs = f.htlcs /\ e.our = f.our /\ e.fee = f.fee
        /\ e.nextL = f.nextL /\ e.revs = f.revs /\ e.nextR = d.nextR + 1
        /\ ~e.wasRevoke /\ e.lastSent = mv /\ e.htlcId = k
    BY <1>2, <1>4, <1>7 DEF DbRecs
  <1>6. QED
    BY <1>2, <1>5 DEF Saved, DbKeeps, e, k

(* peer_got_commitsig() *)
LEMMA CommitSaved ==
    ASSUME NEW d0 \in DbRecs, NEW d, DbKeeps(d0, d), NEW b, GoodChan(b), NEW c, GoodChan(c),
           NEW mv, mv \subseteq DOMAIN b.htlcs
    PROVE  LET e == peer_got_commitsig(d, c, b, mv)
           IN  /\ Saved(d0, e, b, c, mv)
               /\ e.nextL = d0.nextL + 1 /\ e.nextR = d0.nextR /\ e.revs = d0.revs
               /\ e.wasRevoke /\ e.lastSent = d0.lastSent /\ e.htlcId = d0.htlcId
  <1> DEFINE e == peer_got_commitsig(d, c, b, mv)
             f == RecordHtlcs(d, c, b, mv)
  <1>1. d \in DbRecs
    BY DEF DbKeeps
  <1>2. /\ f \in DbRecs /\ Saved(d, f, b, c, mv)
        /\ f.nextL = d.nextL /\ f.nextR = d.nextR /\ f.revs = d.revs
        /\ f.wasRevoke = d.wasRevoke /\ f.lastSent = d.lastSent /\ f.htlcId = d.htlcId
    BY <1>1, RecordFields
  <1>3. e = [f EXCEPT !.nextL = f.nextL + 1, !.wasRevoke = TRUE]
    BY DEF peer_got_commitsig
  <1> HIDE DEF e, f
  <1>4. f.nextL + 1 \in Nat
    BY <1>2 DEF DbRecs
  <1>5. /\ e \in DbRecs /\ e.htlcs = f.htlcs /\ e.our = f.our /\ e.fee = f.fee
        /\ e.nextL = d.nextL + 1 /\ e.revs = f.revs /\ e.nextR = f.nextR
        /\ e.wasRevoke /\ e.lastSent = f.lastSent /\ e.htlcId = f.htlcId
    BY <1>2, <1>3, <1>4 DEF DbRecs
  <1>6. QED
    BY <1>2, <1>5 DEF Saved, DbKeeps, e

(* peer_got_revoke() *)
LEMMA RevokeSaved ==
    ASSUME NEW d0 \in DbRecs, NEW d, DbKeeps(d0, d), NEW b, GoodChan(b), NEW c, GoodChan(c),
           NEW mv, mv \subseteq DOMAIN b.htlcs
    PROVE  LET e == peer_got_revoke(d, c, b, mv)
           IN  /\ Saved(d0, e, b, c, mv)
               /\ e.nextL = d0.nextL /\ e.nextR = d0.nextR /\ e.revs = d0.revs + 1
               /\ e.wasRevoke = d0.wasRevoke /\ e.lastSent = d0.lastSent /\ e.htlcId = d0.htlcId
  <1> DEFINE e == peer_got_revoke(d, c, b, mv)
             f == RecordHtlcs(d, c, b, mv)
  <1>1. d \in DbRecs
    BY DEF DbKeeps
  <1>2. /\ f \in DbRecs /\ Saved(d, f, b, c, mv)
        /\ f.nextL = d.nextL /\ f.nextR = d.nextR /\ f.revs = d.revs
        /\ f.wasRevoke = d.wasRevoke /\ f.lastSent = d.lastSent /\ f.htlcId = d.htlcId
    BY <1>1, RecordFields
  <1>3. e = [f EXCEPT !.revs = f.revs + 1]
    BY DEF peer_got_revoke
  <1> HIDE DEF e, f
  <1>4. f.revs + 1 \in Nat
    BY <1>2 DEF DbRecs
  <1>5. /\ e \in DbRecs /\ e.htlcs = f.htlcs /\ e.our = f.our /\ e.fee = f.fee
        /\ e.nextL = f.nextL /\ e.revs = d.revs + 1 /\ e.nextR = f.nextR
        /\ e.wasRevoke = f.wasRevoke /\ e.lastSent = f.lastSent /\ e.htlcId = f.htlcId
    BY <1>2, <1>3, <1>4 DEF DbRecs
  <1>6. QED
    BY <1>2, <1>5 DEF Saved, DbKeeps, e

-----------------------------------------------------------------------------
(* What the three steps of the commitment dance make of channel, database   *)
(* and history.  c1 is the channel with the fee update that goes along.     *)
Commits(n, x, y, out, c1) ==
    /\ FeeUpdated(x.c, c1) /\ GoodChan(c1)
    /\ c1.htlcs = x.c.htlcs /\ c1.opener = x.c.opener /\ c1.owed = x.c.owed
    /\ y.c = channel_sending_commit(c1) /\ GoodChan(y.c)
    /\ Saved(x.d, y.d, c1, y.c, moving(c1, sending_commit_states))
    /\ y.d.nextL = x.d.nextL /\ y.d.nextR = x.d.nextR + 1 /\ y.d.revs = x.d.revs
    /\ ~y.d.wasRevoke /\ y.d.lastSent = moving(c1, sending_commit_states)
    /\ y.d.htlcId = x.d.htlcId + Cardinality(Added(y.c, moving(c1, sending_commit_states)))
    /\ \E s \in ShutdownMsgs :
         out = FeeMsgs(x.c, c1) \o <<CommitMsg(n, y.c, x.p.nextR)>> \o s

(* send_commit() *)
LEMMA SentCommit ==
    ASSUME NEW n \in Nodes, NEW x, NodeType(n, x), NEW y, NEW out,
           SendsCommit(n, x, y, out)
    PROVE  \E c1 : Commits(n, x, y, out, c1)
  <1>1. PICK c1, d1, s :
         /\ FeeUpdated(x.c, c1) /\ DbKeeps(x.d, d1) /\ s \in ShutdownMsgs
         /\ y.c = channel_sending_commit(c1)
         /\ y.d = peer_sending_commitsig(d1, y.c, c1, moving(c1, sending_commit_states))
         /\ out = FeeMsgs(x.c, c1) \o <<CommitMsg(n, y.c, x.p.nextR)>> \o s
    BY DEF SendsCommit
  <1>2. GoodChan(x.c) /\ x.d \in DbRecs
    BY DEF NodeType
  <1>3. GoodChan(c1) /\ c1.htlcs = x.c.htlcs /\ c1.opener = x.c.opener /\ c1.owed = x.c.owed
    BY <1>1, <1>2, UpdateFeerate DEF FeeUpdated
  <1>4. GoodChan(y.c)
    BY <1>1, <1>3, ChangeGood DEF channel_sending_commit, Steps
  <1>5. moving(c1, sending_commit_states) \subseteq DOMAIN c1.htlcs
    BY DEF moving
  <1> DEFINE c == y.c
             d == x.d
             e == y.d
             mv == moving(c1, sending_commit_states)
  <1>6. /\ d \in DbRecs /\ DbKeeps(d, d1) /\ GoodChan(c1) /\ GoodChan(c)
        /\ mv \subseteq DOMAIN c1.htlcs /\ e = peer_sending_commitsig(d1, c, c1, mv)
    BY <1>1, <1>2, <1>3, <1>4, <1>5
  <1> HIDE DEF c, d, e, mv
  <1>7. /\ Saved(d, e, c1, c, mv)
        /\ e.nextL = d.nextL /\ e.nextR = d.nextR + 1 /\ e.revs = d.revs
        /\ ~e.wasRevoke /\ e.lastSent = mv
        /\ e.htlcId = d.htlcId + Cardinality(Added(c, mv))
    BY <1>6, SentSaved
  <1>8. \E s2 \in ShutdownMsgs :
          out = FeeMsgs(x.c, c1) \o <<CommitMsg(n, y.c, x.p.nextR)>> \o s2
    BY <1>1
  <1>9. Commits(n, x, y, out, c1)
    BY <1>1, <1>3, <1>4, <1>7, <1>8 DEF Commits, c, d, e, mv
  <1>10. QED
    BY <1>9

(* handle_peer_commit_sig() and the revocation it ends in. *)
LEMMA TookCommit ==
    ASSUME NEW n \in Nodes, NEW x, NodeType(n, x), NEW y, NEW out,
           GotCommit(n, x, y, out)
    PROVE  /\ GoodChan(channel_rcvd_commit(x.c)) /\ GoodChan(y.c)
           /\ y.c = channel_sending_revoke_and_ack(channel_rcvd_commit(x.c))
           /\ Saved(x.d, y.d, x.c, y.c, moving(x.c, rcvd_commit_states))
           /\ y.d.nextL = x.d.nextL + 1 /\ y.d.nextR = x.d.nextR /\ y.d.revs = x.d.revs
           /\ y.d.wasRevoke /\ y.d.lastSent = x.d.lastSent /\ y.d.htlcId = x.d.htlcId
  <1>1. PICK d1 : /\ DbKeeps(x.d, d1)
                  /\ y.d = peer_got_commitsig(d1, y.c, x.c, moving(x.c, rcvd_commit_states))
    BY DEF GotCommit
  <1>2. GoodChan(x.c) /\ x.d \in DbRecs
    BY DEF NodeType
  <1>3. GoodChan(channel_rcvd_commit(x.c))
    BY <1>2, ChangeGood DEF channel_rcvd_commit, Steps
  <1>4. GoodChan(y.c) /\ y.c = channel_sending_revoke_and_ack(channel_rcvd_commit(x.c))
    BY <1>3, ChangeGood DEF channel_sending_revoke_and_ack, Steps, GotCommit
  <1>5. moving(x.c, rcvd_commit_states) \subseteq DOMAIN x.c.htlcs
    BY DEF moving
  <1> DEFINE b == x.c
             c == y.c
             d == x.d
             e == y.d
             mv == moving(x.c, rcvd_commit_states)
  <1>6. /\ d \in DbRecs /\ DbKeeps(d, d1) /\ GoodChan(b) /\ GoodChan(c)
        /\ mv \subseteq DOMAIN b.htlcs /\ e = peer_got_commitsig(d1, c, b, mv)
    BY <1>1, <1>2, <1>4, <1>5
  <1> HIDE DEF b, c, d, e, mv
  <1>7. /\ Saved(d, e, b, c, mv)
        /\ e.nextL = d.nextL + 1 /\ e.nextR = d.nextR /\ e.revs = d.revs
        /\ e.wasRevoke /\ e.lastSent = d.lastSent /\ e.htlcId = d.htlcId
    BY <1>6, CommitSaved
  <1>8. QED
    BY <1>3, <1>4, <1>7 DEF b, c, d, e, mv

(* handle_peer_revoke_and_ack() *)
LEMMA TookRevoke ==
    ASSUME NEW n \in Nodes, NEW x, NodeType(n, x), NEW y, NEW out,
           GotRevoke(n, x, y, out)
    PROVE  /\ GoodChan(y.c) /\ y.c = channel_rcvd_revoke_and_ack(x.c)
           /\ Saved(x.d, y.d, x.c, y.c, moving(x.c, rcvd_revoke_states))
           /\ y.d.nextL = x.d.nextL /\ y.d.nextR = x.d.nextR /\ y.d.revs = x.d.revs + 1
           /\ y.d.wasRevoke = x.d.wasRevoke /\ y.d.lastSent = x.d.lastSent
           /\ y.d.htlcId = x.d.htlcId
  <1>1. PICK d1 : /\ DbKeeps(x.d, d1)
                  /\ y.d = peer_got_revoke(d1, y.c, x.c, moving(x.c, rcvd_revoke_states))
    BY DEF GotRevoke
  <1>2. GoodChan(x.c) /\ x.d \in DbRecs
    BY DEF NodeType
  <1>4. GoodChan(y.c) /\ y.c = channel_rcvd_revoke_and_ack(x.c)
    BY <1>2, ChangeGood DEF channel_rcvd_revoke_and_ack, Steps, GotRevoke
  <1>5. moving(x.c, rcvd_revoke_states) \subseteq DOMAIN x.c.htlcs
    BY DEF moving
  <1> DEFINE b == x.c
             c == y.c
             d == x.d
             e == y.d
             mv == moving(x.c, rcvd_revoke_states)
  <1>6. /\ d \in DbRecs /\ DbKeeps(d, d1) /\ GoodChan(b) /\ GoodChan(c)
        /\ mv \subseteq DOMAIN b.htlcs /\ e = peer_got_revoke(d1, c, b, mv)
    BY <1>1, <1>2, <1>4, <1>5
  <1> HIDE DEF b, c, d, e, mv
  <1>7. /\ Saved(d, e, b, c, mv)
        /\ e.nextL = d.nextL /\ e.nextR = d.nextR /\ e.revs = d.revs + 1
        /\ e.wasRevoke = d.wasRevoke /\ e.lastSent = d.lastSent /\ e.htlcId = d.htlcId
    BY <1>6, RevokeSaved
  <1>8. QED
    BY <1>4, <1>7 DEF b, c, d, e, mv

(* The opener never changes. *)
LEMMA OpenerStays ==
    ASSUME NEW c, GoodChan(c)
    PROVE  /\ channel_sending_commit(c).opener = c.opener
           /\ channel_rcvd_commit(c).opener = c.opener
           /\ channel_sending_revoke_and_ack(c).opener = c.opener
           /\ channel_rcvd_revoke_and_ack(c).opener = c.opener
  BY ChangeFields DEF GoodChan, Steps, channel_sending_commit, channel_rcvd_commit,
     channel_sending_revoke_and_ack, channel_rcvd_revoke_and_ack

(* What lightningd saves when it settles an HTLC. *)
LEMMA ResolutionSaved ==
    ASSUME NEW n, NEW x, NodeType(n, x), NEW y, NEW out, SavesResolution(n, x, y, out)
    PROVE  \E h \in DOMAIN x.d.htlcs, r \in {"fulfill", "fail"} :
             /\ x.d.htlcs[h].state = 14
             /\ y.d \in DbRecs /\ y.d.fee = x.d.fee /\ y.d.our = x.d.our
             /\ y.d.nextL = x.d.nextL /\ y.d.nextR = x.d.nextR /\ y.d.revs = x.d.revs
             /\ y.d.wasRevoke = x.d.wasRevoke /\ y.d.lastSent = x.d.lastSent
             /\ y.d.htlcId = x.d.htlcId
             /\ DOMAIN y.d.htlcs = DOMAIN x.d.htlcs
             /\ y.d.htlcs[h].state = 15 /\ y.d.htlcs[h].r = r
             /\ y.d.htlcs[h].amount = x.d.htlcs[h].amount
             /\ \A g \in DOMAIN x.d.htlcs : g # h => y.d.htlcs[g] = x.d.htlcs[g]
  <1>1. PICK h \in DOMAIN x.d.htlcs, r \in {"fulfill", "fail"} :
         /\ x.d.htlcs[h].state = 14
         /\ y.d = [x.d EXCEPT !.htlcs = [@ EXCEPT ![h] =
                     [x.d.htlcs[h] EXCEPT !.state = 15, !.r = r]]]
    BY DEF SavesResolution, RCVD_ADD_ACK_REVOCATION, SENT_REMOVE_HTLC
  <1> DEFINE row == [x.d.htlcs[h] EXCEPT !.state = 15, !.r = r]
             hs == [x.d.htlcs EXCEPT ![h] = row]
  <1>2. /\ x.d \in DbRecs /\ x.d.htlcs \in HtlcMaps
    BY DEF NodeType, DbRecs
  <1>3. /\ x.d.htlcs = [g \in DOMAIN x.d.htlcs |-> x.d.htlcs[g]]
        /\ IsFiniteSet(DOMAIN x.d.htlcs) /\ DOMAIN x.d.htlcs \subseteq HtlcKeys
        /\ \A g \in DOMAIN x.d.htlcs : GoodHtlc(g, x.d.htlcs[g]) /\ x.d.htlcs[g] \in HtlcRecs
    BY <1>2, HtlcMapElim
  <1>4. /\ row \in HtlcRecs /\ row.state = 15 /\ row.r = r /\ row.amount = x.d.htlcs[h].amount
        /\ GoodHtlc(h, row)
    <2> DEFINE z == x.d.htlcs[h]
    <2>1. z \in HtlcRecs /\ GoodHtlc(h, z) /\ z.state = 14 /\ row = [z EXCEPT !.state = 15, !.r = r]
      BY <1>1, <1>3
    <2> HIDE DEF z, row
    <2>2. row \in HtlcRecs /\ row.state = 15 /\ row.r = r /\ row.amount = z.amount
      <3>1. row = [state |-> 15, amount |-> z.amount, r |-> r]
        BY <2>1 DEF HtlcRecs
      <3>2. 15 \in HtlcStates /\ z.amount \in Nat
        BY <2>1 DEF HtlcRecs, HtlcStates
      <3>3. QED
        BY <3>1, <3>2 DEF HtlcRecs
    <2>3. QED
      BY <2>1, <2>2 DEF GoodHtlc, htlc_state_owner, RCVD_ADD_HTLC, z
  <1> HIDE DEF row
  <1>5. /\ DOMAIN hs = DOMAIN x.d.htlcs /\ hs[h] = row /\ hs = [g \in DOMAIN hs |-> hs[g]]
        /\ \A g \in DOMAIN x.d.htlcs : g # h => hs[g] = x.d.htlcs[g]
    BY <1>3
  <1>6. y.d = [x.d EXCEPT !.htlcs = hs]
    BY <1>1 DEF row
  <1> HIDE DEF hs
  <1>7. hs \in HtlcMaps
    BY <1>3, <1>4, <1>5, HtlcMapIntro
  <1> DEFINE e == y.d
             d == x.d
  <1>8. e = [d EXCEPT !.htlcs = hs] /\ d \in DbRecs
    BY <1>2, <1>6
  <1> HIDE DEF e, d
  <1>9. /\ e \in DbRecs /\ e.fee = d.fee /\ e.our = d.our /\ e.htlcs = hs
        /\ e.nextL = d.nextL /\ e.nextR = d.nextR /\ e.revs = d.revs
        /\ e.wasRevoke = d.wasRevoke /\ e.lastSent = d.lastSent /\ e.htlcId = d.htlcId
    BY <1>7, <1>8 DEF DbRecs
  <1>10. QED
    BY <1>1, <1>4, <1>5, <1>9 DEF e, d

(* A node's state keeps its type. *)
LEMMA NodeStepType ==
    ASSUME NEW n \in Nodes, NEW x, NodeType(n, x), NEW y, NEW out,
           NodeStep(n, x, y, out)
    PROVE  NodeType(n, y)
  <1>1. /\ GoodChan(x.c) /\ x.c.opener = OpenerSide(n) /\ x.p \in PeerRecs
        /\ x.d \in DbRecs /\ x.d.fee[last_fee_state(OpenerSide(n))] # 0
        /\ x.q \in Seq(Msgs) /\ x.g \in Txs
    BY DEF NodeType
  <1>2. x.q # << >> => Tail(x.q) \in Seq(Msgs) /\ Head(x.q) \in Msgs
    BY <1>1, Popped
  <1>3. CASE Quiet(n, x, y, out)
    BY <1>1, <1>2, <1>3 DEF NodeType, Quiet, PeerKeeps, DbKeeps
  <1>4. CASE Offers(n, x, y, out)
    <2>1. PICK a \in Nat : y.c = new_htlc(x.c, "local", x.p.htlcId, a)
      BY <1>4 DEF Offers
    <2>2. x.p.htlcId \in Nat
      BY <1>1 DEF PeerRecs
    <2> DEFINE c == x.c
               k == x.p.htlcId
    <2> HIDE DEF c, k
    <2>3. GoodChan(y.c) /\ y.c.opener = x.c.opener
      <3>1. GoodChan(c) /\ k \in Nat /\ "local" \in Sides
        BY <1>1, <2>2 DEF c, k, Sides
      <3>2. GoodChan(new_htlc(c, "local", k, a)) /\ new_htlc(c, "local", k, a).opener = c.opener
        BY <3>1, NewHtlc
      <3>3. QED
        BY <2>1, <3>2 DEF c, k
    <2>4. QED
      BY <1>1, <1>4, <2>3 DEF NodeType, Offers
  <1>5. CASE SavesResolution(n, x, y, out)
    <2>1. y.d \in DbRecs /\ y.d.fee = x.d.fee
      BY <1>5, ResolutionSaved
    <2>2. QED
      BY <1>1, <1>5, <2>1 DEF NodeType, SavesResolution
  <1>6. CASE Resolves(n, x, y, out)
    <2>1. PICK h \in DOMAIN x.d.htlcs :
            /\ x.d.htlcs[h].state = 15 /\ h \in DOMAIN x.c.htlcs
            /\ State(x.c, h) < 15 /\ y.c = remove_htlc(x.c, h, x.d.htlcs[h].r)
      BY <1>6 DEF Resolves, SENT_REMOVE_HTLC
    <2>2. GoodHtlc(h, x.d.htlcs[h]) /\ x.d.htlcs[h] \in HtlcRecs
      BY <1>1, HtlcMapElim DEF DbRecs
    <2>3. GoodHtlc(h, x.c.htlcs[h]) /\ x.c.htlcs[h] \in HtlcRecs
      BY <1>1, <2>1, HtlcMapElim DEF GoodChan, ChanRecs
    <2>4. State(x.c, h) \notin {9, 19}
      BY <2>1, <2>2, <2>3 DEF GoodHtlc, htlc_state_owner, RCVD_ADD_HTLC, State
    <2>5. GoodChan(y.c) /\ y.c.opener = x.c.opener
      <3>1. x.d.htlcs[h].r \in {"none", "fulfill", "fail"}
        BY <2>2 DEF HtlcRecs
      <3>2. QED
        BY <1>1, <2>1, <2>4, <3>1, RemoveHtlc
    <2>6. QED
      BY <1>1, <1>6, <2>5 DEF NodeType, Resolves, PeerKeeps
  <1>7. CASE GotAdd(n, x, y, out)
    <2>1. Head(x.q).id \in Nat /\ Head(x.q).amount \in Nat
      BY <1>2, <1>7, MsgFields DEF GotAdd, Reads
    <2> DEFINE c == x.c
               m == Head(x.q)
    <2> HIDE DEF c, m
    <2>2. GoodChan(y.c) /\ y.c.opener = x.c.opener
      <3>1. GoodChan(c) /\ m.id \in Nat /\ m.amount \in Nat /\ "remote" \in Sides
        BY <1>1, <2>1 DEF c, m, Sides
      <3>2. /\ GoodChan(new_htlc(c, "remote", m.id, m.amount))
            /\ new_htlc(c, "remote", m.id, m.amount).opener = c.opener
        BY <3>1, NewHtlc
      <3>3. QED
        BY <1>7, <3>2 DEF c, m, GotAdd
    <2>3. QED
      BY <1>1, <1>2, <1>7, <2>2 DEF NodeType, GotAdd, Reads
  <1>8. CASE GotRemove(n, x, y, out)
    <2>1. GoodChan(y.c) /\ y.c.opener = x.c.opener
      <3> DEFINE h == <<"local", Head(x.q).id>>
      <3>1. Head(x.q).type \in {"fulfill", "fail"}
        BY <1>8 DEF GotRemove, Reads
      <3>2. CASE ~remove_htlc_ok(x.c, h)
        BY <1>1, <1>8, <3>2 DEF GotRemove
      <3>3. CASE remove_htlc_ok(x.c, h)
        <4>1. h \in DOMAIN x.c.htlcs /\ State(x.c, h) \in {4, 14}
          BY <3>3 DEF remove_htlc_ok, SENT_ADD_ACK_REVOCATION, RCVD_ADD_ACK_REVOCATION
        <4>2. y.c = remove_htlc(x.c, h, Head(x.q).type)
          BY <1>8, <3>3 DEF GotRemove
        <4> HIDE DEF h
        <4>3. QED
          BY <1>1, <3>1, <4>1, <4>2, RemoveHtlc
      <3>4. QED
        BY <3>2, <3>3
    <2>2. y.q \in Seq(Msgs)
      BY <1>2, <1>8 DEF GotRemove, Reads
    <2>3. QED
      BY <1>1, <1>8, <2>1, <2>2 DEF NodeType, GotRemove, PeerKeeps
  <1>9. CASE GotFee(n, x, y, out)
    <2>1. Head(x.q).rate \in Nat
      BY <1>2, <1>9, MsgFields DEF GotFee, Reads
    <2>2. GoodChan(y.c) /\ y.c.opener = x.c.opener
      <3> DEFINE c == x.c
                 rate == Head(x.q).rate
      <3> HIDE DEF c, rate
      <3>1. GoodChan(c) /\ rate \in Nat
        BY <1>1, <2>1 DEF c, rate
      <3>2. /\ GoodChan(channel_update_feerate(c, rate))
            /\ channel_update_feerate(c, rate).opener = c.opener
        BY <3>1, UpdateFeerate
      <3>3. QED
        BY <1>9, <3>2 DEF c, rate, GotFee
    <2>3. QED
      BY <1>1, <1>2, <1>9, <2>2 DEF NodeType, GotFee, Reads
  <1>10. CASE SendsCommit(n, x, y, out)
    <2>1. PICK c1 :
             /\ GoodChan(c1) /\ c1.opener = x.c.opener
             /\ y.c = channel_sending_commit(c1) /\ GoodChan(y.c)
             /\ Saved(x.d, y.d, c1, y.c, moving(c1, sending_commit_states))
      BY <1>10, SentCommit DEF Commits
    <2>2. y.c.opener = OpenerSide(n)
      BY <1>1, <2>1, OpenerStays
    <2>3. y.d \in DbRecs /\ y.d.fee[last_fee_state(OpenerSide(n))] # 0
      BY <2>1, <2>2, SavedFee
    <2>4. y.g \in Txs
      <3>1. x.p.nextR \in Int
        BY <1>1 DEF PeerRecs
      <3>2. QED
        BY <1>10, <2>1, <3>1, CommitTxType DEF SendsCommit, Sides
    <2>5. QED
      BY <1>1, <1>10, <2>1, <2>2, <2>3, <2>4 DEF NodeType, SendsCommit
  <1>11. CASE GotCommit(n, x, y, out)
    <2>1. /\ GoodChan(channel_rcvd_commit(x.c)) /\ GoodChan(y.c)
          /\ y.c = channel_sending_revoke_and_ack(channel_rcvd_commit(x.c))
          /\ Saved(x.d, y.d, x.c, y.c, moving(x.c, rcvd_commit_states))
      BY <1>11, TookCommit
    <2>2. y.c.opener = OpenerSide(n)
      BY <1>1, <2>1, OpenerStays
    <2>3. y.d \in DbRecs /\ y.d.fee[last_fee_state(OpenerSide(n))] # 0
      BY <2>1, <2>2, SavedFee
    <2>4. QED
      BY <1>1, <1>2, <1>11, <2>1, <2>2, <2>3 DEF NodeType, GotCommit, Reads
  <1>12. CASE GotRevoke(n, x, y, out)
    <2>1. /\ GoodChan(y.c) /\ y.c = channel_rcvd_revoke_and_ack(x.c)
          /\ Saved(x.d, y.d, x.c, y.c, moving(x.c, rcvd_revoke_states))
      BY <1>12, TookRevoke
    <2>2. y.c.opener = OpenerSide(n)
      BY <1>1, <2>1, OpenerStays
    <2>3. y.d \in DbRecs /\ y.d.fee[last_fee_state(OpenerSide(n))] # 0
      BY <2>1, <2>2, SavedFee
    <2>4. QED
      BY <1>1, <1>2, <1>12, <2>1, <2>2, <2>3 DEF NodeType, GotRevoke, Reads
  <1>13. CASE Answers(n, x, y, out)
    BY <1>1, <1>2, <1>13 DEF NodeType, Answers, PeerKeeps
  <1>14. QED
    BY <1>3, <1>4, <1>5, <1>6, <1>7, <1>8, <1>9, <1>10, <1>11, <1>12, <1>13 DEF NodeStep

-----------------------------------------------------------------------------
(* Every variable keeps its type.                                           *)

(* The state a new channeld starts from. *)
LEMMA RestoredType ==
    ASSUME NEW n \in Nodes, NEW d \in DbRecs, d.fee[last_fee_state(OpenerSide(n))] # 0,
           NEW phase \in {"run", "closing", "down", "reestablish"}
    PROVE  LET c == RestoredChannel(n, d)
               p == RestoredPeer(n, d, phase)
           IN  /\ GoodChan(c) /\ c.opener = OpenerSide(n) /\ c.htlcs = d.htlcs /\ c.fee = d.fee
               /\ Balanced(c, d.our)
               /\ p \in PeerRecs
               /\ p.nextL = d.nextL /\ p.nextR = d.nextR /\ p.revs = d.revs
               /\ p.htlcId = d.htlcId /\ p.phase = phase
  <1> DEFINE c == RestoredChannel(n, d)
             p == RestoredPeer(n, d, phase)
             f == channel_feerate(c, "remote")
  <1>1. /\ d.htlcs \in HtlcMaps /\ d.fee \in Slots /\ d.our \in Int /\ d.nextL \in Nat
        /\ d.nextR \in Nat /\ d.revs \in Nat /\ d.htlcId \in Nat
        /\ d.shutting \in BOOLEAN /\ d.rshut \in BOOLEAN
    BY DEF DbRecs
  <1>2. /\ GoodChan(c) /\ c.opener = OpenerSide(n) /\ c.htlcs = d.htlcs /\ c.fee = d.fee
        /\ Balanced(c, d.our)
    BY <1>1, Restored
  <1>3. f \in Nat \ {0}
    BY <1>2, FeerateType DEF Sides
  <1>4. p = [nextL |-> d.nextL, nextR |-> d.nextR, revs |-> d.revs, timer |-> FALSE,
             lastEmpty |-> 0, htlcId |-> d.htlcId, desired |-> f, phase |-> phase,
             sendShut |-> d.shutting, shutL |-> FALSE, shutR |-> d.rshut]
    BY DEF RestoredPeer
  <1> HIDE DEF c, f, p
  <1>5. p \in PeerRecs /\ p.nextL = d.nextL /\ p.nextR = d.nextR /\ p.revs = d.revs
        /\ p.htlcId = d.htlcId /\ p.phase = phase
    BY <1>1, <1>3, <1>4 DEF PeerRecs
  <1>6. QED
    BY <1>2, <1>5 DEF c, p

(* A restart restores a well formed node. *)
LEMMA BreakType ==
    ASSUME NEW n \in Nodes, NEW x, NodeType(n, x), NEW y, Breaks(n, x, y)
    PROVE  NodeType(n, y)
  <1> DEFINE d == x.d
  <1>1. d \in DbRecs /\ d.fee[last_fee_state(OpenerSide(n))] # 0 /\ x.g \in Txs
    BY DEF NodeType
  <1> HIDE DEF d
  <1>2. /\ GoodChan(RestoredChannel(n, d)) /\ RestoredChannel(n, d).opener = OpenerSide(n)
        /\ RestoredPeer(n, d, "down") \in PeerRecs
    BY <1>1, RestoredType
  <1>3. << >> \in Seq(Msgs)
    OBVIOUS
  <1>4. QED
    BY <1>1, <1>2, <1>3 DEF NodeType, Breaks, d

(* So does a reconnection. *)
LEMMA ReopenType ==
    ASSUME NEW n, NEW x, NodeType(n, x), NEW m, NEW z, NodeType(m, z), NEW y, Reopens(x, y, z)
    PROVE  NodeType(n, y)
  <1>1. x.p \in PeerRecs /\ z.p \in PeerRecs
    BY DEF NodeType
  <1>2. reestablish(z.p) \in Msgs
    BY <1>1, MsgReestablish DEF reestablish, PeerRecs
  <1>3. <<reestablish(z.p)>> \in Seq(Msgs)
    BY <1>2, OneQueued
  <1>4. [x.p EXCEPT !.phase = "reestablish"] \in PeerRecs
    BY <1>1 DEF PeerRecs
  <1>5. QED
    BY <1>3, <1>4 DEF NodeType, Reopens

(* So does a message heard. *)
LEMMA HearType ==
    ASSUME NEW n, NEW x, NodeType(n, x), NEW out \in Seq(Msgs), NEW y, Hears(x, y, out)
    PROVE  NodeType(n, y)
  <1> DEFINE q == x.q
  <1>1. q \in Seq(Msgs)
    BY DEF NodeType
  <1> HIDE DEF q
  <1>2. q \o out \in Seq(Msgs)
    BY <1>1, Queued
  <1>3. QED
    BY <1>2 DEF NodeType, Hears, q

(* Every step keeps the types and is one of the steps named above. *)
LEMMA TypeStep ==
    ASSUME TypeInv, [Next]_vars
    PROVE  TypeInv' /\ Steps3
  <1>1. Steps3
    BY NextSteps
  <1>2. Shape'
    BY ShapeStep DEF TypeInv
  <1>3. \A n \in Nodes : NodeType(n, Node(n)) /\ NodeType(Peer(n), Node(Peer(n)))
    BY TwoNodes DEF TypeInv
  <1>4. ASSUME NEW n \in Nodes
        PROVE  NodeType(n, Node(n)')
    <2>1. CASE \E m \in Nodes : \E out \in Seq(Msgs) :
                 NodeStep(m, Node(m), Node(m)', out) /\ Hears(Node(Peer(m)), Node(Peer(m))', out)
      <3>1. PICK m \in Nodes, out \in Seq(Msgs) :
                 NodeStep(m, Node(m), Node(m)', out) /\ Hears(Node(Peer(m)), Node(Peer(m))', out)
        BY <2>1
      <3>2. CASE n = m
        BY <1>3, <3>1, <3>2, NodeStepType
      <3>3. CASE n = Peer(m)
        BY <1>3, <3>1, <3>3, HearType
      <3>4. QED
        BY <3>2, <3>3, TwoNodes
    <2>2. CASE \A m \in Nodes : Breaks(m, Node(m), Node(m)')
      BY <1>3, <2>2, BreakType
    <2>3. CASE \A m \in Nodes : Reopens(Node(m), Node(m)', Node(Peer(m)))
      BY <1>3, <2>3, ReopenType
    <2>4. CASE \A m \in Nodes : Node(m)' = Node(m)
      BY <1>3, <2>4
    <2>5. QED
      BY <1>1, <2>1, <2>2, <2>3, <2>4 DEF Steps3
  <1>5. QED
    BY <1>1, <1>2, <1>4 DEF TypeInv

(* The first state is well formed. *)
LEMMA TypeInit ==
    ASSUME Init
    PROVE  TypeInv
  <1>1. /\ db = [n \in Nodes |-> InitDb(n)]
        /\ chan = [n \in Nodes |-> RestoredChannel(n, db[n])]
        /\ peer = [n \in Nodes |-> RestoredPeer(n, db[n], "run")]
        /\ pipe = [n \in Nodes |-> EmptyPipe]
        /\ net = [n \in Nodes |-> << >>]
        /\ target = InitialFeerate
        /\ budget \in Budgets
        /\ signed = [n \in Nodes |-> CommitTx(n, RestoredChannel(n, db[n]), "remote", 0)]
    BY DEF Init
  <1>2. ASSUME NEW n \in Nodes
        PROVE  InitDb(n) \in DbRecs /\ InitDb(n).fee[last_fee_state(OpenerSide(n))] # 0
    <2> DEFINE fee == new_fee_states(OpenerSide(n), InitialFeerate)
               our == IF n = A THEN OpenerMsat ELSE Funding - OpenerMsat
               none == [h \in {} |-> h]
               e == InitDb(n)
    <2>1. fee \in Slots /\ fee[last_fee_state(OpenerSide(n))] # 0
      BY ChanneldAssumption DEF new_fee_states, Slots, last_fee_state, HtlcStates,
         SENT_ADD_ACK_REVOCATION, RCVD_ADD_ACK_REVOCATION
    <2>2. our \in Int
      BY ChanneldAssumption
    <2>3. << >> \in HtlcMaps
      <3>1. DOMAIN << >> = {} /\ << >> = [h \in DOMAIN << >> |-> << >>[h]]
        OBVIOUS
      <3>2. QED
        BY <3>1, HtlcMapIntro, FS_EmptySet
    <2>4. e = [htlcs |-> << >>, fee |-> fee, our |-> our, nextL |-> 1, nextR |-> 1, revs |-> 0,
               wasRevoke |-> FALSE, lastSent |-> {}, htlcId |-> 0, shutting |-> FALSE,
               rshut |-> FALSE]
      BY DEF InitDb
    <2> HIDE DEF e, fee, our
    <2>5. e \in DbRecs /\ e.fee = fee
      BY <2>1, <2>2, <2>3, <2>4 DEF DbRecs
    <2>6. QED
      BY <2>1, <2>5 DEF e
  <1>3. ASSUME NEW n \in Nodes
        PROVE  NodeType(n, Node(n))
    <2> DEFINE d == InitDb(n)
    <2>1. /\ db[n] = d /\ chan[n] = RestoredChannel(n, d) /\ peer[n] = RestoredPeer(n, d, "run")
          /\ net[n] = << >> /\ signed[n] = CommitTx(n, RestoredChannel(n, d), "remote", 0)
      BY <1>1
    <2>2. d \in DbRecs /\ d.fee[last_fee_state(OpenerSide(n))] # 0
      BY <1>2
    <2> HIDE DEF d
    <2>3. /\ GoodChan(RestoredChannel(n, d)) /\ RestoredChannel(n, d).opener = OpenerSide(n)
          /\ RestoredPeer(n, d, "run") \in PeerRecs
      BY <2>2, RestoredType
    <2>4. signed[n] \in Txs
      BY <2>1, <2>3, CommitTxType DEF Sides
    <2>5. << >> \in Seq(Msgs)
      OBVIOUS
    <2>6. QED
      BY <2>1, <2>2, <2>3, <2>4, <2>5 DEF NodeType, Node
  <1>4. Shape
    <2>1. [n \in Nodes |-> EmptyPipe] \in [Nodes -> PipeRecs]
      BY DEF EmptyPipe, PipeRecs
    <2>2. budget \in BudgetRecs /\ target \in Nat \ {0}
      BY <1>1, ChanneldAssumption DEF BudgetRecs
    <2>3. QED
      BY <1>1, <2>1, <2>2 DEF Shape
  <1>5. QED
    BY <1>3, <1>4 DEF TypeInv

(* The type of every variable: what each daemon's state, each database and  *)
(* each queue holds, and that a feerate is in force in every channel.       *)
THEOREM TypeCorrect == Spec => []TypeInv
  <1>1. Init => TypeInv
    BY TypeInit
  <1>2. TypeInv /\ [Next]_vars => TypeInv'
    BY TypeStep
  <1>3. QED
    BY <1>1, <1>2, PTL DEF Spec

-----------------------------------------------------------------------------
(* The numbers of commitments and revocations, and the handshake.  x is a   *)
(* node, z its peer, z.q what x has sent and z has yet to read.             *)

Nums(x) == x.d.nextL = x.p.nextL /\ x.d.nextR = x.p.nextR /\ x.d.revs = x.p.revs

RevokeNot(k) == {m \in Msgs : m.type = "revoke" /\ m.num # k}

LinkNums(x, z) ==
    /\ x.p.revs <= z.p.nextL - 1
    /\ z.p.nextL <= x.p.nextR
    /\ x.p.nextR <= x.p.revs + 2
    /\ Has(z.q, OfType("commit")) => x.p.nextR = z.p.nextL + 1
    /\ One(z.q, OfType("commit"))
    /\ Has(z.q, OfType("revoke")) => z.p.revs = x.p.nextL - 2
    /\ ~Has(z.q, RevokeNot(x.p.nextL - 2))
    /\ One(z.q, OfType("revoke"))

LinkPhase(x, z) ==
    /\ x.p.phase = "down" => z.p.phase = "down" /\ x.q = << >> /\ z.q = << >>
    /\ z.p.phase = "reestablish" =>
         /\ z.q # << >> /\ Head(z.q) = reestablish(x.p)
         /\ ~Has(Tail(z.q), OfType("reestablish"))
    /\ z.p.phase \in {"run", "closing"} => ~Has(z.q, OfType("reestablish"))
    /\ x.p.phase = "reestablish" =>
         z.q = IF z.p.phase = "reestablish" THEN <<reestablish(x.p)>> ELSE << >>

Link(x, z) == LinkNums(x, z) /\ LinkPhase(x, z)

(* A message at the front stays there. *)
LEMMA FrontStays ==
    ASSUME NEW M, NEW q \in Seq(M), q # << >>, NEW r \in Seq(M)
    PROVE  q \o r # << >> /\ Head(q \o r) = Head(q) /\ Tail(q \o r) = Tail(q) \o r
  OBVIOUS

(* The messages of a type. *)
LEMMA TypesDiffer ==
    \A m \in Msgs : \A t : m \in OfType(t) <=> m.type = t
  BY DEF OfType

(* What is sent without moving the numbers. *)
Harmless(out) ==
    /\ ~Has(out, OfType("commit")) /\ ~Has(out, OfType("revoke"))
    /\ ~Has(out, OfType("reestablish"))
    /\ \A k : ~Has(out, RevokeNot(k))

(* One message that moves no number. *)
LEMMA HarmlessOne ==
    ASSUME NEW m \in Msgs, m.type \notin {"commit", "revoke", "reestablish"}
    PROVE  Harmless(<<m>>)
  BY OneQueued DEF Harmless, OfType, RevokeNot
(* No message moves none. *)
LEMMA HarmlessNone == Harmless(<< >>)
  BY NoneQueued DEF Harmless

(* A node's state without what the link is not about. *)
LinkType(x) == x.p \in PeerRecs /\ x.q \in Seq(Msgs)
SameNums(p, p2) ==
    /\ p2 \in PeerRecs
    /\ p2.nextL = p.nextL /\ p2.nextR = p.nextR /\ p2.revs = p.revs
Onward(x, y) ==
    \/ y.p.phase = x.p.phase
    \/ x.p.phase = "run" /\ y.p.phase \in {"run", "closing"}
Pops(x, y) ==
    /\ x.q # << >> /\ y.q = Tail(x.q)
    /\ x.p.phase \in {"run", "closing"}

(* The handshake does not mind a step that keeps the counters a reestablish *)
(* message carries, or makes in answer to a message.                        *)
LEMMA PhaseKept ==
    ASSUME NEW x, NEW y, NEW z, NEW w, NEW out \in Seq(Msgs),
           LinkType(x), LinkType(z), LinkPhase(x, z), LinkPhase(z, x),
           Onward(x, y), y.q = x.q \/ Pops(x, y),
           (y.p.nextL = x.p.nextL /\ y.p.revs = x.p.revs) \/ Pops(x, y),
           ~Has(out, OfType("reestablish")), out = << >> \/ x.p.phase = "run",
           w.p = z.p, w.q = z.q \o out
    PROVE  LinkPhase(y, w) /\ LinkPhase(w, y)
  <1> DEFINE a == x.p.phase
             b == z.p.phase
             q == x.q
             r == z.q
             s == w.q
  <1>1. /\ q \in Seq(Msgs) /\ r \in Seq(Msgs) /\ s = r \o out
        /\ y.q = q \/ (q # << >> /\ y.q = Tail(q) /\ a \in {"run", "closing"})
    BY DEF LinkType, Pops
  <1> HIDE DEF q, r, s
  <1>2. s \in Seq(Msgs) /\ \A T : Has(s, T) <=> Has(r, T) \/ Has(out, T)
    BY <1>1, Queued
  <1>3. q # << >> => \A T : Has(q, T) <=> Head(q) \in T \/ Has(Tail(q), T)
    BY <1>1, Popped
  <1>4. out = << >> => s = r
    BY <1>1
  <1>5. r # << >> => s # << >> /\ Head(s) = Head(r) /\ Tail(s) = Tail(r) \o out
                      /\ Tail(r) \in Seq(Msgs)
    BY <1>1, FrontStays
  <1>6. r # << >> => \A T : Has(Tail(s), T) <=> Has(Tail(r), T) \/ Has(out, T)
    <2> DEFINE u == Tail(r)
    <2> HIDE DEF u
    <2>1. SUFFICES ASSUME r # << >>
                   PROVE  \A T : Has(Tail(s), T) <=> Has(u, T) \/ Has(out, T)
      BY DEF u
    <2>2. u \in Seq(Msgs) /\ Tail(s) = u \o out
      BY <1>5, <2>1 DEF u
    <2>3. \A T : Has(u \o out, T) <=> Has(u, T) \/ Has(out, T)
      BY <2>2, Queued
    <2>4. QED
      BY <2>2, <2>3
  <1>7. /\ a = "down" => b = "down" /\ q = << >> /\ r = << >>
        /\ b = "reestablish" => /\ r # << >> /\ Head(r) = reestablish(x.p)
                                /\ ~Has(Tail(r), OfType("reestablish"))
        /\ b \in {"run", "closing"} => ~Has(r, OfType("reestablish"))
        /\ a = "reestablish" =>
             r = IF b = "reestablish" THEN <<reestablish(x.p)>> ELSE << >>
    BY DEF LinkPhase, q, r
  <1>8. /\ b = "down" => a = "down" /\ r = << >> /\ q = << >>
        /\ a = "reestablish" => /\ q # << >> /\ Head(q) = reestablish(z.p)
                                /\ ~Has(Tail(q), OfType("reestablish"))
        /\ a \in {"run", "closing"} => ~Has(q, OfType("reestablish"))
        /\ b = "reestablish" =>
             q = IF a = "reestablish" THEN <<reestablish(z.p)>> ELSE << >>
    BY DEF LinkPhase, q, r
  <1>9. b = "reestablish" \/ a = "reestablish" => reestablish(y.p) = reestablish(x.p)
    BY <1>8 DEF reestablish, Pops, q
  <1>10. Has(q, OfType("reestablish")) \/ ~Has(y.q, OfType("reestablish"))
    BY <1>1, <1>3
  <1>11. y.p.phase = a \/ (a = "run" /\ y.p.phase \in {"run", "closing"})
    BY DEF Onward
  <1>12. w.p = z.p /\ w.p.phase = b /\ w.q = s
    BY DEF s
  <1> HIDE DEF a, b
  <1>13. LinkPhase(y, w)
    <2>1. y.p.phase = "down" => w.p.phase = "down" /\ y.q = << >> /\ w.q = << >>
      BY <1>1, <1>4, <1>7, <1>11, <1>12 DEF a
    <2>2. w.p.phase = "reestablish" =>
            /\ w.q # << >> /\ Head(w.q) = reestablish(y.p)
            /\ ~Has(Tail(w.q), OfType("reestablish"))
      BY <1>5, <1>6, <1>7, <1>9, <1>12
    <2>3. w.p.phase \in {"run", "closing"} => ~Has(w.q, OfType("reestablish"))
      BY <1>2, <1>7, <1>12
    <2>4. y.p.phase = "reestablish" =>
            w.q = IF w.p.phase = "reestablish" THEN <<reestablish(y.p)>> ELSE << >>
      BY <1>4, <1>7, <1>9, <1>11, <1>12 DEF a
    <2>5. QED
      BY <2>1, <2>2, <2>3, <2>4 DEF LinkPhase
  <1>14. LinkPhase(w, y)
    <2>1. w.p.phase = "down" => y.p.phase = "down" /\ w.q = << >> /\ y.q = << >>
      BY <1>1, <1>4, <1>8, <1>11, <1>12 DEF a
    <2>2. y.p.phase = "reestablish" =>
            /\ y.q # << >> /\ Head(y.q) = reestablish(w.p)
            /\ ~Has(Tail(y.q), OfType("reestablish"))
      BY <1>1, <1>8, <1>11, <1>12
    <2>3. y.p.phase \in {"run", "closing"} => ~Has(y.q, OfType("reestablish"))
      BY <1>8, <1>10, <1>11
    <2>4. w.p.phase = "reestablish" =>
            y.q = IF y.p.phase = "reestablish" THEN <<reestablish(w.p)>> ELSE << >>
      BY <1>1, <1>8, <1>11, <1>12
    <2>5. QED
      BY <2>1, <2>2, <2>3, <2>4 DEF LinkPhase
  <1>15. QED
    BY <1>13, <1>14

(* Nor do the numbers mind a step that keeps them. *)
LEMMA NumsKept ==
    ASSUME NEW x, NEW y, NEW z, NEW w, NEW out \in Seq(Msgs),
           LinkType(x), LinkType(z), LinkNums(x, z), LinkNums(z, x),
           y.q = x.q \/ (x.q # << >> /\ y.q = Tail(x.q)),
           SameNums(x.p, y.p), Harmless(out),
           w.p = z.p, w.q = z.q \o out
    PROVE  LinkNums(y, w) /\ LinkNums(w, y)
  <1> DEFINE q == x.q
             r == z.q
             s == w.q
             t == y.q
  <1>1. /\ q \in Seq(Msgs) /\ r \in Seq(Msgs) /\ s = r \o out
        /\ t = q \/ (q # << >> /\ t = Tail(q))
    BY DEF LinkType
  <1> HIDE DEF q, r, s, t
  <1>2. /\ \A T : Has(s, T) <=> Has(r, T) \/ Has(out, T)
        /\ \A T : One(r, T) /\ ~Has(out, T) => One(s, T)
    <2>1. \A T : ~Has(out, T) => One(out, T)
      BY DEF Has, One
    <2>2. QED
      BY <1>1, <2>1, Queued
  <1>3. /\ \A T : Has(t, T) => Has(q, T)
        /\ \A T : One(q, T) => One(t, T)
    <2>1. CASE t = q
      BY <2>1
    <2>2. CASE q # << >> /\ t = Tail(q)
      BY <1>1, <2>2, Popped
    <2>3. QED
      BY <1>1, <2>1, <2>2
  <1>4. /\ ~Has(out, OfType("commit")) /\ ~Has(out, OfType("revoke"))
        /\ \A k : ~Has(out, RevokeNot(k))
    BY DEF Harmless
  <1>5. LinkNums(y, w)
    BY <1>2, <1>4 DEF LinkNums, SameNums, r, s
  <1>6. LinkNums(w, y)
    BY <1>3 DEF LinkNums, SameNums, q, t
  <1>7. QED
    BY <1>5, <1>6

(* send_commit() moves nextR; the peer has revoked all before. *)
LEMMA NumsSentCommit ==
    ASSUME NEW x, NEW y, NEW z, NEW w, NEW out \in Seq(Msgs),
           LinkType(x), LinkType(z), LinkNums(x, z), LinkNums(z, x),
           x.p.revs = x.p.nextR - 1, y.q = x.q, y.p \in PeerRecs,
           y.p.nextR = x.p.nextR + 1, y.p.nextL = x.p.nextL, y.p.revs = x.p.revs,
           One(out, OfType("commit")), ~Has(out, OfType("revoke")),
           \A k : ~Has(out, RevokeNot(k)),
           w.p = z.p, w.q = z.q \o out
    PROVE  LinkNums(y, w) /\ LinkNums(w, y)
  <1> DEFINE r == z.q
             s == w.q
  <1>1. r \in Seq(Msgs) /\ s = r \o out
    BY DEF LinkType
  <1> HIDE DEF r, s
  <1>2. /\ \A T : Has(s, T) <=> Has(r, T) \/ Has(out, T)
        /\ \A T : One(r, T) /\ One(out, T) /\ ~(Has(out, T) /\ Has(r, T)) => One(s, T)
        /\ \A T : ~Has(out, T) => One(out, T)
    <2>1. \A T : ~Has(out, T) => One(out, T)
      BY DEF Has, One
    <2>2. QED
      BY <1>1, <2>1, Queued
  <1>3. /\ x.p.nextR \in Nat /\ x.p.nextL \in Nat /\ x.p.revs \in Nat
        /\ z.p.nextR \in Nat /\ z.p.nextL \in Nat /\ z.p.revs \in Nat
    BY DEF LinkType, PeerRecs
  <1>4. z.p.nextL = x.p.nextR /\ ~Has(r, OfType("commit"))
    <2>1. /\ x.p.revs <= z.p.nextL - 1 /\ z.p.nextL <= x.p.nextR
          /\ Has(r, OfType("commit")) => x.p.nextR = z.p.nextL + 1
      BY DEF LinkNums, r
    <2>2. QED
      BY <1>3, <2>1
  <1>5. LinkNums(y, w)
    <2>1. /\ One(s, OfType("commit")) /\ One(s, OfType("revoke"))
          /\ Has(s, OfType("revoke")) <=> Has(r, OfType("revoke"))
          /\ Has(s, RevokeNot(x.p.nextL - 2)) <=> Has(r, RevokeNot(x.p.nextL - 2))
      BY <1>2, <1>4 DEF LinkNums, r
    <2>2. /\ w.p = z.p /\ w.q = s /\ y.p.nextL - 2 = x.p.nextL - 2
      BY DEF s
    <2>3. QED
      BY <1>3, <1>4, <2>1, <2>2 DEF LinkNums, r
  <1>6. LinkNums(w, y)
    BY <1>3 DEF LinkNums
  <1>7. QED
    BY <1>5, <1>6

(* handle_peer_commit_sig() moves nextL and revokes one. *)
LEMMA NumsGotCommit ==
    ASSUME NEW x, NEW y, NEW z, NEW w,
           LinkType(x), LinkType(z), LinkNums(x, z), LinkNums(z, x),
           x.q # << >>, Head(x.q).type = "commit", y.q = Tail(x.q), y.p \in PeerRecs,
           y.p.nextL = x.p.nextL + 1, y.p.nextR = x.p.nextR, y.p.revs = x.p.revs,
           w.p = z.p, w.q = z.q \o <<RevokeMsg(x.p.nextL - 1)>>
    PROVE  LinkNums(y, w) /\ LinkNums(w, y)
  <1> DEFINE q == x.q
             t == y.q
             r == z.q
             s == w.q
             m == RevokeMsg(x.p.nextL - 1)
             out == <<m>>
  <1>1. /\ x.p.nextR \in Nat /\ x.p.nextL \in Nat /\ x.p.revs \in Nat
        /\ z.p.nextR \in Nat /\ z.p.nextL \in Nat /\ z.p.revs \in Nat
    BY DEF LinkType, PeerRecs
  <1>2. m \in Msgs /\ m.type = "revoke" /\ m.num = x.p.nextL - 1
    BY <1>1, MsgRevoke DEF RevokeMsg
  <1> HIDE DEF m
  <1>3. /\ out \in Seq(Msgs) /\ \A T : Has(out, T) <=> m \in T
        /\ \A T : One(out, T)
    BY <1>2, OneQueued
  <1>4. /\ q \in Seq(Msgs) /\ q # << >> /\ t = Tail(q) /\ r \in Seq(Msgs) /\ s = r \o out
    BY DEF LinkType, m
  <1> HIDE DEF q, r, s, t, out
  <1>5. /\ \A T : Has(s, T) <=> Has(r, T) \/ Has(out, T)
        /\ \A T : One(r, T) /\ One(out, T) /\ ~(Has(out, T) /\ Has(r, T)) => One(s, T)
    BY <1>3, <1>4, Queued
  <1>6. /\ Head(q) \in Msgs
        /\ \A T : Has(q, T) <=> Head(q) \in T \/ Has(t, T)
        /\ \A T : One(q, T) => One(t, T) /\ ~(Head(q) \in T /\ Has(t, T))
    BY <1>4, Popped
  <1>7. Head(q) \in OfType("commit")
    BY <1>6 DEF OfType, q
  <1>8. z.p.nextR = x.p.nextL + 1 /\ z.p.revs = x.p.nextL - 1
    <2>1. /\ Has(q, OfType("commit")) => z.p.nextR = x.p.nextL + 1
          /\ z.p.revs <= x.p.nextL - 1 /\ z.p.nextR <= z.p.revs + 2
      BY DEF LinkNums, q
    <2>2. Has(q, OfType("commit"))
      BY <1>6, <1>7
    <2>3. \A i, j, k \in Nat : j <= i - 1 /\ i + 1 <= j + 2 => j = i - 1
      OBVIOUS
    <2>4. z.p.nextR = x.p.nextL + 1 /\ x.p.nextL + 1 <= z.p.revs + 2
      BY <2>1, <2>2
    <2>5. QED
      BY <1>1, <2>1, <2>3, <2>4
  <1>9. ~Has(r, OfType("revoke")) /\ \A k : ~Has(r, RevokeNot(k))
    <2>1. ~Has(r, OfType("revoke"))
      BY <1>1, <1>8 DEF LinkNums, r
    <2>2. QED
      BY <2>1 DEF Has, RevokeNot, OfType
  <1>10. /\ m \notin OfType("commit") /\ m \notin RevokeNot(x.p.nextL - 1)
    BY <1>1, <1>2 DEF OfType, RevokeNot
  <1>11. LinkNums(y, w)
    <2>1. /\ x.p.nextL + 1 - 2 = x.p.nextL - 1 /\ y.p.nextL - 2 = x.p.nextL - 1
      BY <1>1
    <2>2. ~Has(s, RevokeNot(y.p.nextL - 2))
      BY <1>3, <1>5, <1>9, <1>10, <2>1
    <2>3. Has(s, OfType("commit")) <=> Has(r, OfType("commit"))
      BY <1>3, <1>5, <1>10
    <2>4. One(s, OfType("commit")) /\ One(s, OfType("revoke"))
      BY <1>3, <1>5, <1>9, <1>10 DEF LinkNums, r
    <2>5. QED
      BY <1>1, <1>8, <2>1, <2>2, <2>3, <2>4 DEF LinkNums, r, s
  <1>12. LinkNums(w, y)
    <2>1. ~Has(t, OfType("commit")) /\ One(t, OfType("commit")) /\ One(t, OfType("revoke"))
      BY <1>6, <1>7 DEF LinkNums, q
    <2>2. QED
      BY <1>1, <1>6, <1>8, <2>1 DEF LinkNums, q, t
  <1>13. QED
    BY <1>11, <1>12

(* handle_peer_revoke_and_ack() moves revs. *)
LEMMA NumsGotRevoke ==
    ASSUME NEW x, NEW y, NEW z, NEW w,
           LinkType(x), LinkType(z), LinkNums(x, z), LinkNums(z, x),
           x.q # << >>, Head(x.q).type = "revoke", y.q = Tail(x.q), y.p \in PeerRecs,
           y.p.nextL = x.p.nextL, y.p.nextR = x.p.nextR, y.p.revs = x.p.revs + 1,
           w.p = z.p, w.q = z.q
    PROVE  /\ LinkNums(y, w) /\ LinkNums(w, y)
           /\ x.p.revs = z.p.nextL - 2 /\ Head(x.q).num = z.p.nextL - 2
  <1> DEFINE q == x.q
             t == y.q
  <1>1. /\ x.p.nextR \in Nat /\ x.p.nextL \in Nat /\ x.p.revs \in Nat
        /\ z.p.nextR \in Nat /\ z.p.nextL \in Nat /\ z.p.revs \in Nat
    BY DEF LinkType, PeerRecs
  <1>4. q \in Seq(Msgs) /\ q # << >> /\ t = Tail(q)
    BY DEF LinkType
  <1> HIDE DEF q, t
  <1>6. /\ Head(q) \in Msgs
        /\ \A T : Has(q, T) <=> Head(q) \in T \/ Has(t, T)
        /\ \A T : One(q, T) => One(t, T) /\ ~(Head(q) \in T /\ Has(t, T))
    BY <1>4, Popped
  <1>7. Head(q) \in OfType("revoke")
    BY <1>6 DEF OfType, q
  <1>8. x.p.revs = z.p.nextL - 2 /\ ~Has(t, OfType("revoke")) /\ Head(q) \notin RevokeNot(z.p.nextL - 2)
    BY <1>1, <1>6, <1>7 DEF LinkNums, q
  <1>9. Head(q).num = z.p.nextL - 2
    BY <1>6, <1>7, <1>8 DEF RevokeNot, OfType
  <1>11. LinkNums(y, w)
    BY <1>1, <1>8 DEF LinkNums
  <1>12. LinkNums(w, y)
    <2>1. One(t, OfType("commit")) /\ One(t, OfType("revoke"))
      BY <1>6 DEF LinkNums, q
    <2>2. QED
      BY <1>1, <1>6, <1>8, <2>1 DEF LinkNums, q, t
  <1>13. QED
    BY <1>8, <1>9, <1>11, <1>12 DEF q

(* A step that leaves the numbers as they are. *)
Plain(x, y, out) ==
    /\ SameNums(x.p, y.p) /\ Onward(x, y) /\ Harmless(out)
    /\ y.q = x.q \/ Pops(x, y)
    /\ out = << >> \/ x.p.phase = "run"
    /\ y.d.nextL = x.d.nextL /\ y.d.nextR = x.d.nextR /\ y.d.revs = x.d.revs

PlainStep(n, x, y, out) ==
    \/ Quiet(n, x, y, out) \/ Offers(n, x, y, out) \/ SavesResolution(n, x, y, out)
    \/ Resolves(n, x, y, out) \/ GotAdd(n, x, y, out) \/ GotRemove(n, x, y, out)
    \/ GotFee(n, x, y, out)

(* Only commitments, revocations and reconnecting move the numbers. *)
LEMMA PlainSteps ==
    ASSUME NEW n \in Nodes, NEW x, NodeType(n, x), NEW y, NEW out, PlainStep(n, x, y, out)
    PROVE  Plain(x, y, out)
  <1>1. x.p \in PeerRecs /\ x.d \in DbRecs /\ x.p.htlcId \in Nat
    BY DEF NodeType, PeerRecs
  <1>2. Harmless(<<ShutdownMsg>>)
    BY HarmlessOne, MsgShutdown DEF ShutdownMsg
  <1>3. CASE Quiet(n, x, y, out)
    <2>1. Harmless(out)
      BY <1>2, <1>3, HarmlessNone DEF Quiet, ShutdownMsgs
    <2>2. Onward(x, y)
      BY <1>3 DEF Quiet, Onward, Goes
    <2>3. QED
      BY <1>3, <2>1, <2>2 DEF Quiet, Plain, Pops, SameNums, PeerKeeps, DbKeeps
  <1>4. CASE Offers(n, x, y, out)
    <2>1. PICK a \in Nat : out = <<[type |-> "add", id |-> x.p.htlcId, amount |-> a]>>
      BY <1>4 DEF Offers
    <2>2. Harmless(out)
      <3> DEFINE m == [type |-> "add", id |-> x.p.htlcId, amount |-> a]
      <3>1. m \in Msgs /\ m.type = "add" /\ out = <<m>>
        BY <1>1, <2>1, MsgAdd
      <3> HIDE DEF m
      <3>2. QED
        BY <3>1, HarmlessOne
    <2>3. QED
      BY <1>4, <2>2 DEF Offers, Plain, Onward, SameNums
  <1>5. CASE SavesResolution(n, x, y, out)
    <2>1. y.d.nextL = x.d.nextL /\ y.d.nextR = x.d.nextR /\ y.d.revs = x.d.revs
      BY <1>5, ResolutionSaved
    <2>2. QED
      BY <1>1, <1>5, <2>1, HarmlessNone DEF SavesResolution, Plain, Onward, SameNums
  <1>6. CASE Resolves(n, x, y, out)
    <2>1. PICK h \in DOMAIN x.d.htlcs : out = <<[type |-> x.d.htlcs[h].r, id |-> h[2]]>>
      BY <1>6 DEF Resolves
    <2>2. x.d.htlcs[h].r \in {"none", "fulfill", "fail"} /\ h[2] \in Nat
      <3>1. x.d.htlcs \in HtlcMaps
        BY <1>1 DEF DbRecs
      <3>2. h \in HtlcKeys /\ x.d.htlcs[h] \in HtlcRecs
        BY <3>1, HtlcMapElim DEF GoodHtlc
      <3>3. QED
        BY <3>2 DEF HtlcKeys, HtlcRecs
    <2>3. Harmless(out)
      <3> DEFINE m == [type |-> x.d.htlcs[h].r, id |-> h[2]]
      <3>1. m \in Msgs /\ m.type \in {"none", "fulfill", "fail"} /\ out = <<m>>
        BY <2>1, <2>2, MsgRemove
      <3> HIDE DEF m
      <3>2. QED
        BY <3>1, HarmlessOne
    <2>4. QED
      BY <1>6, <2>3 DEF Resolves, Plain, Onward, SameNums, PeerKeeps
  <1>7. CASE GotAdd(n, x, y, out)
    BY <1>1, <1>7, HarmlessNone DEF GotAdd, Reads, Plain, Pops, Onward, SameNums
  <1>8. CASE GotRemove(n, x, y, out)
    BY <1>1, <1>8, HarmlessNone DEF GotRemove, Reads, Plain, Pops, Onward, SameNums, PeerKeeps
  <1>9. CASE GotFee(n, x, y, out)
    BY <1>1, <1>9, HarmlessNone DEF GotFee, Reads, Plain, Pops, Onward, SameNums
  <1>10. QED
    BY <1>3, <1>4, <1>5, <1>6, <1>7, <1>8, <1>9 DEF PlainStep

(* A commitment and what goes with it. *)
LEMMA CommitOut ==
    ASSUME NEW n \in Nodes, NEW x, NodeType(n, x), NEW y, NEW out \in Seq(Msgs),
           SendsCommit(n, x, y, out)
    PROVE  /\ One(out, OfType("commit")) /\ Has(out, OfType("commit"))
           /\ ~Has(out, OfType("revoke")) /\ ~Has(out, OfType("reestablish"))
           /\ \A k : ~Has(out, RevokeNot(k))
  <1>0. PICK c1 : Commits(n, x, y, out, c1)
    BY SentCommit
  <1>1. PICK s \in ShutdownMsgs :
          out = FeeMsgs(x.c, c1) \o <<CommitMsg(n, y.c, x.p.nextR)>> \o s
    BY <1>0 DEF Commits
  <1>20. FeeUpdated(x.c, c1) /\ GoodChan(y.c)
    BY <1>0 DEF Commits
  <1> DEFINE f == FeeMsgs(x.c, c1)
             m == CommitMsg(n, y.c, x.p.nextR)
             g == f \o <<m>>
  <1>2. f \in Seq(Msgs) /\ Harmless(f)
    <2>1. f \in Seq(Msgs)
      BY <1>20, FeeMsgsType DEF NodeType
    <2>2. Harmless(f)
      <3>1. CASE f = << >>
        BY <3>1, HarmlessNone
      <3>2. CASE f # << >>
        <4> DEFINE fm == [type |-> "fee", rate |-> c1.fee[first_fee_state("local")]]
        <4>1. f = <<fm>> /\ fm.type = "fee"
          BY <3>2 DEF FeeMsgs
        <4> HIDE DEF f, fm
        <4>2. fm \in Msgs
          BY <2>1, <4>1
        <4>3. QED
          BY <4>1, <4>2, HarmlessOne
      <3>3. QED
        BY <3>1, <3>2
    <2>3. QED
      BY <2>1, <2>2
  <1>3. m \in Msgs /\ m.type = "commit"
    <2>1. x.p.nextR \in Int
      BY DEF NodeType, PeerRecs
    <2>2. CommitTx(n, y.c, "remote", x.p.nextR) \in Txs
      BY <1>20, <2>1, CommitTxType DEF Sides
    <2>3. QED
      BY <2>2, MsgCommit DEF CommitMsg
  <1>4. s \in Seq(Msgs) /\ Harmless(s)
    <2>1. CASE s = << >>
      BY <2>1, HarmlessNone
    <2>2. CASE s = <<ShutdownMsg>>
      <3>1. ShutdownMsg \in Msgs /\ ShutdownMsg.type = "shutdown"
        BY MsgShutdown DEF ShutdownMsg
      <3>2. QED
        BY <2>2, <3>1, HarmlessOne, OneQueued
    <2>3. QED
      BY <2>1, <2>2 DEF ShutdownMsgs
  <1> HIDE DEF f, m
  <1>5. /\ <<m>> \in Seq(Msgs) /\ \A T : Has(<<m>>, T) <=> m \in T
        /\ \A T : One(<<m>>, T)
    BY <1>3, OneQueued
  <1>6. /\ g \in Seq(Msgs) /\ \A T : Has(g, T) <=> Has(f, T) \/ m \in T
        /\ \A T : One(g, T) <=> One(f, T) /\ ~(Has(f, T) /\ m \in T)
    <2> DEFINE u == <<m>>
    <2> HIDE DEF u
    <2>1. u \in Seq(Msgs) /\ g = f \o u /\ \A T : (Has(u, T) <=> m \in T) /\ One(u, T)
      BY <1>5 DEF u
    <2>2. QED
      BY <1>2, <2>1, Queued
  <1> HIDE DEF g
  <1>7. /\ \A T : Has(out, T) <=> Has(g, T) \/ Has(s, T)
        /\ \A T : One(out, T) <=> One(g, T) /\ One(s, T) /\ ~(Has(g, T) /\ Has(s, T))
    <2>1. out = g \o s
      BY <1>1 DEF f, m, g
    <2>2. QED
      BY <1>4, <1>6, <2>1, Queued
  <1>8. \A k : m \notin RevokeNot(k) /\ m \in OfType("commit") /\ m \notin OfType("revoke")
               /\ m \notin OfType("reestablish")
    BY <1>3 DEF RevokeNot, OfType
  <1>9. \A q, T : ~Has(q, T) => One(q, T)
    BY DEF Has, One
  <1>10. QED
    BY <1>2, <1>4, <1>6, <1>7, <1>8, <1>9 DEF Harmless

(* The commitment and the revocation that are sent again, and when. *)
LEMMA AnswerOut ==
    ASSUME NEW n \in Nodes, NEW c, GoodChan(c), NEW p \in PeerRecs, NEW d \in DbRecs, NEW m
    PROVE  LET out == Answer(n, c, p, d, m)
           IN  /\ out \in Seq(Msgs)
               /\ Has(out, OfType("commit")) <=> m.nc = p.nextR - 1
               /\ Has(out, OfType("revoke")) <=> m.nr = p.nextL - 2
               /\ ~Has(out, RevokeNot(p.nextL - 2)) /\ ~Has(out, OfType("reestablish"))
               /\ One(out, OfType("commit")) /\ One(out, OfType("revoke"))
  <1> DEFINE out == Answer(n, c, p, d, m)
             again == m.nc = p.nextR - 1
             cm == CommitMsg(n, c, p.nextR - 1)
             rm == RevokeMsg(p.nextL - 2)
  <1>1. /\ out \in Seq(Msgs)
        /\ \A T : Has(out, T) <=>
                    \/ again /\ \/ \E h \in d.lastSent \cap in_state(c, 16) :
                                     RemoveMsg(c, h) \in T
                                \/ \E h \in d.lastSent \cap in_state(c, 1) :
                                     AddMsg(c, h) \in T
                                \/ c.opener = "local" /\ FeeMsg(c) \in T
                                \/ cm \in T
                    \/ m.nr = p.nextL - 2 /\ rm \in T
                    \/ p.sendShut /\ ShutdownMsg \in T
                    \/ \E h \in in_state(c, 15) : RemoveMsg(c, h) \in T
        /\ One(out, OfType("commit")) /\ One(out, OfType("revoke"))
    BY Answered
  <1>2. /\ \A h \in in_state(c, 16) \cup in_state(c, 15) :
             RemoveMsg(c, h).type \in {"none", "fulfill", "fail"}
        /\ \A h : AddMsg(c, h).type = "add"
        /\ FeeMsg(c).type = "fee" /\ ShutdownMsg.type = "shutdown"
    <2>1. \A h \in in_state(c, 16) \cup in_state(c, 15) :
             c.htlcs[h].r \in {"none", "fulfill", "fail"}
      <3>1. 15 \in HtlcStates /\ 16 \in HtlcStates
        BY DEF HtlcStates
      <3>2. QED
        BY <3>1, InState
    <2>2. QED
      BY <2>1 DEF RemoveMsg, AddMsg, FeeMsg, ShutdownMsg
  <1>3. cm \in Msgs /\ cm.type = "commit"
    <2>1. p.nextR - 1 \in Int
      BY DEF PeerRecs
    <2>2. CommitTx(n, c, "remote", p.nextR - 1) \in Txs
      BY <2>1, CommitTxType DEF Sides
    <2>3. QED
      BY <2>2, MsgCommit DEF CommitMsg
  <1>4. rm \in Msgs /\ rm.type = "revoke" /\ rm.num = p.nextL - 2
    <2>1. p.nextL - 2 \in Int
      BY DEF PeerRecs
    <2>2. QED
      BY <2>1, MsgRevoke DEF RevokeMsg
  <1> HIDE DEF out, again, cm, rm
  <1>5. ASSUME NEW t \in {"commit", "revoke", "reestablish"}
        PROVE  Has(out, OfType(t)) <=> (again /\ t = "commit") \/ (m.nr = p.nextL - 2 /\ t = "revoke")
    <2>1. /\ \A h \in in_state(c, 16) \cup in_state(c, 15) : RemoveMsg(c, h) \notin OfType(t)
          /\ \A h : AddMsg(c, h) \notin OfType(t)
          /\ FeeMsg(c) \notin OfType(t) /\ ShutdownMsg \notin OfType(t)
      BY <1>2 DEF OfType
    <2>2. (cm \in OfType(t) <=> t = "commit") /\ (rm \in OfType(t) <=> t = "revoke")
      BY <1>3, <1>4 DEF OfType
    <2>3. QED
      BY <1>1, <2>1, <2>2
  <1>6. ~Has(out, RevokeNot(p.nextL - 2))
    <2> DEFINE T == RevokeNot(p.nextL - 2)
    <2>1. /\ \A h \in in_state(c, 16) \cup in_state(c, 15) : RemoveMsg(c, h) \notin T
          /\ \A h : AddMsg(c, h) \notin T
          /\ FeeMsg(c) \notin T /\ ShutdownMsg \notin T /\ cm \notin T /\ rm \notin T
      BY <1>2, <1>3, <1>4 DEF RevokeNot
    <2> HIDE DEF T
    <2>2. ~Has(out, T)
      BY <1>1, <2>1
    <2>3. QED
      BY <2>2 DEF T
  <1>7. QED
    BY <1>1, <1>5, <1>6 DEF out, again

(* peer_reconnect() sends again what the peer's numbers show it has missed. *)
LEMMA LinkAnswered ==
    ASSUME NEW n \in Nodes, NEW x, NodeType(n, x), NEW z, LinkType(z), NEW y,
           NEW out \in Seq(Msgs), Answers(n, x, y, out), Link(x, z), Link(z, x),
           NEW w, Hears(z, w, out)
    PROVE  Link(y, w) /\ Link(w, y)
  <1> DEFINE q == x.q
             r == z.q
             s == w.q
             t == y.q
             b == z.p.phase
  <1>1. /\ GoodChan(x.c) /\ x.p \in PeerRecs /\ x.d \in DbRecs /\ q \in Seq(Msgs)
        /\ z.p \in PeerRecs /\ r \in Seq(Msgs) /\ w.p = z.p /\ s = r \o out
        /\ t = Tail(q) /\ q # << >> /\ x.p.phase = "reestablish"
        /\ PeerKeeps(x.p, y.p) /\ y.p.phase \in {"run", "closing"}
        /\ out = Answer(n, x.c, x.p, x.d, Head(q))
    BY DEF NodeType, LinkType, Hears, Answers, Goes
  <1>2. /\ Head(q) = reestablish(z.p)
        /\ ~Has(t, OfType("reestablish"))
        /\ b = "reestablish" => q = <<reestablish(z.p)>>
        /\ r = IF b = "reestablish" THEN <<reestablish(x.p)>> ELSE << >>
        /\ b \in {"run", "closing", "reestablish"}
    <2>1. b # "down" /\ b \in {"run", "closing", "reestablish", "down"}
      BY <1>1 DEF Link, LinkPhase, PeerRecs
    <2>2. QED
      BY <1>1, <2>1 DEF Link, LinkPhase
  <1>3. Head(q).nc = z.p.nextL /\ Head(q).nr = z.p.revs
    BY <1>2 DEF reestablish
  <1> HIDE DEF q, r, s, t, b
  <1>4. /\ Has(out, OfType("commit")) <=> z.p.nextL = x.p.nextR - 1
        /\ Has(out, OfType("revoke")) <=> z.p.revs = x.p.nextL - 2
        /\ ~Has(out, RevokeNot(x.p.nextL - 2)) /\ ~Has(out, OfType("reestablish"))
        /\ One(out, OfType("commit")) /\ One(out, OfType("revoke"))
    <2> DEFINE c == x.c
               p == x.p
               d == x.d
    <2>1. GoodChan(c) /\ p \in PeerRecs /\ d \in DbRecs /\ out = Answer(n, c, p, d, Head(q))
      BY <1>1
    <2> HIDE DEF c, p, d
    <2>2. /\ Has(out, OfType("commit")) <=> Head(q).nc = p.nextR - 1
          /\ Has(out, OfType("revoke")) <=> Head(q).nr = p.nextL - 2
          /\ ~Has(out, RevokeNot(p.nextL - 2)) /\ ~Has(out, OfType("reestablish"))
          /\ One(out, OfType("commit")) /\ One(out, OfType("revoke"))
      BY <2>1, AnswerOut
    <2>3. QED
      BY <1>3, <2>2 DEF p
  <1>5. /\ x.p.nextR \in Nat /\ x.p.nextL \in Nat /\ x.p.revs \in Nat
        /\ z.p.nextR \in Nat /\ z.p.nextL \in Nat /\ z.p.revs \in Nat
        /\ y.p.nextL = x.p.nextL /\ y.p.nextR = x.p.nextR /\ y.p.revs = x.p.revs
    BY <1>1 DEF PeerRecs, PeerKeeps
  <1>15. r \in Seq(Msgs) /\ s = r \o out
    BY <1>1
  <1>6. \A T : Has(s, T) <=> Has(r, T) \/ Has(out, T)
    BY <1>15, Queued
  <1>7. \A T : One(r, T) /\ One(out, T) /\ ~(Has(out, T) /\ Has(r, T)) => One(s, T)
    BY <1>15, Queued
  <1>8. \A T : (Has(t, T) => Has(q, T)) /\ (One(q, T) => One(t, T))
    BY <1>1, Popped
  <1>9. ~Has(r, OfType("commit")) /\ ~Has(r, OfType("revoke")) /\ \A k : ~Has(r, RevokeNot(k))
    <2>1. CASE r = << >>
      BY <2>1, NoneQueued
    <2>2. CASE r = <<reestablish(x.p)>>
      <3> DEFINE m == reestablish(x.p)
      <3>1. m \in Msgs /\ m.type = "reestablish"
        BY <1>5, MsgReestablish DEF reestablish
      <3> HIDE DEF m
      <3>2. /\ m \notin OfType("commit") /\ m \notin OfType("revoke")
            /\ \A k : m \notin RevokeNot(k)
        BY <3>1 DEF OfType, RevokeNot
      <3>3. \A T : Has(<<m>>, T) <=> m \in T
        BY <3>1, OneQueued
      <3>4. QED
        BY <2>2, <3>2, <3>3 DEF m
    <2>3. QED
      BY <1>2, <2>1, <2>2
  <1>10. LinkNums(y, w)
    <2>1. /\ x.p.revs <= z.p.nextL - 1 /\ z.p.nextL <= x.p.nextR /\ x.p.nextR <= x.p.revs + 2
          /\ One(r, OfType("commit")) /\ One(r, OfType("revoke"))
      BY DEF Link, LinkNums, r
    <2>2. Has(s, OfType("commit")) => x.p.nextR = z.p.nextL + 1
      BY <1>4, <1>5, <1>6, <1>9
    <2>3. Has(s, OfType("revoke")) => z.p.revs = x.p.nextL - 2
      BY <1>4, <1>6, <1>9
    <2>4. One(s, OfType("commit")) /\ One(s, OfType("revoke")) /\ ~Has(s, RevokeNot(x.p.nextL - 2))
      BY <1>4, <1>6, <1>7, <1>9, <2>1
    <2>5. QED
      BY <1>1, <1>5, <2>1, <2>2, <2>3, <2>4 DEF LinkNums, s
  <1>11. LinkNums(w, y)
    <2>1. LinkNums(z, x)
      BY DEF Link
    <2>2. QED
      BY <1>1, <1>5, <1>8, <2>1 DEF LinkNums, q, t
  <1>12. LinkPhase(y, w)
    <2>1. b = "reestablish" => s # << >> /\ Head(s) = reestablish(y.p) /\ Tail(s) = out
      <3> DEFINE m == reestablish(x.p)
      <3>1. m \in Msgs
        BY <1>5, MsgReestablish DEF reestablish
      <3>2. m = reestablish(y.p)
        BY <1>5 DEF reestablish
      <3> HIDE DEF m
      <3>3. <<m>> \o out # << >> /\ Head(<<m>> \o out) = m /\ Tail(<<m>> \o out) = out
        BY <3>1
      <3>4. b = "reestablish" => s = <<m>> \o out
        BY <1>1, <1>2 DEF m
      <3>5. QED
        BY <3>2, <3>3, <3>4
    <2>2. b \in {"run", "closing"} => s = out
      BY <1>1, <1>2
    <2>3. QED
      BY <1>1, <1>4, <2>1, <2>2 DEF LinkPhase, s, b
  <1>13. LinkPhase(w, y)
    <2>1. b = "reestablish" => t = << >>
      BY <1>1, <1>2
    <2>2. QED
      BY <1>1, <1>2, <2>1 DEF LinkPhase, b, t
  <1>14. QED
    BY <1>10, <1>11, <1>12, <1>13 DEF Link

(* How a step of x moves its numbers. *)
Moves(x, y, z) ==
    \/ SameNums(x.p, y.p)
    \/ /\ x.p.revs = x.p.nextR - 1
       /\ y.p.nextR = x.p.nextR + 1 /\ y.p.nextL = x.p.nextL /\ y.p.revs = x.p.revs
    \/ /\ z.p.nextR = x.p.nextL + 1
       /\ y.p.nextL = x.p.nextL + 1 /\ y.p.nextR = x.p.nextR /\ y.p.revs = x.p.revs
    \/ /\ x.p.revs < z.p.nextL - 1
       /\ y.p.revs = x.p.revs + 1 /\ y.p.nextL = x.p.nextL /\ y.p.nextR = x.p.nextR

(* Every step of a node keeps the link to its peer. *)
LEMMA LinkStep ==
    ASSUME NEW n \in Nodes, NEW x, NodeType(n, x), NEW z, NodeType(Peer(n), z),
           Link(x, z), Link(z, x), Nums(x), Nums(z),
           NEW y, NEW out \in Seq(Msgs), NodeStep(n, x, y, out), NEW w, Hears(z, w, out)
    PROVE  Link(y, w) /\ Link(w, y) /\ Nums(y) /\ Nums(w) /\ Moves(x, y, z)
  <1>1. /\ LinkType(x) /\ LinkType(z) /\ LinkNums(x, z) /\ LinkNums(z, x)
        /\ LinkPhase(x, z) /\ LinkPhase(z, x) /\ w.p = z.p /\ w.q = z.q \o out
        /\ NodeType(n, y) /\ y.p \in PeerRecs
    <2>1. NodeType(n, y)
      BY NodeStepType
    <2>2. QED
      BY <2>1 DEF Link, LinkType, NodeType, Hears
  <1>2. Nums(w)
    BY DEF Nums, Hears
  <1>3. CASE PlainStep(n, x, y, out)
    <2>1. Plain(x, y, out)
      BY <1>3, PlainSteps
    <2>2. /\ SameNums(x.p, y.p) /\ Onward(x, y) /\ Harmless(out)
          /\ y.q = x.q \/ Pops(x, y)
          /\ out = << >> \/ x.p.phase = "run"
      BY <2>1 DEF Plain
    <2>3. LinkPhase(y, w) /\ LinkPhase(w, y)
      <3>1. y.p.nextL = x.p.nextL /\ y.p.revs = x.p.revs
        BY <2>2 DEF SameNums
      <3>2. ~Has(out, OfType("reestablish"))
        BY <2>1 DEF Plain, Harmless
      <3>3. QED
        BY <1>1, <2>2, <3>1, <3>2, PhaseKept
    <2>4. LinkNums(y, w) /\ LinkNums(w, y)
      <3>1. y.q = x.q \/ (x.q # << >> /\ y.q = Tail(x.q))
        BY <2>1 DEF Plain, Pops
      <3>2. SameNums(x.p, y.p) /\ Harmless(out)
        BY <2>1 DEF Plain
      <3>3. QED
        BY <1>1, <3>1, <3>2, NumsKept
    <2>5. Nums(y)
      BY <2>1 DEF Plain, Nums, SameNums
    <2>6. Moves(x, y, z)
      BY <2>1 DEF Plain, Moves
    <2>7. QED
      BY <1>2, <2>3, <2>4, <2>5, <2>6 DEF Link
  <1>4. CASE SendsCommit(n, x, y, out)
    <2>1. /\ x.p.phase = "run" /\ y.p.phase = "run" /\ x.p.revs = x.p.nextR - 1
          /\ y.p.nextR = x.p.nextR + 1 /\ y.p.nextL = x.p.nextL /\ y.p.revs = x.p.revs
          /\ y.q = x.q
      BY <1>4 DEF SendsCommit
    <2>2. /\ One(out, OfType("commit"))
          /\ ~Has(out, OfType("revoke")) /\ ~Has(out, OfType("reestablish"))
          /\ \A k : ~Has(out, RevokeNot(k))
      BY <1>4, CommitOut
    <2>3. LinkPhase(y, w) /\ LinkPhase(w, y)
      <3>1. Onward(x, y)
        BY <2>1 DEF Onward
      <3>2. QED
        BY <1>1, <2>1, <2>2, <3>1, PhaseKept
    <2>4. LinkNums(y, w) /\ LinkNums(w, y)
      BY <1>1, <2>1, <2>2, NumsSentCommit
    <2>5. Nums(y)
      <3>1. PICK c1 : Commits(n, x, y, out, c1)
        BY <1>4, SentCommit
      <3>2. y.d.nextL = x.d.nextL /\ y.d.nextR = x.d.nextR + 1 /\ y.d.revs = x.d.revs
        BY <3>1 DEF Commits
      <3>3. QED
        BY <2>1, <3>2 DEF Nums
    <2>6. Moves(x, y, z)
      BY <2>1 DEF Moves
    <2>7. QED
      BY <1>2, <2>3, <2>4, <2>5, <2>6 DEF Link
  <1>5. CASE GotCommit(n, x, y, out)
    <2>1. /\ x.p.phase = "run" /\ y.p.phase \in {"run", "closing"}
          /\ y.p.nextL = x.p.nextL + 1 /\ y.p.nextR = x.p.nextR /\ y.p.revs = x.p.revs
          /\ x.q # << >> /\ Head(x.q).type = "commit" /\ y.q = Tail(x.q)
          /\ out = <<RevokeMsg(x.p.nextL - 1)>>
      BY <1>5 DEF GotCommit, Reads, Goes
    <2>2. ~Has(out, OfType("reestablish"))
      <3> DEFINE m == RevokeMsg(x.p.nextL - 1)
      <3>1. m \in Msgs /\ m.type = "revoke"
        <4>1. x.p.nextL - 1 \in Int
          BY DEF NodeType, PeerRecs
        <4>2. QED
          BY <4>1, MsgRevoke DEF RevokeMsg
      <3> HIDE DEF m
      <3>2. ~Has(<<m>>, OfType("reestablish"))
        BY <3>1, OneQueued DEF OfType
      <3>3. QED
        BY <2>1, <3>2 DEF m
    <2>3. LinkPhase(y, w) /\ LinkPhase(w, y)
      <3>1. Onward(x, y) /\ Pops(x, y)
        BY <2>1 DEF Onward, Pops
      <3>2. x.p.phase = "run"
        BY <2>1
      <3>3. QED
        BY <1>1, <2>2, <3>1, <3>2, PhaseKept
    <2>4. LinkNums(y, w) /\ LinkNums(w, y)
      <3>1. w.q = z.q \o <<RevokeMsg(x.p.nextL - 1)>>
        BY <1>1, <2>1
      <3>2. QED
        BY <1>1, <2>1, <3>1, NumsGotCommit
    <2>5. Nums(y)
      <3>2. y.d.nextL = x.d.nextL + 1 /\ y.d.nextR = x.d.nextR /\ y.d.revs = x.d.revs
        BY <1>5, TookCommit
      <3>3. QED
        BY <2>1, <3>2 DEF Nums
    <2>6. Moves(x, y, z)
      <3>1. Has(x.q, OfType("commit"))
        <4> DEFINE q == x.q
        <4>1. q \in Seq(Msgs) /\ q # << >> /\ Head(q).type = "commit"
          BY <1>1, <2>1 DEF LinkType
        <4> HIDE DEF q
        <4>2. Head(q) \in OfType("commit")
          BY <4>1, Popped DEF OfType
        <4>3. QED
          BY <4>1, <4>2, Popped DEF q
      <3>2. z.p.nextR = x.p.nextL + 1
        BY <1>1, <3>1 DEF LinkNums
      <3>3. QED
        BY <2>1, <3>2 DEF Moves
    <2>7. QED
      BY <1>2, <2>3, <2>4, <2>5, <2>6 DEF Link
  <1>6. CASE GotRevoke(n, x, y, out)
    <2>1. /\ x.p.phase = "run" /\ y.p.phase \in {"run", "closing"}
          /\ y.p.revs = x.p.revs + 1 /\ y.p.nextR = x.p.nextR /\ y.p.nextL = x.p.nextL
          /\ x.q # << >> /\ Head(x.q).type = "revoke" /\ y.q = Tail(x.q)
          /\ out = << >>
      BY <1>6 DEF GotRevoke, Reads, Goes
    <2>2. ~Has(out, OfType("reestablish"))
      BY <2>1, NoneQueued
    <2>3. LinkPhase(y, w) /\ LinkPhase(w, y)
      <3>1. Onward(x, y) /\ Pops(x, y)
        BY <2>1 DEF Onward, Pops
      <3>2. x.p.phase = "run"
        BY <2>1
      <3>3. QED
        BY <1>1, <2>2, <3>1, <3>2, PhaseKept
    <2>4. LinkNums(y, w) /\ LinkNums(w, y) /\ x.p.revs = z.p.nextL - 2
      <3>1. w.q = z.q
        <4> DEFINE r == z.q
        <4>1. r \in Seq(Msgs) /\ w.q = r \o << >>
          BY <1>1, <2>1 DEF LinkType
        <4> HIDE DEF r
        <4>2. r \o << >> = r
          BY <4>1
        <4>3. QED
          BY <4>1, <4>2 DEF r
      <3>2. QED
        BY <1>1, <2>1, <3>1, NumsGotRevoke
    <2>5. Nums(y)
      <3>2. y.d.nextL = x.d.nextL /\ y.d.nextR = x.d.nextR /\ y.d.revs = x.d.revs + 1
        BY <1>6, TookRevoke
      <3>3. QED
        BY <2>1, <3>2 DEF Nums
    <2>6. Moves(x, y, z)
      <3>1. z.p.nextL \in Nat
        BY <1>1 DEF LinkType, PeerRecs
      <3>2. x.p.revs < z.p.nextL - 1
        BY <2>4, <3>1
      <3>3. QED
        BY <2>1, <3>2 DEF Moves
    <2>7. QED
      BY <1>2, <2>3, <2>4, <2>5, <2>6 DEF Link
  <1>7. CASE Answers(n, x, y, out)
    <2>1. Link(y, w) /\ Link(w, y)
      BY <1>1, <1>7, LinkAnswered
    <2>2. SameNums(x.p, y.p) /\ y.d = x.d
      BY <1>7 DEF Answers, PeerKeeps, SameNums
    <2>3. Nums(y) /\ Moves(x, y, z)
      BY <2>2 DEF Nums, Moves, SameNums
    <2>4. QED
      BY <1>2, <2>1, <2>3
  <1>8. QED
    BY <1>3, <1>4, <1>5, <1>6, <1>7 DEF NodeStep, PlainStep

(* Losing the connection keeps it: the databases hold the numbers. *)
LEMMA LinkBreak ==
    ASSUME NEW n \in Nodes, NEW x, NodeType(n, x), NEW m \in Nodes, NEW z, NodeType(m, z),
           Link(x, z), Nums(x), Nums(z),
           NEW y, Breaks(n, x, y), NEW w, Breaks(m, z, w)
    PROVE  Link(y, w) /\ Nums(y) /\ SameNums(x.p, y.p)
  <1> DEFINE d == x.d
             e == z.d
  <1>1. /\ d \in DbRecs /\ d.fee[last_fee_state(OpenerSide(n))] # 0
        /\ e \in DbRecs /\ e.fee[last_fee_state(OpenerSide(m))] # 0
        /\ x.p.nextL = d.nextL /\ x.p.nextR = d.nextR /\ x.p.revs = d.revs
        /\ z.p.nextL = e.nextL /\ z.p.nextR = e.nextR /\ z.p.revs = e.revs
    BY DEF NodeType, Nums
  <1>2. /\ y.p = RestoredPeer(n, d, "down") /\ w.p = RestoredPeer(m, e, "down")
        /\ y.d = d /\ y.q = << >> /\ w.q = << >>
    BY DEF Breaks
  <1> HIDE DEF d, e
  <1>3. /\ y.p \in PeerRecs /\ y.p.phase = "down"
        /\ y.p.nextL = x.p.nextL /\ y.p.nextR = x.p.nextR /\ y.p.revs = x.p.revs
    BY <1>1, <1>2, RestoredType
  <1>4. /\ w.p \in PeerRecs /\ w.p.phase = "down"
        /\ w.p.nextL = z.p.nextL /\ w.p.nextR = z.p.nextR /\ w.p.revs = z.p.revs
    BY <1>1, <1>2, RestoredType
  <1>5. LinkNums(x, z)
    BY DEF Link
  <1>6. LinkNums(y, w)
    BY <1>2, <1>3, <1>4, <1>5, NoneQueued DEF LinkNums
  <1>7. LinkPhase(y, w)
    BY <1>2, <1>3, <1>4 DEF LinkPhase
  <1>8. QED
    BY <1>1, <1>2, <1>3, <1>6, <1>7 DEF Link, Nums, SameNums

(* Reconnecting keeps it. *)
LEMMA LinkReopen ==
    ASSUME NEW n \in Nodes, NEW x, NodeType(n, x), NEW m \in Nodes, NEW z, NodeType(m, z),
           Link(x, z), Nums(x), NEW y, Reopens(x, y, z), NEW w, Reopens(z, w, x)
    PROVE  Link(y, w) /\ Nums(y) /\ SameNums(x.p, y.p)
  <1>1. /\ x.p \in PeerRecs /\ z.p \in PeerRecs
        /\ y.p = [x.p EXCEPT !.phase = "reestablish"] /\ y.d = x.d
        /\ w.p = [z.p EXCEPT !.phase = "reestablish"] /\ w.q = <<reestablish(x.p)>>
    BY DEF NodeType, Reopens
  <1>2. /\ y.p \in PeerRecs /\ y.p.phase = "reestablish"
        /\ y.p.nextL = x.p.nextL /\ y.p.nextR = x.p.nextR /\ y.p.revs = x.p.revs
    BY <1>1 DEF PeerRecs
  <1>3. /\ w.p.phase = "reestablish"
        /\ w.p.nextL = z.p.nextL /\ w.p.nextR = z.p.nextR /\ w.p.revs = z.p.revs
    BY <1>1 DEF PeerRecs
  <1> DEFINE k == reestablish(x.p)
  <1>4. k \in Msgs /\ k.type = "reestablish" /\ k = reestablish(y.p)
    BY <1>1, <1>2, MsgReestablish DEF reestablish, PeerRecs
  <1>5. w.q = <<k>>
    BY <1>1
  <1> HIDE DEF k
  <1>6. /\ \A T : (Has(<<k>>, T) <=> k \in T) /\ One(<<k>>, T)
        /\ Head(<<k>>) = k /\ Tail(<<k>>) = << >> /\ <<k>> # << >>
    BY <1>4, OneQueued
  <1>7. LinkNums(y, w)
    <2>1. k \notin OfType("commit") /\ k \notin OfType("revoke") /\ \A j : k \notin RevokeNot(j)
      BY <1>4 DEF OfType, RevokeNot
    <2>2. QED
      BY <1>2, <1>3, <1>5, <1>6, <2>1 DEF Link, LinkNums
  <1>8. LinkPhase(y, w)
    BY <1>2, <1>3, <1>4, <1>5, <1>6, NoneQueued DEF LinkPhase
  <1>9. QED
    BY <1>1, <1>2, <1>7, <1>8 DEF Link, Nums, SameNums

LinkInv ==
    TypeInv /\ \A n \in Nodes : Nums(Node(n)) /\ Link(Node(n), Node(Peer(n)))

(* It holds at first. *)
LEMMA LinkInit ==
    ASSUME Init
    PROVE  LinkInv
  <1>1. TypeInv
    BY TypeInit
  <1>2. ASSUME NEW n \in Nodes
        PROVE  /\ db[n].nextL = 1 /\ db[n].nextR = 1 /\ db[n].revs = 0
               /\ peer[n].nextL = 1 /\ peer[n].nextR = 1 /\ peer[n].revs = 0
               /\ peer[n].phase = "run" /\ net[n] = << >>
    <2> DEFINE d == db[n]
    <2>1. d = InitDb(n) /\ peer[n] = RestoredPeer(n, d, "run") /\ net[n] = << >>
      BY DEF Init
    <2>2. d.nextL = 1 /\ d.nextR = 1 /\ d.revs = 0
      BY <2>1 DEF InitDb
    <2>3. d \in DbRecs /\ d.fee[last_fee_state(OpenerSide(n))] # 0
      BY <1>1 DEF TypeInv, NodeType, Node
    <2> HIDE DEF d
    <2>4. /\ peer[n].nextL = d.nextL /\ peer[n].nextR = d.nextR /\ peer[n].revs = d.revs
          /\ peer[n].phase = "run"
      BY <2>1, <2>3, RestoredType
    <2>5. QED
      BY <2>1, <2>2, <2>4 DEF d
  <1>3. ASSUME NEW n \in Nodes
        PROVE  Nums(Node(n)) /\ Link(Node(n), Node(Peer(n)))
    <2>1. Peer(n) \in Nodes
      BY TwoNodes
    <2> DEFINE x == Node(n)
               z == Node(Peer(n))
    <2>2. /\ x.p = peer[n] /\ x.d = db[n] /\ x.q = << >>
          /\ z.p = peer[Peer(n)] /\ z.q = << >>
      BY <1>2, <2>1 DEF Node
    <2> HIDE DEF x, z
    <2>3. Nums(x) /\ x.p.phase = "run" /\ z.p.phase = "run"
      BY <1>2, <2>1, <2>2 DEF Nums
    <2>4. LinkNums(x, z)
      <3>1. /\ x.p.nextL = 1 /\ x.p.nextR = 1 /\ x.p.revs = 0
            /\ z.p.nextL = 1 /\ z.p.nextR = 1 /\ z.p.revs = 0
        BY <1>2, <2>1, <2>2
      <3>2. \A T : ~Has(z.q, T) /\ One(z.q, T)
        BY <2>2, NoneQueued
      <3>3. QED
        BY <3>1, <3>2 DEF LinkNums
    <2>5. LinkPhase(x, z)
      BY <2>2, <2>3, NoneQueued DEF LinkPhase
    <2>6. QED
      BY <2>3, <2>4, <2>5 DEF Link, x, z
  <1>4. QED
    BY <1>1, <1>3 DEF LinkInv

(* A step of the two nodes, one after the other. *)
NodeMoves(n) == Moves(Node(n), Node(n)', Node(Peer(n)))

(* Every step keeps it, and moves the numbers of at most one node. *)
LEMMA LinkNext ==
    ASSUME LinkInv, [Next]_vars
    PROVE  /\ LinkInv'
           /\ \/ \A n \in Nodes : SameNums(peer[n], peer'[n])
              \/ \E n \in Nodes : NodeMoves(n) /\ peer'[Peer(n)] = peer[Peer(n)]
  <1>1. TypeInv' /\ Steps3
    BY TypeStep DEF LinkInv
  <1>2. ASSUME NEW n \in Nodes
        PROVE  /\ Peer(n) \in Nodes /\ Peer(Peer(n)) = n
               /\ NodeType(n, Node(n)) /\ NodeType(Peer(n), Node(Peer(n)))
               /\ Nums(Node(n)) /\ Nums(Node(Peer(n)))
               /\ Link(Node(n), Node(Peer(n))) /\ Link(Node(Peer(n)), Node(n))
    BY TwoNodes DEF LinkInv, TypeInv
  <1>3. CASE \E n \in Nodes : \E out \in Seq(Msgs) :
               NodeStep(n, Node(n), Node(n)', out) /\ Hears(Node(Peer(n)), Node(Peer(n))', out)
    <2>1. PICK n \in Nodes, out \in Seq(Msgs) :
               NodeStep(n, Node(n), Node(n)', out) /\ Hears(Node(Peer(n)), Node(Peer(n))', out)
      BY <1>3
    <2>2. /\ Link(Node(n)', Node(Peer(n))') /\ Link(Node(Peer(n))', Node(n)')
          /\ Nums(Node(n)') /\ Nums(Node(Peer(n))')
          /\ Moves(Node(n), Node(n)', Node(Peer(n)))
      BY <1>2, <2>1, LinkStep
    <2>3. \A m \in Nodes : m = n \/ m = Peer(n)
      BY TwoNodes
    <2>4. \A m \in Nodes : Nums(Node(m)') /\ Link(Node(m)', Node(Peer(m))')
      BY <1>2, <2>2, <2>3
    <2>5. peer'[Peer(n)] = peer[Peer(n)]
      BY <2>1 DEF Hears, Node
    <2>6. QED
      BY <1>1, <2>2, <2>4, <2>5 DEF LinkInv, NodeMoves
  <1>4. CASE \A n \in Nodes : Breaks(n, Node(n), Node(n)')
    <2>1. \A n \in Nodes : /\ Link(Node(n)', Node(Peer(n))') /\ Nums(Node(n)')
                           /\ SameNums(Node(n).p, Node(n)'.p)
      BY <1>2, <1>4, LinkBreak
    <2>2. QED
      BY <1>1, <2>1 DEF LinkInv, Node
  <1>5. CASE \A n \in Nodes : Reopens(Node(n), Node(n)', Node(Peer(n)))
    <2>1. ASSUME NEW n \in Nodes
          PROVE  /\ Link(Node(n)', Node(Peer(n))') /\ Nums(Node(n)')
                 /\ SameNums(Node(n).p, Node(n)'.p)
      <3>1. /\ Reopens(Node(n), Node(n)', Node(Peer(n)))
            /\ Reopens(Node(Peer(n)), Node(Peer(n))', Node(n))
        BY <1>2, <1>5
      <3>2. QED
        BY <1>2, <3>1, LinkReopen
    <2>2. QED
      BY <1>1, <2>1 DEF LinkInv, Node
  <1>6. CASE \A n \in Nodes : Node(n)' = Node(n)
    <2>1. \A n \in Nodes : Nums(Node(n)') /\ Link(Node(n)', Node(Peer(n))')
      BY <1>2, <1>6
    <2>2. \A n \in Nodes : SameNums(peer[n], peer'[n])
      <3>1. \A n \in Nodes : Node(n).p \in PeerRecs /\ Node(n)'.p = Node(n).p
        BY <1>2, <1>6 DEF NodeType
      <3>2. QED
        BY <3>1 DEF SameNums, Node
    <2>3. QED
      BY <1>1, <2>1, <2>2 DEF LinkInv
  <1>7. QED
    BY <1>1, <1>3, <1>4, <1>5, <1>6 DEF Steps3

(* The link between the nodes always holds: their numbers are at most one   *)
(* apart, a commitment or a revocation on the wire is the one its sender's  *)
(* numbers say is under way, and reestablish messages are current.          *)
THEOREM LinkHolds == Spec => []LinkInv
  <1>1. Init => LinkInv
    BY LinkInit
  <1>2. LinkInv /\ [Next]_vars => LinkInv'
    BY LinkNext
  <1>3. QED
    BY <1>1, <1>2, PTL DEF Spec

(* Channeld's counters move as CommitDance says, however messages are lost  *)
(* and daemons restart: send_commit(), handle_peer_commit_sig() and         *)
(* handle_peer_revoke_and_ack() each are its step of that name.             *)
THEOREM DanceImplemented == Spec => ImplementsDance
  <1>1. Init => Dance!DanceInit
    <2>1. ASSUME Init, NEW n \in Nodes
          PROVE  peer[n].nextL = 1 /\ peer[n].nextR = 1 /\ peer[n].revs = 0
      <3> DEFINE d == db[n]
      <3>1. d = InitDb(n) /\ peer[n] = RestoredPeer(n, d, "run")
        BY <2>1 DEF Init
      <3>2. d.nextL = 1 /\ d.nextR = 1 /\ d.revs = 0
        BY <3>1 DEF InitDb
      <3> HIDE DEF d
      <3>3. QED
        BY <3>1, <3>2 DEF RestoredPeer
    <2>2. QED
      BY <2>1 DEF Dance!DanceInit, Dance!Nodes, Nodes
  <1>2. LinkInv /\ [Next]_vars => [Dance!DanceNext]_(Dance!dance)
    <2> SUFFICES ASSUME LinkInv, [Next]_vars
                 PROVE  [Dance!DanceNext]_(Dance!dance)
      OBVIOUS
    <2>1. CASE \A n \in Nodes : SameNums(peer[n], peer'[n])
      BY <2>1 DEF SameNums, Dance!dance
    <2>2. CASE \E n \in Nodes : NodeMoves(n) /\ peer'[Peer(n)] = peer[Peer(n)]
      <3>1. PICK n \in Nodes : NodeMoves(n) /\ peer'[Peer(n)] = peer[Peer(n)]
        BY <2>2
      <3>2. /\ Peer(n) \in Nodes /\ Peer(n) # n /\ \A m \in Nodes : m = n \/ m = Peer(n)
            /\ Dance!Nodes = Nodes /\ Dance!Peer(n) = Peer(n)
        BY TwoNodes, ChanneldAssumption DEF Nodes, Peer, Dance!Nodes, Dance!Peer
      <3> DEFINE L == [m \in Nodes |-> peer[m].nextL]
                 R == [m \in Nodes |-> peer[m].nextR]
                 V == [m \in Nodes |-> peer[m].revs]
                 L2 == [m \in Nodes |-> peer'[m].nextL]
                 R2 == [m \in Nodes |-> peer'[m].nextR]
                 V2 == [m \in Nodes |-> peer'[m].revs]
      <3>3. /\ \A m \in Nodes : m # n => L2[m] = L[m] /\ R2[m] = R[m] /\ V2[m] = V[m]
            /\ \/ L2[n] = L[n] /\ R2[n] = R[n] /\ V2[n] = V[n]
               \/ V[n] = R[n] - 1 /\ R2[n] = R[n] + 1 /\ L2[n] = L[n] /\ V2[n] = V[n]
               \/ R[Peer(n)] = L[n] + 1 /\ L2[n] = L[n] + 1 /\ R2[n] = R[n] /\ V2[n] = V[n]
               \/ V[n] < L[Peer(n)] - 1 /\ V2[n] = V[n] + 1 /\ L2[n] = L[n] /\ R2[n] = R[n]
        <4>1. /\ \A m \in Nodes : m # n => peer'[m] = peer[m]
          BY <3>1, <3>2
        <4>2. QED
          BY <3>1, <3>2, <4>1 DEF NodeMoves, Moves, SameNums, Node
      <3>4. /\ L = [m \in Nodes |-> L[m]] /\ R = [m \in Nodes |-> R[m]] /\ V = [m \in Nodes |-> V[m]]
            /\ L2 = [m \in Nodes |-> L2[m]] /\ R2 = [m \in Nodes |-> R2[m]]
            /\ V2 = [m \in Nodes |-> V2[m]]
        OBVIOUS
      <3> HIDE DEF L, R, V, L2, R2, V2
      <3>5. \/ L2 = L /\ R2 = R /\ V2 = V
            \/ V[n] = R[n] - 1 /\ R2 = [R EXCEPT ![n] = @ + 1] /\ L2 = L /\ V2 = V
            \/ R[Peer(n)] = L[n] + 1 /\ L2 = [L EXCEPT ![n] = @ + 1] /\ R2 = R /\ V2 = V
            \/ V[n] < L[Peer(n)] - 1 /\ V2 = [V EXCEPT ![n] = @ + 1] /\ L2 = L /\ R2 = R
        BY <3>3, <3>4
      <3>6. QED
        BY <3>2, <3>5 DEF L, R, V, L2, R2, V2, Dance!dance, Dance!DanceNext, Dance!SendCommit,
           Dance!RecvCommit, Dance!RecvRevoke, Dance!commit_revoked
    <2>3. QED
      BY <2>1, <2>2, LinkNext
  <1>3. QED
    BY <1>1, <1>2, LinkHolds, PTL DEF Spec, ImplementsDance, Dance!DanceSpec

-----------------------------------------------------------------------------
(* Where an HTLC stands in a channel or a database.                         *)
NoHtlc == 20
Where(c, h) == IF h \in DOMAIN c.htlcs THEN c.htlcs[h].state ELSE NoHtlc

(* change_htlcs() moves each HTLC by itself. *)
After(states, i) ==
    IF i \notin states THEN i ELSE IF i + 1 \in {9, 19} THEN NoHtlc ELSE i + 1

(* c2 has no HTLC that c has not, and those it has for the same amount. *)
SameHtlcs(c, c2) ==
    \A h \in DOMAIN c2.htlcs : /\ h \in DOMAIN c.htlcs
                               /\ c2.htlcs[h].amount = c.htlcs[h].amount
                               /\ c2.htlcs[h].r = c.htlcs[h].r

(* A map's HTLCs are somewhere. *)
LEMMA WhereType ==
    ASSUME NEW c, c.htlcs \in HtlcMaps
    PROVE  \A h : /\ Where(c, h) \in 0..20
                  /\ h \in DOMAIN c.htlcs <=> Where(c, h) # NoHtlc
                  /\ h \in DOMAIN c.htlcs => /\ h \in HtlcKeys
                                             /\ h[1] = htlc_state_owner(Where(c, h))
                                             /\ c.htlcs[h].amount \in Nat
                                             /\ c.htlcs[h] \in HtlcRecs
                                             /\ c.htlcs[h].r \in {"none", "fulfill", "fail"}
  <1>1. \A h \in DOMAIN c.htlcs : h \in HtlcKeys /\ GoodHtlc(h, c.htlcs[h]) /\ c.htlcs[h] \in HtlcRecs
    BY HtlcMapElim
  <1>2. \A h \in DOMAIN c.htlcs : c.htlcs[h].state \in 0..19
    BY <1>1 DEF HtlcRecs, HtlcStates
  <1>3. QED
    BY <1>1, <1>2 DEF Where, NoHtlc, GoodHtlc, HtlcRecs

(* change_htlcs() *)
LEMMA WhereChanged ==
    ASSUME NEW c \in ChanRecs, NEW view, NEW states, <<view, states>> \in Steps
    PROVE  LET c2 == change_htlcs(c, view, states)
           IN  /\ \A h : Where(c2, h) = After(states, Where(c, h))
               /\ SameHtlcs(c, c2)
  <1> DEFINE c2 == change_htlcs(c, view, states)
             mv == moving(c, states)
             dy == Dying(c, states)
  <1>1. /\ DOMAIN c2.htlcs = DOMAIN c.htlcs \ dy
        /\ \A h \in DOMAIN c2.htlcs :
             /\ Amount(c2, h) = Amount(c, h)
             /\ c2.htlcs[h].r = c.htlcs[h].r
             /\ State(c2, h) = IF h \in mv THEN State(c, h) + 1 ELSE State(c, h)
    BY ChangeFields
  <1> HIDE DEF c2
  <1>2. \A h : h \in mv <=> h \in DOMAIN c.htlcs /\ c.htlcs[h].state \in states
    BY DEF moving, State
  <1>3. \A h : h \in dy <=> h \in mv /\ c.htlcs[h].state + 1 \in {9, 19}
    BY DEF Dying, DeadStates, State, RCVD_REMOVE_ACK_REVOCATION, SENT_REMOVE_ACK_REVOCATION
  <1>4. NoHtlc \notin states
    BY DEF Steps, sending_commit_states, rcvd_revoke_states, rcvd_commit_states,
       sending_revoke_states, NoHtlc, SENT_ADD_HTLC, SENT_REMOVE_REVOCATION,
       SENT_ADD_REVOCATION, SENT_REMOVE_HTLC, SENT_ADD_COMMIT, SENT_REMOVE_ACK_COMMIT,
       SENT_ADD_ACK_COMMIT, SENT_REMOVE_COMMIT, RCVD_ADD_REVOCATION, RCVD_REMOVE_HTLC,
       RCVD_ADD_HTLC, RCVD_REMOVE_REVOCATION, RCVD_ADD_ACK_COMMIT, RCVD_REMOVE_COMMIT,
       RCVD_ADD_COMMIT, RCVD_REMOVE_ACK_COMMIT
  <1> HIDE DEF mv, dy
  <1>5. ASSUME NEW h
        PROVE  Where(c2, h) = After(states, Where(c, h))
    <2>1. CASE h \notin DOMAIN c.htlcs
      BY <1>1, <1>4, <2>1 DEF Where, After
    <2>2. CASE h \in DOMAIN c.htlcs /\ h \in dy
      BY <1>1, <1>2, <1>3, <2>2 DEF Where, After
    <2>3. CASE h \in DOMAIN c.htlcs /\ h \notin dy
      BY <1>1, <1>2, <1>3, <2>3 DEF Where, After, State
    <2>4. QED
      BY <2>1, <2>2, <2>3
  <1>6. SameHtlcs(c, c2)
    BY <1>1 DEF SameHtlcs, Amount
  <1>7. QED
    BY <1>5, <1>6 DEF c2

(* No HTLC stays half way through a received commitment. *)
Rest(c) == \A h : Where(c, h) \notin {3, 6, 9, 11, 18, 19}

Sent(i) == IF i \in {0, 7, 12, 15} THEN i + 1 ELSE i
Took(i) == IF i \in {2, 5, 10} THEN i + 2 ELSE IF i = 17 THEN NoHtlc ELSE i
Acked(i) == IF i \in {1, 13, 16} THEN i + 1 ELSE IF i = 8 THEN NoHtlc ELSE i

(* What the dance makes of each HTLC. *)
LEMMA WhereSent ==
    ASSUME NEW c, GoodChan(c)
    PROVE  /\ \A h : Where(channel_sending_commit(c), h) = Sent(Where(c, h))
           /\ SameHtlcs(c, channel_sending_commit(c))
           /\ moving(c, sending_commit_states) = {h \in DOMAIN c.htlcs : Where(c, h) \in {0, 7, 12, 15}}
  <1>1. sending_commit_states = {0, 7, 12, 15}
    BY DEF sending_commit_states, SENT_ADD_HTLC, SENT_REMOVE_REVOCATION,
       SENT_ADD_REVOCATION, SENT_REMOVE_HTLC
  <1>2. /\ \A h : Where(channel_sending_commit(c), h) = After(sending_commit_states, Where(c, h))
        /\ SameHtlcs(c, channel_sending_commit(c))
    BY WhereChanged DEF GoodChan, channel_sending_commit, Steps
  <1>3. \A i : After({0, 7, 12, 15}, i) = Sent(i)
    BY DEF After, Sent
  <1>4. moving(c, {0, 7, 12, 15}) = {h \in DOMAIN c.htlcs : Where(c, h) \in {0, 7, 12, 15}}
    BY DEF moving, Where, State
  <1>5. QED
    BY <1>1, <1>2, <1>3, <1>4

(* handle_peer_revoke_and_ack() *)
LEMMA WhereAcked ==
    ASSUME NEW c, GoodChan(c)
    PROVE  /\ \A h : Where(channel_rcvd_revoke_and_ack(c), h) = Acked(Where(c, h))
           /\ SameHtlcs(c, channel_rcvd_revoke_and_ack(c))
           /\ moving(c, rcvd_revoke_states) = {h \in DOMAIN c.htlcs : Where(c, h) \in {1, 8, 13, 16}}
  <1>1. rcvd_revoke_states = {1, 8, 13, 16}
    BY DEF rcvd_revoke_states, SENT_ADD_COMMIT, SENT_REMOVE_ACK_COMMIT,
       SENT_ADD_ACK_COMMIT, SENT_REMOVE_COMMIT
  <1>2. /\ \A h : Where(channel_rcvd_revoke_and_ack(c), h) = After(rcvd_revoke_states, Where(c, h))
        /\ SameHtlcs(c, channel_rcvd_revoke_and_ack(c))
    BY WhereChanged DEF GoodChan, channel_rcvd_revoke_and_ack, Steps
  <1>3. \A i : After({1, 8, 13, 16}, i) = Acked(i)
    BY DEF After, Acked
  <1>4. moving(c, {1, 8, 13, 16}) = {h \in DOMAIN c.htlcs : Where(c, h) \in {1, 8, 13, 16}}
    BY DEF moving, Where, State
  <1>5. QED
    BY <1>1, <1>2, <1>3, <1>4

(* handle_peer_commit_sig() *)
LEMMA WhereTook ==
    ASSUME NEW c, GoodChan(c), Rest(c)
    PROVE  LET c1 == channel_rcvd_commit(c)
               c2 == channel_sending_revoke_and_ack(c1)
           IN  /\ \A h : Where(c2, h) = Took(Where(c, h))
               /\ \A h : Where(c1, h) = IF Where(c, h) \in {2, 5, 10, 17} THEN Where(c, h) + 1
                                        ELSE Where(c, h)
               /\ SameHtlcs(c, c2) /\ SameHtlcs(c, c1) /\ GoodChan(c1)
               /\ moving(c, rcvd_commit_states)
                    = {h \in DOMAIN c.htlcs : Where(c, h) \in {2, 5, 10, 17}}
  <1> DEFINE c1 == channel_rcvd_commit(c)
             c2 == channel_sending_revoke_and_ack(c1)
  <1>1. rcvd_commit_states = {2, 5, 10, 17} /\ sending_revoke_states = {3, 6, 11, 18}
    BY DEF rcvd_commit_states, RCVD_ADD_REVOCATION, RCVD_REMOVE_HTLC, RCVD_ADD_HTLC,
       RCVD_REMOVE_REVOCATION, sending_revoke_states, RCVD_ADD_ACK_COMMIT, RCVD_REMOVE_COMMIT,
       RCVD_ADD_COMMIT, RCVD_REMOVE_ACK_COMMIT
  <1>2. /\ \A h : Where(c1, h) = After(rcvd_commit_states, Where(c, h))
        /\ SameHtlcs(c, c1)
    BY WhereChanged DEF GoodChan, channel_rcvd_commit, Steps
  <1>3. GoodChan(c1)
    BY ChangeGood DEF channel_rcvd_commit, Steps
  <1> HIDE DEF c1
  <1>4. /\ \A h : Where(c2, h) = After(sending_revoke_states, Where(c1, h))
        /\ SameHtlcs(c1, c2)
    BY <1>3, WhereChanged DEF GoodChan, channel_sending_revoke_and_ack, Steps
  <1>5. ASSUME NEW i, i \notin {3, 6, 9, 11, 18, 19}
        PROVE  After({3, 6, 11, 18}, After({2, 5, 10, 17}, i)) = Took(i)
    BY <1>5 DEF After, Took
  <1>6. moving(c, {2, 5, 10, 17}) = {h \in DOMAIN c.htlcs : Where(c, h) \in {2, 5, 10, 17}}
    BY DEF moving, Where, State
  <1>7. \A h : Where(c2, h) = Took(Where(c, h))
    BY <1>1, <1>2, <1>4, <1>5 DEF Rest
  <1>8. SameHtlcs(c, c2)
    BY <1>2, <1>4 DEF SameHtlcs
  <1>9. \A h : Where(c1, h) = IF Where(c, h) \in {2, 5, 10, 17} THEN Where(c, h) + 1 ELSE Where(c, h)
    BY <1>1, <1>2 DEF After
  <1>10. QED
    BY <1>1, <1>2, <1>3, <1>6, <1>7, <1>8, <1>9 DEF c1

-----------------------------------------------------------------------------
(* What the balances depend on.                                             *)

(* A view that carries an HTLC has carried it. *)
LEMMA CommittedCarried ==
    /\ \A v \in Sides : Committed(v) \subseteq WasCommitted(v)
    /\ \A v \in Sides : 0 \notin WasCommitted(v) /\ 10 \notin WasCommitted(v)
                        /\ NoHtlc \notin WasCommitted(v)
    /\ \A v \in Sides : {4, 5, 14, 15} \subseteq Committed(v)
  BY DEF Committed, WasCommitted, NoHtlc, Sides

(* The sets of HTLCs a view's balances count, by where the HTLCs are. *)
LEMMA ViewSets ==
    ASSUME NEW c, c.htlcs \in HtlcMaps, NEW v \in Sides
    PROVE  /\ \A h : h \in carried(c, v) <=> Where(c, h) \in WasCommitted(v)
           /\ \A h : h \in committed(c, v) <=> Where(c, h) \in Committed(v)
           /\ carried(c, v) \subseteq DOMAIN c.htlcs /\ committed(c, v) \subseteq carried(c, v)
  <1>1. \A i \in WasCommitted(v) \cup Committed(v) : i # NoHtlc
    BY CommittedCarried
  <1>2. QED
    BY <1>1, CommittedCarried DEF carried, committed, Where, State

(* Each view's balances and HTLCs add up to the capacity. *)
LEMMA BalancedFunds ==
    ASSUME NEW c, c.htlcs \in HtlcMaps, NEW our \in Int, Balanced(c, our), NEW v \in Sides
    PROVE  c.owed[v]["local"] + c.owed[v]["remote"] + SumAmounts(c, committed(c, v)) = Funding
  <1> DEFINE O(s) == Offered(c, v, s)
             W(s) == Settled(c, v, s)
             all == carried(c, v)
             in == committed(c, v)
             gone == all \ in
  <1>1. /\ "local" \in Sides /\ "remote" \in Sides /\ "local" # "remote"
        /\ \A s \in Sides : s = "local" \/ s = "remote"
    BY DEF Sides
  <1>2. all \subseteq DOMAIN c.htlcs /\ in \subseteq all
    BY ViewSets
  <1>3. \A h \in all : h[1] \in Sides /\ Winner(c.htlcs[h], h) \in Sides
    <2>1. \A h \in all : h \in HtlcKeys
      BY <1>2, HtlcMapElim
    <2>2. QED
      BY <2>1 DEF HtlcKeys, Sides, Winner, Other
  <1>4. /\ O("local") \cup O("remote") = all /\ O("local") \cap O("remote") = {}
        /\ O("local") \subseteq DOMAIN c.htlcs /\ O("remote") \subseteq DOMAIN c.htlcs
    BY <1>1, <1>2, <1>3 DEF Offered
  <1>5. /\ W("local") \cup W("remote") = gone /\ W("local") \cap W("remote") = {}
        /\ W("local") \subseteq DOMAIN c.htlcs /\ W("remote") \subseteq DOMAIN c.htlcs
    BY <1>1, <1>2, <1>3 DEF Settled
  <1>6. all = in \cup gone /\ in \cap gone = {} /\ gone \subseteq DOMAIN c.htlcs
        /\ in \subseteq DOMAIN c.htlcs
    BY <1>2
  <1>7. /\ c.owed[v]["local"] = our - SumAmounts(c, O("local")) + SumAmounts(c, W("local"))
        /\ c.owed[v]["remote"] = Funding - our - SumAmounts(c, O("remote"))
                                   + SumAmounts(c, W("remote"))
    <2>1. \A s \in Sides : c.owed[v][s] = Share(our, s) + (-SumAmounts(c, O(s))) + SumAmounts(c, W(s))
      BY BalancedIs
    <2>2. /\ SumAmounts(c, O("local")) \in Nat /\ SumAmounts(c, O("remote")) \in Nat
          /\ SumAmounts(c, W("local")) \in Nat /\ SumAmounts(c, W("remote")) \in Nat
      BY <1>4, <1>5, AmountsType
    <2>3. Funding \in Int
      BY ChanneldAssumption
    <2> HIDE DEF O, W
    <2>4. QED
      BY <1>1, <2>1, <2>2, <2>3 DEF Share
  <1> DEFINE A1 == SumAmounts(c, O("local"))
             A2 == SumAmounts(c, O("remote"))
             B1 == SumAmounts(c, W("local"))
             B2 == SumAmounts(c, W("remote"))
             C1 == SumAmounts(c, in)
             C2 == SumAmounts(c, gone)
             C3 == SumAmounts(c, all)
  <1>8. A1 \in Nat /\ A2 \in Nat /\ B1 \in Nat /\ B2 \in Nat /\ C1 \in Nat /\ C2 \in Nat
    BY <1>4, <1>5, <1>6, AmountsType
  <1> HIDE DEF O, W, all, in, gone
  <1>9. A1 + A2 = C3
    BY <1>4, AmountsUnion
  <1>10. B1 + B2 = C2
    BY <1>5, AmountsUnion
  <1>11. C1 + C2 = C3
    BY <1>6, AmountsUnion
  <1>12. Funding \in Int
    BY ChanneldAssumption
  <1>13. /\ c.owed[v]["local"] = our - A1 + B1 /\ c.owed[v]["remote"] = Funding - our - A2 + B2
    BY <1>7
  <1> HIDE DEF A1, A2, B1, B2, C1, C2, C3
  <1>14. c.owed[v]["local"] + c.owed[v]["remote"] + C1 = Funding
    BY <1>8, <1>9, <1>10, <1>11, <1>12, <1>13
  <1>15. QED
    BY <1>14 DEF C1, in

(* Two channels that every view sees alike. *)
SameView(c, c2, v) ==
    \A h : /\ Where(c, h) \in WasCommitted(v) <=> Where(c2, h) \in WasCommitted(v)
           /\ Where(c, h) \in Committed(v) <=> Where(c2, h) \in Committed(v)
           /\ Where(c, h) \in WasCommitted(v) =>
                /\ c2.htlcs[h].amount = c.htlcs[h].amount
                /\ Where(c, h) \notin Committed(v) => c2.htlcs[h].r = c.htlcs[h].r

(* They have the same balances. *)
LEMMA SameSums ==
    ASSUME NEW c, c.htlcs \in HtlcMaps, NEW c2, c2.htlcs \in HtlcMaps,
           NEW v \in Sides, SameView(c, c2, v)
    PROVE  /\ \A s \in Sides : SumAmounts(c2, Offered(c2, v, s)) = SumAmounts(c, Offered(c, v, s))
           /\ \A s \in Sides : SumAmounts(c2, Settled(c2, v, s)) = SumAmounts(c, Settled(c, v, s))
           /\ committed(c2, v) = committed(c, v)
           /\ \A h \in committed(c, v) : Amount(c2, h) = Amount(c, h)
  <1>1. /\ \A h : h \in carried(c, v) <=> Where(c, h) \in WasCommitted(v)
        /\ \A h : h \in committed(c, v) <=> Where(c, h) \in Committed(v)
        /\ \A h : h \in carried(c2, v) <=> Where(c2, h) \in WasCommitted(v)
        /\ \A h : h \in committed(c2, v) <=> Where(c2, h) \in Committed(v)
        /\ carried(c, v) \subseteq DOMAIN c.htlcs /\ committed(c, v) \subseteq carried(c, v)
    BY ViewSets
  <1>2. carried(c2, v) = carried(c, v) /\ committed(c2, v) = committed(c, v)
    BY <1>1 DEF SameView
  <1>3. \A h \in carried(c, v) : Amount(c2, h) = Amount(c, h)
    BY <1>1 DEF SameView, Amount
  <1>4. \A h \in carried(c, v) : h \notin committed(c, v) => c2.htlcs[h].r = c.htlcs[h].r
    BY <1>1 DEF SameView
  <1>5. ASSUME NEW s \in Sides
        PROVE  /\ Offered(c2, v, s) = Offered(c, v, s) /\ Settled(c2, v, s) = Settled(c, v, s)
               /\ Offered(c, v, s) \subseteq carried(c, v) /\ Settled(c, v, s) \subseteq carried(c, v)
    BY <1>2, <1>4 DEF Offered, Settled, Winner
  <1>6. ASSUME NEW S, S \subseteq carried(c, v)
        PROVE  SumAmounts(c2, S) = SumAmounts(c, S)
    <2>1. IsFiniteSet(S)
      BY <1>1, <1>6, AmountsType
    <2>2. QED
      BY <1>3, <1>6, <2>1, AmountsSame
  <1>7. QED
    BY <1>1, <1>2, <1>3, <1>5, <1>6

(* So one set of balances is in order for both. *)
LEMMA SameBalanced ==
    ASSUME NEW c, c.htlcs \in HtlcMaps, NEW c2, c2.htlcs \in HtlcMaps,
           \A v \in Sides : SameView(c, c2, v), c2.owed = c.owed,
           NEW our, Balanced(c, our)
    PROVE  Balanced(c2, our)
  <1>1. \A v, s \in Sides :
           /\ SumAmounts(c2, Offered(c2, v, s)) = SumAmounts(c, Offered(c, v, s))
           /\ SumAmounts(c2, Settled(c2, v, s)) = SumAmounts(c, Settled(c, v, s))
    BY SameSums
  <1>2. \A v, s \in Sides :
           c.owed[v][s] = Share(our, s) + (-SumAmounts(c, Offered(c, v, s)))
                            + SumAmounts(c, Settled(c, v, s))
    BY BalancedIs
  <1>3. \A v, s \in Sides :
           c2.owed[v][s] = Share(our, s) + (-SumAmounts(c2, Offered(c2, v, s)))
                            + SumAmounts(c2, Settled(c2, v, s))
    BY <1>1, <1>2
  <1>4. QED
    BY <1>3, BalancedIs

(* And balances that are in order for both are the same. *)
LEMMA SameOwed ==
    ASSUME NEW c, c \in ChanRecs, NEW c2, c2 \in ChanRecs,
           \A v \in Sides : SameView(c, c2, v), NEW our, Balanced(c, our), Balanced(c2, our)
    PROVE  c2.owed = c.owed
  <1>1. c.htlcs \in HtlcMaps /\ c2.htlcs \in HtlcMaps /\ c.owed \in Balances /\ c2.owed \in Balances
    BY DEF ChanRecs
  <1>2. \A v, s \in Sides :
           /\ SumAmounts(c2, Offered(c2, v, s)) = SumAmounts(c, Offered(c, v, s))
           /\ SumAmounts(c2, Settled(c2, v, s)) = SumAmounts(c, Settled(c, v, s))
    BY <1>1, SameSums
  <1>3. \A v, s \in Sides :
           c.owed[v][s] = Share(our, s) + (-SumAmounts(c, Offered(c, v, s)))
                            + SumAmounts(c, Settled(c, v, s))
    BY BalancedIs
  <1>4. \A v, s \in Sides :
           c2.owed[v][s] = Share(our, s) + (-SumAmounts(c2, Offered(c2, v, s)))
                            + SumAmounts(c2, Settled(c2, v, s))
    BY BalancedIs
  <1>5. \A v, s \in Sides : c2.owed[v][s] = c.owed[v][s]
    BY <1>2, <1>3, <1>4
  <1>6. QED
    BY <1>1, <1>5 DEF Balances

(* A commitment that two channels see alike. *)
LEMMA SameTx ==
    ASSUME NEW n \in Nodes, NEW c, c.htlcs \in HtlcMaps, NEW c2, c2.htlcs \in HtlcMaps,
           NEW v \in Sides, SameView(c, c2, v), c2.owed[v] = c.owed[v],
           channel_feerate(c2, v) = channel_feerate(c, v), NEW num
    PROVE  CommitTx(n, c2, v, num) = CommitTx(n, c, v, num)
  <1>1. /\ committed(c2, v) = committed(c, v)
        /\ \A h \in committed(c, v) : Amount(c2, h) = Amount(c, h)
    BY SameSums
  <1>2. {<<NodeOf(n, h[1]), h[2], Amount(c2, h)>> : h \in committed(c2, v)}
         = {<<NodeOf(n, h[1]), h[2], Amount(c, h)>> : h \in committed(c, v)}
    BY <1>1
  <1>3. QED
    BY <1>2 DEF CommitTx

-----------------------------------------------------------------------------
(* The database and the channel it stands for.  An HTLC is not saved until  *)
(* a commitment carries it; a removal the peer has sent is not saved until  *)
(* it is committed; our own removals are saved before channeld hears.       *)
Row(s, t) ==
    \/ s \in {0, 10, NoHtlc} /\ t = NoHtlc
    \/ s \notin {0, 5, 10} /\ t = s
    \/ s = 5 /\ t = 4
    \/ s = 14 /\ t = 15

RowHolds(c, d, h) ==
    /\ d.htlcs[h].amount = c.htlcs[h].amount
    /\ Where(d, h) = Where(c, h) => d.htlcs[h].r = c.htlcs[h].r
    /\ Where(c, h) = 5 /\ Where(d, h) = 4 => d.htlcs[h].r = "none"
    /\ Where(c, h) = 14 /\ Where(d, h) = 15 => d.htlcs[h].r \in {"fulfill", "fail"}

Rows(c, d) ==
    \A h : /\ Row(Where(c, h), Where(d, h))
           /\ Where(d, h) # NoHtlc => RowHolds(c, d, h)

(* An HTLC has an outcome once its removal has begun. *)
Resolved(c) ==
    \A h \in DOMAIN c.htlcs :
        c.htlcs[h].r = "none" <=> Where(c, h) \in (0..4) \cup (10..14)

Store(c, d) ==
    /\ Rest(c) /\ Resolved(c) /\ Balanced(c, d.our) /\ Rows(c, d)
    /\ d.fee = towire_fee_states(c.fee)

SameViews(c, c2) == \A v \in Sides : SameView(c, c2, v)

(* channel_add_htlc() of an HTLC that is not there. *)
LEMMA StoreNew ==
    ASSUME NEW c, GoodChan(c), NEW d \in DbRecs, Store(c, d), NEW s \in Sides, NEW k \in Nat,
           NEW a \in Nat, <<s, k>> \notin DOMAIN c.htlcs
    PROVE  LET c2 == new_htlc(c, s, k, a)
           IN  /\ Store(c2, d) /\ SameViews(c, c2) /\ c2.owed = c.owed /\ c2.fee = c.fee
               /\ c2.opener = c.opener
               /\ \A g : Where(c2, g) = IF g = <<s, k>> THEN IF s = "local" THEN 0 ELSE 10
                                        ELSE Where(c, g)
               /\ \A g \in DOMAIN c.htlcs : c2.htlcs[g] = c.htlcs[g]
               /\ c2.htlcs[<<s, k>>].amount = a
  <1> DEFINE c2 == new_htlc(c, s, k, a)
             h == <<s, k>>
             i == IF s = "local" THEN 0 ELSE 10
  <1>1. /\ GoodChan(c2) /\ c2.opener = c.opener /\ c2.fee = c.fee /\ c2.owed = c.owed
        /\ DOMAIN c2.htlcs = DOMAIN c.htlcs \cup {h}
        /\ c2.htlcs[h].state = i /\ c2.htlcs[h].amount = a /\ c2.htlcs[h].r = "none"
        /\ \A g \in DOMAIN c.htlcs : g # h => c2.htlcs[g] = c.htlcs[g]
    BY NewHtlc DEF State, Amount
  <1>2. h \notin DOMAIN c.htlcs /\ i \in {0, 10}
    OBVIOUS
  <1> HIDE DEF c2, h, i
  <1>3. /\ \A g : Where(c2, g) = IF g = h THEN i ELSE Where(c, g)
        /\ Where(c, h) = NoHtlc
    BY <1>1, <1>2 DEF Where
  <1>4. \A g \in DOMAIN c.htlcs : c2.htlcs[g] = c.htlcs[g]
    BY <1>1, <1>2
  <1>5. SameViews(c, c2)
    <2>1. ASSUME NEW v \in Sides, NEW g
          PROVE  /\ Where(c, g) \in WasCommitted(v) <=> Where(c2, g) \in WasCommitted(v)
                 /\ Where(c, g) \in Committed(v) <=> Where(c2, g) \in Committed(v)
                 /\ Where(c, g) \in WasCommitted(v) => c2.htlcs[g] = c.htlcs[g]
      <3>1. CASE g = h
        BY <1>2, <1>3, <3>1, CommittedCarried
      <3>2. CASE g # h
        <4>1. Where(c, g) # NoHtlc => g \in DOMAIN c.htlcs
          BY DEF Where
        <4>2. QED
          BY <1>3, <1>4, <3>2, <4>1, CommittedCarried
      <3>3. QED
        BY <3>1, <3>2
    <2>2. QED
      BY <2>1 DEF SameViews, SameView
  <1>6. Balanced(c2, d.our)
    BY <1>1, <1>5, SameBalanced DEF SameViews, GoodChan, ChanRecs, Store
  <1>7. Rest(c2)
    BY <1>2, <1>3 DEF Store, Rest
  <1>8. Resolved(c2)
    <2>1. \A g \in DOMAIN c.htlcs : Where(c2, g) = Where(c, g) /\ c2.htlcs[g].r = c.htlcs[g].r
      BY <1>2, <1>3, <1>4
    <2>2. Where(c2, h) \in (0..4) \cup (10..14) /\ c2.htlcs[h].r = "none"
      BY <1>1, <1>2, <1>3
    <2>3. QED
      BY <1>1, <2>1, <2>2 DEF Store, Resolved
  <1>9. Rows(c2, d)
    <2>1. ASSUME NEW g
          PROVE  Row(Where(c2, g), Where(d, g)) /\ (Where(d, g) # NoHtlc => RowHolds(c2, d, g))
      <3>1. Row(Where(c, g), Where(d, g)) /\ (Where(d, g) # NoHtlc => RowHolds(c, d, g))
        BY DEF Store, Rows
      <3>2. CASE g = h
        BY <1>2, <1>3, <3>1, <3>2 DEF Row, NoHtlc
      <3>3. CASE g # h
        <4>1. Where(d, g) # NoHtlc => g \in DOMAIN c.htlcs
          <5>1. Where(d, g) # NoHtlc => Where(c, g) # NoHtlc
            BY <3>1 DEF Row, NoHtlc
          <5>2. QED
            BY <5>1 DEF Where
        <4>2. Where(c2, g) = Where(c, g)
          BY <1>3, <3>3
        <4>3. Where(d, g) # NoHtlc => c2.htlcs[g] = c.htlcs[g]
          BY <1>4, <4>1
        <4>4. QED
          BY <3>1, <4>2, <4>3 DEF RowHolds
      <3>4. QED
        BY <3>2, <3>3
    <2>2. QED
      BY <2>1 DEF Rows
  <1>10. Store(c2, d)
    BY <1>1, <1>6, <1>7, <1>8, <1>9 DEF Store
  <1>11. QED
    BY <1>1, <1>3, <1>4, <1>5, <1>10 DEF c2, h, i

(* A removal moves an HTLC that both views carry, and no view's balances. *)
LEMMA SettleViews ==
    ASSUME NEW c, GoodChan(c), NEW h \in DOMAIN c.htlcs, Where(c, h) \in {4, 14},
           NEW r \in {"none", "fulfill", "fail"}
    PROVE  LET c2 == remove_htlc(c, h, r)
           IN  /\ GoodChan(c2) /\ SameViews(c, c2) /\ c2.owed = c.owed /\ c2.fee = c.fee
               /\ c2.opener = c.opener
               /\ DOMAIN c2.htlcs = DOMAIN c.htlcs
               /\ \A g : Where(c2, g) = IF g = h THEN Where(c, h) + 1 ELSE Where(c, g)
               /\ c2.htlcs[h].amount = c.htlcs[h].amount /\ c2.htlcs[h].r = r
               /\ \A g \in DOMAIN c.htlcs : g # h => c2.htlcs[g] = c.htlcs[g]
               /\ (Rest(c) => Rest(c2))
               /\ \A our : Balanced(c, our) => Balanced(c2, our)
               /\ (Resolved(c) /\ r # "none" => Resolved(c2))
  <1> DEFINE c2 == remove_htlc(c, h, r)
  <1>0. State(c, h) \notin {9, 19} /\ State(c, h) = Where(c, h)
    BY DEF Where, State, NoHtlc
  <1>1. /\ GoodChan(c2) /\ c2.opener = c.opener /\ c2.fee = c.fee /\ c2.owed = c.owed
        /\ DOMAIN c2.htlcs = DOMAIN c.htlcs
        /\ c2.htlcs[h].state = Where(c, h) + 1 /\ c2.htlcs[h].amount = c.htlcs[h].amount
        /\ c2.htlcs[h].r = r
        /\ \A g \in DOMAIN c.htlcs : g # h => c2.htlcs[g] = c.htlcs[g]
    <2>1. /\ GoodChan(c2) /\ c2.opener = c.opener /\ c2.fee = c.fee /\ c2.owed = c.owed
          /\ DOMAIN c2.htlcs = DOMAIN c.htlcs
          /\ State(c2, h) = State(c, h) + 1 /\ Amount(c2, h) = Amount(c, h)
          /\ c2.htlcs[h].r = r
          /\ \A g \in DOMAIN c.htlcs : g # h => c2.htlcs[g] = c.htlcs[g]
      BY <1>0, RemoveHtlc
    <2>2. QED
      BY <1>0, <2>1 DEF State, Amount
  <1> HIDE DEF c2
  <1>3. \A g : Where(c2, g) = IF g = h THEN Where(c, h) + 1 ELSE Where(c, g)
    BY <1>1 DEF Where
  <1>5. SameViews(c, c2)
    <2>1. ASSUME NEW v \in Sides, NEW g
          PROVE  /\ Where(c, g) \in WasCommitted(v) <=> Where(c2, g) \in WasCommitted(v)
                 /\ Where(c, g) \in Committed(v) <=> Where(c2, g) \in Committed(v)
                 /\ Where(c, g) \in WasCommitted(v) =>
                      /\ c2.htlcs[g].amount = c.htlcs[g].amount
                      /\ Where(c, g) \notin Committed(v) => c2.htlcs[g].r = c.htlcs[g].r
      <3>1. CASE g = h
        <4>1. Where(c, g) \in {4, 14} /\ Where(c2, g) \in {5, 15}
          BY <1>3, <3>1
        <4>2. QED
          BY <1>1, <3>1, <4>1, CommittedCarried
      <3>2. CASE g # h
        <4>1. Where(c, g) # NoHtlc => g \in DOMAIN c.htlcs
          BY DEF Where
        <4>2. QED
          BY <1>1, <1>3, <3>2, <4>1, CommittedCarried
      <3>3. QED
        BY <3>1, <3>2
    <2>2. QED
      BY <2>1 DEF SameViews, SameView
  <1>6. \A our : Balanced(c, our) => Balanced(c2, our)
    BY <1>1, <1>5, SameBalanced DEF SameViews, GoodChan, ChanRecs
  <1>7. Rest(c) => Rest(c2)
    BY <1>3 DEF Rest
  <1>8. Resolved(c) /\ r # "none" => Resolved(c2)
    <2>1. Where(c2, h) \in {5, 15} /\ Where(c2, h) \notin (0..4) \cup (10..14)
      BY <1>3
    <2>2. \A g \in DOMAIN c.htlcs : g # h => Where(c2, g) = Where(c, g) /\ c2.htlcs[g].r = c.htlcs[g].r
      BY <1>1, <1>3
    <2>3. QED
      BY <1>1, <2>1, <2>2 DEF Resolved
  <1>9. QED
    BY <1>1, <1>3, <1>5, <1>6, <1>7, <1>8 DEF c2

(* handle_peer_fulfill_htlc(), handle_peer_fail_htlc(): the row stays. *)
LEMMA StoreGotRemove ==
    ASSUME NEW c, GoodChan(c), NEW d \in DbRecs, Store(c, d), NEW k,
           remove_htlc_ok(c, <<"local", k>>), NEW r \in {"fulfill", "fail"}
    PROVE  LET h == <<"local", k>>
               c2 == remove_htlc(c, h, r)
           IN  /\ h \in DOMAIN c.htlcs /\ Where(c, h) = 4 /\ Store(c2, d)
  <1> DEFINE h == <<"local", k>>
             c2 == remove_htlc(c, h, r)
  <1>1. h \in DOMAIN c.htlcs /\ Where(c, h) = 4
    <2>1. h \in DOMAIN c.htlcs /\ Where(c, h) \in {4, 14}
      BY DEF remove_htlc_ok, Where, State, SENT_ADD_ACK_REVOCATION, RCVD_ADD_ACK_REVOCATION
    <2>2. h[1] = "local" /\ h[1] = htlc_state_owner(Where(c, h))
      BY <2>1, WhereType DEF GoodChan, ChanRecs
    <2>3. QED
      BY <2>1, <2>2 DEF htlc_state_owner, RCVD_ADD_HTLC
  <1>2. c.htlcs[h].r = "none"
    BY DEF remove_htlc_ok
  <1> HIDE DEF h, c2
  <1>3. /\ GoodChan(c2) /\ c2.fee = c.fee
        /\ \A g : Where(c2, g) = IF g = h THEN Where(c, h) + 1 ELSE Where(c, g)
        /\ c2.htlcs[h].amount = c.htlcs[h].amount /\ c2.htlcs[h].r = r
        /\ \A g \in DOMAIN c.htlcs : g # h => c2.htlcs[g] = c.htlcs[g]
        /\ Rest(c) => Rest(c2)
        /\ \A our : Balanced(c, our) => Balanced(c2, our)
        /\ Resolved(c) /\ r # "none" => Resolved(c2)
    BY <1>1, SettleViews DEF c2
  <1>4. Rows(c2, d)
    <2>1. ASSUME NEW g
          PROVE  Row(Where(c2, g), Where(d, g)) /\ (Where(d, g) # NoHtlc => RowHolds(c2, d, g))
      <3>1. Row(Where(c, g), Where(d, g)) /\ (Where(d, g) # NoHtlc => RowHolds(c, d, g))
        BY DEF Store, Rows
      <3>2. CASE g = h
        <4>1. Where(c2, g) = 5 /\ Where(c, g) = 4
          BY <1>1, <1>3, <3>2
        <4>2. Where(d, g) = 4
          BY <3>1, <4>1 DEF Row, NoHtlc
        <4>3. Row(Where(c2, g), Where(d, g))
          BY <4>1, <4>2 DEF Row
        <4>4. RowHolds(c2, d, g)
          BY <1>2, <1>3, <3>1, <3>2, <4>1, <4>2 DEF RowHolds, NoHtlc
        <4>5. QED
          BY <4>3, <4>4
      <3>3. CASE g # h
        <4>1. Where(d, g) # NoHtlc => g \in DOMAIN c.htlcs
          <5>1. Where(d, g) # NoHtlc => Where(c, g) # NoHtlc
            BY <3>1 DEF Row, NoHtlc
          <5>2. QED
            BY <5>1 DEF Where
        <4>2. Where(c2, g) = Where(c, g)
          BY <1>3, <3>3
        <4>3. Where(d, g) # NoHtlc => c2.htlcs[g] = c.htlcs[g]
          BY <1>3, <3>3, <4>1
        <4>4. QED
          BY <3>1, <4>2, <4>3 DEF RowHolds
      <3>4. QED
        BY <3>2, <3>3
    <2>2. QED
      BY <2>1 DEF Rows
  <1>5. Store(c2, d)
    BY <1>3, <1>4 DEF Store
  <1>6. QED
    BY <1>1, <1>5 DEF h, c2

(* What lightningd saves of a step keeps the rows in order. *)
LEMMA SavedRows ==
    ASSUME NEW d, NEW e, NEW b, NEW c, NEW mv, Saved(d, e, b, c, mv), Rows(b, d),
           SameHtlcs(b, c), mv \subseteq DOMAIN b.htlcs,
           \A h \in mv : Where(c, h) \notin {0, 5, 10},
           \A h : h \notin mv => Where(c, h) = Where(b, h)
    PROVE  Rows(c, e)
  <1>1. /\ \A h : h \in DOMAIN e.htlcs <=>
             (h \in DOMAIN d.htlcs \/ h \in mv) /\ ~(h \in mv /\ h \notin DOMAIN c.htlcs)
        /\ \A h \in DOMAIN e.htlcs :
             e.htlcs[h] = IF h \in mv THEN c.htlcs[h] ELSE d.htlcs[h]
    BY DEF Saved
  <1>2. ASSUME NEW h
        PROVE  Row(Where(c, h), Where(e, h)) /\ (Where(e, h) # NoHtlc => RowHolds(c, e, h))
    <2>1. CASE h \in mv
      <3>1. Where(e, h) = Where(c, h) /\ (Where(e, h) # NoHtlc => e.htlcs[h] = c.htlcs[h])
        BY <1>1, <2>1 DEF Where
      <3>2. Where(c, h) \notin {0, 5, 10}
        BY <2>1
      <3>3. QED
        BY <3>1, <3>2 DEF Row, RowHolds
    <2>2. CASE h \notin mv
      <3>1. Row(Where(b, h), Where(d, h)) /\ (Where(d, h) # NoHtlc => RowHolds(b, d, h))
        BY DEF Rows
      <3>2. Where(c, h) = Where(b, h)
        BY <2>2
      <3>3. Where(e, h) = Where(d, h) /\ (Where(e, h) # NoHtlc => e.htlcs[h] = d.htlcs[h])
        BY <1>1, <2>2 DEF Where
      <3>4. Where(d, h) # NoHtlc => Where(b, h) # NoHtlc
        BY <3>1 DEF Row, NoHtlc
      <3>5. Where(d, h) # NoHtlc => /\ c.htlcs[h].amount = b.htlcs[h].amount
                                    /\ c.htlcs[h].r = b.htlcs[h].r
        BY <3>2, <3>4 DEF SameHtlcs, Where
      <3>6. QED
        BY <3>1, <3>2, <3>3, <3>5 DEF RowHolds
    <2>3. QED
      BY <2>1, <2>2
  <1>3. QED
    BY <1>2 DEF Rows

(* A step that moves no HTLC past the start of its removal. *)
LEMMA ResolvedStays ==
    ASSUME NEW c, NEW c2, GoodChan(c2), Resolved(c), SameHtlcs(c, c2),
           \A h : Where(c2, h) # NoHtlc =>
              (Where(c, h) \in (0..4) \cup (10..14) <=> Where(c2, h) \in (0..4) \cup (10..14))
    PROVE  Resolved(c2)
  <1>1. \A h \in DOMAIN c2.htlcs : Where(c2, h) # NoHtlc
    BY WhereType DEF GoodChan, ChanRecs
  <1>2. QED
    BY <1>1 DEF Resolved, SameHtlcs

(* send_commit() *)
LEMMA StoreSent ==
    ASSUME NEW b, GoodChan(b), NEW d \in DbRecs, Rest(b), Resolved(b), Balanced(b, d.our),
           Rows(b, d), NEW e,
           Saved(d, e, b, channel_sending_commit(b), moving(b, sending_commit_states))
    PROVE  Store(channel_sending_commit(b), e)
  <1> DEFINE c == channel_sending_commit(b)
             mv == moving(b, sending_commit_states)
  <1>1. /\ \A h : Where(c, h) = Sent(Where(b, h)) /\ SameHtlcs(b, c)
        /\ mv = {h \in DOMAIN b.htlcs : Where(b, h) \in {0, 7, 12, 15}}
    BY WhereSent
  <1>2. GoodChan(c)
    BY ChangeGood DEF channel_sending_commit, Steps
  <1>3. Balanced(c, e.our)
    <2>1. Dying(b, sending_commit_states) = {}
      <3>1. sending_commit_states = {0, 7, 12, 15}
        BY DEF sending_commit_states, SENT_ADD_HTLC, SENT_REMOVE_REVOCATION,
           SENT_ADD_REVOCATION, SENT_REMOVE_HTLC
      <3>2. QED
        BY <3>1 DEF Dying, moving, DeadStates, RCVD_REMOVE_ACK_REVOCATION,
           SENT_REMOVE_ACK_REVOCATION
    <2>2. \A s : Paid(b, sending_commit_states, s) = 0
      <3>1. \A s : {h \in {} : h[1] = s /\ b.htlcs[h].r = "fulfill"} = {}
        OBVIOUS
      <3>2. QED
        BY <2>1, <3>1, AmountsNone DEF Paid
    <2>3. d.our \in Int /\ Funding \in Int /\ b \in ChanRecs
      BY ChanneldAssumption DEF DbRecs, GoodChan
    <2>4. Balanced(c, d.our + Paid(b, sending_commit_states, "remote")
                            - Paid(b, sending_commit_states, "local"))
      BY <2>3, ChangeBalanced DEF channel_sending_commit, Steps
    <2>5. Balanced(c, d.our)
      BY <2>2, <2>3, <2>4
    <2>6. \A s : PaidBy(b, {h \in mv : h \notin DOMAIN c.htlcs}, s) = 0
      <3>1. \A h \in mv : Where(c, h) \in {1, 8, 13, 16}
        BY <1>1 DEF Sent
      <3>2. {h \in mv : h \notin DOMAIN c.htlcs} = {}
        BY <3>1 DEF Where, NoHtlc
      <3>3. \A s : {h \in {} : h[1] = s /\ b.htlcs[h].r = "fulfill"} = {}
        OBVIOUS
      <3>4. QED
        BY <3>2, <3>3, AmountsNone DEF PaidBy
    <2>7. e.our = d.our
      <3> HIDE DEF mv, c
      <3>1. e.our = d.our + PaidBy(b, {h \in mv : h \notin DOMAIN c.htlcs}, "remote")
                          - PaidBy(b, {h \in mv : h \notin DOMAIN c.htlcs}, "local")
        BY DEF Saved, c, mv
      <3>2. QED
        BY <2>3, <2>6, <3>1
    <2>8. QED
      BY <2>5, <2>7
  <1>4. Rows(c, e)
    <2>1. \A h \in mv : Where(c, h) \notin {0, 5, 10}
      BY <1>1 DEF Sent
    <2>2. \A h : h \notin mv => Where(c, h) = Where(b, h)
      BY <1>1 DEF Sent, Where, NoHtlc
    <2>3. mv \subseteq DOMAIN b.htlcs
      BY <1>1
    <2> HIDE DEF c, mv
    <2>4. Saved(d, e, b, c, mv)
      BY DEF c, mv
    <2>5. QED
      BY <1>1, <2>1, <2>2, <2>3, <2>4, SavedRows
  <1> HIDE DEF c
  <1>5. Rest(c)
    BY <1>1 DEF Rest, Sent
  <1>6. Resolved(c)
    <2>1. \A h : Where(b, h) \in 0..20
      BY WhereType DEF GoodChan, ChanRecs
    <2>2. \A h : Where(b, h) \in (0..4) \cup (10..14) <=> Where(c, h) \in (0..4) \cup (10..14)
      BY <1>1, <2>1 DEF Sent
    <2>3. QED
      BY <1>1, <1>2, <2>2, ResolvedStays
  <1>7. e.fee = towire_fee_states(c.fee)
    BY DEF Saved, c
  <1>8. QED
    BY <1>3, <1>4, <1>5, <1>6, <1>7 DEF Store, c

(* handle_peer_revoke_and_ack() *)
LEMMA StoreAcked ==
    ASSUME NEW b, GoodChan(b), NEW d \in DbRecs, Store(b, d), NEW e,
           Saved(d, e, b, channel_rcvd_revoke_and_ack(b), moving(b, rcvd_revoke_states))
    PROVE  Store(channel_rcvd_revoke_and_ack(b), e)
  <1> DEFINE c == channel_rcvd_revoke_and_ack(b)
             mv == moving(b, rcvd_revoke_states)
             dead == {h \in mv : h \notin DOMAIN c.htlcs}
  <1>0. Rest(b) /\ Resolved(b) /\ Balanced(b, d.our) /\ Rows(b, d)
    BY DEF Store
  <1>1. /\ \A h : Where(c, h) = Acked(Where(b, h)) /\ SameHtlcs(b, c)
        /\ mv = {h \in DOMAIN b.htlcs : Where(b, h) \in {1, 8, 13, 16}}
    BY WhereAcked
  <1>2. GoodChan(c)
    BY ChangeGood DEF channel_rcvd_revoke_and_ack, Steps
  <1>3. Balanced(c, e.our)
    <2>1. Dying(b, rcvd_revoke_states) = dead
      <3>1. DOMAIN c.htlcs = DOMAIN b.htlcs \ Dying(b, rcvd_revoke_states)
        BY ChangeFields DEF channel_rcvd_revoke_and_ack, Steps, GoodChan
      <3>2. Dying(b, rcvd_revoke_states) \subseteq mv /\ mv \subseteq DOMAIN b.htlcs
        BY DEF Dying, moving
      <3>3. QED
        BY <3>1, <3>2
    <2>2. \A s : Paid(b, rcvd_revoke_states, s) = PaidBy(b, dead, s)
      BY <2>1 DEF Paid, PaidBy
    <2>3. d.our \in Int /\ Funding \in Int /\ b \in ChanRecs
      BY ChanneldAssumption DEF DbRecs, GoodChan
    <2>4. Balanced(c, d.our + Paid(b, rcvd_revoke_states, "remote")
                            - Paid(b, rcvd_revoke_states, "local"))
      BY <1>0, <2>3, ChangeBalanced DEF channel_rcvd_revoke_and_ack, Steps
    <2>5. e.our = d.our + PaidBy(b, dead, "remote") - PaidBy(b, dead, "local")
      BY DEF Saved
    <2>6. QED
      BY <2>2, <2>4, <2>5
  <1>4. Rows(c, e)
    <2>1. \A h \in mv : Where(c, h) \notin {0, 5, 10}
      BY <1>1 DEF Acked, NoHtlc
    <2>2. \A h : h \notin mv => Where(c, h) = Where(b, h)
      BY <1>1 DEF Acked, Where, NoHtlc
    <2>3. mv \subseteq DOMAIN b.htlcs
      BY <1>1
    <2>4. Saved(d, e, b, c, mv)
      OBVIOUS
    <2> HIDE DEF c, mv
    <2>5. QED
      BY <1>0, <1>1, <2>1, <2>2, <2>3, <2>4, SavedRows
  <1>7. e.fee = towire_fee_states(c.fee)
    BY DEF Saved
  <1> HIDE DEF c
  <1>5. Rest(c)
    BY <1>0, <1>1 DEF Rest, Acked, NoHtlc
  <1>6. Resolved(c)
    <2>1. \A h : Where(b, h) \in 0..20
      BY WhereType DEF GoodChan, ChanRecs
    <2>2. \A h : Where(c, h) # NoHtlc =>
            (Where(b, h) \in (0..4) \cup (10..14) <=> Where(c, h) \in (0..4) \cup (10..14))
      BY <1>1, <2>1 DEF Acked
    <2>3. QED
      BY <1>0, <1>1, <1>2, <2>2, ResolvedStays
  <1>8. QED
    BY <1>3, <1>4, <1>5, <1>6, <1>7 DEF Store, c

(* handle_peer_commit_sig() *)
LEMMA StoreTook ==
    ASSUME NEW b, GoodChan(b), NEW d \in DbRecs, Store(b, d), NEW e, NEW c,
           c = channel_sending_revoke_and_ack(channel_rcvd_commit(b)), GoodChan(c),
           Saved(d, e, b, c, moving(b, rcvd_commit_states))
    PROVE  Store(c, e)
  <1> DEFINE c1 == channel_rcvd_commit(b)
             mv == moving(b, rcvd_commit_states)
             dead == {h \in mv : h \notin DOMAIN c.htlcs}
  <1>0. Rest(b) /\ Resolved(b) /\ Balanced(b, d.our) /\ Rows(b, d)
    BY DEF Store
  <1>1. /\ \A h : Where(c, h) = Took(Where(b, h)) /\ SameHtlcs(b, c)
        /\ \A h : Where(c1, h) = IF Where(b, h) \in {2, 5, 10, 17} THEN Where(b, h) + 1 ELSE Where(b, h)
        /\ SameHtlcs(b, c1) /\ GoodChan(c1)
        /\ mv = {h \in DOMAIN b.htlcs : Where(b, h) \in {2, 5, 10, 17}}
    BY <1>0, WhereTook
  <1>2. rcvd_commit_states = {2, 5, 10, 17} /\ sending_revoke_states = {3, 6, 11, 18}
    BY DEF rcvd_commit_states, RCVD_ADD_REVOCATION, RCVD_REMOVE_HTLC, RCVD_ADD_HTLC,
       RCVD_REMOVE_REVOCATION, sending_revoke_states, RCVD_ADD_ACK_COMMIT, RCVD_REMOVE_COMMIT,
       RCVD_ADD_COMMIT, RCVD_REMOVE_ACK_COMMIT
  <1>3. Balanced(c, e.our)
    <2>1. d.our \in Int /\ Funding \in Int /\ b \in ChanRecs /\ c1 \in ChanRecs
      BY <1>1, ChanneldAssumption DEF DbRecs, GoodChan
    <2>2. Balanced(c1, d.our)
      <3>1. Dying(b, rcvd_commit_states) = {}
        BY <1>2 DEF Dying, moving, DeadStates, RCVD_REMOVE_ACK_REVOCATION,
           SENT_REMOVE_ACK_REVOCATION
      <3>2. \A s : Paid(b, rcvd_commit_states, s) = 0
        <4>1. \A s : {h \in {} : h[1] = s /\ b.htlcs[h].r = "fulfill"} = {}
          OBVIOUS
        <4>2. QED
          BY <3>1, <4>1, AmountsNone DEF Paid
      <3>3. Balanced(c1, d.our + Paid(b, rcvd_commit_states, "remote")
                               - Paid(b, rcvd_commit_states, "local"))
        BY <1>0, <2>1, ChangeBalanced DEF channel_rcvd_commit, Steps
      <3>4. QED
        BY <2>1, <3>2, <3>3
    <2>3. \A s : Paid(c1, sending_revoke_states, s) = PaidBy(b, dead, s)
      <3> DEFINE dy == Dying(c1, sending_revoke_states)
      <3>1. \A h : h \in dy <=> Where(c1, h) = 18
        <4>1. \A h : h \in dy <=> /\ h \in DOMAIN c1.htlcs /\ c1.htlcs[h].state \in {3, 6, 11, 18}
                                 /\ c1.htlcs[h].state + 1 \in {9, 19}
          BY <1>2 DEF Dying, moving, State, DeadStates, RCVD_REMOVE_ACK_REVOCATION,
             SENT_REMOVE_ACK_REVOCATION
        <4>2. QED
          BY <4>1 DEF Where, NoHtlc
      <3>2. \A h : Where(c1, h) = 18 <=> Where(b, h) = 17
        <4>1. \A h : Where(b, h) # 18 /\ Where(b, h) \in 0..20
          BY <1>0, WhereType DEF Rest, GoodChan, ChanRecs
        <4>2. QED
          BY <1>1, <4>1
      <3>3. \A h : h \in dead <=> Where(b, h) = 17
        <4>1. \A h : h \in dead <=> h \in DOMAIN b.htlcs /\ Where(b, h) \in {2, 5, 10, 17}
                                   /\ h \notin DOMAIN c.htlcs
          BY <1>1
        <4>2. \A h : (h \in DOMAIN b.htlcs <=> Where(b, h) # NoHtlc)
                     /\ (h \in DOMAIN c.htlcs <=> Where(c, h) # NoHtlc)
          BY WhereType DEF GoodChan, ChanRecs
        <4>3. QED
          BY <1>1, <4>1, <4>2 DEF Took, NoHtlc
      <3>4. dy = dead
        BY <3>1, <3>2, <3>3
      <3>5. \A h \in dead : /\ h \in DOMAIN c1.htlcs /\ c1.htlcs[h].amount = b.htlcs[h].amount
                            /\ c1.htlcs[h].r = b.htlcs[h].r
        <4>1. \A h \in dead : h \in DOMAIN c1.htlcs
          BY <3>1, <3>4 DEF Where, NoHtlc
        <4>2. QED
          BY <1>1, <4>1 DEF SameHtlcs
      <3>6. ASSUME NEW s
            PROVE  Paid(c1, sending_revoke_states, s) = PaidBy(b, dead, s)
        <4> DEFINE S == {h \in dead : h[1] = s /\ b.htlcs[h].r = "fulfill"}
        <4>1. {h \in dy : h[1] = s /\ c1.htlcs[h].r = "fulfill"} = S
          BY <3>4, <3>5
        <4>2. S \subseteq DOMAIN b.htlcs /\ b.htlcs \in HtlcMaps
          BY <1>1 DEF GoodChan, ChanRecs
        <4>3. IsFiniteSet(S)
          BY <4>2, AmountsType
        <4>4. \A h \in S : Amount(c1, h) = Amount(b, h)
          BY <3>5 DEF Amount
        <4> HIDE DEF S
        <4>5. SumAmounts(c1, S) = SumAmounts(b, S)
          BY <4>3, <4>4, AmountsSame
        <4>6. QED
          BY <4>1, <4>5 DEF Paid, PaidBy, S
      <3>7. QED
        BY <3>6
    <2>4. Balanced(c, d.our + Paid(c1, sending_revoke_states, "remote")
                            - Paid(c1, sending_revoke_states, "local"))
      BY <2>1, <2>2, ChangeBalanced DEF channel_sending_revoke_and_ack, Steps
    <2>5. e.our = d.our + PaidBy(b, dead, "remote") - PaidBy(b, dead, "local")
      BY DEF Saved
    <2>6. QED
      BY <2>3, <2>4, <2>5
  <1>4. Rows(c, e)
    <2>1. \A h \in mv : Where(c, h) \notin {0, 5, 10}
      BY <1>1 DEF Took, NoHtlc
    <2>2. \A h : h \notin mv => Where(c, h) = Where(b, h)
      BY <1>1 DEF Took, Where, NoHtlc
    <2>3. mv \subseteq DOMAIN b.htlcs
      BY <1>1
    <2> HIDE DEF mv
    <2>4. Saved(d, e, b, c, mv)
      BY DEF mv
    <2>5. QED
      BY <1>0, <1>1, <2>1, <2>2, <2>3, <2>4, SavedRows
  <1>7. e.fee = towire_fee_states(c.fee)
    BY DEF Saved
  <1>5. Rest(c)
    BY <1>0, <1>1 DEF Rest, Took, NoHtlc
  <1>6. Resolved(c)
    <2>1. \A h : Where(b, h) \in 0..20
      BY WhereType DEF GoodChan, ChanRecs
    <2>2. \A h : Where(c, h) # NoHtlc =>
            (Where(b, h) \in (0..4) \cup (10..14) <=> Where(c, h) \in (0..4) \cup (10..14))
      BY <1>1, <2>1 DEF Took
    <2>3. QED
      BY <1>0, <1>1, <2>2, ResolvedStays
  <1>8. QED
    BY <1>3, <1>4, <1>5, <1>6, <1>7 DEF Store

(* Channels with the same HTLCs are seen alike. *)
LEMMA SameHtlcViews ==
    ASSUME NEW c, NEW c2, c2.htlcs = c.htlcs
    PROVE  SameViews(c, c2) /\ \A h : Where(c2, h) = Where(c, h)
  <1>1. \A h : Where(c2, h) = Where(c, h)
    BY DEF Where
  <1>2. QED
    BY <1>1 DEF SameViews, SameView

(* channel_update_feerate(): no view's feerate is touched, nor what is saved. *)
LEMMA StoreFee ==
    ASSUME NEW c, GoodChan(c), NEW d \in DbRecs, Store(c, d), NEW rate \in Nat
    PROVE  LET c2 == channel_update_feerate(c, rate)
           IN  /\ Store(c2, d) /\ SameViews(c, c2) /\ GoodChan(c2)
               /\ c2.owed = c.owed /\ c2.htlcs = c.htlcs
               /\ \A v \in Sides : channel_feerate(c2, v) = channel_feerate(c, v)
  <1> DEFINE c2 == channel_update_feerate(c, rate)
  <1>1. /\ GoodChan(c2)
        /\ c2.opener = c.opener /\ c2.htlcs = c.htlcs /\ c2.owed = c.owed
        /\ \A i \in HtlcStates :
             c2.fee[i] = IF i = first_fee_state(c.opener) THEN rate ELSE c.fee[i]
    BY UpdateFeerate
  <1> HIDE DEF c2
  <1>2. c.opener \in Sides /\ c.fee \in Slots /\ c2.fee \in Slots
        /\ c.htlcs \in HtlcMaps /\ c2.htlcs \in HtlcMaps
    BY <1>1 DEF GoodChan, ChanRecs
  <1>3. \A i \in HtlcStates : i \notin {0, 10} => c2.fee[i] = c.fee[i]
    BY <1>1 DEF first_fee_state, SENT_ADD_HTLC, RCVD_ADD_HTLC
  <1>4. SameViews(c, c2) /\ \A h : Where(c2, h) = Where(c, h)
    BY <1>1, SameHtlcViews
  <1>5. towire_fee_states(c2.fee) = towire_fee_states(c.fee)
    <2>1. \A i \in HtlcStates : towire_fee_states(c2.fee)[i] = towire_fee_states(c.fee)[i]
      BY <1>2, <1>3, WireFees
    <2>2. QED
      BY <1>2, <2>1 DEF towire_fee_states
  <1>6. \A v \in Sides : channel_feerate(c2, v) = channel_feerate(c, v)
    <2>1. \A i \in {1, 2, 3, 4, 11, 12, 13, 14} : c2.fee[i] = c.fee[i]
      BY <1>3 DEF HtlcStates
    <2>2. /\ c.fee[1] = c2.fee[1] /\ c.fee[2] = c2.fee[2] /\ c.fee[3] = c2.fee[3]
          /\ c.fee[4] = c2.fee[4] /\ c.fee[11] = c2.fee[11] /\ c.fee[12] = c2.fee[12]
          /\ c.fee[13] = c2.fee[13] /\ c.fee[14] = c2.fee[14]
      BY <2>1
    <2>3. QED
      BY <1>1, <1>2, <2>2, FeerateIs DEF Sides
  <1>7. Balanced(c2, d.our)
    BY <1>1, <1>2, <1>4, SameBalanced DEF SameViews, Store
  <1>8. Rest(c2) /\ Resolved(c2) /\ Rows(c2, d)
    BY <1>1, <1>4 DEF Store, Rest, Resolved, Rows, RowHolds
  <1>9. Store(c2, d)
    BY <1>5, <1>7, <1>8 DEF Store
  <1>10. QED
    BY <1>1, <1>4, <1>6, <1>9 DEF c2

(* The fee update a commitment may bring. *)
LEMMA StoreFeeUpdated ==
    ASSUME NEW c, GoodChan(c), NEW d \in DbRecs, Store(c, d), NEW c1, FeeUpdated(c, c1)
    PROVE  Store(c1, d) /\ SameViews(c, c1) /\ c1.owed = c.owed /\ c1.htlcs = c.htlcs
  <1>1. CASE c1 = c
    BY <1>1, SameHtlcViews
  <1>2. CASE c1 # c
    <2>1. PICK r \in Nat \ {0} : c1 = channel_update_feerate(c, r)
      BY <1>2 DEF FeeUpdated
    <2>2. QED
      BY <2>1, StoreFee
  <1>3. QED
    BY <1>1, <1>2

(* lightningd settles an HTLC in its database. *)
LEMMA StoreSaves ==
    ASSUME NEW n, NEW x, NodeType(n, x), NEW y, NEW out, SavesResolution(n, x, y, out),
           Store(x.c, x.d)
    PROVE  Store(y.c, y.d)
  <1> DEFINE c == x.c
             d == x.d
             e == y.d
  <1>1. PICK h \in DOMAIN d.htlcs :
          \E r \in {"fulfill", "fail"} :
             /\ d.htlcs[h].state = 14
             /\ e.fee = d.fee /\ e.our = d.our
             /\ DOMAIN e.htlcs = DOMAIN d.htlcs
             /\ e.htlcs[h].state = 15 /\ e.htlcs[h].r = r
             /\ e.htlcs[h].amount = d.htlcs[h].amount
             /\ \A g \in DOMAIN d.htlcs : g # h => e.htlcs[g] = d.htlcs[g]
    BY ResolutionSaved
  <1>2. PICK r \in {"fulfill", "fail"} :
             /\ d.htlcs[h].state = 14
             /\ e.fee = d.fee /\ e.our = d.our
             /\ DOMAIN e.htlcs = DOMAIN d.htlcs
             /\ e.htlcs[h].state = 15 /\ e.htlcs[h].r = r
             /\ e.htlcs[h].amount = d.htlcs[h].amount
             /\ \A g \in DOMAIN d.htlcs : g # h => e.htlcs[g] = d.htlcs[g]
    BY <1>1
  <1>3. y.c = c /\ Store(c, d)
    BY DEF SavesResolution
  <1> HIDE DEF c, d, e
  <1>4. /\ Where(d, h) = 14 /\ Where(e, h) = 15
        /\ \A g : g # h => Where(e, g) = Where(d, g)
    BY <1>2 DEF Where
  <1>5. \A g : Row(Where(c, g), Where(d, g)) /\ (Where(d, g) # NoHtlc => RowHolds(c, d, g))
    BY <1>3 DEF Store, Rows
  <1>6. Where(c, h) = 14
    BY <1>4, <1>5 DEF Row, NoHtlc
  <1>7. ASSUME NEW g
        PROVE  Row(Where(c, g), Where(e, g)) /\ (Where(e, g) # NoHtlc => RowHolds(c, e, g))
    <2>1. CASE g = h
      <3>1. Row(Where(c, g), Where(e, g))
        BY <1>4, <1>6, <2>1 DEF Row
      <3>2. d.htlcs[g].amount = c.htlcs[g].amount
        BY <1>4, <1>5, <2>1 DEF RowHolds, NoHtlc
      <3>3. QED
        BY <1>2, <1>4, <1>6, <2>1, <3>1, <3>2 DEF RowHolds
    <2>2. CASE g # h
      <3>1. Where(e, g) # NoHtlc => e.htlcs[g] = d.htlcs[g]
        BY <1>2, <2>2 DEF Where
      <3>2. QED
        BY <1>4, <1>5, <2>2, <3>1 DEF RowHolds
    <2>3. QED
      BY <2>1, <2>2
  <1>8. Rows(c, e)
    BY <1>7 DEF Rows
  <1>9. Store(c, e)
    BY <1>2, <1>3, <1>8 DEF Store
  <1>10. QED
    BY <1>3, <1>9 DEF e

(* channeld hears of it. *)
LEMMA StoreResolves ==
    ASSUME NEW c, GoodChan(c), NEW d \in DbRecs, Store(c, d), NEW h \in DOMAIN d.htlcs,
           d.htlcs[h].state = 15, h \in DOMAIN c.htlcs, State(c, h) < 15
    PROVE  LET c2 == remove_htlc(c, h, d.htlcs[h].r)
           IN  /\ Where(c, h) = 14 /\ d.htlcs[h].r \in {"fulfill", "fail"}
               /\ Store(c2, d) /\ SameViews(c, c2) /\ GoodChan(c2)
               /\ c2.owed = c.owed /\ c2.fee = c.fee /\ c2.opener = c.opener
               /\ \A g : Where(c2, g) = IF g = h THEN 15 ELSE Where(c, g)
               /\ \A g \in DOMAIN c.htlcs : c2.htlcs[g].amount = c.htlcs[g].amount
               /\ \A g \in DOMAIN c.htlcs : g # h => c2.htlcs[g] = c.htlcs[g]
               /\ c2.htlcs[h].r = d.htlcs[h].r
  <1> DEFINE r == d.htlcs[h].r
             c2 == remove_htlc(c, h, r)
  <1>1. Where(d, h) = 15 /\ Where(c, h) = State(c, h)
    BY DEF Where, State
  <1>2. \A g : Row(Where(c, g), Where(d, g)) /\ (Where(d, g) # NoHtlc => RowHolds(c, d, g))
    BY DEF Store, Rows
  <1>3. Where(c, h) = 14
    BY <1>1, <1>2 DEF Row, NoHtlc
  <1>4. r \in {"fulfill", "fail"} /\ d.htlcs[h].amount = c.htlcs[h].amount
    BY <1>1, <1>2, <1>3 DEF RowHolds, NoHtlc
  <1> HIDE DEF r
  <1>5. /\ GoodChan(c2) /\ SameViews(c, c2) /\ c2.owed = c.owed /\ c2.fee = c.fee
        /\ c2.opener = c.opener
        /\ \A g : Where(c2, g) = IF g = h THEN Where(c, h) + 1 ELSE Where(c, g)
        /\ c2.htlcs[h].amount = c.htlcs[h].amount /\ c2.htlcs[h].r = r
        /\ \A g \in DOMAIN c.htlcs : g # h => c2.htlcs[g] = c.htlcs[g]
        /\ Rest(c) => Rest(c2)
        /\ \A our : Balanced(c, our) => Balanced(c2, our)
        /\ Resolved(c) /\ r # "none" => Resolved(c2)
    BY <1>3, <1>4, SettleViews
  <1> HIDE DEF c2
  <1>6. ASSUME NEW g
        PROVE  Row(Where(c2, g), Where(d, g)) /\ (Where(d, g) # NoHtlc => RowHolds(c2, d, g))
    <2>1. CASE g = h
      <3>1. Where(c2, g) = 15 /\ Where(d, g) = 15
        BY <1>1, <1>3, <1>5, <2>1
      <3>2. Row(Where(c2, g), Where(d, g))
        BY <3>1 DEF Row
      <3>3. RowHolds(c2, d, g)
        BY <1>4, <1>5, <2>1, <3>1 DEF RowHolds, r
      <3>4. QED
        BY <3>2, <3>3
    <2>2. CASE g # h
      <3>1. Where(c2, g) = Where(c, g)
        BY <1>5, <2>2
      <3>2. Where(d, g) # NoHtlc => Where(c, g) # NoHtlc
        BY <1>2 DEF Row, NoHtlc
      <3>3. Where(d, g) # NoHtlc => c2.htlcs[g] = c.htlcs[g]
        BY <1>5, <2>2, <3>2 DEF Where
      <3>4. QED
        BY <1>2, <3>1, <3>3 DEF RowHolds
    <2>3. QED
      BY <2>1, <2>2
  <1>7. Rows(c2, d)
    BY <1>6 DEF Rows
  <1>8. Store(c2, d)
    BY <1>4, <1>5, <1>7 DEF Store
  <1>9. \A g : Where(c2, g) = IF g = h THEN 15 ELSE Where(c, g)
    BY <1>3, <1>5
  <1>10. QED
    BY <1>3, <1>4, <1>5, <1>8, <1>9 DEF c2, r

(* What is saved of what was saved is the same. *)
LEMMA WireAgain ==
    ASSUME NEW f \in Slots
    PROVE  towire_fee_states(towire_fee_states(f)) = towire_fee_states(f)
  <1> DEFINE g == towire_fee_states(f)
  <1>1. g \in Slots /\ \A i \in HtlcStates : g[i] = IF i \in {0, 10} THEN 0
                  ELSE IF i \in {8, 9, 18, 19} THEN 0 ELSE f[i]
    BY WireFees
  <1> HIDE DEF g
  <1>2. \A i \in HtlcStates : towire_fee_states(g)[i] = IF i \in {0, 10} THEN 0
                  ELSE IF i \in {8, 9, 18, 19} THEN 0 ELSE g[i]
    BY <1>1, WireFees
  <1>3. \A i \in HtlcStates : towire_fee_states(g)[i] = g[i]
    BY <1>1, <1>2
  <1>4. towire_fee_states(g) = g
    BY <1>1, <1>3, WireFees DEF Slots
  <1>5. QED
    BY <1>4 DEF g

(* init_channel() from the database of a channel. *)
LEMMA StoreRestored ==
    ASSUME NEW n \in Nodes, NEW c, GoodChan(c), c.opener = OpenerSide(n), NEW d \in DbRecs,
           d.fee[last_fee_state(OpenerSide(n))] # 0, Store(c, d)
    PROVE  LET r == RestoredChannel(n, d)
           IN  /\ GoodChan(r) /\ r.opener = c.opener /\ r.fee = towire_fee_states(c.fee)
               /\ r.htlcs = d.htlcs
               /\ Store(r, d) /\ SameViews(c, r) /\ r.owed = c.owed
               /\ \A v \in Sides : channel_feerate(r, v) = channel_feerate(c, v)
  <1> DEFINE r == RestoredChannel(n, d)
  <1>1. /\ GoodChan(r) /\ r.opener = OpenerSide(n) /\ r.htlcs = d.htlcs /\ r.fee = d.fee
        /\ Balanced(r, d.our)
    BY RestoredType
  <1>2. /\ c.fee \in Slots /\ d.fee = towire_fee_states(c.fee) /\ c.opener \in Sides
        /\ c.htlcs \in HtlcMaps /\ r.htlcs \in HtlcMaps /\ c \in ChanRecs /\ r \in ChanRecs
    BY <1>1 DEF Store, GoodChan, ChanRecs
  <1> HIDE DEF r
  <1>3. \A h : Where(r, h) = Where(d, h) /\ r.htlcs[h] = d.htlcs[h]
    BY <1>1 DEF Where
  <1>4. \A h : Row(Where(c, h), Where(r, h)) /\ (Where(r, h) # NoHtlc => RowHolds(c, r, h))
    BY <1>1, <1>3 DEF Store, Rows, RowHolds
  <1>5. Rest(r)
    BY <1>4 DEF Rest, Row, Store, NoHtlc
  <1>6. Resolved(r)
    <2>1. ASSUME NEW h \in DOMAIN r.htlcs
          PROVE  r.htlcs[h].r = "none" <=> Where(r, h) \in (0..4) \cup (10..14)
      <3>1. Where(r, h) # NoHtlc
        BY <1>2, WhereType
      <3>2. Where(c, h) # NoHtlc
        BY <1>4, <3>1 DEF Row, NoHtlc
      <3>3. c.htlcs[h].r = "none" <=> Where(c, h) \in (0..4) \cup (10..14)
        <4>1. h \in DOMAIN c.htlcs
          BY <3>2 DEF Where
        <4>2. QED
          BY <4>1 DEF Store, Resolved
      <3>4. RowHolds(c, r, h) /\ Row(Where(c, h), Where(r, h))
        BY <1>4, <3>1
      <3>5. CASE Where(r, h) = Where(c, h)
        BY <3>3, <3>4, <3>5 DEF RowHolds
      <3>6. CASE Where(c, h) = 5 /\ Where(r, h) = 4
        BY <3>4, <3>6 DEF RowHolds
      <3>7. CASE Where(c, h) = 14 /\ Where(r, h) = 15
        BY <3>4, <3>7 DEF RowHolds
      <3>8. QED
        BY <3>1, <3>4, <3>5, <3>6, <3>7 DEF Row
    <2>2. QED
      BY <2>1 DEF Resolved
  <1>7. Rows(r, d)
    <2>1. \A h : Row(Where(r, h), Where(d, h))
      BY <1>3, <1>4 DEF Row
    <2>2. \A h : RowHolds(r, d, h)
      <3>1. ASSUME NEW h
            PROVE  RowHolds(r, d, h)
        <4>1. Where(r, h) = Where(d, h) /\ r.htlcs[h] = d.htlcs[h]
          BY <1>3
        <4>2. QED
          BY <4>1 DEF RowHolds
      <3>2. QED
        BY <3>1
    <2>3. QED
      BY <2>1, <2>2 DEF Rows
  <1>8. d.fee = towire_fee_states(r.fee)
    BY <1>1, <1>2, WireAgain
  <1>9. Store(r, d)
    BY <1>1, <1>5, <1>6, <1>7, <1>8 DEF Store
  <1>10. SameViews(c, r)
    <2>1. ASSUME NEW v \in Sides, NEW h
          PROVE  /\ Where(c, h) \in WasCommitted(v) <=> Where(r, h) \in WasCommitted(v)
                 /\ Where(c, h) \in Committed(v) <=> Where(r, h) \in Committed(v)
                 /\ Where(c, h) \in WasCommitted(v) =>
                      /\ r.htlcs[h].amount = c.htlcs[h].amount
                      /\ Where(c, h) \notin Committed(v) => r.htlcs[h].r = c.htlcs[h].r
      <3>1. Row(Where(c, h), Where(r, h)) /\ (Where(r, h) # NoHtlc => RowHolds(c, r, h))
        BY <1>4
      <3>2. CASE Where(c, h) \in {0, 10, NoHtlc} /\ Where(r, h) = NoHtlc
        BY <3>2, CommittedCarried
      <3>3. CASE Where(r, h) = Where(c, h)
        <4>1. Where(c, h) \in WasCommitted(v) => Where(r, h) # NoHtlc
          BY <3>3, CommittedCarried
        <4>2. QED
          BY <3>1, <3>3, <4>1 DEF RowHolds
      <3>4. CASE (Where(c, h) = 5 /\ Where(r, h) = 4) \/ (Where(c, h) = 14 /\ Where(r, h) = 15)
        <4>1. Where(c, h) \in Committed(v) /\ Where(r, h) \in Committed(v)
          BY <3>4, CommittedCarried
        <4>2. Where(c, h) \in WasCommitted(v) /\ Where(r, h) \in WasCommitted(v)
          BY <4>1, CommittedCarried
        <4>3. Where(r, h) # NoHtlc
          BY <3>4 DEF NoHtlc
        <4>4. QED
          BY <3>1, <4>1, <4>2, <4>3 DEF RowHolds
      <3>5. QED
        BY <3>1, <3>2, <3>3, <3>4 DEF Row
    <2>2. QED
      BY <2>1 DEF SameViews, SameView
  <1>11. r.owed = c.owed
    BY <1>1, <1>2, <1>10, SameOwed DEF Store, SameViews
  <1>12. \A v \in Sides : channel_feerate(r, v) = channel_feerate(c, v)
    <2>1. \A i \in {1, 2, 3, 4, 11, 12, 13, 14} : r.fee[i] = c.fee[i]
      BY <1>1, <1>2, WireFees DEF HtlcStates
    <2>2. /\ c.fee[1] = r.fee[1] /\ c.fee[2] = r.fee[2] /\ c.fee[3] = r.fee[3]
          /\ c.fee[4] = r.fee[4] /\ c.fee[11] = r.fee[11] /\ c.fee[12] = r.fee[12]
          /\ c.fee[13] = r.fee[13] /\ c.fee[14] = r.fee[14]
      BY <2>1
    <2>3. QED
      BY <1>1, <1>2, <2>2, FeerateIs DEF Sides
  <1>13. QED
    BY <1>1, <1>2, <1>9, <1>10, <1>11, <1>12 DEF r

(* Which HTLCs the database has. *)
LEMMA RowsKept ==
    ASSUME NEW c, GoodChan(c), NEW d \in DbRecs, Rows(c, d)
    PROVE  DOMAIN d.htlcs = {h \in DOMAIN c.htlcs :
                               State(c, h) \notin {SENT_ADD_HTLC, RCVD_ADD_HTLC}}
  <1>1. \A h : /\ h \in DOMAIN d.htlcs <=> Where(d, h) # NoHtlc
               /\ h \in DOMAIN c.htlcs <=> Where(c, h) # NoHtlc
    BY WhereType DEF GoodChan, ChanRecs, DbRecs
  <1>2. \A h : Where(d, h) # NoHtlc <=> Where(c, h) # NoHtlc /\ Where(c, h) \notin {0, 10}
    BY DEF Rows, Row, NoHtlc
  <1>3. \A h \in DOMAIN c.htlcs : State(c, h) = Where(c, h)
    BY DEF State, Where
  <1>4. QED
    BY <1>1, <1>2, <1>3 DEF SENT_ADD_HTLC, RCVD_ADD_HTLC

-----------------------------------------------------------------------------
(* The transaction a node has signed for its peer is the one it would sign  *)
(* again.                                                                   *)
Signed(n, x) == x.g = CommitTx(n, x.c, "remote", x.p.nextR - 1)

(* A commitment is a matter of what it carries. *)
LEMMA TxOf ==
    ASSUME NEW n \in Nodes, NEW c, c.htlcs \in HtlcMaps, NEW c2, c2.htlcs \in HtlcMaps,
           NEW v \in Sides,
           \A h : /\ Where(c, h) \in Committed(v) <=> Where(c2, h) \in Committed(v)
                  /\ Where(c, h) \in Committed(v) => c2.htlcs[h].amount = c.htlcs[h].amount,
           c2.owed[v] = c.owed[v],
           channel_feerate(c2, v) = channel_feerate(c, v), NEW num
    PROVE  CommitTx(n, c2, v, num) = CommitTx(n, c, v, num)
  <1>1. /\ \A h : h \in committed(c, v) <=> Where(c, h) \in Committed(v)
        /\ \A h : h \in committed(c2, v) <=> Where(c2, h) \in Committed(v)
    BY ViewSets
  <1>2. /\ committed(c2, v) = committed(c, v)
        /\ \A h \in committed(c, v) : Amount(c2, h) = Amount(c, h)
    BY <1>1 DEF Amount
  <1>3. {<<NodeOf(n, h[1]), h[2], Amount(c2, h)>> : h \in committed(c2, v)}
         = {<<NodeOf(n, h[1]), h[2], Amount(c, h)>> : h \in committed(c, v)}
    BY <1>2
  <1>4. QED
    BY <1>3 DEF CommitTx

(* change_htlcs() for one view leaves the other's balances. *)
LEMMA OwedStays ==
    ASSUME NEW c, GoodChan(c)
    PROVE  /\ channel_rcvd_revoke_and_ack(c).owed["remote"] = c.owed["remote"]
           /\ channel_rcvd_commit(c).owed["remote"] = c.owed["remote"]
           /\ channel_sending_commit(c).owed["local"] = c.owed["local"]
           /\ channel_sending_revoke_and_ack(c).owed["remote"] = c.owed["remote"]
           /\ channel_sending_revoke_and_ack(c).owed["local"] = c.owed["local"]
  <1>0. c \in ChanRecs /\ c.owed \in Balances /\ Sides = {"local", "remote"}
    BY DEF GoodChan, ChanRecs, Sides
  <1>1. ASSUME NEW view, NEW states, <<view, states>> \in Steps, NEW v \in Sides,
               \/ v # view
               \/ Entering(c, view, states) = {} /\ Leaving(c, view, states) = {}
        PROVE  change_htlcs(c, view, states).owed[v] = c.owed[v]
    <2> DEFINE c2 == change_htlcs(c, view, states)
    <2>1. /\ c2 \in ChanRecs
          /\ \A s \in Sides :
                    c2.owed[v][s] =
                      IF v # view THEN c.owed[v][s]
                      ELSE c.owed[v][s] + add_delta(c, Entering(c, view, states), s)
                                        + remove_delta(c, Leaving(c, view, states), s)
      <3>1. /\ c2 \in ChanRecs
            /\ \A u, s \in Sides :
                    c2.owed[u][s] =
                      IF u # view THEN c.owed[u][s]
                      ELSE c.owed[u][s] + add_delta(c, Entering(c, view, states), s)
                                        + remove_delta(c, Leaving(c, view, states), s)
        <4>1. <<view, states>> \in Steps
          BY <1>1
        <4>2. QED
          BY <1>0, <4>1, ChangeFields
      <3> HIDE DEF c2
      <3>2. QED
        BY <3>1
    <2> HIDE DEF c2
    <2>2. \A s : add_delta(c, {}, s) = 0 /\ remove_delta(c, {}, s) = 0
      <3>1. \A s : /\ {h \in {} : h[1] = s} = {}
                   /\ {h \in {} : s = IF c.htlcs[h].r = "fulfill"
                                        THEN Other(h[1]) ELSE h[1]} = {}
        OBVIOUS
      <3>2. QED
        BY <3>1, AmountsNone DEF add_delta, remove_delta
    <2>3. \A s \in Sides : c.owed[v][s] \in Int
      BY <1>0 DEF Balances
    <2>4. \A s \in Sides : c2.owed[v][s] = c.owed[v][s]
      <3>1. CASE v # view
        BY <2>1, <3>1
      <3>2. CASE v = view /\ Entering(c, view, states) = {} /\ Leaving(c, view, states) = {}
        <4>1. \A s \in Sides : c2.owed[v][s] = c.owed[v][s] + add_delta(c, {}, s) + remove_delta(c, {}, s)
          BY <2>1, <3>2
        <4>2. ASSUME NEW s \in Sides
              PROVE  c2.owed[v][s] = c.owed[v][s]
          <5> DEFINE i == c.owed[v][s]
          <5>1. i \in Int /\ c2.owed[v][s] = i + 0 + 0
            BY <2>2, <2>3, <4>1
          <5> HIDE DEF i
          <5>2. c2.owed[v][s] = i
            BY <5>1
          <5>3. QED
            BY <5>2 DEF i
        <4>3. QED
          BY <4>2
      <3>3. QED
        BY <1>1, <3>1, <3>2
    <2>5. c2.owed[v] = c.owed[v]
      <3>1. c2.owed[v] \in [Sides -> Int] /\ c.owed[v] \in [Sides -> Int]
        BY <1>0, <2>1 DEF ChanRecs, Balances
      <3>2. QED
        BY <2>4, <3>1
    <2>6. QED
      BY <2>5 DEF c2
  <1>2. /\ Entering(c, "remote", sending_revoke_states) = {}
        /\ Leaving(c, "remote", sending_revoke_states) = {}
    <2>1. sending_revoke_states = {3, 6, 11, 18}
      BY DEF sending_revoke_states, RCVD_ADD_ACK_COMMIT, RCVD_REMOVE_COMMIT,
         RCVD_ADD_COMMIT, RCVD_REMOVE_ACK_COMMIT
    <2>2. \A i \in {3, 6, 11, 18} : i \in Committed("remote") <=> i + 1 \in Committed("remote")
      BY DEF Committed
    <2>3. QED
      BY <2>1, <2>2 DEF Entering, Leaving, moving
  <1>3. QED
    BY <1>0, <1>1, <1>2 DEF Steps, channel_rcvd_revoke_and_ack, channel_rcvd_commit,
       channel_sending_commit, channel_sending_revoke_and_ack

(* What the dance does to the feerate slots. *)
LEMMA FeesMoved ==
    ASSUME NEW c, GoodChan(c)
    PROVE  /\ channel_sending_commit(c).fee = inc_fee_states(c.fee, {0, 7, 12, 15})
           /\ channel_rcvd_revoke_and_ack(c).fee = inc_fee_states(c.fee, {1, 8, 13, 16})
           /\ channel_rcvd_commit(c).fee = inc_fee_states(c.fee, {2, 5, 10, 17})
           /\ channel_sending_revoke_and_ack(c).fee = inc_fee_states(c.fee, {3, 6, 11, 18})
  <1>1. \A view, states : <<view, states>> \in Steps =>
           change_htlcs(c, view, states).fee = inc_fee_states(c.fee, states)
    BY ChangeFields DEF GoodChan
  <1>2. /\ sending_commit_states = {0, 7, 12, 15} /\ rcvd_revoke_states = {1, 8, 13, 16}
        /\ rcvd_commit_states = {2, 5, 10, 17} /\ sending_revoke_states = {3, 6, 11, 18}
    BY DEF rcvd_commit_states, RCVD_ADD_REVOCATION, RCVD_REMOVE_HTLC, RCVD_ADD_HTLC,
       RCVD_REMOVE_REVOCATION, sending_revoke_states, RCVD_ADD_ACK_COMMIT, RCVD_REMOVE_COMMIT,
       RCVD_ADD_COMMIT, RCVD_REMOVE_ACK_COMMIT, sending_commit_states, SENT_ADD_HTLC,
       SENT_REMOVE_REVOCATION, SENT_ADD_REVOCATION, SENT_REMOVE_HTLC, rcvd_revoke_states,
       SENT_ADD_COMMIT, SENT_REMOVE_ACK_COMMIT, SENT_ADD_ACK_COMMIT, SENT_REMOVE_COMMIT
  <1>3. QED
    BY <1>1, <1>2 DEF Steps, channel_rcvd_revoke_and_ack, channel_rcvd_commit,
       channel_sending_commit, channel_sending_revoke_and_ack

(* The slots of a feerate that is being added. *)
LEMMA SlotsMoved ==
    ASSUME NEW f \in Slots
    PROVE  /\ LET g == inc_fee_states(f, {2, 5, 10, 17})
              IN  /\ g[1] = f[1] /\ g[2] = 0 /\ g[3] = Young(f[2], f[3]) /\ g[4] = f[4]
                  /\ g[11] = Young(f[10], f[11]) /\ g[12] = f[12] /\ g[13] = f[13]
                  /\ g[14] = f[14] /\ g[0] = f[0] /\ g[10] = 0
           /\ LET g == inc_fee_states(f, {3, 6, 11, 18})
              IN  /\ g[1] = f[1] /\ g[2] = f[2] /\ g[3] = 0 /\ g[4] = Young(f[3], f[4])
                  /\ g[11] = 0 /\ g[12] = Young(f[11], f[12]) /\ g[13] = f[13]
                  /\ g[14] = f[14] /\ g[0] = f[0] /\ g[10] = f[10]
           /\ LET g == inc_fee_states(f, {1, 8, 13, 16})
              IN  /\ g[1] = 0 /\ g[2] = Young(f[1], f[2]) /\ g[3] = f[3] /\ g[4] = f[4]
                  /\ g[11] = f[11] /\ g[12] = f[12] /\ g[13] = 0
                  /\ g[14] = Young(f[13], f[14]) /\ g[0] = f[0] /\ g[10] = f[10]
           /\ LET g == inc_fee_states(f, {0, 7, 12, 15})
              IN  /\ g[1] = Young(f[0], f[1]) /\ g[2] = f[2] /\ g[3] = f[3] /\ g[4] = f[4]
                  /\ g[11] = f[11] /\ g[12] = 0 /\ g[13] = Young(f[12], f[13])
                  /\ g[14] = f[14] /\ g[0] = 0 /\ g[10] = f[10]
  BY DEF inc_fee_states, Slots, HtlcStates, AddingStates, Young

(* The feerate a node has signed for is not moved by what it hears. *)
LEMMA RemoteRate ==
    ASSUME NEW c, GoodChan(c)
    PROVE  /\ channel_feerate(channel_rcvd_revoke_and_ack(c), "remote") = channel_feerate(c, "remote")
           /\ channel_feerate(channel_rcvd_commit(c), "remote") = channel_feerate(c, "remote")
           /\ channel_feerate(channel_sending_revoke_and_ack(c), "remote")
                = channel_feerate(c, "remote")
  <1> DEFINE f == c.fee
  <1>1. f \in Slots /\ c.opener \in Sides /\ \A i \in 0..19 : f[i] \in Nat
    BY DEF GoodChan, ChanRecs, Slots, HtlcStates
  <1>2. c.opener = "local" \/ c.opener = "remote"
    BY <1>1 DEF Sides
  <1>3. /\ c.opener = "local" => channel_feerate(c, "remote")
                     = Young(f[1], Young(f[2], Young(f[3], f[4])))
        /\ c.opener = "remote" => channel_feerate(c, "remote") = Young(f[13], f[14])
    BY FeerateIs
  <1>4. ASSUME NEW e, GoodChan(e), e.opener = c.opener, e.fee = inc_fee_states(f, {1, 8, 13, 16})
        PROVE  channel_feerate(e, "remote") = channel_feerate(c, "remote")
    <2> DEFINE g == e.fee
    <2>1. /\ c.opener = "local" => channel_feerate(e, "remote")
                     = Young(g[1], Young(g[2], Young(g[3], g[4])))
          /\ c.opener = "remote" => channel_feerate(e, "remote") = Young(g[13], g[14])
      BY <1>4, FeerateIs
    <2>2. /\ g[1] = 0 /\ g[2] = Young(f[1], f[2]) /\ g[3] = f[3] /\ g[4] = f[4]
          /\ g[13] = 0 /\ g[14] = Young(f[13], f[14])
      BY <1>1, <1>4, SlotsMoved
    <2> HIDE DEF g, f
    <2>3. QED
      BY <1>2, <1>3, <2>1, <2>2 DEF Young
  <1>5. ASSUME NEW e, GoodChan(e), e.opener = c.opener, e.fee = inc_fee_states(f, {2, 5, 10, 17})
        PROVE  channel_feerate(e, "remote") = channel_feerate(c, "remote")
    <2> DEFINE g == e.fee
    <2>1. /\ c.opener = "local" => channel_feerate(e, "remote")
                     = Young(g[1], Young(g[2], Young(g[3], g[4])))
          /\ c.opener = "remote" => channel_feerate(e, "remote") = Young(g[13], g[14])
      BY <1>5, FeerateIs
    <2>2. /\ g[1] = f[1] /\ g[2] = 0 /\ g[3] = Young(f[2], f[3]) /\ g[4] = f[4]
          /\ g[13] = f[13] /\ g[14] = f[14]
      BY <1>1, <1>5, SlotsMoved
    <2> HIDE DEF g, f
    <2>3. QED
      BY <1>2, <1>3, <2>1, <2>2 DEF Young
  <1>6. ASSUME NEW e, GoodChan(e), e.opener = c.opener, e.fee = inc_fee_states(f, {3, 6, 11, 18})
        PROVE  channel_feerate(e, "remote") = channel_feerate(c, "remote")
    <2> DEFINE g == e.fee
    <2>1. /\ c.opener = "local" => channel_feerate(e, "remote")
                     = Young(g[1], Young(g[2], Young(g[3], g[4])))
          /\ c.opener = "remote" => channel_feerate(e, "remote") = Young(g[13], g[14])
      BY <1>6, FeerateIs
    <2>2. /\ g[1] = f[1] /\ g[2] = f[2] /\ g[3] = 0 /\ g[4] = Young(f[3], f[4])
          /\ g[13] = f[13] /\ g[14] = f[14]
      BY <1>1, <1>6, SlotsMoved
    <2> HIDE DEF g, f
    <2>3. QED
      BY <1>2, <1>3, <2>1, <2>2 DEF Young
  <1>7. /\ GoodChan(channel_rcvd_revoke_and_ack(c)) /\ GoodChan(channel_rcvd_commit(c))
        /\ GoodChan(channel_sending_revoke_and_ack(c))
    BY ChangeGood DEF channel_rcvd_revoke_and_ack, channel_rcvd_commit,
       channel_sending_revoke_and_ack, Steps
  <1>8. QED
    BY <1>4, <1>5, <1>6, <1>7, OpenerStays, FeesMoved

(* So what a node has signed stays what it would sign, whatever it hears. *)
LEMMA SignedHeard ==
    ASSUME NEW n \in Nodes, NEW c, GoodChan(c), Rest(c), NEW num
    PROVE  /\ CommitTx(n, channel_rcvd_revoke_and_ack(c), "remote", num)
                = CommitTx(n, c, "remote", num)
           /\ CommitTx(n, channel_sending_revoke_and_ack(channel_rcvd_commit(c)), "remote", num)
                = CommitTx(n, c, "remote", num)
  <1> DEFINE a == channel_rcvd_revoke_and_ack(c)
             b == channel_rcvd_commit(c)
             e == channel_sending_revoke_and_ack(b)
  <1>1. GoodChan(a) /\ GoodChan(b)
    BY ChangeGood DEF channel_rcvd_revoke_and_ack, channel_rcvd_commit, Steps
  <1>2. /\ \A h : Where(a, h) = Acked(Where(c, h)) /\ SameHtlcs(c, a)
        /\ \A h : Where(e, h) = Took(Where(c, h)) /\ SameHtlcs(c, e)
    BY WhereAcked, WhereTook
  <1>3. /\ a.owed["remote"] = c.owed["remote"] /\ b.owed["remote"] = c.owed["remote"]
        /\ channel_feerate(a, "remote") = channel_feerate(c, "remote")
        /\ channel_feerate(b, "remote") = channel_feerate(c, "remote")
    BY OwedStays, RemoteRate
  <1> HIDE DEF a, b
  <1>4. GoodChan(e)
    BY <1>1, ChangeGood DEF channel_sending_revoke_and_ack, Steps
  <1>5. /\ e.owed["remote"] = c.owed["remote"]
        /\ channel_feerate(e, "remote") = channel_feerate(c, "remote")
    BY <1>1, <1>3, OwedStays, RemoteRate
  <1> HIDE DEF e
  <1>6. /\ a.htlcs \in HtlcMaps /\ e.htlcs \in HtlcMaps /\ c.htlcs \in HtlcMaps
        /\ "remote" \in Sides
    BY <1>1, <1>4 DEF GoodChan, ChanRecs, Sides
  <1>7. \A h : Where(c, h) \in 0..20 /\ Where(c, h) \notin {3, 6, 9, 11, 18, 19}
    BY <1>6, WhereType DEF Rest
  <1>8. /\ \A h : Where(c, h) \in Committed("remote") <=> Where(a, h) \in Committed("remote")
        /\ \A h : Where(c, h) \in Committed("remote") <=> Where(e, h) \in Committed("remote")
    BY <1>2, <1>7 DEF Committed, Acked, Took, NoHtlc
  <1>9. /\ \A h : Where(a, h) \in Committed("remote") => h \in DOMAIN a.htlcs
        /\ \A h : Where(e, h) \in Committed("remote") => h \in DOMAIN e.htlcs
    BY DEF Where, Committed, NoHtlc
  <1>10. /\ \A h : Where(c, h) \in Committed("remote") => a.htlcs[h].amount = c.htlcs[h].amount
         /\ \A h : Where(c, h) \in Committed("remote") => e.htlcs[h].amount = c.htlcs[h].amount
    BY <1>2, <1>8, <1>9 DEF SameHtlcs
  <1>11. CommitTx(n, a, "remote", num) = CommitTx(n, c, "remote", num)
    BY <1>3, <1>6, <1>8, <1>10, TxOf
  <1>12. CommitTx(n, e, "remote", num) = CommitTx(n, c, "remote", num)
    BY <1>5, <1>6, <1>8, <1>10, TxOf
  <1>13. QED
    BY <1>11, <1>12 DEF a, b, e

-----------------------------------------------------------------------------
(* What each node keeps by itself. *)
Keeps(n, x) == Store(x.c, x.d) /\ Signed(n, x)

(* Same view, balances and feerate: the same to sign. *)
LEMMA SignedSame ==
    ASSUME NEW n \in Nodes, NEW x, NEW y, Signed(n, x), GoodChan(x.c), GoodChan(y.c),
           y.g = x.g, y.p.nextR = x.p.nextR, SameViews(x.c, y.c), y.c.owed = x.c.owed,
           channel_feerate(y.c, "remote") = channel_feerate(x.c, "remote")
    PROVE  Signed(n, y)
  <1> DEFINE c == x.c
             e == y.c
             k == x.p.nextR - 1
  <1>1. /\ c.htlcs \in HtlcMaps /\ e.htlcs \in HtlcMaps /\ "remote" \in Sides
        /\ SameView(c, e, "remote") /\ e.owed["remote"] = c.owed["remote"]
        /\ channel_feerate(e, "remote") = channel_feerate(c, "remote")
    BY DEF GoodChan, ChanRecs, Sides, SameViews
  <1> HIDE DEF c, e, k
  <1>2. CommitTx(n, e, "remote", k) = CommitTx(n, c, "remote", k)
    BY <1>1, SameTx
  <1>3. QED
    BY <1>2 DEF Signed, c, e, k

(* Channels with the same fees. *)
LEMMA SameRate ==
    ASSUME NEW c, NEW c2, c2.fee = c.fee, c2.opener = c.opener, NEW v
    PROVE  channel_feerate(c2, v) = channel_feerate(c, v)
  BY DEF channel_feerate

(* Every step of a node but a received HTLC whose id is taken. *)
LEMMA KeepsStep ==
    ASSUME NEW n \in Nodes, NEW x, NodeType(n, x), NEW y, NEW out, NodeStep(n, x, y, out),
           Keeps(n, x),
           GotAdd(n, x, y, out) => <<"remote", Head(x.q).id>> \notin DOMAIN x.c.htlcs
    PROVE  Keeps(n, y)
  <1>1. /\ GoodChan(x.c) /\ x.c.opener = OpenerSide(n) /\ x.p \in PeerRecs /\ x.d \in DbRecs
        /\ Store(x.c, x.d) /\ Signed(n, x) /\ x.q \in Seq(Msgs)
        /\ GoodChan(y.c) /\ y.c.opener = OpenerSide(n) /\ y.p \in PeerRecs /\ y.d \in DbRecs
    <2>1. NodeType(n, y)
      BY NodeStepType
    <2>2. QED
      BY <2>1 DEF NodeType, Keeps
  <1>2. x.q # << >> => Head(x.q) \in Msgs
    BY <1>1, Popped
  <1>3. CASE Quiet(n, x, y, out)
    <2>1. Store(y.c, y.d)
      BY <1>1, <1>3 DEF Quiet, DbKeeps, Store, Rows, RowHolds, Where
    <2>2. Signed(n, y)
      BY <1>1, <1>3 DEF Quiet, PeerKeeps, Signed
    <2>3. QED
      BY <2>1, <2>2 DEF Keeps
  <1>4. CASE Offers(n, x, y, out)
    <2>1. PICK a \in Nat : y.c = new_htlc(x.c, "local", x.p.htlcId, a)
      BY <1>4 DEF Offers
    <2> DEFINE c == x.c
               e == y.c
               k == x.p.htlcId
               d == x.d
    <2>2. /\ e = new_htlc(c, "local", k, a) /\ k \in Nat /\ <<"local", k>> \notin DOMAIN c.htlcs
          /\ GoodChan(c) /\ d \in DbRecs /\ Store(c, d) /\ "local" \in Sides
      BY <1>1, <1>4, <2>1 DEF Offers, PeerRecs, Sides
    <2> HIDE DEF c, e, k, d
    <2>3. /\ Store(e, d) /\ SameViews(c, e) /\ e.owed = c.owed /\ e.fee = c.fee
          /\ e.opener = c.opener
      BY <2>2, StoreNew
    <2>4. channel_feerate(e, "remote") = channel_feerate(c, "remote")
      BY <2>3, SameRate
    <2>5. Signed(n, y)
      BY <1>1, <1>4, <2>3, <2>4, SignedSame DEF Offers, c, e
    <2>6. QED
      BY <1>4, <2>3, <2>5 DEF Offers, Keeps, c, e, d
  <1>5. CASE SavesResolution(n, x, y, out)
    <2>1. Store(y.c, y.d)
      BY <1>1, <1>5, StoreSaves
    <2>2. QED
      BY <1>1, <1>5, <2>1 DEF Keeps, Signed, SavesResolution
  <1>6. CASE Resolves(n, x, y, out)
    <2>1. PICK h \in DOMAIN x.d.htlcs :
            /\ x.d.htlcs[h].state = 15 /\ h \in DOMAIN x.c.htlcs
            /\ State(x.c, h) < 15 /\ y.c = remove_htlc(x.c, h, x.d.htlcs[h].r)
      BY <1>6 DEF Resolves, SENT_REMOVE_HTLC
    <2>2. /\ Store(y.c, x.d) /\ SameViews(x.c, y.c)
          /\ y.c.owed = x.c.owed /\ y.c.fee = x.c.fee /\ y.c.opener = x.c.opener
      BY <1>1, <2>1, StoreResolves
    <2>3. channel_feerate(y.c, "remote") = channel_feerate(x.c, "remote")
      BY <2>2, SameRate
    <2>4. y.p.nextR = x.p.nextR /\ y.g = x.g /\ y.d = x.d
      BY <1>6 DEF Resolves, PeerKeeps
    <2>5. QED
      BY <1>1, <2>2, <2>3, <2>4, SignedSame DEF Keeps
  <1>7. CASE GotAdd(n, x, y, out)
    <2> DEFINE c == x.c
               e == y.c
               m == Head(x.q)
               d == x.d
    <2>1. /\ e = new_htlc(c, "remote", m.id, m.amount) /\ m.id \in Nat /\ m.amount \in Nat
          /\ <<"remote", m.id>> \notin DOMAIN c.htlcs
          /\ GoodChan(c) /\ d \in DbRecs /\ Store(c, d) /\ "remote" \in Sides
      BY <1>1, <1>2, <1>7, MsgFields DEF GotAdd, Reads, Sides
    <2> HIDE DEF c, e, m, d
    <2>3. /\ Store(e, d) /\ SameViews(c, e) /\ e.owed = c.owed /\ e.fee = c.fee
          /\ e.opener = c.opener
      BY <2>1, StoreNew
    <2>4. channel_feerate(e, "remote") = channel_feerate(c, "remote")
      BY <2>3, SameRate
    <2>5. Signed(n, y)
      BY <1>1, <1>7, <2>3, <2>4, SignedSame DEF GotAdd, c, e
    <2>6. QED
      BY <1>7, <2>3, <2>5 DEF GotAdd, Keeps, c, e, d
  <1>8. CASE GotRemove(n, x, y, out)
    <2> DEFINE k == Head(x.q).id
               h == <<"local", k>>
               r == Head(x.q).type
    <2>0. r \in {"fulfill", "fail"} /\ y.p.nextR = x.p.nextR /\ y.g = x.g /\ y.d = x.d
      BY <1>8 DEF GotRemove, PeerKeeps, Reads
    <2>1. CASE remove_htlc_ok(x.c, h)
      <3>1. y.c = remove_htlc(x.c, h, r)
        BY <1>8, <2>1 DEF GotRemove
      <3> DEFINE c == x.c
                 d == x.d
                 e == y.c
      <3>2. GoodChan(c) /\ d \in DbRecs /\ Store(c, d) /\ e = remove_htlc(c, h, r)
            /\ remove_htlc_ok(c, h)
        BY <1>1, <2>1, <3>1
      <3> HIDE DEF c, d, e, r, k
      <3>3. h \in DOMAIN c.htlcs /\ Where(c, h) = 4 /\ Store(e, d)
        BY <2>0, <3>2, StoreGotRemove
      <3> HIDE DEF h
      <3>4. /\ SameViews(c, e) /\ e.owed = c.owed /\ e.fee = c.fee /\ e.opener = c.opener
        BY <2>0, <3>2, <3>3, SettleViews
      <3>5. channel_feerate(e, "remote") = channel_feerate(c, "remote")
        BY <3>4, SameRate
      <3>6. Signed(n, y)
        BY <1>1, <2>0, <3>4, <3>5, SignedSame DEF c, e
      <3>7. QED
        BY <2>0, <3>3, <3>6 DEF Keeps, d, e
    <2>2. CASE ~remove_htlc_ok(x.c, h)
      <3>1. y.c = x.c
        BY <1>8, <2>2 DEF GotRemove
      <3>2. QED
        BY <1>1, <2>0, <3>1 DEF Keeps, Signed
    <2>3. QED
      BY <2>1, <2>2
  <1>9. CASE GotFee(n, x, y, out)
    <2> DEFINE rate == Head(x.q).rate
    <2>1. rate \in Nat /\ y.c = channel_update_feerate(x.c, rate)
          /\ y.p = x.p /\ y.g = x.g /\ y.d = x.d
      BY <1>2, <1>9, MsgFields DEF GotFee, Reads
    <2> HIDE DEF rate
    <2>2. /\ Store(y.c, x.d) /\ SameViews(x.c, y.c) /\ y.c.owed = x.c.owed
          /\ channel_feerate(y.c, "remote") = channel_feerate(x.c, "remote")
      BY <1>1, <2>1, StoreFee DEF Sides
    <2>3. QED
      BY <1>1, <2>1, <2>2, SignedSame DEF Keeps
  <1>10. CASE SendsCommit(n, x, y, out)
    <2>1. PICK c1 : Commits(n, x, y, out, c1)
      BY <1>10, SentCommit
    <2>2. /\ GoodChan(c1) /\ FeeUpdated(x.c, c1) /\ y.c = channel_sending_commit(c1)
          /\ Saved(x.d, y.d, c1, y.c, moving(c1, sending_commit_states))
      BY <2>1 DEF Commits
    <2>3. Store(c1, x.d)
      BY <1>1, <2>2, StoreFeeUpdated
    <2>4. Store(y.c, y.d)
      <3> DEFINE d == x.d
                 e == y.d
      <3>1. /\ d \in DbRecs /\ Rest(c1) /\ Resolved(c1) /\ Balanced(c1, d.our) /\ Rows(c1, d)
            /\ Saved(d, e, c1, channel_sending_commit(c1), moving(c1, sending_commit_states))
        BY <1>1, <2>2, <2>3 DEF Store
      <3> HIDE DEF d, e
      <3>2. Store(channel_sending_commit(c1), e)
        BY <2>2, <3>1, StoreSent
      <3>3. QED
        BY <2>2, <3>2 DEF e
    <2>5. Signed(n, y)
      <3>1. y.p.nextR - 1 = x.p.nextR /\ y.g = CommitTx(n, y.c, "remote", x.p.nextR)
        BY <1>1, <1>10 DEF SendsCommit, PeerRecs
      <3>2. QED
        BY <3>1 DEF Signed
    <2>6. QED
      BY <2>4, <2>5 DEF Keeps
  <1>11. CASE GotCommit(n, x, y, out)
    <2>1. /\ y.c = channel_sending_revoke_and_ack(channel_rcvd_commit(x.c))
          /\ Saved(x.d, y.d, x.c, y.c, moving(x.c, rcvd_commit_states))
      BY <1>11, TookCommit
    <2>2. Store(y.c, y.d)
      <3> DEFINE b == x.c
                 d == x.d
                 c == y.c
                 e == y.d
      <3>1. /\ GoodChan(b) /\ d \in DbRecs /\ Store(b, d) /\ GoodChan(c)
            /\ c = channel_sending_revoke_and_ack(channel_rcvd_commit(b))
            /\ Saved(d, e, b, c, moving(b, rcvd_commit_states))
        BY <1>1, <2>1
      <3> HIDE DEF b, c, d, e
      <3>2. Store(c, e)
        BY <3>1, StoreTook
      <3>3. QED
        BY <3>2 DEF c, e
    <2>3. Signed(n, y)
      <3>1. y.p.nextR = x.p.nextR /\ y.g = x.g
        BY <1>11 DEF GotCommit
      <3>2. CommitTx(n, y.c, "remote", x.p.nextR - 1) = CommitTx(n, x.c, "remote", x.p.nextR - 1)
        BY <1>1, <2>1, SignedHeard DEF Store
      <3>3. QED
        BY <1>1, <3>1, <3>2 DEF Signed
    <2>4. QED
      BY <2>2, <2>3 DEF Keeps
  <1>12. CASE GotRevoke(n, x, y, out)
    <2>1. /\ y.c = channel_rcvd_revoke_and_ack(x.c)
          /\ Saved(x.d, y.d, x.c, y.c, moving(x.c, rcvd_revoke_states))
      BY <1>12, TookRevoke
    <2>2. Store(y.c, y.d)
      <3> DEFINE b == x.c
                 d == x.d
                 c == y.c
                 e == y.d
      <3>1. /\ GoodChan(b) /\ d \in DbRecs /\ Store(b, d)
            /\ c = channel_rcvd_revoke_and_ack(b)
            /\ Saved(d, e, b, channel_rcvd_revoke_and_ack(b), moving(b, rcvd_revoke_states))
        BY <1>1, <2>1
      <3> HIDE DEF b, c, d, e
      <3>2. Store(c, e)
        BY <3>1, StoreAcked
      <3>3. QED
        BY <3>2 DEF c, e
    <2>3. Signed(n, y)
      <3>1. y.p.nextR = x.p.nextR /\ y.g = x.g
        BY <1>12 DEF GotRevoke
      <3>2. CommitTx(n, y.c, "remote", x.p.nextR - 1) = CommitTx(n, x.c, "remote", x.p.nextR - 1)
        BY <1>1, <2>1, SignedHeard DEF Store
      <3>3. QED
        BY <1>1, <3>1, <3>2 DEF Signed
    <2>4. QED
      BY <2>2, <2>3 DEF Keeps
  <1>13. CASE Answers(n, x, y, out)
    <2>1. y.c = x.c /\ y.d = x.d /\ y.g = x.g /\ y.p.nextR = x.p.nextR
      BY <1>13 DEF Answers, PeerKeeps
    <2>2. QED
      BY <1>1, <2>1 DEF Keeps, Signed
  <1>14. QED
    BY <1>3, <1>4, <1>5, <1>6, <1>7, <1>8, <1>9, <1>10, <1>11, <1>12, <1>13 DEF NodeStep

(* A new channeld. *)
LEMMA KeepsBreak ==
    ASSUME NEW n \in Nodes, NEW x, NodeType(n, x), Keeps(n, x), Nums(x), NEW y, Breaks(n, x, y)
    PROVE  Keeps(n, y)
  <1> DEFINE d == x.d
             c == x.c
             r == RestoredChannel(n, d)
  <1>1. /\ GoodChan(c) /\ c.opener = OpenerSide(n) /\ d \in DbRecs
        /\ d.fee[last_fee_state(OpenerSide(n))] # 0 /\ Store(c, d)
    BY DEF NodeType, Keeps
  <1>2. /\ y.c = r /\ y.p = RestoredPeer(n, d, "down") /\ y.d = d /\ y.g = x.g
    BY DEF Breaks
  <1> HIDE DEF c, d
  <1>3. RestoredPeer(n, d, "down").nextR = d.nextR
    BY <1>1, RestoredType
  <1>4. /\ GoodChan(r) /\ Store(r, d) /\ SameViews(c, r) /\ r.owed = c.owed
        /\ channel_feerate(r, "remote") = channel_feerate(c, "remote")
    BY <1>1, StoreRestored DEF Sides
  <1> HIDE DEF r
  <1>5. y.p.nextR = x.p.nextR
    BY <1>2, <1>3 DEF Nums, d
  <1>6. Signed(n, y)
    BY <1>1, <1>2, <1>4, <1>5, SignedSame DEF c, Keeps
  <1>7. QED
    BY <1>2, <1>4, <1>6 DEF Keeps

-----------------------------------------------------------------------------
(* Where each step leaves the HTLCs. *)

(* The HTLCs are where they were. *)
Still(c, c2) == (\A h : Where(c2, h) = Where(c, h)) /\ SameHtlcs(c, c2)

(* The HTLC h is in state i now, the others are where they were. *)
Put(c, c2, h, i) ==
    /\ \A g : Where(c2, g) = IF g = h THEN i ELSE Where(c, g)
    /\ \A g \in DOMAIN c.htlcs : /\ c2.htlcs[g].amount = c.htlcs[g].amount
                                 /\ g # h => c2.htlcs[g].r = c.htlcs[g].r

SameIds(x, y) ==
    /\ y.p.htlcId = x.p.htlcId /\ y.d.htlcId = x.d.htlcId
    /\ y.d.lastSent = x.d.lastSent /\ y.d.wasRevoke = x.d.wasRevoke

(* A step that no HTLC is about. *)
Idles(x, y, out) ==
    /\ Still(x.c, y.c) /\ SameNums(x.p, y.p) /\ SameIds(x, y) /\ y.g = x.g
    /\ Onward(x, y)
    /\ y.q = x.q \/ (Pops(x, y) /\ Head(x.q).type \in {"shutdown", "fee"})
    /\ out = << >> \/ (x.p.phase = "run" /\ out = <<ShutdownMsg>>)

(* Shutdowns, feerates and what lightningd saves on its own. *)
LEMMA IdleSteps ==
    ASSUME NEW n, NEW x, NodeType(n, x), NEW y, NEW out,
           Quiet(n, x, y, out) \/ SavesResolution(n, x, y, out) \/ GotFee(n, x, y, out)
    PROVE  Idles(x, y, out)
  <1>1. x.p \in PeerRecs /\ x.d \in DbRecs
    BY DEF NodeType
  <1>2. \A c : Still(c, c)
    BY DEF Still, SameHtlcs
  <1>3. CASE Quiet(n, x, y, out)
    <2>1. Onward(x, y)
      BY <1>3 DEF Quiet, Onward, Goes
    <2>2. SameNums(x.p, y.p) /\ SameIds(x, y)
      BY <1>3 DEF Quiet, SameNums, SameIds, PeerKeeps, DbKeeps
    <2>3. /\ y.q = x.q \/ (Pops(x, y) /\ Head(x.q).type \in {"shutdown", "fee"})
          /\ out = << >> \/ (x.p.phase = "run" /\ out = <<ShutdownMsg>>)
      BY <1>3 DEF Quiet, Pops, ShutdownMsgs
    <2>4. QED
      BY <1>2, <1>3, <2>1, <2>2, <2>3 DEF Quiet, Idles
  <1>4. CASE SavesResolution(n, x, y, out)
    <2>1. SameIds(x, y)
      <3>1. /\ y.d.htlcId = x.d.htlcId
            /\ y.d.lastSent = x.d.lastSent /\ y.d.wasRevoke = x.d.wasRevoke
        BY <1>4, ResolutionSaved
      <3>2. QED
        BY <1>4, <3>1 DEF SavesResolution, SameIds
    <2>2. QED
      BY <1>1, <1>2, <1>4, <2>1 DEF SavesResolution, Idles, SameNums, Onward
  <1>5. CASE GotFee(n, x, y, out)
    <2>1. y.c.htlcs = x.c.htlcs
      <3>1. GoodChan(x.c) /\ y.c = channel_update_feerate(x.c, Head(x.q).rate)
        BY <1>5 DEF GotFee, NodeType
      <3>2. QED
        BY <3>1 DEF channel_update_feerate, GoodChan, ChanRecs
    <2>2. Still(x.c, y.c)
      BY <2>1 DEF Still, SameHtlcs, Where
    <2>3. SameNums(x.p, y.p) /\ SameIds(x, y) /\ Onward(x, y)
      BY <1>1, <1>5 DEF GotFee, SameNums, SameIds, Onward
    <2>4. QED
      BY <1>5, <2>2, <2>3 DEF GotFee, Reads, Idles, Pops
  <1>6. QED
    BY <1>3, <1>4, <1>5

(* An HTLC offered. *)
LEMMA OfferPuts ==
    ASSUME NEW n, NEW x, NodeType(n, x), NEW y, NEW out, Offers(n, x, y, out), Store(x.c, x.d)
    PROVE  LET h == <<"local", x.p.htlcId>>
           IN  /\ Where(x.c, h) = NoHtlc /\ Put(x.c, y.c, h, 0)
               /\ h \in DOMAIN y.c.htlcs /\ y.c.htlcs[h].amount \in Nat
               /\ AddMsg(y.c, h) \in Msgs /\ out = <<AddMsg(y.c, h)>>
  <1>1. PICK a \in Nat : /\ y.c = new_htlc(x.c, "local", x.p.htlcId, a)
                         /\ out = <<[type |-> "add", id |-> x.p.htlcId, amount |-> a]>>
    BY DEF Offers
  <1> DEFINE c == x.c
             e == y.c
             k == x.p.htlcId
             d == x.d
             h == <<"local", k>>
  <1>2. /\ e = new_htlc(c, "local", k, a) /\ k \in Nat /\ h \notin DOMAIN c.htlcs
        /\ GoodChan(c) /\ d \in DbRecs /\ Store(c, d) /\ "local" \in Sides
        /\ out = <<[type |-> "add", id |-> k, amount |-> a]>>
    BY <1>1 DEF Offers, PeerRecs, Sides, NodeType
  <1> HIDE DEF c, e, k, d
  <1>3. /\ \A g : Where(e, g) = IF g = h THEN 0 ELSE Where(c, g)
        /\ \A g \in DOMAIN c.htlcs : e.htlcs[g] = c.htlcs[g]
        /\ e.htlcs[h].amount = a
    BY <1>2, StoreNew
  <1>4. h \in DOMAIN e.htlcs
    BY <1>3 DEF Where, NoHtlc
  <1>5. Where(c, h) = NoHtlc
    BY <1>2 DEF Where
  <1>6. Put(c, e, h, 0)
    BY <1>3 DEF Put
  <1>7. AddMsg(e, h) = [type |-> "add", id |-> k, amount |-> a]
    BY <1>3 DEF AddMsg, Amount
  <1>8. AddMsg(e, h) \in Msgs
    BY <1>2, <1>7, MsgAdd
  <1>9. /\ Where(c, h) = NoHtlc /\ Put(c, e, h, 0)
        /\ h \in DOMAIN e.htlcs /\ e.htlcs[h].amount \in Nat
        /\ AddMsg(e, h) \in Msgs /\ out = <<AddMsg(e, h)>>
    BY <1>2, <1>3, <1>4, <1>5, <1>6, <1>7, <1>8
  <1>10. QED
    BY <1>9 DEF c, e, k

(* An HTLC read. *)
LEMMA AddPuts ==
    ASSUME NEW n, NEW x, NodeType(n, x), NEW y, NEW out, GotAdd(n, x, y, out), Store(x.c, x.d),
           <<"remote", Head(x.q).id>> \notin DOMAIN x.c.htlcs
    PROVE  LET m == Head(x.q)
               h == <<"remote", m.id>>
           IN  /\ Where(x.c, h) = NoHtlc /\ Put(x.c, y.c, h, 10)
               /\ y.c.htlcs[h].amount = m.amount /\ m.id \in Nat
  <1>1. Head(x.q) \in Msgs /\ Head(x.q).type = "add"
    <2>1. x.q \in Seq(Msgs) /\ x.q # << >>
      BY DEF NodeType, GotAdd, Reads
    <2>2. QED
      BY <2>1, Popped DEF GotAdd, Reads
  <1> DEFINE c == x.c
             e == y.c
             m == Head(x.q)
             d == x.d
             h == <<"remote", m.id>>
  <1>2. /\ e = new_htlc(c, "remote", m.id, m.amount) /\ m.id \in Nat /\ m.amount \in Nat
        /\ h \notin DOMAIN c.htlcs
        /\ GoodChan(c) /\ d \in DbRecs /\ Store(c, d) /\ "remote" \in Sides
    BY <1>1, MsgFields DEF GotAdd, Reads, Sides, NodeType
  <1> HIDE DEF c, e, m, d
  <1>3. /\ \A g : Where(e, g) = IF g = h THEN 10 ELSE Where(c, g)
        /\ \A g \in DOMAIN c.htlcs : e.htlcs[g] = c.htlcs[g]
        /\ e.htlcs[h].amount = m.amount
    BY <1>2, StoreNew
  <1>4. Where(c, h) = NoHtlc
    BY <1>2 DEF Where
  <1>5. Put(c, e, h, 10)
    BY <1>3 DEF Put
  <1>6. QED
    BY <1>2, <1>3, <1>4, <1>5 DEF c, e, m

(* A resolution sent. *)
LEMMA ResolvePuts ==
    ASSUME NEW n, NEW x, NodeType(n, x), NEW y, NEW out, Resolves(n, x, y, out), Store(x.c, x.d)
    PROVE  \E k \in Nat :
             LET h == <<"remote", k>>
             IN  /\ Where(x.c, h) = 14 /\ Put(x.c, y.c, h, 15)
                 /\ y.c.htlcs[h].r \in {"fulfill", "fail"}
                 /\ RemoveMsg(y.c, h) \in Msgs /\ out = <<RemoveMsg(y.c, h)>>
  <1>1. PICK h \in DOMAIN x.d.htlcs :
            /\ x.d.htlcs[h].state = 15 /\ h \in DOMAIN x.c.htlcs
            /\ State(x.c, h) < 15 /\ y.c = remove_htlc(x.c, h, x.d.htlcs[h].r)
            /\ out = <<[type |-> x.d.htlcs[h].r, id |-> h[2]]>>
    BY DEF Resolves, SENT_REMOVE_HTLC
  <1>2. GoodChan(x.c) /\ x.d \in DbRecs
    BY DEF NodeType
  <1> DEFINE r == x.d.htlcs[h].r
  <1>3. /\ Where(x.c, h) = 14 /\ r \in {"fulfill", "fail"}
        /\ \A g : Where(y.c, g) = IF g = h THEN 15 ELSE Where(x.c, g)
        /\ \A g \in DOMAIN x.c.htlcs : y.c.htlcs[g].amount = x.c.htlcs[g].amount
        /\ \A g \in DOMAIN x.c.htlcs : g # h => y.c.htlcs[g] = x.c.htlcs[g]
        /\ y.c.htlcs[h].r = r
    BY <1>1, <1>2, StoreResolves
  <1>4. out = <<[type |-> r, id |-> h[2]]>>
    BY <1>1
  <1> HIDE DEF r
  <1>5. h \in HtlcKeys /\ h[1] = "remote"
    <2>1. x.c.htlcs \in HtlcMaps
      BY <1>2 DEF GoodChan, ChanRecs
    <2>2. h \in HtlcKeys /\ h[1] = htlc_state_owner(14)
      BY <1>1, <1>3, <2>1, WhereType
    <2>3. QED
      BY <2>2 DEF htlc_state_owner, RCVD_ADD_HTLC
  <1>6. PICK k \in Nat : h = <<"remote", k>>
    BY <1>5 DEF HtlcKeys
  <1>7. Put(x.c, y.c, h, 15)
    BY <1>3 DEF Put
  <1>8. RemoveMsg(y.c, h) = [type |-> r, id |-> h[2]]
    BY <1>3 DEF RemoveMsg
  <1>9. RemoveMsg(y.c, h) \in Msgs
    <2>1. h[2] \in Nat
      BY <1>6
    <2>2. QED
      BY <1>3, <1>8, <2>1, MsgRemove
  <1>10. QED
    BY <1>3, <1>4, <1>6, <1>7, <1>8, <1>9

(* A resolution read. *)
LEMMA RemovePuts ==
    ASSUME NEW n, NEW x, NodeType(n, x), NEW y, NEW out, GotRemove(n, x, y, out),
           Store(x.c, x.d)
    PROVE  LET m == Head(x.q)
               h == <<"local", m.id>>
           IN  /\ m \in Msgs /\ m.type \in {"fulfill", "fail"} /\ m.id \in Nat
               /\ \/ y.c = x.c /\ ~(Where(x.c, h) = 4)
                  \/ /\ Where(x.c, h) = 4 /\ Put(x.c, y.c, h, 5)
                     /\ y.c.htlcs[h].r = m.type
  <1>1. x.q \in Seq(Msgs) /\ x.q # << >> /\ Head(x.q).type \in {"fulfill", "fail"}
    BY DEF NodeType, GotRemove, Reads
  <1>2. Head(x.q) \in Msgs
    BY <1>1, Popped
  <1> DEFINE c == x.c
             e == y.c
             m == Head(x.q)
             d == x.d
             h == <<"local", m.id>>
  <1>3. m \in Msgs /\ m.type \in {"fulfill", "fail"} /\ m.id \in Nat
    BY <1>1, <1>2, MsgFields
  <1>4. /\ GoodChan(c) /\ d \in DbRecs /\ Store(c, d)
        /\ IF remove_htlc_ok(c, h) THEN e = remove_htlc(c, h, m.type) ELSE e = c
    BY DEF NodeType, GotRemove
  <1> HIDE DEF c, e, m, d
  <1>5. CASE remove_htlc_ok(c, h)
    <2>1. h \in DOMAIN c.htlcs /\ Where(c, h) = 4
      BY <1>3, <1>4, <1>5, StoreGotRemove
    <2>2. e = remove_htlc(c, h, m.type)
      BY <1>4, <1>5
    <2> HIDE DEF h
    <2>3. /\ \A g : Where(e, g) = IF g = h THEN Where(c, h) + 1 ELSE Where(c, g)
          /\ e.htlcs[h].amount = c.htlcs[h].amount /\ e.htlcs[h].r = m.type
          /\ \A g \in DOMAIN c.htlcs : g # h => e.htlcs[g] = c.htlcs[g]
      BY <1>3, <1>4, <2>1, <2>2, SettleViews
    <2>4. Put(c, e, h, 5)
      BY <2>1, <2>3 DEF Put
    <2>5. QED
      BY <1>3, <2>1, <2>3, <2>4 DEF c, e, m, h
  <1>6. CASE ~remove_htlc_ok(c, h)
    <2>1. e = c
      BY <1>4, <1>6
    <2>2. ASSUME Where(c, h) = 4
          PROVE  FALSE
      <3>1. h \in DOMAIN c.htlcs /\ c.htlcs[h].state = 4
        BY <2>2 DEF Where, NoHtlc
      <3>2. c.htlcs[h].r = "none"
        BY <1>4, <2>2, <3>1 DEF Store, Resolved
      <3>3. QED
        BY <1>6, <3>1, <3>2 DEF remove_htlc_ok, State, SENT_ADD_ACK_REVOCATION
    <2>3. QED
      BY <1>3, <2>1, <2>2 DEF c, e, m
  <1>7. QED
    BY <1>5, <1>6

(* What a commitment would carry, and the additions in it. *)
Unsent(c) == {h \in DOMAIN c.htlcs : Where(c, h) \in {0, 7, 12, 15}}
Unoffered(c) == {h \in DOMAIN c.htlcs : Where(c, h) = 0}

(* A commitment sent. *)
LEMMA CommitMoves ==
    ASSUME NEW n \in Nodes, NEW x, NodeType(n, x), NEW y, NEW out, SendsCommit(n, x, y, out)
    PROVE  /\ \A h : Where(y.c, h) = Sent(Where(x.c, h))
           /\ SameHtlcs(x.c, y.c)
           /\ y.d.lastSent = Unsent(x.c) /\ ~y.d.wasRevoke
           /\ y.d.htlcId = x.d.htlcId + Cardinality(Unoffered(x.c))
  <1>1. PICK c1 : Commits(n, x, y, out, c1)
    BY SentCommit
  <1>2. /\ GoodChan(c1) /\ c1.htlcs = x.c.htlcs /\ y.c = channel_sending_commit(c1)
        /\ ~y.d.wasRevoke /\ y.d.lastSent = moving(c1, sending_commit_states)
        /\ y.d.htlcId = x.d.htlcId + Cardinality(Added(y.c, moving(c1, sending_commit_states)))
    BY <1>1 DEF Commits
  <1>3. /\ \A h : Where(y.c, h) = Sent(Where(c1, h))
        /\ SameHtlcs(c1, y.c)
        /\ moving(c1, sending_commit_states)
             = {h \in DOMAIN c1.htlcs : Where(c1, h) \in {0, 7, 12, 15}}
    BY <1>2, WhereSent
  <1>4. \A h : Where(c1, h) = Where(x.c, h)
    BY <1>2 DEF Where
  <1>5. SameHtlcs(x.c, y.c)
    BY <1>2, <1>3 DEF SameHtlcs
  <1>6. Added(y.c, moving(c1, sending_commit_states)) = Unoffered(x.c)
    <2>1. \A h \in DOMAIN x.c.htlcs :
            Where(x.c, h) \in {0, 7, 12, 15} => (State(y.c, h) = 1 <=> Where(x.c, h) = 0)
      <3> SUFFICES ASSUME NEW h \in DOMAIN x.c.htlcs, Where(x.c, h) \in {0, 7, 12, 15}
                   PROVE  State(y.c, h) = 1 <=> Where(x.c, h) = 0
        OBVIOUS
      <3>1. Where(y.c, h) = Where(x.c, h) + 1
        BY <1>3, <1>4 DEF Sent
      <3>2. State(y.c, h) = Where(y.c, h)
        BY <3>1 DEF Where, State, NoHtlc
      <3>3. QED
        BY <3>1, <3>2
    <2>2. QED
      BY <1>2, <1>3, <1>4, <2>1 DEF Added, Unoffered
  <1>7. y.d.lastSent = Unsent(x.c)
    BY <1>2, <1>3, <1>4 DEF Unsent
  <1>8. QED
    BY <1>2, <1>3, <1>4, <1>5, <1>6, <1>7

(* A commitment read and the one before revoked. *)
LEMMA TookMoves ==
    ASSUME NEW n \in Nodes, NEW x, NodeType(n, x), NEW y, NEW out, GotCommit(n, x, y, out),
           Store(x.c, x.d)
    PROVE  /\ \A h : Where(y.c, h) = Took(Where(x.c, h))
           /\ SameHtlcs(x.c, y.c)
           /\ y.d.htlcId = x.d.htlcId /\ y.d.lastSent = x.d.lastSent /\ y.d.wasRevoke
  <1>1. /\ y.c = channel_sending_revoke_and_ack(channel_rcvd_commit(x.c))
        /\ y.d.wasRevoke /\ y.d.lastSent = x.d.lastSent /\ y.d.htlcId = x.d.htlcId
    BY TookCommit
  <1>2. GoodChan(x.c) /\ Rest(x.c)
    BY DEF NodeType, Store
  <1>3. QED
    BY <1>1, <1>2, WhereTook

(* A revocation read. *)
LEMMA AckMoves ==
    ASSUME NEW n \in Nodes, NEW x, NodeType(n, x), NEW y, NEW out, GotRevoke(n, x, y, out)
    PROVE  /\ \A h : Where(y.c, h) = Acked(Where(x.c, h))
           /\ SameHtlcs(x.c, y.c)
           /\ y.d.htlcId = x.d.htlcId /\ y.d.lastSent = x.d.lastSent
           /\ y.d.wasRevoke = x.d.wasRevoke
  <1>1. /\ y.c = channel_rcvd_revoke_and_ack(x.c)
        /\ y.d.wasRevoke = x.d.wasRevoke /\ y.d.lastSent = x.d.lastSent
        /\ y.d.htlcId = x.d.htlcId
    BY TookRevoke
  <1>2. GoodChan(x.c)
    BY DEF NodeType
  <1>3. QED
    BY <1>1, <1>2, WhereAcked

(* What a new channeld finds of the HTLC that was in state s. *)
Kept(s, t) ==
    \/ s \in {0, 10, NoHtlc} /\ t = NoHtlc
    \/ s \notin {0, 5, 10} /\ t = s
    \/ s = 5 /\ t = 4
    \/ s = 14 /\ t = 15

(* A new channeld. *)
LEMMA BreakMoves ==
    ASSUME NEW n \in Nodes, NEW x, NodeType(n, x), NEW y, Breaks(n, x, y), Store(x.c, x.d),
           Nums(x)
    PROVE  /\ \A h : Kept(Where(x.c, h), Where(y.c, h))
           /\ \A h \in DOMAIN y.c.htlcs :
                /\ h \in DOMAIN x.c.htlcs
                /\ y.c.htlcs[h].amount = x.c.htlcs[h].amount
                /\ Where(y.c, h) = Where(x.c, h) => y.c.htlcs[h].r = x.c.htlcs[h].r
                /\ Where(x.c, h) = 14 /\ Where(y.c, h) = 15 =>
                     y.c.htlcs[h].r \in {"fulfill", "fail"}
           /\ SameNums(x.p, y.p) /\ y.p.phase = "down"
           /\ y.p.htlcId = x.d.htlcId /\ y.d = x.d /\ y.q = << >> /\ y.g = x.g
  <1> DEFINE d == x.d
             c == x.c
             e == y.c
             p == y.p
  <1>1. /\ GoodChan(c) /\ d \in DbRecs /\ d.fee[last_fee_state(OpenerSide(n))] # 0
        /\ Rows(c, d)
    BY DEF NodeType, Store
  <1>2. /\ e = RestoredChannel(n, d) /\ p = RestoredPeer(n, d, "down") /\ y.d = d
        /\ y.q = << >> /\ y.g = x.g
    BY DEF Breaks
  <1>20. x.p.nextL = d.nextL /\ x.p.nextR = d.nextR /\ x.p.revs = d.revs
    BY DEF Nums
  <1> HIDE DEF c, d, e, p
  <1>3. /\ e.htlcs = d.htlcs /\ p \in PeerRecs
        /\ p.nextL = d.nextL /\ p.nextR = d.nextR /\ p.revs = d.revs
        /\ p.htlcId = d.htlcId /\ p.phase = "down"
    BY <1>1, <1>2, RestoredType
  <1>4. \A h : Where(e, h) = Where(d, h)
    BY <1>3 DEF Where
  <1>5. \A h : Kept(Where(c, h), Where(e, h))
    BY <1>1, <1>4 DEF Rows, Row, Kept
  <1>6. ASSUME NEW h \in DOMAIN e.htlcs
        PROVE  /\ h \in DOMAIN c.htlcs
               /\ e.htlcs[h].amount = c.htlcs[h].amount
               /\ Where(e, h) = Where(c, h) => e.htlcs[h].r = c.htlcs[h].r
               /\ Where(c, h) = 14 /\ Where(e, h) = 15 => e.htlcs[h].r \in {"fulfill", "fail"}
    <2>1. d.htlcs \in HtlcMaps
      BY <1>1 DEF DbRecs
    <2>2. Where(d, h) # NoHtlc
      BY <1>3, <1>6, <2>1, WhereType
    <2>3. RowHolds(c, d, h) /\ Row(Where(c, h), Where(d, h))
      BY <1>1, <2>2 DEF Rows
    <2>4. Where(c, h) # NoHtlc
      BY <2>2, <2>3 DEF Row, NoHtlc
    <2>5. h \in DOMAIN c.htlcs
      BY <2>4 DEF Where
    <2>6. QED
      BY <1>3, <1>4, <2>3, <2>5 DEF RowHolds
  <1>7. SameNums(x.p, p)
    BY <1>3, <1>20 DEF SameNums
  <1>8. QED
    BY <1>2, <1>3, <1>5, <1>6, <1>7 DEF c, d, e, p

-----------------------------------------------------------------------------
(* What each node keeps, when it is only sent something or reconnects. *)
LEMMA KeepsHears ==
    ASSUME NEW n, NEW x, Keeps(n, x), NEW y, NEW out, Hears(x, y, out)
    PROVE  Keeps(n, y)
  BY DEF Keeps, Hears, Signed

(* Nor does a reconnection change what a node keeps. *)
LEMMA KeepsReopen ==
    ASSUME NEW n, NEW x, NodeType(n, x), Keeps(n, x), NEW y, NEW z, Reopens(x, y, z)
    PROVE  Keeps(n, y)
  <1>1. y.p.nextR = x.p.nextR
    BY DEF Reopens, NodeType, PeerRecs
  <1>2. QED
    BY <1>1 DEF Keeps, Reopens, Signed

(* At first. *)
LEMMA KeepsInit ==
    ASSUME Init, NEW n \in Nodes
    PROVE  /\ Keeps(n, Node(n))
           /\ \A h : Where(Node(n).c, h) = NoHtlc
           /\ Node(n).p.htlcId = 0 /\ Node(n).d.htlcId = 0 /\ Node(n).q = << >>
           /\ Node(n).p.nextL = 1 /\ Node(n).p.nextR = 1 /\ Node(n).p.revs = 0
           /\ Node(n).p.phase = "run"
           /\ Node(n).c = RestoredChannel(n, InitDb(n))
  <1> DEFINE x == Node(n)
             d == db[n]
             c == RestoredChannel(n, d)
             p == RestoredPeer(n, d, "run")
  <1>1. /\ x.c = c /\ x.p = p /\ x.d = d /\ x.q = << >>
        /\ x.g = CommitTx(n, c, "remote", 0) /\ d = InitDb(n)
    BY DEF Node, Init
  <1>2. d \in DbRecs /\ d.fee[last_fee_state(OpenerSide(n))] # 0
    BY TypeInit DEF TypeInv, NodeType, Node
  <1>3. /\ d.htlcs = << >> /\ d.fee = new_fee_states(OpenerSide(n), InitialFeerate)
        /\ d.htlcId = 0 /\ d.nextL = 1 /\ d.nextR = 1 /\ d.revs = 0
    BY <1>1 DEF InitDb
  <1> HIDE DEF d
  <1>4. /\ GoodChan(c) /\ c.htlcs = d.htlcs /\ c.fee = d.fee
        /\ Balanced(c, d.our)
        /\ p.nextL = d.nextL /\ p.nextR = d.nextR /\ p.revs = d.revs
        /\ p.htlcId = d.htlcId /\ p.phase = "run"
    BY <1>2, RestoredType
  <1> HIDE DEF c, p
  <1>5. DOMAIN c.htlcs = {} /\ DOMAIN d.htlcs = {}
    BY <1>3, <1>4
  <1>6. \A h : Where(c, h) = NoHtlc /\ Where(d, h) = NoHtlc
    BY <1>5 DEF Where
  <1>7. d.fee = towire_fee_states(c.fee)
    <2>1. d.fee = new_fee_states(OpenerSide(n), InitialFeerate)
      BY <1>3
    <2>2. last_fee_state(OpenerSide(n)) \in {4, 14}
      BY DEF last_fee_state, SENT_ADD_ACK_REVOCATION, RCVD_ADD_ACK_REVOCATION
    <2> DEFINE l == last_fee_state(OpenerSide(n))
               f == new_fee_states(OpenerSide(n), InitialFeerate)
               w == towire_fee_states(f)
    <2>3. /\ f = [i \in HtlcStates |-> IF i = l THEN InitialFeerate ELSE 0]
          /\ w = [i \in HtlcStates |-> IF i \in Committed("local") \cup Committed("remote")
                                       THEN f[i] ELSE 0]
      BY DEF new_fee_states, towire_fee_states
    <2> HIDE DEF l, f, w
    <2>4. l \in Committed("local") \cup Committed("remote")
      BY <2>2 DEF Committed, l
    <2>5. w = f
      BY <2>3, <2>4
    <2>6. QED
      BY <1>4, <2>1, <2>5 DEF w, f
  <1>8. Store(c, d)
    <2>1. Rest(c)
      BY <1>6 DEF Rest, NoHtlc
    <2>2. Resolved(c)
      BY <1>5 DEF Resolved
    <2>3. Rows(c, d)
      BY <1>6 DEF Rows, Row
    <2>4. QED
      BY <1>4, <1>7, <2>1, <2>2, <2>3 DEF Store
  <1>9. Keeps(n, x)
    <2>1. p.nextR - 1 = 0
      BY <1>3, <1>4
    <2>2. QED
      BY <1>1, <1>8, <2>1 DEF Keeps, Signed
  <1>10. c = RestoredChannel(n, InitDb(n))
    BY <1>1 DEF c
  <1> HIDE DEF x
  <1>11. QED
    BY <1>1, <1>3, <1>4, <1>6, <1>9, <1>10 DEF x

-----------------------------------------------------------------------------
(* The ids of the HTLCs a node has offered.  Those not yet committed are    *)
(* the ones since lightningd last saved next_htlc_id.                       *)
Mine(x, k) == Where(x.c, <<"local", k>>)
Theirs(x, k) == Where(x.c, <<"remote", k>>)

Ids(x) ==
    /\ x.d.htlcId <= x.p.htlcId
    /\ \A k \in Nat : Mine(x, k) = 0 <=> x.d.htlcId <= k /\ k < x.p.htlcId
    /\ \A k \in Nat : Mine(x, k) \notin {0, NoHtlc} => k < x.d.htlcId

(* What a commitment moved and no revocation has answered yet is saved as   *)
(* the last sent.                                                           *)
Last(x) ==
    \A h : Where(x.c, h) \in {1, 8, 13, 16} =>
             x.p.revs # x.p.nextR - 1 /\ h \in x.d.lastSent

Own(x) == Ids(x) /\ Last(x)

(* The ids in a range count what they should. *)
LEMMA IdsCount ==
    ASSUME NEW c, c.htlcs \in HtlcMaps, NEW a \in Nat, NEW b \in Nat, a <= b,
           \A k \in Nat : Where(c, <<"local", k>>) = 0 <=> a <= k /\ k < b
    PROVE  a + Cardinality({h \in DOMAIN c.htlcs : Where(c, h) = 0}) = b
  <1> DEFINE S == {h \in DOMAIN c.htlcs : Where(c, h) = 0}
             I == a..(b - 1)
             f == [k \in I |-> <<"local", k>>]
  <1>1. \A h \in S : \E k \in I : h = <<"local", k>>
    <2> SUFFICES ASSUME NEW h \in S
                 PROVE  \E k \in I : h = <<"local", k>>
      OBVIOUS
    <2>1. h \in HtlcKeys /\ h[1] = htlc_state_owner(0) /\ Where(c, h) = 0
      BY WhereType
    <2>2. PICK k \in Nat : h = <<"local", k>>
      BY <2>1 DEF HtlcKeys, htlc_state_owner, RCVD_ADD_HTLC
    <2>3. a <= k /\ k < b
      BY <2>1, <2>2
    <2>4. QED
      BY <2>2, <2>3
  <1>2. \A k \in I : <<"local", k>> \in S
    <2> SUFFICES ASSUME NEW k \in I
                 PROVE  <<"local", k>> \in S
      OBVIOUS
    <2>1. Where(c, <<"local", k>>) = 0
      OBVIOUS
    <2>2. <<"local", k>> \in DOMAIN c.htlcs
      BY <2>1 DEF Where, NoHtlc
    <2>3. QED
      BY <2>1, <2>2
  <1>3. IsFiniteSet(I) /\ Cardinality(I) = b - a
    <2>1. IsFiniteSet(I) /\ Cardinality(I) = IF a > b - 1 THEN 0 ELSE (b - 1) - a + 1
      <3>1. a \in Int /\ b - 1 \in Int
        OBVIOUS
      <3>2. QED
        BY <3>1, FS_Interval
    <2> HIDE DEF I
    <2>2. QED
      BY <2>1
  <1>4. f \in [I -> S] /\ \A u, v \in I : f[u] = f[v] => u = v
    BY <1>2
  <1>5. \A h \in S : \E k \in I : f[k] = h
    BY <1>1
  <1> HIDE DEF f
  <1>6. f \in Bijection(I, S)
    BY <1>4, <1>5 DEF Bijection, Injection, Surjection, IsInjective
  <1>7. Cardinality(S) = Cardinality(I)
    BY <1>3, <1>6, FS_Bijection DEF ExistsBijection
  <1>8. QED
    BY <1>3, <1>7

(* Every step of a node keeps its ids and its last commitment right. *)
LEMMA OwnStep ==
    ASSUME NEW n \in Nodes, NEW x, NodeType(n, x), NEW y, NEW out, NodeStep(n, x, y, out),
           Keeps(n, x), Own(x),
           GotAdd(n, x, y, out) => <<"remote", Head(x.q).id>> \notin DOMAIN x.c.htlcs
    PROVE  Own(y)
  <1>1. /\ x.p \in PeerRecs /\ x.d \in DbRecs /\ y.p \in PeerRecs /\ y.d \in DbRecs
        /\ Store(x.c, x.d) /\ x.c.htlcs \in HtlcMaps
    <2>1. NodeType(n, y)
      BY NodeStepType
    <2>2. QED
      BY <2>1 DEF NodeType, Keeps, GoodChan, ChanRecs
  <1> DEFINE a == x.d.htlcId
             b == x.p.htlcId
  <1>2. /\ a \in Nat /\ b \in Nat /\ a <= b
        /\ \A k \in Nat : Where(x.c, <<"local", k>>) = 0 <=> a <= k /\ k < b
        /\ \A k \in Nat : Where(x.c, <<"local", k>>) \notin {0, NoHtlc} => k < a
        /\ \A h : Where(x.c, h) \in {1, 8, 13, 16} =>
             x.p.revs # x.p.nextR - 1 /\ h \in x.d.lastSent
    BY <1>1 DEF Own, Ids, Last, Mine, PeerRecs, DbRecs
  <1>3. ASSUME NEW a2 \in Nat, NEW b2 \in Nat, y.d.htlcId = a2, y.p.htlcId = b2, a2 <= b2,
               \A k \in Nat : Where(y.c, <<"local", k>>) = 0 <=> a2 <= k /\ k < b2,
               \A k \in Nat : Where(y.c, <<"local", k>>) \notin {0, NoHtlc} => k < a2,
               \A h : Where(y.c, h) \in {1, 8, 13, 16} =>
                 y.p.revs # y.p.nextR - 1 /\ h \in y.d.lastSent
        PROVE  Own(y)
    BY <1>3 DEF Own, Ids, Last, Mine
  <1> HIDE DEF a, b
  <1>4. ASSUME SameNums(x.p, y.p), SameIds(x, y),
               \A h : \/ Where(y.c, h) = Where(x.c, h)
                      \/ Where(x.c, h) \in {4, 14} /\ Where(y.c, h) \in {5, 15}
                      \/ Where(x.c, h) = NoHtlc /\ Where(y.c, h) = 10
        PROVE  Own(y)
    <2>1. \A h : Where(y.c, h) = 10 => \A k : h # <<"local", k>> \/ Where(x.c, h) = 10
      <3> SUFFICES ASSUME NEW k, Where(y.c, <<"local", k>>) = 10
                   PROVE  Where(x.c, <<"local", k>>) = 10
        OBVIOUS
      <3>1. y.c.htlcs \in HtlcMaps
        BY NodeStepType DEF NodeType, GoodChan, ChanRecs
      <3>2. <<"local", k>> \in DOMAIN y.c.htlcs
        BY DEF Where, NoHtlc
      <3>3. "local" = htlc_state_owner(10)
        BY <3>1, <3>2, WhereType
      <3>4. QED
        BY <3>3 DEF htlc_state_owner, RCVD_ADD_HTLC
    <2>2. \A k \in Nat : \/ Where(y.c, <<"local", k>>) = Where(x.c, <<"local", k>>)
                         \/ /\ Where(x.c, <<"local", k>>) \in {4, 14}
                            /\ Where(y.c, <<"local", k>>) \in {5, 15}
      BY <1>4, <2>1
    <2>3. ASSUME NEW k \in Nat
          PROVE  /\ Where(y.c, <<"local", k>>) = 0 <=> Where(x.c, <<"local", k>>) = 0
                 /\ Where(y.c, <<"local", k>>) \notin {0, NoHtlc}
                            => Where(x.c, <<"local", k>>) \notin {0, NoHtlc}
      <3> DEFINE u == Where(y.c, <<"local", k>>)
                 v == Where(x.c, <<"local", k>>)
      <3>1. u = v \/ (v \in {4, 14} /\ u \in {5, 15})
        BY <2>2
      <3> HIDE DEF u, v
      <3>2. (u = 0 <=> v = 0) /\ (u \notin {0, NoHtlc} => v \notin {0, NoHtlc})
        BY <3>1 DEF NoHtlc
      <3>3. QED
        BY <3>2 DEF u, v
    <2>5. \A h : Where(y.c, h) \in {1, 8, 13, 16} => Where(x.c, h) \in {1, 8, 13, 16}
      BY <1>4
    <2>6. /\ y.d.htlcId = a /\ y.p.htlcId = b /\ y.d.lastSent = x.d.lastSent
          /\ y.p.revs = x.p.revs /\ y.p.nextR = x.p.nextR
      BY <1>4 DEF SameIds, SameNums, a, b
    <2>7. QED
      BY <1>2, <1>3, <2>3, <2>5, <2>6
  <1>5. CASE Quiet(n, x, y, out) \/ SavesResolution(n, x, y, out) \/ GotFee(n, x, y, out)
    <2>1. Idles(x, y, out)
      BY <1>5, IdleSteps
    <2>2. QED
      BY <1>4, <2>1 DEF Idles, Still
  <1>6. CASE Offers(n, x, y, out)
    <2> DEFINE h == <<"local", x.p.htlcId>>
    <2>1. \A g : Where(y.c, g) = IF g = <<"local", b>> THEN 0 ELSE Where(x.c, g)
      <3>1. Put(x.c, y.c, <<"local", x.p.htlcId>>, 0)
        BY <1>1, <1>6, OfferPuts
      <3>2. QED
        BY <3>1 DEF Put, b
    <2>2. /\ y.d = x.d /\ y.p.htlcId = b + 1 /\ y.p.revs = x.p.revs /\ y.p.nextR = x.p.nextR
      BY <1>6 DEF Offers, b
    <2>3. \A k \in Nat : Where(y.c, <<"local", k>>) = IF k = b THEN 0
                                                      ELSE Where(x.c, <<"local", k>>)
      BY <2>1
    <2>4. b + 1 \in Nat /\ a <= b + 1
      BY <1>2
    <2>5. ASSUME NEW k \in Nat
          PROVE  Where(y.c, <<"local", k>>) = 0 <=> a <= k /\ k < b + 1
      <3> DEFINE u == Where(y.c, <<"local", k>>)
                 v == Where(x.c, <<"local", k>>)
      <3>1. /\ u = IF k = b THEN 0 ELSE v
            /\ v = 0 <=> a <= k /\ k < b
        BY <1>2, <2>3
      <3> HIDE DEF u, v
      <3>2. u = 0 <=> a <= k /\ k < b + 1
        BY <1>2, <3>1
      <3>3. QED
        BY <3>2 DEF u
    <2>6. \A k \in Nat : Where(y.c, <<"local", k>>) \notin {0, NoHtlc} => k < a
      BY <1>2, <2>3
    <2>7. \A g : Where(y.c, g) \in {1, 8, 13, 16} =>
             y.p.revs # y.p.nextR - 1 /\ g \in y.d.lastSent
      BY <1>2, <2>1, <2>2
    <2>8. y.d.htlcId = a
      BY <2>2 DEF a
    <2>9. QED
      BY <1>2, <1>3, <2>2, <2>4, <2>5, <2>6, <2>7, <2>8
  <1>7. CASE Resolves(n, x, y, out)
    <2>1. PICK k \in Nat : Where(x.c, <<"remote", k>>) = 14 /\ Put(x.c, y.c, <<"remote", k>>, 15)
      BY <1>1, <1>7, ResolvePuts
    <2>2. SameNums(x.p, y.p) /\ SameIds(x, y)
      BY <1>1, <1>7 DEF Resolves, PeerKeeps, SameNums, SameIds
    <2>3. QED
      BY <1>4, <2>1, <2>2 DEF Put
  <1>8. CASE GotAdd(n, x, y, out)
    <2> DEFINE h == <<"remote", Head(x.q).id>>
    <2>1. Where(x.c, h) = NoHtlc /\ Put(x.c, y.c, h, 10)
      BY <1>1, <1>8, AddPuts
    <2>2. SameNums(x.p, y.p) /\ SameIds(x, y)
      BY <1>1, <1>8 DEF GotAdd, SameNums, SameIds
    <2> HIDE DEF h
    <2>3. QED
      BY <1>4, <2>1, <2>2 DEF Put
  <1>9. CASE GotRemove(n, x, y, out)
    <2> DEFINE h == <<"local", Head(x.q).id>>
    <2>1. y.c = x.c \/ (Where(x.c, h) = 4 /\ Put(x.c, y.c, h, 5))
      BY <1>1, <1>9, RemovePuts
    <2>2. SameNums(x.p, y.p) /\ SameIds(x, y)
      BY <1>1, <1>9 DEF GotRemove, PeerKeeps, SameNums, SameIds
    <2> HIDE DEF h
    <2>3. QED
      BY <1>4, <2>1, <2>2 DEF Put
  <1>10. CASE SendsCommit(n, x, y, out)
    <2>1. /\ \A h : Where(y.c, h) = Sent(Where(x.c, h))
          /\ y.d.lastSent = Unsent(x.c)
          /\ y.d.htlcId = x.d.htlcId + Cardinality(Unoffered(x.c))
      BY <1>10, CommitMoves
    <2>2. y.d.htlcId = b
      <3>1. a + Cardinality(Unoffered(x.c)) = b
        BY <1>1, <1>2, IdsCount DEF Unoffered
      <3>2. QED
        BY <2>1, <3>1 DEF a
    <2>3. /\ x.p.revs = x.p.nextR - 1 /\ y.p.nextR = x.p.nextR + 1 /\ y.p.revs = x.p.revs
          /\ y.p.htlcId = b
      BY <1>10 DEF SendsCommit, b
    <2>4. y.p.revs # y.p.nextR - 1
      BY <1>1, <2>3 DEF PeerRecs
    <2>5. \A h : Where(x.c, h) \notin {1, 8, 13, 16}
      BY <1>2, <2>3
    <2>6. \A h : Where(x.c, h) \in 0..20 /\ (Where(x.c, h) # NoHtlc => h \in DOMAIN x.c.htlcs)
      BY <1>1, WhereType
    <2>7. \A h : Where(y.c, h) \in {1, 8, 13, 16} => h \in y.d.lastSent
      BY <2>1, <2>5, <2>6 DEF Sent, NoHtlc, Unsent
    <2>8. \A h : Where(y.c, h) # 0
      BY <2>1, <2>6 DEF Sent
    <2>9. \A k \in Nat : Where(y.c, <<"local", k>>) \notin {0, NoHtlc} => k < b
      <3> SUFFICES ASSUME NEW k \in Nat, Where(y.c, <<"local", k>>) \notin {0, NoHtlc}
                   PROVE  k < b
        OBVIOUS
      <3>1. Where(x.c, <<"local", k>>) # NoHtlc
        BY <2>1 DEF Sent, NoHtlc
      <3>2. QED
        BY <1>2, <3>1
    <2>10. \A k \in Nat : ~(b <= k /\ k < b)
      BY <1>2
    <2>11. QED
      BY <1>2, <1>3, <2>2, <2>3, <2>4, <2>7, <2>8, <2>9, <2>10
  <1>12. CASE GotCommit(n, x, y, out)
    <2>1. /\ \A h : Where(y.c, h) = Took(Where(x.c, h))
          /\ y.d.htlcId = a /\ y.d.lastSent = x.d.lastSent
      BY <1>1, <1>12, TookMoves DEF a
    <2>2. y.p.htlcId = b /\ y.p.nextR = x.p.nextR /\ y.p.revs = x.p.revs
      BY <1>12 DEF GotCommit, b
    <2>3. \A i \in 0..20 : /\ Took(i) = 0 <=> i = 0
                           /\ Took(i) \notin {0, NoHtlc} => i \notin {0, NoHtlc}
                           /\ Took(i) \in {1, 8, 13, 16} => Took(i) = i
      BY DEF Took, NoHtlc
    <2>4. \A h : Where(x.c, h) \in 0..20
      BY <1>1, WhereType
    <2>5. \A h : Where(y.c, h) \in {1, 8, 13, 16} =>
                  y.p.revs # y.p.nextR - 1 /\ h \in y.d.lastSent
      BY <1>2, <2>1, <2>2, <2>3, <2>4
    <2>6. \A h : /\ Where(y.c, h) = 0 <=> Where(x.c, h) = 0
                 /\ Where(y.c, h) \notin {0, NoHtlc} => Where(x.c, h) \notin {0, NoHtlc}
      BY <2>1, <2>3, <2>4
    <2>7. QED
      BY <1>2, <1>3, <2>1, <2>2, <2>5, <2>6
  <1>13. CASE GotRevoke(n, x, y, out)
    <2>1. /\ \A h : Where(y.c, h) = Acked(Where(x.c, h))
          /\ y.d.htlcId = a
      BY <1>13, AckMoves DEF a
    <2>2. y.p.htlcId = b
      BY <1>13 DEF GotRevoke, b
    <2>3. \A i \in 0..20 : /\ Acked(i) = 0 <=> i = 0
                           /\ Acked(i) \notin {0, NoHtlc} => i \notin {0, NoHtlc}
                           /\ Acked(i) \notin {1, 8, 13, 16}
      BY DEF Acked, NoHtlc
    <2>4. \A h : Where(x.c, h) \in 0..20
      BY <1>1, WhereType
    <2>5. \A h : Where(y.c, h) \notin {1, 8, 13, 16}
      BY <2>1, <2>3, <2>4
    <2>6. \A h : /\ Where(y.c, h) = 0 <=> Where(x.c, h) = 0
                 /\ Where(y.c, h) \notin {0, NoHtlc} => Where(x.c, h) \notin {0, NoHtlc}
      BY <2>1, <2>3, <2>4
    <2>7. QED
      BY <1>2, <1>3, <2>1, <2>2, <2>5, <2>6
  <1>14. CASE Answers(n, x, y, out)
    <2>1. y.c = x.c /\ SameNums(x.p, y.p) /\ SameIds(x, y)
      BY <1>1, <1>14 DEF Answers, PeerKeeps, SameNums, SameIds
    <2>2. QED
      BY <1>4, <2>1
  <1>15. QED
    BY <1>5, <1>6, <1>7, <1>8, <1>9, <1>10, <1>12, <1>13, <1>14 DEF NodeStep

(* So do losing the connection and coming back. *)
LEMMA OwnBreak ==
    ASSUME NEW n \in Nodes, NEW x, NodeType(n, x), Keeps(n, x), Nums(x), Own(x),
           NEW y, Breaks(n, x, y)
    PROVE  Own(y)
  <1>0. Store(x.c, x.d)
    BY DEF Keeps
  <1>1. /\ \A h : Kept(Where(x.c, h), Where(y.c, h))
        /\ SameNums(x.p, y.p) /\ y.p.htlcId = x.d.htlcId /\ y.d = x.d
    <2>1. \A h : Kept(Where(x.c, h), Where(y.c, h))
      BY <1>0, BreakMoves
    <2>2. SameNums(x.p, y.p)
      BY <1>0, BreakMoves
    <2>3. y.p.htlcId = x.d.htlcId /\ y.d = x.d
      BY <1>0, BreakMoves
    <2>4. QED
      BY <2>1, <2>2, <2>3
  <1>2. x.d.htlcId \in Nat
    BY DEF NodeType, DbRecs
  <1>3. \A h : /\ Where(y.c, h) # 0
               /\ Where(y.c, h) # NoHtlc => Where(x.c, h) \notin {0, NoHtlc}
               /\ Where(y.c, h) \in {1, 8, 13, 16} => Where(x.c, h) = Where(y.c, h)
    BY <1>1 DEF Kept, NoHtlc
  <1>4. Ids(y)
    <2>1. \A k \in Nat : Mine(y, k) # 0
      BY <1>3 DEF Mine
    <2>2. \A k \in Nat : Mine(y, k) \notin {0, NoHtlc} => k < y.d.htlcId
      BY <1>1, <1>3 DEF Mine, Own, Ids
    <2>3. \A k \in Nat : ~(y.d.htlcId <= k /\ k < y.p.htlcId)
      BY <1>1, <1>2
    <2>4. QED
      BY <1>1, <1>2, <2>1, <2>2, <2>3 DEF Ids
  <1>5. Last(y)
    BY <1>1, <1>3 DEF Last, Own, SameNums
  <1>6. QED
    BY <1>4, <1>5 DEF Own

(* A reconnection changes no id. *)
LEMMA OwnReopen ==
    ASSUME NEW n, NEW x, NodeType(n, x), Own(x), NEW y, NEW z, Reopens(x, y, z)
    PROVE  Own(y)
  <1>1. /\ y.p.htlcId = x.p.htlcId /\ y.p.revs = x.p.revs /\ y.p.nextR = x.p.nextR
        /\ y.c = x.c /\ y.d = x.d
    BY DEF Reopens, NodeType, PeerRecs
  <1>2. QED
    BY <1>1 DEF Own, Ids, Last, Mine

(* Nor does a message heard. *)
LEMMA OwnHears ==
    ASSUME NEW x, Own(x), NEW y, NEW out, Hears(x, y, out)
    PROVE  Own(y)
  BY DEF Hears, Own, Ids, Last, Mine

(* No id is used at first. *)
LEMMA OwnInit ==
    ASSUME Init, NEW n \in Nodes
    PROVE  Own(Node(n))
  <1> DEFINE x == Node(n)
  <1>1. /\ \A h : Where(x.c, h) = NoHtlc
        /\ x.p.htlcId = 0 /\ x.d.htlcId = 0
    BY KeepsInit
  <1> HIDE DEF x
  <1>2. Own(x)
    BY <1>1 DEF Own, Ids, Last, Mine, NoHtlc
  <1>3. QED
    BY <1>2 DEF x

-----------------------------------------------------------------------------
(* The ids of the HTLCs x has offered, as its peer z knows them.  z.q is    *)
(* what x has sent and z has yet to read.                                   *)
AddFrom(k) == {m \in Msgs : m.type = "add" /\ m.id >= k}
TxNot(g) == {m \in Msgs : m.type = "commit" /\ m.tx # g}

(* z has no id that x has not used; none x would use again after a restart, *)
(* once committed.                                                          *)
KnownIds(x, z) ==
    \A k \in Nat : /\ Theirs(z, k) # NoHtlc => k < x.p.htlcId
                   /\ Theirs(z, k) \notin {NoHtlc, 10} => k < x.d.htlcId
(* An addition on its way is one z does not have. *)
NewAdds(x, z) ==
    \A k \in Nat : /\ Has(z.q, AddOf(k)) => k < x.p.htlcId /\ Theirs(z, k) = NoHtlc
                   /\ One(z.q, AddOf(k))
(* A commitment on its way commits only what x has saved. *)
SavedAdds(x, z) ==
    /\ Has(z.q, OfType("commit")) => \A k \in Nat : Theirs(z, k) = 10 => k < x.d.htlcId
    /\ Before(z.q, OfType("commit"), AddFrom(x.d.htlcId))
(* Before x has answered a reestablish, z has nothing uncommitted of x's. *)
Cleared(x, z) ==
    x.p.phase \in {"down", "reestablish"} => \A k \in Nat : Theirs(z, k) # 10
(* What a commitment under way would add is not committed at z. *)
Awaited(x, z) ==
    x.p.nextR = z.p.nextL + 1 =>
        \A k \in Nat : Mine(x, k) = 1 => Theirs(z, k) \in {NoHtlc, 10}
(* A commitment on its way is the one x signed last. *)
OneTx(x, z) == ~Has(z.q, TxNot(x.g))

Fresh(x, z) ==
    /\ KnownIds(x, z) /\ NewAdds(x, z) /\ SavedAdds(x, z)
    /\ Cleared(x, z) /\ Awaited(x, z) /\ OneTx(x, z)

(* What may become of an HTLC other than being added. *)
Passes(u, v) == v = u \/ (u \notin {NoHtlc, 10} /\ v # 10)

(* z reads, or does something that is not about x's HTLCs. *)
LEMMA FreshAside ==
    ASSUME NEW x, NEW z, Fresh(x, z), z.q \in Seq(Msgs), NEW y, NEW w,
           y.c = x.c, y.p = x.p, y.d = x.d, y.g = x.g,
           w.q = z.q \/ (z.q # << >> /\ w.q = Tail(z.q)), w.p.nextL = z.p.nextL,
           \A k \in Nat : Passes(Theirs(z, k), Theirs(w, k))
    PROVE  Fresh(y, w)
  <1> DEFINE q == z.q
             r == w.q
  <1>1. /\ \A T : Has(r, T) => Has(q, T)
        /\ \A T : One(q, T) => One(r, T)
        /\ \A S, T : Before(q, S, T) => Before(r, S, T)
    <2>1. q \in Seq(Msgs) /\ (r = q \/ (q # << >> /\ r = Tail(q)))
      OBVIOUS
    <2> HIDE DEF q, r
    <2>2. CASE r = q
      BY <2>2
    <2>3. CASE q # << >> /\ r = Tail(q)
      <3>1. \A S, T :
                /\ Has(q, T) <=> Head(q) \in T \/ Has(Tail(q), T)
                /\ One(q, T) <=> /\ One(Tail(q), T)
                                 /\ ~(Head(q) \in T /\ Has(Tail(q), T))
                /\ Before(q, S, T) <=>
                     /\ Before(Tail(q), S, T)
                     /\ ~(Head(q) \in T /\ (Head(q) \in S \/ Has(Tail(q), S)))
        BY <2>1, <2>3, Popped
      <3>2. QED
        BY <2>3, <3>1
    <2>4. QED
      BY <2>1, <2>2, <2>3
  <1>2. /\ \A k \in Nat : Theirs(w, k) # NoHtlc => Theirs(z, k) # NoHtlc
        /\ \A k \in Nat : Theirs(w, k) \notin {NoHtlc, 10} => Theirs(z, k) \notin {NoHtlc, 10}
        /\ \A k \in Nat : Theirs(w, k) = 10 => Theirs(z, k) = 10
        /\ \A k \in Nat : Theirs(z, k) \in {NoHtlc, 10} => Theirs(w, k) \in {NoHtlc, 10}
    BY DEF Passes
  <1>3. KnownIds(y, w)
    BY <1>2 DEF Fresh, KnownIds
  <1>4. NewAdds(y, w)
    BY <1>1, <1>2 DEF Fresh, NewAdds
  <1>5. SavedAdds(y, w)
    BY <1>1, <1>2 DEF Fresh, SavedAdds
  <1>6. Cleared(y, w)
    BY <1>2 DEF Fresh, Cleared
  <1>7. Awaited(y, w)
    BY <1>2 DEF Fresh, Awaited, Mine
  <1>8. OneTx(y, w)
    BY <1>1 DEF Fresh, OneTx
  <1>9. QED
    BY <1>3, <1>4, <1>5, <1>6, <1>7, <1>8 DEF Fresh

(* x does something else than add an HTLC or commit. *)
LEMMA FreshElse ==
    ASSUME NEW x, NEW z, Fresh(x, z), z.q \in Seq(Msgs), NEW y, NEW w, NEW out \in Seq(Msgs),
           Hears(z, w, out), y.p.htlcId = x.p.htlcId, y.d.htlcId = x.d.htlcId, y.g = x.g,
           y.p.nextR = x.p.nextR, Onward(x, y),
           \A k \in Nat : Mine(y, k) = 1 => Mine(x, k) = 1,
           ~Has(out, OfType("commit")), ~Has(out, OfType("add"))
    PROVE  Fresh(y, w)
  <1> DEFINE q == z.q
             r == w.q
  <1>1. /\ w.c = z.c /\ w.p = z.p /\ r = q \o out /\ q \in Seq(Msgs)
    BY DEF Hears
  <1>2. \A k : Theirs(w, k) = Theirs(z, k)
    BY <1>1 DEF Theirs
  <1> HIDE DEF q, r
  <1>3. /\ \A T : Has(r, T) <=> Has(q, T) \/ Has(out, T)
        /\ \A T : One(r, T) <=> One(q, T) /\ One(out, T) /\ ~(Has(q, T) /\ Has(out, T))
        /\ \A S, T : Before(r, S, T) <=> /\ Before(q, S, T) /\ Before(out, S, T)
                                         /\ ~(Has(q, T) /\ Has(out, S))
    BY <1>1, Queued
  <1>4. /\ \A k : ~Has(out, AddOf(k)) /\ ~Has(out, AddFrom(k))
        /\ \A g : ~Has(out, TxNot(g))
    BY DEF Has, AddOf, AddFrom, TxNot, OfType
  <1>5. \A T : ~Has(out, T) => One(out, T) /\ \A S : Before(out, S, T)
    BY DEF Has, One, Before
  <1>6. KnownIds(y, w)
    BY <1>2 DEF Fresh, KnownIds
  <1>7. NewAdds(y, w)
    BY <1>2, <1>3, <1>4, <1>5 DEF Fresh, NewAdds, q, r
  <1>8. SavedAdds(y, w)
    BY <1>2, <1>3, <1>4, <1>5 DEF Fresh, SavedAdds, q, r
  <1>9. Cleared(y, w)
    BY <1>2 DEF Fresh, Cleared, Onward
  <1>10. Awaited(y, w)
    BY <1>1, <1>2 DEF Fresh, Awaited
  <1>11. OneTx(y, w)
    BY <1>3, <1>4 DEF Fresh, OneTx, q, r
  <1>12. QED
    BY <1>6, <1>7, <1>8, <1>9, <1>10, <1>11 DEF Fresh

(* x offers an HTLC. *)
LEMMA FreshOffers ==
    ASSUME NEW n, NEW x, NodeType(n, x), NEW z, Fresh(x, z), z.q \in Seq(Msgs), NEW y, NEW out,
           Offers(n, x, y, out), Store(x.c, x.d), NEW w, Hears(z, w, out)
    PROVE  Fresh(y, w)
  <1> DEFINE b == x.p.htlcId
             h == <<"local", b>>
             m == AddMsg(y.c, h)
             q == z.q
             r == w.q
             a == x.d.htlcId
  <1>1. /\ Put(x.c, y.c, h, 0) /\ m \in Msgs /\ out = <<m>>
    BY OfferPuts
  <1>2. /\ b \in Nat /\ y.p.htlcId = b + 1 /\ y.d = x.d /\ y.g = x.g /\ y.p.nextR = x.p.nextR
        /\ y.p.phase = "run" /\ a \in Nat
    BY DEF Offers, NodeType, PeerRecs, DbRecs
  <1>3. /\ w.c = z.c /\ w.p = z.p /\ r = q \o <<m>> /\ q \in Seq(Msgs)
    BY <1>1 DEF Hears
  <1>4. \A k : Theirs(w, k) = Theirs(z, k)
    BY <1>3 DEF Theirs
  <1>5. m.type = "add" /\ m.id = b
    BY DEF AddMsg
  <1>6. \A k \in Nat : Mine(y, k) = 1 => Mine(x, k) = 1
    BY <1>1 DEF Put, Mine
  <1> HIDE DEF q, r, m
  <1>7. <<m>> \in Seq(Msgs) /\ \A S, T : /\ Has(<<m>>, T) <=> m \in T
                                         /\ One(<<m>>, T)
                                         /\ Before(<<m>>, S, T) <=> ~(m \in S /\ m \in T)
    BY <1>1, OneQueued
  <1>8. /\ \A T : Has(r, T) <=> Has(q, T) \/ m \in T
        /\ \A T : One(r, T) <=> One(q, T) /\ ~(Has(q, T) /\ m \in T)
        /\ \A S, T : Before(r, S, T) <=> /\ Before(q, S, T) /\ ~(m \in S /\ m \in T)
                                         /\ ~(Has(q, T) /\ m \in S)
    <2> DEFINE u == <<m>>
    <2> HIDE DEF u
    <2>1. /\ u \in Seq(Msgs) /\ r = q \o u
          /\ \A S, T : (Has(u, T) <=> m \in T) /\ One(u, T) /\ (Before(u, S, T) <=> ~(m \in S /\ m \in T))
      BY <1>3, <1>7 DEF u
    <2>4. q \in Seq(Msgs) /\ u \in Seq(Msgs) /\ r = q \o u
      BY <1>3, <2>1
    <2>2. /\ \A T : Has(r, T) <=> Has(q, T) \/ Has(u, T)
          /\ \A T : One(r, T) <=> One(q, T) /\ One(u, T) /\ ~(Has(q, T) /\ Has(u, T))
          /\ \A S, T : Before(r, S, T) <=> /\ Before(q, S, T) /\ Before(u, S, T)
                                           /\ ~(Has(q, T) /\ Has(u, S))
      BY <2>4, Queued
    <2>3. QED
      BY <2>1, <2>2
  <1>9. /\ \A k : m \in AddOf(k) => k = b
        /\ m \notin OfType("commit") /\ \A g : m \notin TxNot(g)
    BY <1>5 DEF AddOf, OfType, TxNot
  <1>10. /\ \A k \in Nat : Theirs(z, k) # NoHtlc => k < b
         /\ \A k \in Nat : Theirs(z, k) \notin {NoHtlc, 10} => k < a
         /\ \A k \in Nat : Has(q, AddOf(k)) => k < b /\ Theirs(z, k) = NoHtlc
         /\ \A k \in Nat : One(q, AddOf(k))
    BY DEF Fresh, KnownIds, NewAdds, q
  <1> HIDE DEF b, a
  <1>11. Theirs(z, b) = NoHtlc
    BY <1>2, <1>10
  <1>12. KnownIds(y, w)
    <2>1. \A k \in Nat : k < b => k < b + 1
      BY <1>2
    <2>2. y.d.htlcId = a
      BY <1>2 DEF a
    <2>3. QED
      BY <1>2, <1>4, <1>10, <2>1, <2>2 DEF KnownIds
  <1>13. NewAdds(y, w)
    <2> SUFFICES ASSUME NEW k \in Nat
                 PROVE  /\ Has(r, AddOf(k)) => k < b + 1 /\ Theirs(w, k) = NoHtlc
                        /\ One(r, AddOf(k))
      BY <1>2 DEF NewAdds, r
    <2>1. Has(q, AddOf(k)) => k < b /\ Theirs(z, k) = NoHtlc
      BY <1>10
    <2>2. One(r, AddOf(k)) 
      BY <1>2, <1>8, <1>9, <1>10, <2>1
    <2>3. CASE Has(q, AddOf(k))
      BY <1>2, <1>4, <2>1, <2>2, <2>3
    <2>4. CASE m \in AddOf(k)
      BY <1>2, <1>4, <1>9, <1>11, <2>2, <2>4
    <2>5. QED
      BY <1>8, <2>2, <2>3, <2>4
  <1>14. SavedAdds(y, w)
    <2>1. Before(q, OfType("commit"), AddFrom(a))
      BY DEF Fresh, SavedAdds, q, a
    <2>2. Has(q, OfType("commit")) => \A k \in Nat : Theirs(z, k) = 10 => k < a
      BY DEF Fresh, SavedAdds, q, a
    <2>3. y.d.htlcId = a
      BY <1>2 DEF a
    <2>4. QED
      BY <1>4, <1>8, <1>9, <2>1, <2>2, <2>3 DEF SavedAdds, r
  <1>15. Cleared(y, w)
    BY <1>2 DEF Cleared
  <1>16. Awaited(y, w)
    BY <1>2, <1>3, <1>4, <1>6 DEF Fresh, Awaited
  <1>17. OneTx(y, w)
    BY <1>2, <1>8, <1>9 DEF Fresh, OneTx, q, r
  <1>18. QED
    BY <1>12, <1>13, <1>14, <1>15, <1>16, <1>17 DEF Fresh

(* A commitment goes with at most a feerate and a shutdown. *)
LEMMA CommitSends ==
    ASSUME NEW n \in Nodes, NEW x, NodeType(n, x), NEW y, NEW out \in Seq(Msgs),
           SendsCommit(n, x, y, out)
    PROVE  \A T : Has(out, T) =>
             \E m \in Msgs : m \in T /\ (m.type \in {"fee", "shutdown"}
                                         \/ (m.type = "commit" /\ m.tx = y.g))
  <1>0. PICK c1 : Commits(n, x, y, out, c1)
    BY SentCommit
  <1>1. PICK s \in ShutdownMsgs :
          out = FeeMsgs(x.c, c1) \o <<CommitMsg(n, y.c, x.p.nextR)>> \o s
    BY <1>0 DEF Commits
  <1>2. FeeUpdated(x.c, c1) /\ GoodChan(y.c) /\ y.g = CommitTx(n, y.c, "remote", x.p.nextR)
    BY <1>0 DEF Commits, SendsCommit
  <1> DEFINE f == FeeMsgs(x.c, c1)
             m == CommitMsg(n, y.c, x.p.nextR)
             g == f \o <<m>>
  <1>3. f \in Seq(Msgs) /\ \A T : Has(f, T) => \E e \in Msgs : e \in T /\ e.type = "fee"
    <2>1. f \in Seq(Msgs)
      BY <1>2, FeeMsgsType DEF NodeType
    <2>2. CASE f = << >>
      BY <2>1, <2>2, NoneQueued
    <2>3. CASE f # << >>
      <3> DEFINE fm == [type |-> "fee", rate |-> c1.fee[first_fee_state("local")]]
      <3>1. f = <<fm>> /\ fm.type = "fee"
        BY <2>3 DEF FeeMsgs
      <3> HIDE DEF f, fm
      <3>2. fm \in Msgs
        BY <2>1, <3>1
      <3>3. QED
        BY <2>1, <3>1, <3>2, OneQueued
    <2>4. QED
      BY <2>2, <2>3
  <1>4. m \in Msgs /\ m.type = "commit" /\ m.tx = y.g
    <2>1. x.p.nextR \in Int
      BY DEF NodeType, PeerRecs
    <2>2. CommitTx(n, y.c, "remote", x.p.nextR) \in Txs
      BY <1>2, <2>1, CommitTxType DEF Sides
    <2>3. QED
      BY <1>2, <2>2, MsgCommit DEF CommitMsg
  <1>5. s \in Seq(Msgs) /\ \A T : Has(s, T) => \E e \in Msgs : e \in T /\ e.type = "shutdown"
    <2>1. CASE s = << >>
      BY <2>1, NoneQueued
    <2>2. CASE s = <<ShutdownMsg>>
      <3>1. ShutdownMsg \in Msgs /\ ShutdownMsg.type = "shutdown"
        BY MsgShutdown DEF ShutdownMsg
      <3>2. QED
        BY <2>2, <3>1, OneQueued
    <2>3. QED
      BY <2>1, <2>2 DEF ShutdownMsgs
  <1> DEFINE u == <<m>>
  <1> HIDE DEF f, m
  <1>6. u \in Seq(Msgs) /\ \A T : Has(u, T) => m \in T
    BY <1>4, OneQueued
  <1> HIDE DEF u
  <1>7. /\ g \in Seq(Msgs) /\ \A T : Has(g, T) <=> Has(f, T) \/ Has(u, T)
    <2>1. f \in Seq(Msgs) /\ u \in Seq(Msgs) /\ g = f \o u
      BY <1>3, <1>6 DEF u
    <2>2. QED
      BY <2>1, Queued
  <1> HIDE DEF g
  <1>8. \A T : Has(out, T) <=> Has(g, T) \/ Has(s, T)
    <2>1. out = g \o s /\ g \in Seq(Msgs) /\ s \in Seq(Msgs)
      BY <1>1, <1>5, <1>7 DEF f, m, g
    <2>2. QED
      BY <2>1, Queued
  <1>9. SUFFICES ASSUME NEW T, Has(out, T)
                 PROVE  \E e \in Msgs : e \in T /\ (e.type \in {"fee", "shutdown"}
                                         \/ (e.type = "commit" /\ e.tx = y.g))
    OBVIOUS
  <1>10. CASE Has(f, T)
    BY <1>3, <1>10
  <1>11. CASE Has(u, T)
    BY <1>4, <1>6, <1>11
  <1>12. CASE Has(s, T)
    BY <1>5, <1>12
  <1>13. QED
    BY <1>7, <1>8, <1>9, <1>10, <1>11, <1>12

(* A commitment sent saves the id of every HTLC offered. *)
LEMMA SentIds ==
    ASSUME NEW n \in Nodes, NEW x, NodeType(n, x), Own(x),
           NEW y, NEW out, SendsCommit(n, x, y, out)
    PROVE  y.d.htlcId = x.p.htlcId
  <1> DEFINE a == x.d.htlcId
             b == x.p.htlcId
             c == x.c
  <1>1. y.d.htlcId = a + Cardinality(Unoffered(c))
    BY CommitMoves
  <1>2. c.htlcs \in HtlcMaps /\ b \in Nat /\ a \in Nat /\ a <= b
    BY DEF NodeType, GoodChan, ChanRecs, Own, Ids, PeerRecs, DbRecs
  <1>3. \A k \in Nat : Where(c, <<"local", k>>) = 0 <=> a <= k /\ k < b
    BY DEF Own, Ids, Mine
  <1> HIDE DEF a, b, c
  <1>4. a + Cardinality(Unoffered(c)) = b
    BY <1>2, <1>3, IdsCount DEF Unoffered
  <1>5. QED
    BY <1>1, <1>4 DEF b

(* x commits. *)
LEMMA FreshSent ==
    ASSUME NEW n \in Nodes, NEW x, NodeType(n, x), NEW z, LinkType(z), Fresh(x, z),
           Keeps(n, x), Own(x), Own(z), Link(x, z),
           NEW y, NEW out \in Seq(Msgs), SendsCommit(n, x, y, out), NEW w, Hears(z, w, out)
    PROVE  Fresh(y, w)
  <1> DEFINE q == z.q
             r == w.q
             a == x.d.htlcId
             b == x.p.htlcId
             t == y.g
  <1>1. /\ w.c = z.c /\ w.p = z.p /\ r = q \o out /\ q \in Seq(Msgs)
        /\ x.p \in PeerRecs /\ z.p \in PeerRecs /\ x.d \in DbRecs /\ x.c.htlcs \in HtlcMaps
    BY DEF Hears, LinkType, NodeType, GoodChan, ChanRecs
  <1>2. \A k : Theirs(w, k) = Theirs(z, k)
    BY <1>1 DEF Theirs
  <1>3. /\ y.p.htlcId = b /\ y.p.phase = "run" /\ b \in Nat /\ a \in Nat /\ a <= b
        /\ y.p.nextR = x.p.nextR + 1 /\ x.p.revs = x.p.nextR - 1
    BY <1>1 DEF SendsCommit, Own, Ids, PeerRecs, DbRecs
  <1>4. /\ \A h : Where(y.c, h) = Sent(Where(x.c, h))
        /\ y.d.htlcId = b
    BY CommitMoves, SentIds
  <1>5. ~Has(q, OfType("commit"))
    <2>1. /\ x.p.revs <= z.p.nextL - 1
          /\ Has(q, OfType("commit")) => x.p.nextR = z.p.nextL + 1
      BY DEF Link, LinkNums
    <2>2. x.p.nextR \in Nat /\ x.p.revs \in Nat /\ z.p.nextL \in Nat
      BY <1>1 DEF PeerRecs
    <2>3. QED
      BY <1>3, <2>1, <2>2
  <1>6. /\ \A k : ~Has(out, AddOf(k)) /\ ~Has(out, AddFrom(k))
        /\ ~Has(out, TxNot(t))
    <2>1. ASSUME NEW T, Has(out, T)
          PROVE  \E m \in Msgs : m \in T /\ (m.type \in {"fee", "shutdown"}
                                             \/ (m.type = "commit" /\ m.tx = t))
      BY <2>1, CommitSends
    <2> HIDE DEF t
    <2>2. QED
      BY <2>1 DEF AddOf, AddFrom, TxNot
  <1> HIDE DEF q, r, t
  <1>7. /\ \A T : Has(r, T) <=> Has(q, T) \/ Has(out, T)
        /\ \A T : One(r, T) <=> One(q, T) /\ One(out, T) /\ ~(Has(q, T) /\ Has(out, T))
        /\ \A S, T : Before(r, S, T) <=> /\ Before(q, S, T) /\ Before(out, S, T)
                                         /\ ~(Has(q, T) /\ Has(out, S))
    <2>1. r = q \o out /\ q \in Seq(Msgs) /\ out \in Seq(Msgs)
      BY <1>1
    <2>2. QED
      BY <2>1, Queued
  <1>8. \A s, T : ~Has(s, T) => One(s, T) /\ \A S : Before(s, S, T)
    BY DEF Has, One, Before
  <1>9. \A k \in Nat : /\ Theirs(z, k) # NoHtlc => k < b
                       /\ Has(q, AddOf(k)) => k < b /\ Theirs(z, k) = NoHtlc
                       /\ One(q, AddOf(k))
    BY DEF Fresh, KnownIds, NewAdds, q
  <1>10. KnownIds(y, w)
    BY <1>2, <1>3, <1>4, <1>9 DEF KnownIds
  <1>11. NewAdds(y, w)
    BY <1>2, <1>3, <1>6, <1>7, <1>8, <1>9 DEF NewAdds, r
  <1>12. SavedAdds(y, w)
    <2>1. ~Has(r, AddFrom(b))
      <3>1. ASSUME NEW m \in AddFrom(b), Has(q, {m})
            PROVE  FALSE
        <4>1. m \in Msgs /\ m.type = "add" /\ m.id >= b
          BY <3>1 DEF AddFrom
        <4>2. m.id \in Nat
          BY <4>1, MsgFields
        <4>3. Has(q, AddOf(m.id))
          BY <3>1, <4>1 DEF Has, AddOf
        <4>4. QED
          BY <1>3, <1>9, <4>1, <4>2, <4>3
      <3>2. ~Has(q, AddFrom(b))
        BY <3>1 DEF Has
      <3>3. QED
        BY <1>6, <1>7, <3>2
    <2>2. Before(r, OfType("commit"), AddFrom(b))
      BY <1>8, <2>1
    <2>3. \A k \in Nat : Theirs(w, k) = 10 => k < b
      BY <1>2, <1>9 DEF NoHtlc
    <2>4. QED
      BY <1>4, <2>2, <2>3 DEF SavedAdds, r
  <1>13. Cleared(y, w)
    BY <1>3 DEF Cleared
  <1>14. Awaited(y, w)
    <2>1. ASSUME NEW k \in Nat, Mine(y, k) = 1
          PROVE  Theirs(w, k) \in {NoHtlc, 10}
      <3>1. Where(x.c, <<"local", k>>) \in {0, 1}
        BY <1>1, <1>4, <2>1, WhereType DEF Mine, Sent
      <3>2. Where(x.c, <<"local", k>>) # 1
        BY <1>3 DEF Own, Last
      <3>3. a <= k
        BY <3>1, <3>2 DEF Own, Ids, Mine
      <3>4. Theirs(z, k) \notin {NoHtlc, 10} => k < a
        BY DEF Fresh, KnownIds
      <3> HIDE DEF a
      <3>5. ~(k < a)
        BY <1>3, <3>3
      <3>6. QED
        BY <1>2, <3>4, <3>5
    <2>2. QED
      BY <2>1 DEF Awaited
  <1>15. OneTx(y, w)
    <2>1. ~Has(q, TxNot(t))
      BY <1>5 DEF Has, TxNot, OfType
    <2>2. QED
      BY <1>6, <1>7, <2>1 DEF OneTx, t, r
  <1>16. QED
    BY <1>10, <1>11, <1>12, <1>13, <1>14, <1>15 DEF Fresh

(* What a node sends again when it has read a reestablish message. *)
LEMMA AnswerSends ==
    ASSUME NEW n \in Nodes, NEW x, NodeType(n, x), Signed(n, x), Own(x), NEW z, LinkType(z),
           Link(x, z), Link(z, x), NEW y, NEW out \in Seq(Msgs), Answers(n, x, y, out)
    PROVE  /\ \A k \in Nat : Has(out, AddOf(k)) =>
                 Mine(x, k) = 1 /\ x.p.nextR = z.p.nextL + 1
           /\ \A k : One(out, AddOf(k))
           /\ ~Has(out, AddFrom(x.d.htlcId))
           /\ ~Has(out, TxNot(x.g))
           /\ Has(out, OfType("commit")) => x.p.nextR = z.p.nextL + 1
           /\ \A T : Has(z.q, T) => \E m \in T : m.type = "reestablish"
  <1> DEFINE c == x.c
             p == x.p
             d == x.d
             m == Head(x.q)
             again == m.nc = p.nextR - 1
             q == z.q
             cm == CommitMsg(n, c, p.nextR - 1)
  <1>1. /\ GoodChan(c) /\ p \in PeerRecs /\ d \in DbRecs /\ out = Answer(n, c, p, d, m)
        /\ x.p.phase = "reestablish" /\ z.p \in PeerRecs /\ q \in Seq(Msgs)
    BY DEF NodeType, Answers, LinkType
  <1>2. /\ m = reestablish(z.p)
        /\ q = << >> \/ q = <<reestablish(x.p)>>
    <2>1. z.p.phase # "down" /\ z.p.phase \in {"run", "closing", "reestablish", "down"}
      BY <1>1 DEF Link, LinkPhase, PeerRecs
    <2>2. QED
      BY <1>1, <2>1 DEF Link, LinkPhase
  <1>3. again <=> z.p.nextL = p.nextR - 1
    BY <1>2 DEF reestablish
  <1>4. /\ p.nextR \in Nat /\ p.nextL \in Nat /\ z.p.nextL \in Nat /\ d.htlcId \in Nat
        /\ p.revs \in Nat
    BY <1>1 DEF PeerRecs, DbRecs
  <1>5. cm \in Msgs /\ cm.type = "commit" /\ cm.tx = x.g
    <2>1. p.nextR - 1 \in Int
      BY <1>4
    <2>2. CommitTx(n, c, "remote", p.nextR - 1) \in Txs
      BY <1>1, <2>1, CommitTxType DEF Sides
    <2>3. QED
      BY <2>2, MsgCommit DEF CommitMsg, Signed
  <1>6. /\ \A h : h \in in_state(c, 1) => Where(c, h) = 1 /\ h \in DOMAIN c.htlcs
        /\ in_state(c, 1) \subseteq {"local"} \X Nat
    <2>1. in_state(c, 1) \subseteq {htlc_state_owner(1)} \X Nat
      BY <1>1, InState DEF HtlcStates
    <2>2. htlc_state_owner(1) = "local"
      BY DEF htlc_state_owner, RCVD_ADD_HTLC
    <2>3. QED
      BY <2>1, <2>2 DEF in_state, Where, State
  <1> DEFINE ls == d.lastSent
             g == x.g
             a == d.htlcId
  <1>7. \A k \in Nat : Where(c, <<"local", k>>) = Mine(x, k)
    BY DEF Mine
  <1>8. \A k \in Nat : Mine(x, k) \notin {0, NoHtlc} => k < a
    BY DEF Own, Ids
  <1> HIDE DEF c, p, d, m, again, q, cm
  <1>9. /\ \A T : Has(out, T) <=>
             \/ again /\ \/ \E h \in ls \cap in_state(c, 16) : RemoveMsg(c, h) \in T
                         \/ \E h \in ls \cap in_state(c, 1) : AddMsg(c, h) \in T
                         \/ c.opener = "local" /\ FeeMsg(c) \in T
                         \/ cm \in T
             \/ m.nr = p.nextL - 2 /\ RevokeMsg(p.nextL - 2) \in T
             \/ p.sendShut /\ ShutdownMsg \in T
             \/ \E h \in in_state(c, 15) : RemoveMsg(c, h) \in T
    BY <1>1, Answered DEF again, cm
  <1>10. \A k : One(out, AddOf(k))
    BY <1>1, Answered
  <1>11. /\ \A h \in in_state(c, 16) : RemoveMsg(c, h).type \in {"none", "fulfill", "fail"}
         /\ \A h \in in_state(c, 15) : RemoveMsg(c, h).type \in {"none", "fulfill", "fail"}
         /\ \A h : AddMsg(c, h).type = "add" /\ AddMsg(c, h).id = h[2]
         /\ FeeMsg(c).type = "fee" /\ RevokeMsg(p.nextL - 2).type = "revoke"
         /\ ShutdownMsg.type = "shutdown"
    BY <1>1, InState DEF RemoveMsg, AddMsg, FeeMsg, RevokeMsg, ShutdownMsg, HtlcStates
  <1>12. ASSUME NEW T, \A e \in T : e.type = "add", Has(out, T)
         PROVE  again /\ \E h \in ls \cap in_state(c, 1) : AddMsg(c, h) \in T
    BY <1>5, <1>9, <1>11, <1>12
  <1>13. ASSUME NEW T, \A e \in T : e.type = "commit", Has(out, T)
         PROVE  again /\ cm \in T
    BY <1>5, <1>9, <1>11, <1>13
  <1>14. again => x.p.nextR = z.p.nextL + 1
    BY <1>3, <1>4 DEF p
  <1>15. ASSUME NEW k \in Nat, Has(out, AddOf(k))
         PROVE  Mine(x, k) = 1 /\ x.p.nextR = z.p.nextL + 1
    <2>1. \A e \in AddOf(k) : e.type = "add" /\ e.id = k
      BY DEF AddOf
    <2>2. again /\ \E h \in ls \cap in_state(c, 1) : AddMsg(c, h) \in AddOf(k)
      BY <1>12, <1>15, <2>1
    <2>3. PICK h \in in_state(c, 1) : AddMsg(c, h) \in AddOf(k)
      BY <2>2
    <2>4. h = <<"local", k>> /\ Where(c, h) = 1
      BY <1>6, <1>11, <2>1, <2>3
    <2>5. QED
      BY <1>7, <1>14, <2>2, <2>4
  <1>16. ~Has(out, AddFrom(a))
    <2> SUFFICES ASSUME Has(out, AddFrom(a))
                 PROVE  FALSE
      OBVIOUS
    <2> DEFINE T == AddFrom(a)
    <2>1. \A e \in T : e.type = "add" /\ e.id >= a
      BY DEF AddFrom
    <2>2. Has(out, T)
      OBVIOUS
    <2> HIDE DEF T
    <2>3. \E h \in ls \cap in_state(c, 1) : AddMsg(c, h) \in T
      BY <1>12, <2>1, <2>2
    <2>4. PICK h \in in_state(c, 1) : AddMsg(c, h) \in T
      BY <2>3
    <2>5. PICK k \in Nat : h = <<"local", k>>
      BY <1>6
    <2>6. Mine(x, k) = 1
      BY <1>6, <1>7, <2>5
    <2>7. k < a /\ k >= a
      BY <1>8, <1>11, <2>1, <2>4, <2>5, <2>6 DEF NoHtlc
    <2>8. a \in Nat
      BY <1>4
    <2> HIDE DEF a
    <2>9. QED
      BY <2>7, <2>8
  <1>17. ~Has(out, TxNot(g))
    <2>1. \A e \in TxNot(g) : e.type = "commit" /\ e.tx # g
      BY DEF TxNot
    <2>2. QED
      BY <1>5, <1>13, <2>1
  <1>18. Has(out, OfType("commit")) => x.p.nextR = z.p.nextL + 1
    <2>1. \A e \in OfType("commit") : e.type = "commit"
      BY DEF OfType
    <2>2. QED
      BY <1>13, <1>14, <2>1
  <1>19. ASSUME NEW T, Has(q, T)
         PROVE  \E e \in T : e.type = "reestablish"
    <2> DEFINE e == reestablish(x.p)
    <2>1. e \in Msgs /\ e.type = "reestablish"
      BY <1>4, MsgReestablish DEF reestablish, p
    <2>2. q = << >> \/ q = <<e>>
      BY <1>2
    <2> HIDE DEF e
    <2>3. q # << >>
      BY <1>19, NoneQueued
    <2>4. Has(<<e>>, T)
      BY <1>19, <2>2, <2>3
    <2>5. e \in T
      BY <2>1, <2>4, OneQueued
    <2>6. QED
      BY <2>1, <2>5
  <1>20. QED
    BY <1>10, <1>15, <1>16, <1>17, <1>18, <1>19 DEF g, a, d, q

(* x answers. *)
LEMMA FreshAnswers ==
    ASSUME NEW n \in Nodes, NEW x, NodeType(n, x), NEW z, LinkType(z), Fresh(x, z),
           Keeps(n, x), Own(x), Link(x, z), Link(z, x),
           NEW y, NEW out \in Seq(Msgs), Answers(n, x, y, out), NEW w, Hears(z, w, out)
    PROVE  Fresh(y, w)
  <1> DEFINE q == z.q
             r == w.q
             a == x.d.htlcId
             b == x.p.htlcId
             t == x.g
  <1>1. /\ w.c = z.c /\ w.p = z.p /\ r = q \o out /\ q \in Seq(Msgs)
        /\ x.p \in PeerRecs /\ z.p \in PeerRecs /\ x.d \in DbRecs
    BY DEF Hears, LinkType, NodeType
  <1>2. \A k : Theirs(w, k) = Theirs(z, k)
    BY <1>1 DEF Theirs
  <1>3. /\ y.p.htlcId = b /\ y.p.phase \in {"run", "closing"} /\ b \in Nat /\ a \in Nat /\ a <= b
        /\ y.p.nextR = x.p.nextR /\ y.d = x.d /\ y.g = x.g /\ y.c = x.c
        /\ x.p.phase = "reestablish"
    BY <1>1 DEF Answers, PeerKeeps, Goes, Own, Ids, PeerRecs, DbRecs
  <1>4. /\ \A k \in Nat : Has(out, AddOf(k)) => Mine(x, k) = 1 /\ x.p.nextR = z.p.nextL + 1
        /\ \A k : One(out, AddOf(k))
        /\ ~Has(out, AddFrom(a))
        /\ ~Has(out, TxNot(t))
        /\ \A T : Has(q, T) => \E m \in T : m.type = "reestablish"
    <2>1. Signed(n, x)
      BY DEF Keeps
    <2>2. \A k \in Nat : Has(out, AddOf(k)) => Mine(x, k) = 1 /\ x.p.nextR = z.p.nextL + 1
      BY <2>1, AnswerSends
    <2>3. \A k : One(out, AddOf(k))
      BY <2>1, AnswerSends
    <2>4. ~Has(out, AddFrom(a)) /\ ~Has(out, TxNot(t))
      BY <2>1, AnswerSends
    <2>5. \A T : Has(q, T) => \E m \in T : m.type = "reestablish"
      BY <2>1, AnswerSends
    <2>6. QED
      BY <2>2, <2>3, <2>4, <2>5
  <1>5. \A k \in Nat : Has(out, AddOf(k)) => k < b /\ Theirs(z, k) = NoHtlc
    <2> SUFFICES ASSUME NEW k \in Nat, Has(out, AddOf(k))
                 PROVE  k < b /\ Theirs(z, k) = NoHtlc
      OBVIOUS
    <2>1. Mine(x, k) = 1 /\ x.p.nextR = z.p.nextL + 1
      BY <1>4
    <2>2. Theirs(z, k) \in {NoHtlc, 10}
      BY <2>1 DEF Fresh, Awaited
    <2>3. Theirs(z, k) # 10
      BY <1>3 DEF Fresh, Cleared
    <2>4. k < a
      BY <2>1 DEF Own, Ids, NoHtlc
    <2> HIDE DEF a, b
    <2>5. k < b
      BY <1>3, <2>4
    <2>6. QED
      BY <2>2, <2>3, <2>5
  <1>6. /\ \A k : ~Has(q, AddOf(k)) /\ ~Has(q, AddFrom(k))
        /\ ~Has(q, TxNot(t)) /\ ~Has(q, OfType("commit"))
    BY <1>4 DEF AddOf, AddFrom, TxNot, OfType
  <1> HIDE DEF q, r, t
  <1>7. /\ \A T : Has(r, T) <=> Has(q, T) \/ Has(out, T)
        /\ \A T : One(r, T) <=> One(q, T) /\ One(out, T) /\ ~(Has(q, T) /\ Has(out, T))
        /\ \A S, T : Before(r, S, T) <=> /\ Before(q, S, T) /\ Before(out, S, T)
                                         /\ ~(Has(q, T) /\ Has(out, S))
    <2>1. r = q \o out /\ q \in Seq(Msgs) /\ out \in Seq(Msgs)
      BY <1>1
    <2>2. QED
      BY <2>1, Queued
  <1>8. \A s, T : ~Has(s, T) => One(s, T) /\ \A S : Before(s, S, T)
    BY DEF Has, One, Before
  <1>10. KnownIds(y, w)
    BY <1>2, <1>3 DEF Fresh, KnownIds
  <1>11. NewAdds(y, w)
    BY <1>2, <1>3, <1>4, <1>5, <1>6, <1>7, <1>8 DEF NewAdds, r
  <1>12. SavedAdds(y, w)
    <2>1. Before(r, OfType("commit"), AddFrom(a))
      BY <1>4, <1>6, <1>7, <1>8
    <2>2. \A k \in Nat : Theirs(w, k) # 10
      BY <1>2, <1>3 DEF Fresh, Cleared
    <2>3. QED
      BY <1>3, <2>1, <2>2 DEF SavedAdds, r
  <1>13. Cleared(y, w)
    BY <1>3 DEF Cleared
  <1>14. Awaited(y, w)
    BY <1>1, <1>2, <1>3 DEF Fresh, Awaited, Mine
  <1>15. OneTx(y, w)
    BY <1>3, <1>4, <1>6, <1>7 DEF OneTx, t, r
  <1>16. QED
    BY <1>10, <1>11, <1>12, <1>13, <1>14, <1>15 DEF Fresh

(* z reads an HTLC. *)
LEMMA FreshAdd ==
    ASSUME NEW n, NEW z, NodeType(n, z), NEW x, x.d \in DbRecs, Fresh(x, z), Link(x, z),
           Store(z.c, z.d), NEW w, GotAdd(n, z, w, << >>), NEW y, Hears(x, y, << >>)
    PROVE  /\ <<"remote", Head(z.q).id>> \notin DOMAIN z.c.htlcs
           /\ Fresh(y, w)
  <1> DEFINE q == z.q
             r == w.q
             m == Head(q)
             b == m.id
             a == x.d.htlcId
  <1>1. /\ q \in Seq(Msgs) /\ q # << >> /\ r = Tail(q) /\ m.type = "add" /\ z.p.phase = "run"
        /\ w.p = z.p /\ y.c = x.c /\ y.p = x.p /\ y.d = x.d /\ y.g = x.g
    BY DEF GotAdd, Reads, NodeType, Hears
  <1> HIDE DEF q, r, m
  <1>2. /\ m \in Msgs
        /\ \A S, T :
             /\ Has(q, T) <=> m \in T \/ Has(r, T)
             /\ One(q, T) <=> One(r, T) /\ ~(m \in T /\ Has(r, T))
             /\ Before(q, S, T) <=> /\ Before(r, S, T)
                                    /\ ~(m \in T /\ (m \in S \/ Has(r, S)))
    BY <1>1, Popped DEF m
  <1>3. b \in Nat /\ m \in AddOf(b)
    BY <1>1, <1>2, MsgFields DEF AddOf
  <1>4. /\ \A k \in Nat : Has(q, AddOf(k)) => k < x.p.htlcId /\ Theirs(z, k) = NoHtlc
        /\ \A k \in Nat : One(q, AddOf(k))
    BY DEF Fresh, NewAdds, q
  <1>5. b < x.p.htlcId /\ Theirs(z, b) = NoHtlc
    BY <1>2, <1>3, <1>4
  <1>6. <<"remote", b>> \notin DOMAIN z.c.htlcs
    <2>1. Where(z.c, <<"remote", b>>) = NoHtlc
      BY <1>5 DEF Theirs
    <2>2. z.c.htlcs \in HtlcMaps
      BY DEF NodeType, GoodChan, ChanRecs
    <2>3. QED
      BY <2>1, <2>2, WhereType
  <1>7. Put(z.c, w.c, <<"remote", b>>, 10)
    <2>1. <<"remote", Head(z.q).id>> \notin DOMAIN z.c.htlcs
      BY <1>6 DEF m, q
    <2>2. Put(z.c, w.c, <<"remote", Head(z.q).id>>, 10)
      BY <2>1, AddPuts
    <2>3. QED
      BY <2>2 DEF m, q
  <1>8. \A k \in Nat : Theirs(w, k) = IF k = b THEN 10 ELSE Theirs(z, k)
    BY <1>7 DEF Put, Theirs
  <1> HIDE DEF b
  <1>9. KnownIds(y, w)
    BY <1>1, <1>5, <1>8 DEF Fresh, KnownIds
  <1>10. NewAdds(y, w)
    <2> SUFFICES ASSUME NEW k \in Nat
                 PROVE  /\ Has(r, AddOf(k)) => k < x.p.htlcId /\ Theirs(w, k) = NoHtlc
                        /\ One(r, AddOf(k))
      BY <1>1 DEF NewAdds, r
    <2>1. One(r, AddOf(k)) /\ ~(m \in AddOf(k) /\ Has(r, AddOf(k)))
      BY <1>2, <1>4
    <2>2. Has(r, AddOf(k)) => k # b
      BY <1>3, <2>1
    <2>3. QED
      BY <1>2, <1>4, <1>8, <2>1, <2>2
  <1>11. SavedAdds(y, w)
    <2>1. Before(q, OfType("commit"), AddFrom(a))
      BY DEF Fresh, SavedAdds, q
    <2>2. Has(q, OfType("commit")) => \A k \in Nat : Theirs(z, k) = 10 => k < a
      BY DEF Fresh, SavedAdds, q
    <2>3. Has(r, OfType("commit")) => b < a
      <3>1. Has(r, OfType("commit")) => m \notin AddFrom(a)
        BY <1>2, <2>1
      <3>2. b \in Nat /\ a \in Nat /\ m.id = b /\ m \in Msgs /\ m.type = "add"
        <4>1. a \in Nat
          BY DEF DbRecs
        <4>2. QED
          BY <1>1, <1>2, <1>3, <4>1 DEF b
      <3>3. m \notin AddFrom(a) => b < a
        <4> HIDE DEF a
        <4>1. QED
          BY <3>2 DEF AddFrom
      <3>4. QED
        BY <3>1, <3>3
    <2>4. QED
      BY <1>1, <1>2, <1>8, <2>1, <2>2, <2>3 DEF SavedAdds, r
  <1>12. Cleared(y, w)
    <2>1. x.p.phase \notin {"down", "reestablish"}
      BY <1>1 DEF Link, LinkPhase, q
    <2>2. QED
      BY <1>1, <2>1 DEF Cleared
  <1>13. Awaited(y, w)
    BY <1>1, <1>8 DEF Fresh, Awaited, Mine
  <1>14. OneTx(y, w)
    BY <1>1, <1>2 DEF Fresh, OneTx, q, r
  <1>15. QED
    BY <1>6, <1>9, <1>10, <1>11, <1>12, <1>13, <1>14 DEF Fresh, b, m, q

(* z reads a commitment. *)
LEMMA FreshTook ==
    ASSUME NEW n \in Nodes, NEW z, NodeType(n, z), NEW x, LinkType(x), Fresh(x, z), Link(x, z),
           Store(z.c, z.d), NEW w, NEW out, GotCommit(n, z, w, out), NEW y, Hears(x, y, out)
    PROVE  Fresh(y, w)
  <1> DEFINE q == z.q
             r == w.q
             m == Head(q)
             a == x.d.htlcId
  <1>1. /\ q \in Seq(Msgs) /\ q # << >> /\ r = Tail(q) /\ m.type = "commit" /\ z.p.phase = "run"
        /\ w.p.nextL = z.p.nextL + 1
        /\ y.c = x.c /\ y.p = x.p /\ y.d = x.d /\ y.g = x.g
        /\ x.p.nextR \in Nat /\ z.p.nextL \in Nat
    BY DEF GotCommit, Reads, NodeType, Hears, LinkType, PeerRecs
  <1> HIDE DEF q, r, m
  <1>2. /\ m \in Msgs
        /\ \A S, T :
             /\ Has(q, T) <=> m \in T \/ Has(r, T)
             /\ One(q, T) <=> One(r, T) /\ ~(m \in T /\ Has(r, T))
             /\ Before(q, S, T) <=> /\ Before(r, S, T)
                                    /\ ~(m \in T /\ (m \in S \/ Has(r, S)))
    BY <1>1, Popped DEF m
  <1>3. Has(q, OfType("commit"))
    BY <1>1, <1>2 DEF OfType
  <1>4. x.p.nextR = z.p.nextL + 1
    BY <1>3 DEF Link, LinkNums, q
  <1>5. \A k \in Nat : Theirs(w, k) = Took(Theirs(z, k)) /\ Theirs(z, k) \in 0..20
    <2>1. \A h : Where(w.c, h) = Took(Where(z.c, h))
      BY TookMoves
    <2>2. z.c.htlcs \in HtlcMaps
      BY DEF NodeType, GoodChan, ChanRecs
    <2>3. QED
      BY <2>1, <2>2, WhereType DEF Theirs
  <1>6. \A i \in 0..20 : /\ Took(i) # 10
                         /\ i = NoHtlc => Took(i) = NoHtlc
                         /\ Took(i) # NoHtlc => i # NoHtlc
    BY DEF Took, NoHtlc
  <1>7. \A k \in Nat : /\ Theirs(w, k) # 10
                       /\ Theirs(w, k) # NoHtlc => Theirs(z, k) # NoHtlc
    BY <1>5, <1>6
  <1>8. KnownIds(y, w)
    <2>1. \A k \in Nat : Theirs(z, k) = 10 => k < a
      BY <1>3 DEF Fresh, SavedAdds, q
    <2>2. \A k \in Nat : Theirs(z, k) \notin {NoHtlc, 10} => k < a
      BY DEF Fresh, KnownIds
    <2>3. \A k \in Nat : Theirs(z, k) # NoHtlc => k < x.p.htlcId
      BY DEF Fresh, KnownIds
    <2>4. \A k \in Nat : Theirs(w, k) # NoHtlc => k < a /\ k < x.p.htlcId
      BY <1>7, <2>1, <2>2, <2>3
    <2>5. QED
      BY <1>1, <2>4 DEF KnownIds
  <1>9. NewAdds(y, w)
    <2>1. \A k \in Nat : Has(q, AddOf(k)) => k < x.p.htlcId /\ Theirs(z, k) = NoHtlc
      BY DEF Fresh, NewAdds, q
    <2>2. \A k \in Nat : One(q, AddOf(k))
      BY DEF Fresh, NewAdds, q
    <2>3. QED
      BY <1>1, <1>2, <1>7, <2>1, <2>2 DEF NewAdds, r
  <1>10. SavedAdds(y, w)
    <2>1. Before(q, OfType("commit"), AddFrom(a))
      BY DEF Fresh, SavedAdds, q
    <2>2. QED
      BY <1>1, <1>2, <1>7, <2>1 DEF SavedAdds, r
  <1>11. Cleared(y, w)
    BY <1>7 DEF Cleared
  <1>12. Awaited(y, w)
    BY <1>1, <1>4 DEF Awaited
  <1>13. OneTx(y, w)
    BY <1>1, <1>2 DEF Fresh, OneTx, q, r
  <1>14. QED
    BY <1>8, <1>9, <1>10, <1>11, <1>12, <1>13 DEF Fresh

(* The connection breaks. *)
LEMMA FreshBreak ==
    ASSUME NEW n \in Nodes, NEW x, NodeType(n, x), NEW y, Breaks(n, x, y), Store(x.c, x.d),
           NEW m \in Nodes, NEW z, NodeType(m, z), NEW w, Breaks(m, z, w), Store(z.c, z.d),
           Nums(x), Nums(z), Fresh(x, z)
    PROVE  Fresh(y, w)
  <1>1. /\ \A h : Kept(Where(x.c, h), Where(y.c, h))
        /\ SameNums(x.p, y.p) /\ y.p.htlcId = x.d.htlcId /\ y.d = x.d /\ y.g = x.g
    <2>1. \A h : Kept(Where(x.c, h), Where(y.c, h))
      BY BreakMoves
    <2>2. SameNums(x.p, y.p)
      BY BreakMoves
    <2>3. QED
      BY <2>1, <2>2, BreakMoves
  <1>2. /\ \A h : Kept(Where(z.c, h), Where(w.c, h))
        /\ SameNums(z.p, w.p) /\ w.q = << >>
    <2>1. \A h : Kept(Where(z.c, h), Where(w.c, h))
      BY BreakMoves
    <2>2. SameNums(z.p, w.p)
      BY BreakMoves
    <2>3. QED
      BY <2>1, <2>2, BreakMoves
  <1>3. \A k \in Nat : /\ Theirs(w, k) # 10
                       /\ Theirs(w, k) # NoHtlc => Theirs(z, k) \notin {NoHtlc, 10}
                       /\ Mine(y, k) = 1 => Mine(x, k) = 1
    BY <1>1, <1>2 DEF Theirs, Mine, Kept, NoHtlc
  <1>4. \A S, T : ~Has(w.q, T) /\ One(w.q, T) /\ Before(w.q, S, T)
    BY <1>2, NoneQueued
  <1>5. KnownIds(y, w)
    BY <1>1, <1>3 DEF Fresh, KnownIds
  <1>6. NewAdds(y, w)
    BY <1>4 DEF NewAdds
  <1>7. SavedAdds(y, w)
    BY <1>4 DEF SavedAdds
  <1>8. Cleared(y, w)
    BY <1>3 DEF Cleared
  <1>9. Awaited(y, w)
    BY <1>1, <1>2, <1>3 DEF Fresh, Awaited, SameNums
  <1>10. OneTx(y, w)
    BY <1>4 DEF OneTx
  <1>11. QED
    BY <1>5, <1>6, <1>7, <1>8, <1>9, <1>10 DEF Fresh

(* The nodes reconnect. *)
LEMMA FreshReopen ==
    ASSUME NEW x, LinkType(x), NEW z, LinkType(z), Fresh(x, z),
           NEW y, Reopens(x, y, z), NEW w, Reopens(z, w, x)
    PROVE  Fresh(y, w)
  <1> DEFINE m == reestablish(x.p)
  <1>1. /\ y.c = x.c /\ y.d = x.d /\ y.g = x.g /\ w.c = z.c /\ w.q = <<m>>
        /\ x.p.phase = "down" /\ y.p.htlcId = x.p.htlcId /\ y.p.nextR = x.p.nextR
        /\ w.p.nextL = z.p.nextL
    BY DEF Reopens, LinkType, PeerRecs
  <1>2. m \in Msgs /\ m.type = "reestablish"
    BY MsgReestablish DEF reestablish, LinkType, PeerRecs
  <1> HIDE DEF m
  <1>3. \A S, T : /\ Has(<<m>>, T) <=> m \in T
                  /\ One(<<m>>, T)
                  /\ Before(<<m>>, S, T) <=> ~(m \in S /\ m \in T)
    BY <1>2, OneQueued
  <1>4. /\ \A k : m \notin AddOf(k) /\ m \notin AddFrom(k) /\ m \notin TxNot(k)
        /\ m \notin OfType("commit")
    BY <1>2 DEF AddOf, AddFrom, TxNot, OfType
  <1>5. \A k : Theirs(w, k) = Theirs(z, k) /\ Mine(y, k) = Mine(x, k)
    BY <1>1 DEF Theirs, Mine
  <1>6. KnownIds(y, w)
    BY <1>1, <1>5 DEF Fresh, KnownIds
  <1>7. NewAdds(y, w)
    BY <1>1, <1>3, <1>4 DEF NewAdds
  <1>8. SavedAdds(y, w)
    BY <1>1, <1>3, <1>4 DEF SavedAdds
  <1>9. Cleared(y, w)
    BY <1>1, <1>5 DEF Fresh, Cleared
  <1>10. Awaited(y, w)
    BY <1>1, <1>5 DEF Fresh, Awaited
  <1>11. OneTx(y, w)
    BY <1>1, <1>3, <1>4 DEF OneTx
  <1>12. QED
    BY <1>6, <1>7, <1>8, <1>9, <1>10, <1>11 DEF Fresh

(* At first. *)
LEMMA FreshInit ==
    ASSUME Init, NEW n \in Nodes
    PROVE  Fresh(Node(n), Node(Peer(n)))
  <1> DEFINE x == Node(n)
             z == Node(Peer(n))
  <1>1. /\ \A h : Where(x.c, h) = NoHtlc
        /\ \A h : Where(z.c, h) = NoHtlc
        /\ z.q = << >>
    BY KeepsInit, TwoNodes
  <1> HIDE DEF x, z
  <1>2. \A k : Theirs(z, k) = NoHtlc /\ Mine(x, k) = NoHtlc
    BY <1>1 DEF Theirs, Mine
  <1>3. \A S, T : ~Has(z.q, T) /\ One(z.q, T) /\ Before(z.q, S, T)
    BY <1>1, NoneQueued
  <1>4. Fresh(x, z)
    BY <1>2, <1>3 DEF Fresh, KnownIds, NewAdds, SavedAdds, Cleared, Awaited, OneTx, NoHtlc
  <1>5. QED
    BY <1>4 DEF x, z
=============================================================================
