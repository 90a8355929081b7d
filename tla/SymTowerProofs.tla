--------------------------- MODULE SymTowerProofs ---------------------------
(* The keyless tower and the record it reads, for any number of states, a   *)
(* chain of any length, any number of reorgs and failures and any delay.    *)
EXTENDS SymTower, SequenceTheorems, WellFoundedInduction, TLAPS

(* The end of two sequences put together. *)
LEMMA LastOfConcat ==
    ASSUME NEW s \in Seq(Int), NEW t \in Seq(Int), t # <<>>
    PROVE  /\ s \o t \in Seq(Int) /\ s \o t # <<>> /\ Len(s \o t) = Len(s) + Len(t)
           /\ Len(t) > 0 /\ Last(s \o t) = Last(t)
  <1>1. Len(t) \in Nat /\ Len(t) > 0 /\ Len(s) \in Nat
    BY EmptySeq
  <1>2. /\ s \o t \in Seq(Int) /\ Len(s \o t) = Len(s) + Len(t)
        /\ \A i \in 1..Len(s) + Len(t) : (s \o t)[i] = IF i <= Len(s) THEN s[i] ELSE t[i - Len(s)]
    BY ConcatProperties
  <1>3. Len(s) + Len(t) \in 1..Len(s) + Len(t) /\ ~(Len(s) + Len(t) <= Len(s))
        /\ (Len(s) + Len(t)) - Len(s) = Len(t)
    BY <1>1
  <1>4. (s \o t)[Len(s) + Len(t)] = t[Len(t)]
    BY <1>2, <1>3
  <1>5. s \o t # <<>>
    BY <1>1, <1>2
  <1>6. QED
    BY <1>1, <1>2, <1>4, <1>5 DEF Last

(* Induction over the naturals, for a set of them. *)
LEMMA UpwardInduction ==
    ASSUME NEW Good, 0 \in Good, \A n \in Nat : n \in Good => n + 1 \in Good
    PROVE  Nat \subseteq Good
  <1> DEFINE Bad == Nat \ Good
             R == OpToRel(<, Nat)
  <1>1. SUFFICES ASSUME Bad # {} PROVE FALSE
    OBVIOUS
  <1>2. IsWellFoundedOn(R, Nat)
    BY NatLessThanWellFounded
  <1>3. \A a, b \in Nat : a < b => <<a, b>> \in R
    BY DEF OpToRel
  <1>4. Bad \subseteq Nat
    OBVIOUS
  <1> HIDE DEF Bad, R
  <1>5. PICK n \in Bad : \A m \in Bad : <<m, n>> \notin R
    BY <1>1, <1>2, <1>4, WFMin
  <1>6. n \in Nat /\ n # 0
    BY <1>4 DEF Bad
  <1>7. n - 1 \in Nat /\ n - 1 < n /\ n = (n - 1) + 1
    BY <1>6
  <1>8. n - 1 \notin Bad
    BY <1>3, <1>5, <1>6, <1>7
  <1>9. n \in Good
    BY <1>7, <1>8 DEF Bad
  <1>10. QED
    BY <1>9 DEF Bad

-----------------------------------------------------------------------------
(* FlattenSeq() over the blocks of a chain. *)

(* f holds the spends up to each of the first m blocks of c. *)
Flattens(f, c, m) == f = [i \in 1..m |-> IF i = 1 THEN c[i] ELSE f[i-1] \o c[i]]

(* Block by block. *)
LEMMA FlatAt ==
    ASSUME NEW f, NEW c, NEW m, Flattens(f, c, m), NEW i \in 1..m
    PROVE  f[i] = IF i = 1 THEN c[i] ELSE f[i-1] \o c[i]
  <1> DEFINE v(j) == IF j = 1 THEN c[j] ELSE f[j-1] \o c[j]
  <1>1. f = [j \in 1..m |-> v(j)]
    BY DEF Flattens
  <1> HIDE DEF v
  <1>2. f[i] = v(i)
    BY <1>1
  <1>3. QED
    BY <1>2 DEF v

(* One block more. *)
LEMMA FlatNext ==
    ASSUME NEW f, NEW c, NEW m \in Nat, Flattens(f, c, m), NEW j \in Nat, j # 0, j + 1 \in 1..m
    PROVE  f[j + 1] = f[j] \o c[j + 1]
  <1>0. ASSUME NEW i \in 1..m PROVE f[i] = IF i = 1 THEN c[i] ELSE f[i-1] \o c[i]
    BY FlatAt
  <1> DEFINE i == j + 1
  <1>1. i \in 1..m /\ i # 1 /\ i - 1 = j
    OBVIOUS
  <1> HIDE DEF i
  <1>2. f[i] = IF i = 1 THEN c[i] ELSE f[i-1] \o c[i]
    BY <1>0, <1>1
  <1>3. f[i] = f[j] \o c[i]
    BY <1>1, <1>2
  <1>4. QED
    BY <1>3 DEF i

(* There is such an f. *)
LEMMA FlatExists == \A c : \A m \in Nat : \E f : Flattens(f, c, m)
  <1>1. SUFFICES ASSUME NEW c PROVE \A m \in Nat : \E f : Flattens(f, c, m)
    OBVIOUS
  <1> DEFINE Good == {m \in Nat : \E f : Flattens(f, c, m)}
  <1>2. 0 \in Good
    <2> DEFINE f == [i \in 1..0 |-> c[i]]
    <2>1. Flattens(f, c, 0)
      BY DEF Flattens
    <2>2. QED
      BY <2>1
  <1>3. ASSUME NEW m \in Nat, m \in Good PROVE m + 1 \in Good
    <2>1. PICK f : Flattens(f, c, m)
      BY <1>3
    <2> DEFINE g == [i \in 1..(m + 1) |->
                       IF i = 1 THEN c[i] ELSE f[i-1] \o c[i]]
    <2>2. ASSUME NEW i \in 1..m PROVE g[i] = f[i]
      <3>1. i \in 1..(m + 1)
        OBVIOUS
      <3>2. f[i] = IF i = 1 THEN c[i] ELSE f[i-1] \o c[i]
        BY <2>1, FlatAt
      <3>3. QED
        BY <3>1, <3>2
    <2>3. \A i \in 1..(m + 1) : i # 1 => i - 1 \in 1..m
      OBVIOUS
    <2>4. g = [i \in 1..(m + 1) |-> IF i = 1 THEN c[i] ELSE g[i-1] \o c[i]]
      <3>1. ASSUME NEW i \in 1..(m + 1)
            PROVE  g[i] = IF i = 1 THEN c[i] ELSE g[i-1] \o c[i]
        BY <2>2, <2>3
      <3>2. QED
        BY <3>1
    <2> HIDE DEF g
    <2>5. Flattens(g, c, m + 1)
      BY <2>4 DEF Flattens
    <2>6. QED
      BY <2>5
  <1> HIDE DEF Good
  <1>4. Nat \subseteq Good
    BY <1>2, <1>3, UpwardInduction
  <1>5. QED
    BY <1>4 DEF Good

(* It depends only on the blocks it covers. *)
LEMMA FlatAgrees ==
    ASSUME NEW c, NEW e, NEW m \in Nat, NEW l \in Nat, NEW f, NEW g,
           Flattens(f, c, m), Flattens(g, e, l), m <= l, \A i \in 1..m : c[i] = e[i]
    PROVE  \A i \in 1..m : f[i] = g[i]
  <1> DEFINE Good == {j \in Nat : j \in 1..m => f[j] = g[j]}
  <1>1. 0 \in Good
    OBVIOUS
  <1>2. ASSUME NEW j \in Nat, j \in Good PROVE j + 1 \in Good
    <2>1. SUFFICES ASSUME j + 1 \in 1..m PROVE f[j + 1] = g[j + 1]
      OBVIOUS
    <2>2. j + 1 \in 1..l /\ c[j + 1] = e[j + 1] /\ (j + 1) - 1 = j
      BY <2>1
    <2>3. CASE j = 0
      BY <2>1, <2>2, <2>3 DEF Flattens
    <2>4. CASE j # 0
      <3>1. f[j] = g[j]
        BY <1>2, <2>1, <2>4
      <3>2. f[j + 1] = f[j] \o c[j + 1]
        BY <2>1, <2>4, FlatNext
      <3>3. g[j + 1] = g[j] \o e[j + 1]
        BY <2>2, <2>4, FlatNext
      <3>4. QED
        BY <2>2, <3>1, <3>2, <3>3
    <2>5. QED
      BY <2>3, <2>4
  <1> HIDE DEF Good
  <1>3. Nat \subseteq Good
    BY <1>1, <1>2, UpwardInduction
  <1>4. QED
    BY <1>3 DEF Good

Blocks == Seq(Int)

(* What FlattenSeq() returns. *)
LEMMA FlatValue ==
    ASSUME NEW c \in Seq(Blocks), Len(c) # 0
    PROVE  \E f : Flattens(f, c, Len(c)) /\ Spends(c) = f[Len(c)]
  <1> DEFINE f == CHOOSE g : Flattens(g, c, Len(c))
  <1>1. Len(c) \in Nat
    OBVIOUS
  <1>2. Flattens(f, c, Len(c))
    BY <1>1, FlatExists
  <1>3. Spends(c) = f[Len(c)]
    BY DEF Spends, FlattenSeq, Flattens
  <1> HIDE DEF f
  <1>4. QED
    BY <1>2, <1>3

(* A chain without blocks spends nothing, ... *)
LEMMA SpendsEmpty == Spends(<<>>) = <<>>
  BY DEF Spends, FlattenSeq

(* ... and each further block adds its own spends. *)
LEMMA SpendsAppend ==
    ASSUME NEW c \in Seq(Blocks), NEW b \in Blocks, Spends(c) \in Seq(Int)
    PROVE  Spends(Append(c, b)) = Spends(c) \o b
  <1> DEFINE e == Append(c, b)
  <1>1. /\ e \in Seq(Blocks) /\ Len(e) = Len(c) + 1 /\ e[Len(c) + 1] = b
        /\ \A i \in 1..Len(c) : c[i] = e[i]
        /\ Len(c) \in Nat /\ Len(e) # 0
    BY AppendProperties
  <1> HIDE DEF e
  <1>2. PICK g : Flattens(g, e, Len(e)) /\ Spends(e) = g[Len(e)]
    BY <1>1, FlatValue
  <1>3. CASE Len(c) = 0
    <2>1. c = <<>> /\ Spends(c) = <<>>
      BY <1>3, SpendsEmpty
    <2>2. g[1] = e[1]
      BY <1>1, <1>2, <1>3, FlatAt
    <2>3. <<>> \o b = b
      BY ConcatEmptySeq DEF Blocks
    <2>4. Spends(e) = b
      BY <1>1, <1>2, <1>3, <2>2
    <2>5. QED
      BY <2>1, <2>3, <2>4 DEF e
  <1>4. CASE Len(c) # 0
    <2>1. PICK f : Flattens(f, c, Len(c)) /\ Spends(c) = f[Len(c)]
      BY <1>4, FlatValue
    <2>2. Len(c) \in 1..Len(c) /\ Len(c) <= Len(e) /\ Len(e) \in Nat
      BY <1>1, <1>4
    <2>3. f[Len(c)] = g[Len(c)]
      <3>1. \A i \in 1..Len(c) : c[i] = e[i]
        BY <1>1
      <3>2. Flattens(f, c, Len(c)) /\ Flattens(g, e, Len(e)) /\ Len(c) \in Nat /\ Len(e) \in Nat
            /\ Len(c) <= Len(e)
        BY <1>1, <1>2, <2>1, <2>2
      <3>3. \A i \in 1..Len(c) : f[i] = g[i]
        BY <3>1, <3>2, FlatAgrees, SMTT(60)
      <3>4. QED
        BY <2>2, <3>3
    <2>4. g[Len(c) + 1] = g[Len(c)] \o e[Len(c) + 1]
      <3>1. Len(c) + 1 \in 1..Len(e)
        BY <1>1
      <3>2. QED
        BY <1>1, <1>2, <1>4, <2>2, <3>1, FlatNext
    <2>5. QED
      BY <1>1, <1>2, <2>1, <2>3, <2>4 DEF e
  <1>5. QED
    BY <1>3, <1>4

(* The first h blocks of a chain. *)
LEMMA UptoFacts ==
    ASSUME NEW c \in Seq(Blocks), NEW h \in 0..Len(c)
    PROVE  /\ Upto(c, h) \in Seq(Blocks) /\ Len(Upto(c, h)) = h
           /\ \A i \in 1..h : Upto(c, h)[i] = c[i]
           /\ h = Len(c) => Upto(c, h) = c
           /\ Upto(c, 0) = <<>>
           /\ h # 0 => Upto(c, h) = Append(Upto(c, h - 1), c[h]) /\ c[h] \in Blocks
  <1>1. \A i \in 1..Len(c) : c[i] \in Blocks
    BY ElementOfSeq
  <1>2. /\ Upto(c, h) \in Seq(Blocks) /\ Len(Upto(c, h)) = h
        /\ \A i \in 1..h : Upto(c, h)[i] = c[i]
    BY <1>1, SubSeqProperties DEF Upto
  <1>3. h = Len(c) => Upto(c, h) = c
    BY SubSeqFull DEF Upto
  <1>4. Upto(c, 0) = <<>>
    BY SubSeqEmpty DEF Upto
  <1>5. ASSUME h # 0 PROVE Upto(c, h) = Append(Upto(c, h - 1), c[h]) /\ c[h] \in Blocks
    <2>1. 1 \in 1..Len(c) /\ h \in 1..Len(c) /\ h - 1 \in 0..Len(c)
      BY <1>5
    <2>2. Upto(c, h) = Upto(c, h - 1) \o <<c[h]>>
      BY <2>1, SubSeqRecursiveSecond DEF Upto
    <2>3. Upto(c, h - 1) \in Seq(Blocks)
      BY <1>1, <2>1, SubSeqProperties DEF Upto
    <2>4. QED
      BY <1>1, <2>1, <2>2, <2>3, AppendIsConcat
  <1>6. QED
    BY <1>2, <1>3, <1>4, <1>5

(* The spends up to a block are those up to the one before, and its own. *)
LEMMA SpendsUpto ==
    ASSUME NEW c \in Seq(Blocks)
    PROVE  \A h \in 0..Len(c) :
              /\ Spends(Upto(c, h)) \in Seq(Int)
              /\ h # 0 => Spends(Upto(c, h)) = Spends(Upto(c, h - 1)) \o c[h]
  <1> DEFINE P(h) == /\ Spends(Upto(c, h)) \in Seq(Int)
                     /\ h # 0 => Spends(Upto(c, h)) = Spends(Upto(c, h - 1)) \o c[h]
             Good == {h \in Nat : h \in 0..Len(c) => P(h)}
  <1>1. 0 \in Good
    <2>1. 0 \in 0..Len(c)
      OBVIOUS
    <2>2. Spends(Upto(c, 0)) = <<>> /\ <<>> \in Seq(Int)
      BY <2>1, UptoFacts, SpendsEmpty
    <2>3. QED
      BY <2>2
  <1>2. ASSUME NEW h \in Nat, h \in Good PROVE h + 1 \in Good
    <2>1. SUFFICES ASSUME h + 1 \in 0..Len(c) PROVE P(h + 1)
      OBVIOUS
    <2>2. h \in 0..Len(c) /\ (h + 1) - 1 = h /\ h + 1 # 0
      BY <2>1
    <2>3. Spends(Upto(c, h)) \in Seq(Int) /\ Upto(c, h) \in Seq(Blocks)
      BY <1>2, <2>2, UptoFacts
    <2>4. Upto(c, h + 1) = Append(Upto(c, h), c[h + 1]) /\ c[h + 1] \in Blocks
      <3> DEFINE g == h + 1
      <3>1. g \in 0..Len(c) /\ g # 0 /\ g - 1 = h
        BY <2>1, <2>2
      <3> HIDE DEF g
      <3>2. Upto(c, g) = Append(Upto(c, g - 1), c[g]) /\ c[g] \in Blocks
        BY <3>1, UptoFacts
      <3>3. Upto(c, g) = Append(Upto(c, h), c[g]) /\ c[g] \in Blocks
        BY <3>1, <3>2
      <3>4. QED
        BY <3>3 DEF g
    <2>5. Spends(Upto(c, h + 1)) = Spends(Upto(c, h)) \o c[h + 1]
      BY <2>3, <2>4, SpendsAppend
    <2>6. Spends(Upto(c, h)) \o c[h + 1] \in Seq(Int)
      BY <2>3, <2>4, ConcatProperties DEF Blocks
    <2>7. QED
      BY <2>2, <2>5, <2>6
  <1> HIDE DEF P, Good
  <1>3. Nat \subseteq Good
    BY <1>1, <1>2, UpwardInduction
  <1>4. ASSUME NEW h \in 0..Len(c) PROVE P(h)
    <2>1. h \in Nat
      OBVIOUS
    <2>2. QED
      BY <1>3, <2>1 DEF Good
  <1>5. QED
    BY <1>4 DEF P

(* All the spends of a chain. *)
LEMMA SpendsType == \A c \in Seq(Blocks) : Spends(c) \in Seq(Int)
  <1>1. SUFFICES ASSUME NEW c \in Seq(Blocks) PROVE Spends(c) \in Seq(Int)
    OBVIOUS
  <1>2. Len(c) \in 0..Len(c)
    OBVIOUS
  <1>3. Upto(c, Len(c)) = c
    BY <1>2, UptoFacts
  <1>4. QED
    BY <1>2, <1>3, SpendsUpto

(* Blocks without spends add nothing. *)
LEMMA SpendsQuiet ==
    ASSUME NEW c \in Seq(Blocks), NEW l \in 0..Len(c), \A g \in (l + 1)..Len(c) : c[g] = <<>>
    PROVE  Spends(c) = Spends(Upto(c, l))
  <1> DEFINE Good == {h \in Nat : l + h <= Len(c) => Spends(Upto(c, l + h)) = Spends(Upto(c, l))}
  <1>1. 0 \in Good
    OBVIOUS
  <1>2. ASSUME NEW h \in Nat, h \in Good PROVE h + 1 \in Good
    <2> DEFINE g == l + (h + 1)
    <2>1. SUFFICES ASSUME g <= Len(c) PROVE Spends(Upto(c, g)) = Spends(Upto(c, l))
      OBVIOUS
    <2>2. g \in 0..Len(c) /\ g \in (l + 1)..Len(c) /\ g # 0 /\ g - 1 = l + h /\ l + h <= Len(c)
          /\ l + h \in 0..Len(c)
      BY <2>1
    <2>3. Spends(Upto(c, l + h)) = Spends(Upto(c, l))
      BY <1>2, <2>2
    <2> HIDE DEF g
    <2>4. Spends(Upto(c, g)) = Spends(Upto(c, g - 1)) \o c[g] /\ c[g] = <<>>
      BY <2>2, SpendsUpto
    <2>5. Spends(Upto(c, g - 1)) = Spends(Upto(c, l)) /\ Spends(Upto(c, l)) \in Seq(Int)
      BY <2>2, <2>3, SpendsUpto
    <2>6. QED
      BY <2>4, <2>5, ConcatEmptySeq
  <1> HIDE DEF Good
  <1>3. Nat \subseteq Good
    BY <1>1, <1>2, UpwardInduction
  <1>4. Len(c) - l \in Nat /\ l + (Len(c) - l) = Len(c)
    OBVIOUS
  <1>5. Spends(Upto(c, Len(c))) = Spends(Upto(c, l))
    <2> DEFINE h == Len(c) - l
    <2>1. h \in Nat /\ l + h = Len(c) /\ Len(c) <= Len(c)
      BY <1>4
    <2> HIDE DEF h
    <2>2. l + h <= Len(c) => Spends(Upto(c, l + h)) = Spends(Upto(c, l))
      BY <1>3, <2>1 DEF Good
    <2>3. QED
      BY <2>1, <2>2
  <1>6. QED
    BY <1>5, UptoFacts

(* The last block of a chain that holds spends, and what it ends with. *)
LEMMA MadeAtFacts ==
    ASSUME NEW c \in Seq(Blocks)
    PROVE  \/ MadeAt(c) = 0 /\ (\A h \in 1..Len(c) : c[h] = <<>>) /\ Spends(c) = <<>>
           \/ /\ MadeAt(c) \in 1..Len(c) /\ c[MadeAt(c)] # <<>>
              /\ \A h \in (MadeAt(c) + 1)..Len(c) : c[h] = <<>>
              /\ Spends(c) # <<>> /\ Last(Spends(c)) = Last(c[MadeAt(c)])
  <1> DEFINE held == {h \in 1..Len(c) : c[h] # <<>>}
             top == CHOOSE h \in held : \A g \in held : g <= h
  <1>1. CASE held = {}
    <2>1. MadeAt(c) = 0
      BY <1>1 DEF MadeAt
    <2>2. \A h \in (0 + 1)..Len(c) : c[h] = <<>>
      BY <1>1
    <2>3. 0 \in 0..Len(c)
      OBVIOUS
    <2>4. Spends(c) = <<>>
      BY <2>2, <2>3, SpendsQuiet, UptoFacts, SpendsEmpty
    <2>5. QED
      BY <2>1, <2>2, <2>4
  <1>2. CASE held # {}
    <2>1. \E h \in held : \A g \in held : g <= h
      <3> DEFINE Good == {n \in Nat : (\E h \in held : h >= Len(c) - n)
                                        => \E h \in held : \A g \in held : g <= h}
      <3>1. 0 \in Good
        <4>1. SUFFICES ASSUME NEW h \in held, h >= Len(c) PROVE \A g \in held : g <= h
          OBVIOUS
        <4>2. QED
          BY <4>1
      <3>2. ASSUME NEW n \in Nat, n \in Good PROVE n + 1 \in Good
        <4>1. SUFFICES ASSUME NEW h \in held, h >= Len(c) - (n + 1)
                       PROVE  \E i \in held : \A g \in held : g <= i
          OBVIOUS
        <4>2. CASE \E i \in held : i >= Len(c) - n
          BY <3>2, <4>2
        <4>3. CASE \A i \in held : ~(i >= Len(c) - n)
          <5>1. \A g \in held : g <= h
            BY <4>1, <4>3
          <5>2. QED
            BY <5>1
        <4>4. QED
          BY <4>2, <4>3
      <3> HIDE DEF Good
      <3>3. Nat \subseteq Good
        BY <3>1, <3>2, UpwardInduction
      <3>4. Len(c) \in Nat /\ \A h \in held : h >= Len(c) - Len(c)
        OBVIOUS
      <3>5. QED
        BY <1>2, <3>3, <3>4 DEF Good
    <2>2. top \in held /\ \A g \in held : g <= top
      BY <2>1
    <2>3. MadeAt(c) = top
      BY <1>2 DEF MadeAt
    <2> HIDE DEF top
    <2>4. top \in 1..Len(c) /\ c[top] # <<>> /\ top \in 0..Len(c) /\ top # 0
      BY <2>2
    <2>5. \A h \in (top + 1)..Len(c) : c[h] = <<>>
      BY <2>2, <2>4
    <2>6. Spends(c) = Spends(Upto(c, top))
      BY <2>4, <2>5, SpendsQuiet
    <2>7. /\ Spends(Upto(c, top)) = Spends(Upto(c, top - 1)) \o c[top]
          /\ Spends(Upto(c, top - 1)) \in Seq(Int)
      <3>1. top - 1 \in 0..Len(c)
        BY <2>4
      <3>2. QED
        BY <2>4, <3>1, SpendsUpto
    <2>8. c[top] \in Seq(Int)
      BY <2>4, ElementOfSeq DEF Blocks
    <2>9. Spends(c) # <<>> /\ Last(Spends(c)) = Last(c[top])
      BY <2>4, <2>6, <2>7, <2>8, LastOfConcat
    <2>10. QED
      BY <2>3, <2>4, <2>5, <2>9
  <1>3. QED
    BY <1>1, <1>2

-----------------------------------------------------------------------------
(* The invariant. *)

Slots == [local : States, remote : States \cup {NoState},
          pending : States \cup {NoState}]
Files == [best : States \cup {NoState}, pending : States \cup {NoState}]
Cursors == [hash : Seq(Blocks), cur : Seq(Int), height : Nat, done : BOOLEAN, bcast : Int,
            by : Files]
Rounds == [at : {"idle", "funding", "sync", "scan", "act"}, tip : Nat, may : BOOLEAN,
           s : Files]
Sends == [over : Seq(Int), to : States \cup {NoState, Settle}]

TowerTypeOK ==
    /\ chain \in Seq(Blocks)
    /\ db \in Slots /\ record \in Files
    /\ lost \in BOOLEAN
    /\ k \in Cursors
    /\ round \in Rounds
    /\ pool \subseteq Sends
    /\ clean \in BOOLEAN /\ torn \in BOOLEAN

(* What is pending is the peer's first state or the one after its last. *)
InTurn(m) ==
    \/ m.remote = NoState /\ m.pending \in {First, First + 2}
    \/ /\ m.remote \in States /\ m.remote > First /\ m.remote % 2 = First
       /\ m.pending \in {NoState, m.remote + 2}

(* A settlement or a mutual close is the last spend of a chain, and alone   *)
(* in its block.                                                            *)
Tidy(c) ==
    \A h \in 1..Len(c) :
        c[h] # <<>> /\ Ends(Last(c[h])) =>
            Len(c[h]) = 1 /\ \A g \in (h + 1)..Len(c) : c[g] = <<>>

(* Cursor j stands where a walk over the blocks of c ends. *)
Stands(j, c) ==
    LET p == Spends(c)
    IN  IF p # <<>> /\ Ends(Last(p)) THEN j.done /\ j.cur = Front(p)
        ELSE ~j.done /\ j.cur = p /\ j.height = MadeAt(c)

(* The walk is that over the blocks up to the last one scanned; while it    *)
(* goes on, these are blocks of the chain.                                  *)
Walked ==
    /\ Tidy(k.hash)
    /\ Len(k.hash) <= Len(chain)
    /\ ~torn => Stands(k, k.hash)
    /\ ~torn /\ round.at = "scan" => Upto(chain, Len(k.hash)) = k.hash

(* A round that nothing disturbed has the tip of the chain, and in the end  *)
(* its walk stands there.                                                   *)
CleanRound ==
    /\ clean /\ round.at # "idle" => round.tip = Len(chain)
    /\ clean /\ ~torn /\ round.at \in {"act", "idle"} => Stands(k, chain)

TowerInv ==
    /\ TowerTypeOK
    /\ InTurn(db)
    /\ RecordCovers
    /\ Tidy(chain)
    /\ Walked
    /\ CleanRound

-----------------------------------------------------------------------------
(* lightningd's record. *)

(* File f covers what a node with slots m has gone on with. *)
Covers(f, m) ==
    /\ f.best >= sym_best_state(m)
    /\ \A n \in Held(m) \ {First} : n <= f.best \/ n = f.pending

(* What the slots hold. *)
LEMMA SlotFacts ==
    ASSUME NEW m \in Slots
    PROVE  /\ m.local \in Int /\ m.local >= 0 /\ m.local <= MaxState
           /\ m.remote \in Int /\ m.pending \in Int
           /\ MaxState \in Int /\ First \in {0, 1} /\ NoState = -3
           /\ m.remote \in States => m.remote >= 0 /\ m.remote <= MaxState
           /\ m.remote \in States \/ m.remote = NoState
           /\ sym_best_state(m) \in States
           /\ sym_best_state(m) >= m.local /\ sym_best_state(m) >= m.remote
           /\ sym_best_state(m) = m.local \/ sym_best_state(m) = m.remote
           /\ File(m) \in Files /\ File(m).best = sym_best_state(m) /\ File(m).pending = m.pending
  <1>1. /\ m.local \in Int /\ m.local >= 0 /\ m.local <= MaxState
        /\ m.remote \in Int /\ m.pending \in Int
        /\ MaxState \in Int /\ First \in {0, 1} /\ NoState = -3
        /\ m.remote \in States => m.remote >= 0 /\ m.remote <= MaxState
        /\ m.remote \in States \/ m.remote = NoState
    BY TowerAssumption DEF Slots, States, NoState
  <1>2. /\ sym_best_state(m) >= m.local /\ sym_best_state(m) >= m.remote
        /\ sym_best_state(m) = m.local \/ sym_best_state(m) = m.remote
    BY <1>1 DEF sym_best_state
  <1>5. sym_best_state(m) \in States
    <2>1. m.local \in States
      BY DEF Slots
    <2>2. CASE m.remote = NoState
      BY <1>1, <2>1, <2>2 DEF sym_best_state
    <2>3. CASE m.remote \in States
      BY <2>1, <2>3 DEF sym_best_state
    <2>4. QED
      BY <1>1, <2>2, <2>3
  <1>3. File(m) \in Files /\ File(m).best = sym_best_state(m) /\ File(m).pending = m.pending
    BY <1>1, <1>5 DEF File, Files, Slots
  <1>4. QED
    BY <1>1, <1>2, <1>3, <1>5

(* The states of a node that the slots cannot replace. *)
LEMMA HeldFacts ==
    ASSUME NEW m \in Slots, InTurn(m), NEW n \in Held(m), n # First
    PROVE  n <= m.local \/ n <= m.remote \/ (m.pending # NoState /\ n = m.pending)
  <1>1. n \in Int /\ n >= 0 /\ First \in {0, 1} /\ NoState = -3 /\ n <= Newest(m, n)
    BY TowerAssumption DEF Held, States, NoState
  <1>2. CASE n % 2 # First
    BY <1>1, <1>2 DEF Newest
  <1>3. CASE n % 2 = First
    <2> DEFINE r == m.remote
               q == m.pending
    <2>1. r \in Int /\ q \in Int /\ (n <= IF q # NoState THEN q ELSE r)
      BY <1>1, <1>3, SlotFacts DEF Newest
    <2>2. \/ r = NoState /\ q \in {First, First + 2}
          \/ r > First /\ r % 2 = First /\ q \in {NoState, r + 2}
      BY DEF InTurn
    <2> HIDE DEF r, q
    <2>3. n <= r \/ (q # NoState /\ n = q)
      BY <1>1, <1>3, <2>1, <2>2
    <2>4. QED
      BY <2>3 DEF r, q
  <1>4. QED
    BY <1>2, <1>3

(* A save covers itself. *)
LEMMA FileCovers ==
    ASSUME NEW m \in Slots, InTurn(m)
    PROVE  Covers(File(m), m)
  <1>1. \A n \in Held(m) \ {First} : n <= sym_best_state(m) \/ n = m.pending
    <2>1. SUFFICES ASSUME NEW n \in Held(m), n # First
                   PROVE  n <= sym_best_state(m) \/ n = m.pending
      OBVIOUS
    <2>2. n <= m.local \/ n <= m.remote \/ n = m.pending
      BY <2>1, HeldFacts
    <2>3. n \in Int
      BY DEF Held, States
    <2> DEFINE b == sym_best_state(m)
    <2>4. b \in Int /\ b >= m.local /\ b >= m.remote /\ m.local \in Int /\ m.remote \in Int
      BY SlotFacts DEF States
    <2> HIDE DEF b
    <2>5. n <= b \/ n = m.pending
      BY <2>2, <2>3, <2>4
    <2>6. QED
      BY <2>5 DEF b
  <1>2. sym_best_state(m) \in Int
    BY SlotFacts DEF States
  <1>3. QED
    BY <1>1, <1>2, SlotFacts DEF Covers

(* A save that holds all that was there before covers that too, and what is *)
(* replaced is the first state.                                             *)
LEMMA FileCoversOlder ==
    ASSUME NEW m \in Slots, InTurn(m), NEW e \in Slots,
           e.local >= m.local, e.remote >= m.remote,
           m.pending \in {NoState, First} \/ e.pending = m.pending \/ e.remote = m.pending
    PROVE  Covers(File(e), m)
  <1> DEFINE b == sym_best_state(e)
  <1>1. /\ b \in Int /\ b >= e.local /\ b >= e.remote
        /\ e.local \in Int /\ e.remote \in Int
        /\ m.local \in Int /\ m.remote \in Int
        /\ File(e).best = b /\ File(e).pending = e.pending
    BY SlotFacts DEF States
  <1> HIDE DEF b
  <1>2. sym_best_state(m) \in Int /\ b >= sym_best_state(m)
    <2> DEFINE c == sym_best_state(m)
    <2>1. c = m.local \/ c = m.remote
      BY SlotFacts
    <2> HIDE DEF c
    <2>2. c \in Int /\ b >= c
      BY <1>1, <2>1
    <2>3. QED
      BY <2>2 DEF c
  <1>3. ASSUME NEW n \in Held(m), n # First PROVE n <= b \/ n = e.pending
    <2>1. n <= m.local \/ n <= m.remote \/ (m.pending # NoState /\ n = m.pending)
      BY <1>3, HeldFacts
    <2>2. n \in Int
      BY DEF Held, States
    <2>3. QED
      BY <1>1, <1>3, <2>1, <2>2
  <1>4. QED
    BY <1>1, <1>2, <1>3 DEF Covers

(* Every save leaves a file that covers the database, whether it commits or *)
(* lightningd crashes first; one that fails is marked as lost.              *)
LEMMA SaveOK ==
    ASSUME TowerTypeOK, InTurn(db), RecordCovers, NEW e \in Slots, InTurn(e), sym_save(e),
           e.local >= db.local, e.remote >= db.remote,
           db.pending \in {NoState, First} \/ e.pending = db.pending \/ e.remote = db.pending
    PROVE  /\ db' \in Slots /\ record' \in Files /\ lost' \in BOOLEAN
           /\ InTurn(db)' /\ RecordCovers'
  <1>1. db \in Slots /\ record \in Files /\ File(e) \in Files
    BY SlotFacts DEF TowerTypeOK
  <1>2. Covers(File(e), e) /\ Covers(File(e), db)
    BY <1>1, FileCovers, FileCoversOlder
  <1>3. CASE record' = File(e) /\ db' = e /\ lost' = FALSE
    BY <1>1, <1>2, <1>3 DEF RecordCovers, Covers, InTurn, Held, Newest, sym_best_state
  <1>4. CASE record' = File(e) /\ db' = db /\ lost' = FALSE
    BY <1>1, <1>2, <1>4 DEF RecordCovers, Covers, InTurn, Held, Newest, sym_best_state
  <1>5. CASE record' = record /\ db' = e /\ lost' = TRUE
    BY <1>1, <1>5 DEF RecordCovers, InTurn
  <1>6. QED
    BY <1>3, <1>4, <1>5 DEF sym_save

(* The three reports of channeld. *)
LEMMA RecordOK ==
    ASSUME TowerTypeOK, InTurn(db), RecordCovers, Lightningd
    PROVE  /\ db' \in Slots /\ record' \in Files /\ lost' \in BOOLEAN
           /\ InTurn(db)' /\ RecordCovers'
  <1>0. db \in Slots
    BY DEF TowerTypeOK
  <1>1. /\ db.local \in Int /\ db.local >= 0 /\ db.local <= MaxState
        /\ db.remote \in Int /\ db.pending \in Int
        /\ MaxState \in Int /\ First \in {0, 1} /\ NoState = -3
        /\ db.remote \in States => db.remote >= 0 /\ db.remote <= MaxState
        /\ db.remote \in States \/ db.remote = NoState
    BY <1>0, SlotFacts
  <1>2. CASE sym_record_sent
    <2> DEFINE num == (IF db.remote = NoState THEN First ELSE db.remote) + 2
               e == [db EXCEPT !.pending = num]
    <2>1. db.pending \in {NoState, First} /\ sym_save(e)
      BY <1>2 DEF sym_record_sent
    <2>2. num \in States
      <3>1. num \in Int /\ num >= 0 /\ num <= MaxState
        BY <1>1, <1>2 DEF sym_record_sent
      <3> HIDE DEF num
      <3>2. QED
        BY <1>1, <3>1 DEF States
    <2>3. e \in Slots /\ e.local = db.local /\ e.remote = db.remote /\ e.pending = num
      BY <1>0, <2>2 DEF Slots
    <2>4. InTurn(e)
      <3> HIDE DEF e
      <3>1. QED
        BY <1>1, <2>3 DEF InTurn
    <2> HIDE DEF e
    <2>5. e.local >= db.local /\ e.remote >= db.remote
      BY <1>1, <2>3
    <2>6. QED
      BY <2>1, <2>3, <2>4, <2>5, SaveOK
  <1>3. CASE sym_record_local
    <2> DEFINE e == [db EXCEPT !.local = db.local + 2]
    <2>1. db.local + 2 <= MaxState /\ sym_save(e)
      BY <1>3 DEF sym_record_local
    <2>2. db.local + 2 \in States
      BY <1>1, <2>1 DEF States
    <2>3. /\ e \in Slots /\ e.local = db.local + 2 /\ e.remote = db.remote
          /\ e.pending = db.pending
      BY <1>0, <2>2 DEF Slots
    <2> HIDE DEF e
    <2>4. InTurn(e)
      BY <2>3 DEF InTurn
    <2>5. e.local >= db.local /\ e.remote >= db.remote
      BY <1>1, <2>3
    <2>6. QED
      BY <2>1, <2>3, <2>4, <2>5, SaveOK
  <1>4. CASE sym_record_revoked
    <2> DEFINE e == [db EXCEPT !.remote = db.pending, !.pending = NoState]
    <2>1. db.pending \notin {NoState, First} /\ sym_save(e)
      BY <1>4 DEF sym_record_revoked
    <2>2. /\ db.pending > First /\ db.pending % 2 = First
          /\ db.pending >= db.remote
      <3>1. \/ db.remote = NoState /\ db.pending = First + 2
            \/ db.remote > First /\ db.remote % 2 = First /\ db.pending = db.remote + 2
        BY <2>1 DEF InTurn
      <3>2. QED
        BY <1>1, <3>1
    <2>3. db.pending \in States
      BY <1>0, <2>1 DEF Slots
    <2>4. e \in Slots /\ e.local = db.local /\ e.remote = db.pending /\ e.pending = NoState
      BY <1>0, <1>1, <2>3 DEF Slots
    <2> HIDE DEF e
    <2>5. InTurn(e)
      BY <2>2, <2>3, <2>4 DEF InTurn
    <2>6. e.local >= db.local /\ e.remote >= db.remote
      BY <1>1, <2>2, <2>4
    <2>7. QED
      BY <2>1, <2>4, <2>5, <2>6, SaveOK
  <1>5. QED
    BY <1>2, <1>3, <1>4 DEF Lightningd

-----------------------------------------------------------------------------
(* The chain. *)

(* What ends a walk, and what does not. *)
LEMMA EndsFacts ==
    /\ Close \in Int /\ KO \in Int /\ Settle \in Int /\ States \subseteq Int
    /\ Ends(Close) /\ Ends(Settle) /\ ~Ends(KO) /\ \A n \in States : ~Ends(n)
    /\ NoState \in Int /\ ~Ends(NoState)
  BY TowerAssumption DEF Close, KO, Settle, States, Ends, NoState

(* Its first blocks are tidy as well. *)
LEMMA TidyPrefix ==
    ASSUME NEW c \in Seq(Blocks), Tidy(c), NEW l \in 0..Len(c)
    PROVE  Tidy(Upto(c, l))
  <1>1. Len(Upto(c, l)) = l /\ \A i \in 1..l : Upto(c, l)[i] = c[i]
    BY UptoFacts
  <1>2. QED
    BY <1>1 DEF Tidy

(* Before the end no block holds one. *)
LEMMA OpenChain ==
    ASSUME NEW c \in Seq(Blocks), Tidy(c), ~(Spends(c) # <<>> /\ Ends(Last(Spends(c))))
    PROVE  \A h \in 1..Len(c) : ~(c[h] # <<>> /\ Ends(Last(c[h])))
  <1>1. SUFFICES ASSUME NEW h \in 1..Len(c), c[h] # <<>>, Ends(Last(c[h])) PROVE FALSE
    OBVIOUS
  <1>2. \A g \in (h + 1)..Len(c) : c[g] = <<>>
    BY <1>1 DEF Tidy
  <1>3. /\ MadeAt(c) \in 1..Len(c) /\ c[MadeAt(c)] # <<>>
        /\ \A g \in (MadeAt(c) + 1)..Len(c) : c[g] = <<>>
        /\ Spends(c) # <<>> /\ Last(Spends(c)) = Last(c[MadeAt(c)])
    BY <1>1, MadeAtFacts
  <1>4. ~(h < MadeAt(c)) /\ ~(MadeAt(c) < h)
    BY <1>1, <1>2, <1>3
  <1>5. h = MadeAt(c)
    BY <1>3, <1>4
  <1>6. QED
    BY <1>1, <1>3, <1>5

(* After the end every block is empty. *)
LEMMA EndedChain ==
    ASSUME NEW c \in Seq(Blocks), Tidy(c), NEW l \in 0..Len(c),
           Spends(Upto(c, l)) # <<>>, Ends(Last(Spends(Upto(c, l))))
    PROVE  Spends(c) = Spends(Upto(c, l))
  <1> DEFINE u == Upto(c, l)
  <1>1. u \in Seq(Blocks) /\ Len(u) = l /\ \A i \in 1..l : u[i] = c[i]
    BY UptoFacts
  <1> HIDE DEF u
  <1>2. /\ MadeAt(u) \in 1..Len(u) /\ u[MadeAt(u)] # <<>>
        /\ Last(Spends(u)) = Last(u[MadeAt(u)])
    BY <1>1, MadeAtFacts DEF u
  <1>3. /\ MadeAt(u) \in 1..Len(c) /\ c[MadeAt(u)] # <<>> /\ Ends(Last(c[MadeAt(u)]))
        /\ MadeAt(u) <= l
    BY <1>1, <1>2 DEF u
  <1>4. \A g \in (MadeAt(u) + 1)..Len(c) : c[g] = <<>>
    BY <1>3 DEF Tidy
  <1>5. \A g \in (l + 1)..Len(c) : c[g] = <<>>
    BY <1>3, <1>4
  <1>6. QED
    BY <1>5, SpendsQuiet

(* A block that may come next keeps the chain tidy. *)
LEMMA NextBlockOK ==
    ASSUME TowerTypeOK, NEW c \in Seq(Blocks), Tidy(c), NEW b \in NextBlocks(c)
    PROVE  b \in Blocks /\ Append(c, b) \in Seq(Blocks) /\ Tidy(Append(c, b))
  <1> DEFINE p == Spends(c)
             to == Published \ {Settle}
             e == Append(c, b)
  <1>1. to \subseteq States \cup {NoState}
    <2>1. \A a \in pool : a.to \in States \cup {NoState, Settle}
      BY DEF TowerTypeOK, Sends
    <2>2. QED
      BY <2>1 DEF Published, Held
  <1> HIDE DEF to
  <1>2. \/ b = <<>>
        \/ /\ p = <<>> \/ ~Ends(Last(p))
           /\ b \in {<<Close>>, <<KO>>, <<Settle>>} \cup {<<KO, n>> : n \in to} \cup {<<n>> : n \in to}
    BY DEF NextBlocks, to
  <1>3. b \in Blocks /\ (b # <<>> /\ Ends(Last(b)) => Len(b) = 1)
    <2>1. CASE b = <<>>
      BY <2>1, EmptySeq DEF Blocks
    <2>2. CASE b \in {<<Close>>, <<KO>>, <<Settle>>} \cup {<<n>> : n \in to}
      <3>1. PICK n \in Int : b = <<n>>
        BY <1>1, <2>2, EndsFacts
      <3>2. QED
        BY <3>1 DEF Blocks
    <2>3. CASE b \in {<<KO, n>> : n \in to}
      <3>1. PICK n \in States \cup {NoState} : b = <<KO, n>>
        BY <1>1, <2>3
      <3>2. n \in Int /\ KO \in Int /\ ~Ends(n)
        BY EndsFacts
      <3>3. b \in Seq(Int) /\ Last(b) = n
        BY <3>1, <3>2 DEF Last
      <3>4. QED
        BY <3>2, <3>3 DEF Blocks
    <2>4. QED
      BY <1>2, <2>1, <2>2, <2>3
  <1>4. /\ e \in Seq(Blocks) /\ Len(e) = Len(c) + 1 /\ e[Len(c) + 1] = b
        /\ \A i \in 1..Len(c) : e[i] = c[i]
    BY <1>3, AppendProperties
  <1> HIDE DEF e
  <1>5. Tidy(e)
    <2>1. CASE b = <<>>
      BY <1>4, <2>1 DEF Tidy
    <2>2. CASE b # <<>>
      <3>1. \A h \in 1..Len(c) : ~(c[h] # <<>> /\ Ends(Last(c[h])))
        BY <1>2, <2>2, OpenChain
      <3>2. QED
        BY <1>3, <1>4, <3>1 DEF Tidy
    <2>3. QED
      BY <2>1, <2>2
  <1>6. QED
    BY <1>3, <1>4, <1>5 DEF e

(* The branch a reorg leaves standing, with empty blocks on it. *)
LEMMA BlankOK ==
    ASSUME NEW c \in Seq(Blocks), Tidy(c), NEW fork \in 0..Len(c) - 1
    PROVE  LET blank == [i \in 1..Len(c) - 1 |-> IF i <= fork THEN c[i] ELSE <<>>]
           IN  blank \in Seq(Blocks) /\ Len(blank) = Len(c) - 1 /\ Tidy(blank)
  <1> DEFINE blank == [i \in 1..Len(c) - 1 |-> IF i <= fork THEN c[i] ELSE <<>>]
  <1>1. Len(c) - 1 \in Nat /\ \A i \in 1..Len(c) - 1 : i \in 1..Len(c)
    OBVIOUS
  <1>2. \A i \in 1..Len(c) : c[i] \in Blocks
    BY ElementOfSeq
  <1>3. <<>> \in Blocks
    BY EmptySeq DEF Blocks
  <1>4. \A i \in 1..Len(c) - 1 : blank[i] \in Blocks
    BY <1>1, <1>2, <1>3
  <1>5. blank \in Seq(Blocks) /\ Len(blank) = Len(c) - 1
    BY <1>1, <1>4
  <1>6. \A i \in 1..Len(c) - 1 : blank[i] = c[i] \/ blank[i] = <<>>
    OBVIOUS
  <1> HIDE DEF blank
  <1>7. Tidy(blank)
    <2>1. ASSUME NEW h \in 1..Len(blank), blank[h] # <<>>, Ends(Last(blank[h]))
          PROVE  Len(blank[h]) = 1 /\ \A g \in (h + 1)..Len(blank) : blank[g] = <<>>
      <3>1. h \in 1..Len(c) /\ blank[h] = c[h]
        BY <1>1, <1>5, <1>6, <2>1
      <3>2. Len(c[h]) = 1 /\ \A g \in (h + 1)..Len(c) : c[g] = <<>>
        BY <2>1, <3>1 DEF Tidy
      <3>3. ASSUME NEW g \in (h + 1)..Len(blank) PROVE blank[g] = <<>>
        <4>1. g \in (h + 1)..Len(c) /\ g \in 1..Len(c) - 1
          BY <1>5, <3>1
        <4>2. QED
          BY <1>6, <3>2, <4>1
      <3>4. QED
        BY <3>1, <3>2, <3>3
    <2>2. QED
      BY <2>1 DEF Tidy
  <1>8. QED
    BY <1>5, <1>7 DEF blank

(* A reorg makes the chain longer by one, and keeps it tidy. *)
LEMMA ReorgOK ==
    ASSUME TowerTypeOK, Tidy(chain), Reorg
    PROVE  chain' \in Seq(Blocks) /\ Len(chain') = Len(chain) + 1 /\ Tidy(chain')
  <1> DEFINE blank(fork) == [i \in 1..Len(chain) - 1 |-> IF i <= fork THEN chain[i] ELSE <<>>]
  <1>1. PICK fork \in 0..Len(chain) - 1 :
           \E b \in NextBlocks(blank(fork)) : \E b2 \in NextBlocks(Append(blank(fork), b)) :
              chain' = blank(fork) \o <<b, b2>>
    BY DEF Reorg
  <1> DEFINE c == blank(fork)
  <1>2. chain \in Seq(Blocks) /\ Len(chain) \in Nat
    BY DEF TowerTypeOK
  <1>3. c \in Seq(Blocks) /\ Len(c) = Len(chain) - 1 /\ Tidy(c)
    BY <1>2, BlankOK
  <1>4. PICK b \in NextBlocks(c) : \E b2 \in NextBlocks(Append(c, b)) : chain' = c \o <<b, b2>>
    BY <1>1
  <1> HIDE DEF blank
  <1>5. PICK b2 \in NextBlocks(Append(c, b)) : chain' = c \o <<b, b2>>
    BY <1>4
  <1> HIDE DEF c
  <1>6. b \in Blocks /\ Append(c, b) \in Seq(Blocks) /\ Tidy(Append(c, b))
    BY <1>3, NextBlockOK
  <1>7. /\ b2 \in Blocks /\ Append(Append(c, b), b2) \in Seq(Blocks)
        /\ Tidy(Append(Append(c, b), b2))
    BY <1>6, NextBlockOK
  <1>8. chain' = Append(Append(c, b), b2)
    BY <1>3, <1>5, <1>6, <1>7
  <1>9. Len(Append(Append(c, b), b2)) = Len(c) + 1 + 1
    BY <1>3, <1>6, <1>7, AppendProperties
  <1>10. QED
    BY <1>2, <1>3, <1>7, <1>8, <1>9

-----------------------------------------------------------------------------
(* The walk. *)

(* Before anything is scanned. *)
LEMMA ResetFacts ==
    /\ sym_cursor_reset \in Cursors /\ sym_cursor_reset.hash = <<>>
    /\ Tidy(<<>>) /\ Len(<<>>) = 0
    /\ \A c \in Seq(Blocks) : Spends(c) = <<>> => Stands(sym_cursor_reset, c)
  <1>1. <<>> \in Seq(Blocks) /\ <<>> \in Seq(Int) /\ Len(<<>>) = 0
    BY EmptySeq
  <1>2. sym_cursor_reset \in Cursors /\ sym_cursor_reset.hash = <<>>
    BY <1>1 DEF sym_cursor_reset, Cursors, NoFile, Files
  <1>3. Tidy(<<>>)
    BY <1>1 DEF Tidy
  <1>4. ASSUME NEW c \in Seq(Blocks), Spends(c) = <<>> PROVE Stands(sym_cursor_reset, c)
    <2>1. MadeAt(c) = 0
      BY <1>4, MadeAtFacts
    <2>2. QED
      BY <1>4, <2>1 DEF Stands, sym_cursor_reset
  <1>5. QED
    BY <1>1, <1>2, <1>3, <1>4

(* sym_follow() goes on where the chain does. *)
LEMMA FollowOK ==
    ASSUME TowerTypeOK, Tidy(chain), NEW h \in 1..Len(chain), ~k.done,
           Stands(k, Upto(chain, h - 1))
    PROVE  Stands(sym_follow(Spends(Upto(chain, h - 1)), Spends(Upto(chain, h)), h), Upto(chain, h))
  <1> DEFINE u == Upto(chain, h)
             before == Spends(Upto(chain, h - 1))
             after == Spends(u)
             b == chain[h]
             j == sym_follow(before, after, h)
  <1>1. /\ chain \in Seq(Blocks) /\ h \in 0..Len(chain) /\ h - 1 \in 0..Len(chain) /\ h # 0
        /\ k \in Cursors /\ h \in Nat
    BY DEF TowerTypeOK
  <1>2. b \in Seq(Int)
    BY <1>1, ElementOfSeq DEF Blocks
  <1>3. before \in Seq(Int) /\ after \in Seq(Int) /\ after = before \o b
    BY <1>1, SpendsUpto
  <1>4. /\ u \in Seq(Blocks) /\ Len(u) = h /\ u[h] = b
        /\ Upto(chain, h - 1) \in Seq(Blocks) /\ Len(Upto(chain, h - 1)) = h - 1
        /\ \A i \in 1..h - 1 : u[i] = Upto(chain, h - 1)[i]
    BY <1>1, UptoFacts
  <1>5. k.cur = before /\ ~(before # <<>> /\ Ends(Last(before)))
        /\ k.height = MadeAt(Upto(chain, h - 1))
    BY DEF Stands
  <1> HIDE DEF before, after, u, b
  <1>6. CASE b = <<>>
    <2>1. after = before
      BY <1>3, <1>6, ConcatEmptySeq
    <2>2. j = k
      BY <1>3, <1>5, <2>1 DEF sym_follow
    <2>3. MadeAt(u) = MadeAt(Upto(chain, h - 1))
      <3> DEFINE w == Upto(chain, h - 1)
      <3>1. Len(w) = h - 1 /\ \A i \in 1..h - 1 : u[i] = w[i]
        BY <1>4
      <3> HIDE DEF w
      <3>2. {i \in 1..Len(u) : u[i] # <<>>} = {i \in 1..Len(w) : w[i] # <<>>}
        BY <1>1, <1>4, <1>6, <3>1
      <3> DEFINE top(S) == IF S = {} THEN 0 ELSE CHOOSE i \in S : \A g \in S : g <= i
      <3>3. /\ MadeAt(u) = top({i \in 1..Len(u) : u[i] # <<>>})
            /\ MadeAt(w) = top({i \in 1..Len(w) : w[i] # <<>>})
        BY DEF MadeAt
      <3> HIDE DEF top
      <3>4. MadeAt(u) = MadeAt(w)
        BY <3>2, <3>3
      <3>5. QED
        BY <3>4 DEF w
    <2>4. QED
      BY <1>5, <2>1, <2>2, <2>3 DEF Stands, after, before, u
  <1>7. CASE b # <<>>
    <2>1. /\ after # <<>> /\ Len(after) = Len(before) + Len(b) /\ Len(b) > 0
          /\ Last(after) = Last(b)
      BY <1>2, <1>3, <1>7, LastOfConcat
    <2>2. /\ Len(before) <= Len(k.cur) /\ Len(k.cur) < Len(after)
          /\ IsPrefix(k.cur, after)
      <3>1. SubSeq(after, 1, Len(before)) = before /\ SubSeq(before, 1, Len(before)) = before
        BY <1>2, <1>3
      <3>2. Len(before) \in Nat /\ Len(b) \in Nat
        BY <1>2, <1>3
      <3>3. QED
        BY <1>5, <2>1, <3>1, <3>2 DEF IsPrefix
    <2>3. CASE Ends(Last(after))
      <3>1. j = [k EXCEPT !.done = TRUE]
        BY <2>2, <2>3 DEF sym_follow
      <3>2. j.done /\ j.cur = before
        BY <1>1, <1>5, <3>1 DEF Cursors
      <3>3. Len(b) = 1
        BY <1>7, <2>1, <2>3 DEF Tidy, b
      <3>4. Front(after) = before
        BY <1>2, <1>3, <2>1, <3>3 DEF Front
      <3>5. QED
        BY <2>1, <2>3, <3>2, <3>4 DEF Stands, after, before, u
    <2>4. CASE ~Ends(Last(after))
      <3>1. j = [k EXCEPT !.cur = after, !.height = h, !.bcast = -1, !.by = NoFile]
        BY <2>2, <2>4 DEF sym_follow
      <3>2. ~j.done /\ j.cur = after /\ j.height = h
        BY <1>1, <3>1 DEF Cursors
      <3>3. MadeAt(u) = h
        <4>1. \/ \A i \in 1..Len(u) : u[i] = <<>>
              \/ MadeAt(u) \in 1..Len(u) /\ \A i \in (MadeAt(u) + 1)..Len(u) : u[i] = <<>>
          BY <1>4, MadeAtFacts
        <4>2. QED
          BY <1>1, <1>4, <1>7, <4>1
      <3>4. QED
        BY <2>4, <3>2, <3>3 DEF Stands, after, before, u
    <2>5. QED
      BY <2>3, <2>4
  <1>8. QED
    BY <1>6, <1>7

-----------------------------------------------------------------------------
(* The steps. *)

(* Nothing has been scanned, nothing published. *)
LEMMA TowerInitOK == Init => TowerInv
  <1>1. SUFFICES ASSUME Init PROVE TowerInv
    OBVIOUS
  <1>2. NoFile \in Files
    BY DEF NoFile, Files
  <1>3. Idle \in Rounds /\ Idle.at = "idle"
    BY <1>2 DEF Idle, Rounds
  <1>4. <<>> \in Seq(Blocks) /\ Len(<<>>) = 0 /\ Spends(<<>>) = <<>>
    BY EmptySeq, SpendsEmpty
  <1>5. db \in Slots /\ InTurn(db)
    <2>1. 1 - First \in States /\ First \in States
      BY TowerAssumption DEF States
    <2>2. sym_record_opened \in Slots /\ InTurn(sym_record_opened)
      BY <2>1 DEF sym_record_opened, Slots, InTurn
    <2>3. QED
      BY <1>1, <2>2 DEF Init
  <1>6. TowerTypeOK /\ RecordCovers
    <2>1. File(db) \in Files /\ Covers(File(db), db)
      BY <1>5, SlotFacts, FileCovers
    <2>2. \/ record = File(db) /\ lost = FALSE
          \/ record = NoFile /\ lost = TRUE
      BY <1>1 DEF Init
    <2>3. RecordCovers
      BY <2>1, <2>2 DEF RecordCovers, Covers
    <2>4. record \in Files /\ lost \in BOOLEAN
      BY <1>2, <2>1, <2>2
    <2>5. QED
      BY <1>1, <1>3, <1>4, <1>5, <2>3, <2>4, ResetFacts DEF Init, TowerTypeOK
  <1>7. chain = <<>> /\ k = sym_cursor_reset /\ round = Idle /\ ~clean
    BY <1>1 DEF Init
  <1>8. Tidy(chain) /\ Tidy(k.hash) /\ Stands(k, k.hash) /\ Len(k.hash) <= Len(chain)
    <2>1. k.hash = <<>> /\ Stands(k, <<>>) /\ Tidy(<<>>)
      BY <1>4, <1>7, ResetFacts
    <2>2. QED
      BY <1>4, <1>7, <2>1
  <1>9. Walked /\ CleanRound
    BY <1>3, <1>7, <1>8 DEF Walked, CleanRound
  <1>10. QED
    BY <1>5, <1>6, <1>8, <1>9 DEF TowerInv

(* lightningd saves without a word to the tower. *)
LEMMA LightningdOK ==
    ASSUME TowerInv, Lightningd
    PROVE  TowerInv'
  <1>1. UNCHANGED <<chain, k, round, pool, clean, torn>>
    BY DEF Lightningd, sym_record_sent, sym_record_local, sym_record_revoked, tower
  <1>2. /\ db' \in Slots /\ record' \in Files /\ lost' \in BOOLEAN
        /\ InTurn(db)' /\ RecordCovers'
    BY RecordOK DEF TowerInv
  <1>3. TowerTypeOK'
    BY <1>1, <1>2 DEF TowerInv, TowerTypeOK
  <1>4. Tidy(chain') /\ Walked' /\ CleanRound'
    BY <1>1 DEF TowerInv, Walked, CleanRound
  <1>5. QED
    BY <1>2, <1>3, <1>4 DEF TowerInv

(* The others leave what lightningd holds alone. *)
LEMMA NodeUnchanged ==
    ASSUME TowerInv, UNCHANGED node, chain' \in Seq(Blocks), k' \in Cursors, round' \in Rounds,
           pool' \subseteq Sends, clean' \in BOOLEAN, torn' \in BOOLEAN
    PROVE  TowerTypeOK' /\ InTurn(db)' /\ RecordCovers'
  <1>1. UNCHANGED <<db, record, lost>>
    BY DEF node
  <1>2. TowerTypeOK'
    BY <1>1 DEF TowerInv, TowerTypeOK
  <1>3. InTurn(db)' /\ RecordCovers'
    BY <1>1 DEF TowerInv, InTurn, RecordCovers, Held, Newest, sym_best_state
  <1>4. QED
    BY <1>2, <1>3

(* The chain moves: a walk that went over blocks which are no more is torn. *)
LEMMA ChainMovesOK ==
    ASSUME TowerInv, UNCHANGED <<node, k, round, pool>>, clean' = FALSE, torn' \in BOOLEAN,
           chain' \in Seq(Blocks), Tidy(chain'), Len(chain') = Len(chain) + 1,
           torn => torn',
           ~torn' /\ round.at = "scan" => Upto(chain', Len(k.hash)) = k.hash
    PROVE  TowerInv'
  <1>1. TowerTypeOK' /\ InTurn(db)' /\ RecordCovers'
    <2>1. k' \in Cursors /\ round' \in Rounds /\ pool' \subseteq Sends /\ clean' \in BOOLEAN
      BY DEF TowerInv, TowerTypeOK
    <2>2. UNCHANGED node
      OBVIOUS
    <2>3. QED
      BY <2>1, <2>2, NodeUnchanged
  <1>2. Len(k.hash) \in Nat /\ Len(chain) \in Nat
    BY DEF TowerInv, TowerTypeOK, Cursors
  <1>3. torn \in BOOLEAN
    BY DEF TowerInv, TowerTypeOK
  <1>4. Walked'
    <2>1. Tidy(k.hash) /\ Len(k.hash) <= Len(chain) /\ (~torn => Stands(k, k.hash))
      BY DEF TowerInv, Walked
    <2>2. Len(k.hash) <= Len(chain')
      BY <1>2, <2>1
    <2>3. QED
      BY <2>1, <2>2 DEF Walked
  <1>5. CleanRound'
    BY DEF CleanRound
  <1>6. QED
    BY <1>1, <1>4, <1>5 DEF TowerInv

(* The chain grows. *)
LEMMA ExtendOK ==
    ASSUME TowerInv, Extend
    PROVE  TowerInv'
  <1>1. PICK b \in NextBlocks(chain) : chain' = Append(chain, b)
    BY DEF Extend
  <1>2. /\ TowerTypeOK /\ Tidy(chain) /\ chain \in Seq(Blocks) /\ torn \in BOOLEAN
        /\ k.hash \in Seq(Blocks) /\ Len(k.hash) <= Len(chain)
    BY DEF TowerInv, TowerTypeOK, Walked, Cursors
  <1>3. b \in Blocks /\ chain' \in Seq(Blocks) /\ Tidy(chain')
    BY <1>1, <1>2, NextBlockOK
  <1>4. Len(chain') = Len(chain) + 1 /\ \A i \in 1..Len(chain) : chain'[i] = chain[i]
    BY <1>1, <1>2, <1>3, AppendProperties
  <1>5. Upto(chain', Len(k.hash)) = Upto(chain, Len(k.hash))
    <2> DEFINE l == Len(k.hash)
    <2>1. l \in 0..Len(chain) /\ l \in 0..Len(chain')
      BY <1>2, <1>4
    <2> HIDE DEF l
    <2>2. /\ Upto(chain, l) \in Seq(Blocks) /\ Len(Upto(chain, l)) = l
          /\ \A i \in 1..l : Upto(chain, l)[i] = chain[i]
      BY <1>2, <2>1, UptoFacts
    <2>3. /\ Upto(chain', l) \in Seq(Blocks) /\ Len(Upto(chain', l)) = l
          /\ \A i \in 1..l : Upto(chain', l)[i] = chain'[i]
      BY <1>3, <2>1, UptoFacts
    <2>4. \A i \in 1..Len(Upto(chain', l)) : Upto(chain', l)[i] = Upto(chain, l)[i]
      BY <1>4, <2>1, <2>2, <2>3
    <2>5. Upto(chain', l) = Upto(chain, l)
      BY <2>2, <2>3, <2>4, SeqEqual
    <2>6. QED
      BY <2>5 DEF l
  <1>6. UNCHANGED <<node, k, round, pool>> /\ clean' = FALSE /\ torn' = torn
    BY DEF Extend
  <1>7. ~torn /\ round.at = "scan" => Upto(chain', Len(k.hash)) = k.hash
    BY <1>5 DEF TowerInv, Walked
  <1>8. QED
    BY <1>2, <1>3, <1>4, <1>6, <1>7, ChainMovesOK

(* A reorg: the walk under way is torn unless its blocks are still there. *)
LEMMA ReorgStepOK ==
    ASSUME TowerInv, Reorg
    PROVE  TowerInv'
  <1>1. /\ TowerTypeOK /\ Tidy(chain) /\ chain \in Seq(Blocks) /\ torn \in BOOLEAN
        /\ k.hash \in Seq(Blocks)
    BY DEF TowerInv, TowerTypeOK, Cursors
  <1>2. chain' \in Seq(Blocks) /\ Len(chain') = Len(chain) + 1 /\ Tidy(chain')
    BY <1>1, ReorgOK
  <1>3. /\ UNCHANGED <<node, k, round, pool>> /\ clean' = FALSE
        /\ torn' = (torn \/ (round.at = "scan" /\ ~IsPrefix(k.hash, chain')))
    BY DEF Reorg
  <1>4. IsPrefix(k.hash, chain') => Upto(chain', Len(k.hash)) = k.hash
    BY <1>1, SubSeqFull DEF IsPrefix, Upto
  <1>5. QED
    BY <1>1, <1>2, <1>3, <1>4, ChainMovesOK

(* main() starts a round. *)
LEMMA StartRoundOK ==
    ASSUME TowerInv, NEW may \in BOOLEAN, StartRound(may)
    PROVE  TowerInv'
  <1>1. /\ round' = [at |-> "funding", tip |-> Len(chain), may |-> may, s |-> record]
        /\ clean' = may /\ UNCHANGED <<chain, node, k, pool, torn>>
    BY DEF StartRound
  <1>2. chain \in Seq(Blocks) /\ record \in Files
    BY DEF TowerInv, TowerTypeOK
  <1>3. round' \in Rounds /\ round'.at = "funding" /\ round'.tip = Len(chain)
    BY <1>1, <1>2 DEF Rounds
  <1>4. TowerTypeOK' /\ InTurn(db)' /\ RecordCovers'
    <2>1. chain' \in Seq(Blocks) /\ k' \in Cursors /\ pool' \subseteq Sends /\ clean' \in BOOLEAN
          /\ torn' \in BOOLEAN /\ UNCHANGED node
      BY <1>1 DEF TowerInv, TowerTypeOK
    <2>2. QED
      BY <1>3, <2>1, NodeUnchanged
  <1>5. Tidy(chain') /\ Walked' /\ CleanRound'
    BY <1>1, <1>3 DEF TowerInv, Walked, CleanRound
  <1>6. QED
    BY <1>4, <1>5 DEF TowerInv

(* A step of the tower that leaves the chain, and may reset the walk. *)
LEMMA TowerMovesOK ==
    ASSUME TowerInv, UNCHANGED <<chain, node>>, pool' \subseteq Sends,
           k' \in Cursors, round' \in Rounds, clean' \in BOOLEAN, torn' \in BOOLEAN,
           Walked', CleanRound'
    PROVE  TowerInv'
  <1>1. chain' \in Seq(Blocks) /\ UNCHANGED node
    BY DEF TowerInv, TowerTypeOK
  <1>2. TowerTypeOK' /\ InTurn(db)' /\ RecordCovers'
    BY <1>1, NodeUnchanged
  <1>3. Tidy(chain')
    BY DEF TowerInv
  <1>4. QED
    BY <1>2, <1>3 DEF TowerInv

(* What the types say. *)
LEMMA TowerTypes ==
    ASSUME TowerInv
    PROVE  /\ chain \in Seq(Blocks) /\ Len(chain) \in Nat /\ k \in Cursors /\ round \in Rounds
           /\ k.hash \in Seq(Blocks) /\ k.cur \in Seq(Int) /\ k.done \in BOOLEAN
           /\ Len(k.hash) \in 0..Len(chain) /\ round.tip \in Nat
           /\ clean \in BOOLEAN /\ torn \in BOOLEAN /\ pool \subseteq Sends
           /\ Idle \in Rounds /\ Idle.at = "idle"
           /\ \A a \in {"idle", "funding", "sync", "scan", "act"} :
                 /\ [round EXCEPT !.at = a] \in Rounds
                 /\ [round EXCEPT !.at = a].at = a
                 /\ [round EXCEPT !.at = a].tip = round.tip
  <1>1. /\ chain \in Seq(Blocks) /\ Len(chain) \in Nat /\ k \in Cursors /\ round \in Rounds
        /\ clean \in BOOLEAN /\ torn \in BOOLEAN /\ pool \subseteq Sends
    BY DEF TowerInv, TowerTypeOK
  <1>2. k.hash \in Seq(Blocks) /\ k.cur \in Seq(Int) /\ k.done \in BOOLEAN
    BY <1>1 DEF Cursors
  <1>3. Len(k.hash) <= Len(chain) /\ Len(k.hash) \in Nat
    BY <1>2 DEF TowerInv, Walked
  <1>4. Len(k.hash) \in 0..Len(chain)
    BY <1>1, <1>3
  <1>5. Idle \in Rounds /\ Idle.at = "idle"
    <2>1. NoFile \in Files
      BY DEF NoFile, Files
    <2>2. QED
      BY <2>1 DEF Idle, Rounds
  <1>6. \A a \in {"idle", "funding", "sync", "scan", "act"} :
                 /\ [round EXCEPT !.at = a] \in Rounds
                 /\ [round EXCEPT !.at = a].at = a
                 /\ [round EXCEPT !.at = a].tip = round.tip
    BY <1>1 DEF Rounds
  <1>7. round.tip \in Nat
    BY <1>1 DEF Rounds
  <1>8. QED
    BY <1>1, <1>2, <1>4, <1>5, <1>6, <1>7

(* After a reset nothing is torn. *)
LEMMA ResetOK ==
    ASSUME TowerInv, UNCHANGED <<chain, node, pool>>, k' = sym_cursor_reset,
           round' \in Rounds, clean' \in BOOLEAN, torn' = FALSE, CleanRound'
    PROVE  TowerInv'
  <1>1. k' \in Cursors /\ k'.hash = <<>> /\ Tidy(<<>>) /\ Len(<<>>) = 0
    BY ResetFacts
  <1>2. Stands(k', <<>>)
    <2>1. <<>> \in Seq(Blocks) /\ Spends(<<>>) = <<>>
      BY EmptySeq, SpendsEmpty
    <2>2. QED
      BY <2>1, ResetFacts
  <1>3. Upto(chain', 0) = <<>>
    BY SubSeqEmpty DEF Upto
  <1>4. Len(chain') \in Nat
    BY TowerTypes
  <1>5. Walked'
    BY <1>1, <1>2, <1>3, <1>4 DEF Walked
  <1>6. pool' \subseteq Sends /\ torn' \in BOOLEAN
    BY TowerTypes
  <1>7. QED
    BY <1>1, <1>5, <1>6, TowerMovesOK

(* defend_sym_lane() looks at the funding output. *)
LEMMA LookAtFundingOK ==
    ASSUME TowerInv, LookAtFunding
    PROVE  TowerInv'
  <1>1. CASE Spends(chain) = <<>>
    <2>1. /\ k' = sym_cursor_reset /\ round' = Idle /\ torn' = FALSE /\ clean' = clean
          /\ UNCHANGED <<chain, node, pool>>
      BY <1>1 DEF LookAtFunding
    <2>2. Stands(k', chain')
      BY <1>1, <2>1, TowerTypes, ResetFacts
    <2>3. round' \in Rounds /\ round'.at = "idle" /\ clean' \in BOOLEAN
      BY <2>1, TowerTypes
    <2>4. CleanRound'
      BY <2>2, <2>3 DEF CleanRound
    <2>5. QED
      BY <2>1, <2>3, <2>4, ResetOK
  <1>2. CASE Spends(chain) # <<>>
    <2>1. /\ round' = [round EXCEPT !.at = "sync"] /\ round.at = "funding"
          /\ UNCHANGED <<chain, node, k, pool, clean, torn>>
      BY <1>2 DEF LookAtFunding
    <2>2. round' \in Rounds /\ round'.at = "sync" /\ round'.tip = round.tip
      BY <2>1, TowerTypes
    <2>3. Walked' /\ CleanRound'
      BY <2>1, <2>2 DEF TowerInv, Walked, CleanRound
    <2>4. QED
      BY <2>1, <2>2, <2>3, TowerTypes, TowerMovesOK
  <1>3. QED
    BY <1>1, <1>2

(* The hash of the last block scanned says whether the walk may go on. *)
LEMMA HashFacts ==
    ASSUME TowerInv
    PROVE  sym_block_hash_is => Upto(chain, Len(k.hash)) = k.hash
  BY TowerTypes DEF sym_block_hash_is

(* sym_scan() begins. *)
LEMMA CheckScannedOK ==
    ASSUME TowerInv, CheckScanned
    PROVE  TowerInv'
  <1>1. /\ round.at = "sync" /\ round' = [round EXCEPT !.at = "scan"]
        /\ k' = IF sym_block_hash_is THEN k ELSE sym_cursor_reset
        /\ torn' = (torn /\ sym_block_hash_is)
        /\ UNCHANGED <<chain, node, pool, clean>>
    BY DEF CheckScanned
  <1>2. round' \in Rounds /\ round'.at = "scan" /\ round'.tip = round.tip
    BY <1>1, TowerTypes
  <1>3. CleanRound'
    BY <1>1, <1>2 DEF TowerInv, CleanRound
  <1>4. CASE sym_block_hash_is
    <2>1. k' = k /\ torn' = torn
      BY <1>1, <1>4, TowerTypes
    <2>2. Walked'
      BY <1>1, <1>4, <2>1, HashFacts DEF TowerInv, Walked
    <2>3. QED
      BY <1>1, <1>2, <1>3, <2>1, <2>2, TowerTypes, TowerMovesOK
  <1>5. CASE ~sym_block_hash_is
    <2>1. k' = sym_cursor_reset /\ torn' = FALSE /\ clean' \in BOOLEAN
      BY <1>1, <1>5, TowerTypes
    <2>2. QED
      BY <1>1, <1>2, <1>3, <2>1, ResetOK
  <1>6. QED
    BY <1>4, <1>5

(* sym_scan() reads a block. *)
LEMMA ScanBlockOK ==
    ASSUME TowerInv, ScanBlock
    PROVE  TowerInv'
  <1> DEFINE h == Len(k.hash) + 1
             before == Spends(Upto(chain, h - 1))
             after == Spends(Upto(chain, h))
             j == sym_follow(before, after, h)
  <1>1. /\ round.at = "scan" /\ ~k.done /\ h <= Len(chain)
        /\ k' = [j EXCEPT !.hash = Upto(chain, h)]
        /\ UNCHANGED <<chain, node, round, pool, clean, torn>>
    BY DEF ScanBlock
  <1>2. h \in 1..Len(chain) /\ h \in 0..Len(chain) /\ h - 1 = Len(k.hash) /\ h \in Nat
    BY <1>1, TowerTypes
  <1> HIDE DEF h
  <1>3. Upto(chain, h) \in Seq(Blocks) /\ Len(Upto(chain, h)) = h /\ after \in Seq(Int)
    BY <1>2, TowerTypes, UptoFacts, SpendsUpto
  <1>4. j \in Cursors
    <2> HIDE DEF before, after
    <2>1. \/ j = k \/ j = [k EXCEPT !.done = TRUE]
          \/ j = [k EXCEPT !.cur = after, !.height = h, !.bcast = -1, !.by = NoFile]
      BY DEF sym_follow
    <2>2. k \in Cursors
      BY TowerTypes
    <2>3. after \in Seq(Int) /\ h \in Nat /\ -1 \in Int /\ NoFile \in Files
      BY <1>2, <1>3 DEF NoFile, Files
    <2>4. /\ [k EXCEPT !.done = TRUE] \in Cursors
          /\ [k EXCEPT !.cur = after, !.height = h, !.bcast = -1, !.by = NoFile] \in Cursors
      BY <2>2, <2>3 DEF Cursors
    <2> HIDE DEF j
    <2>5. QED
      BY <2>1, <2>2, <2>4
  <1>5. /\ k' \in Cursors /\ k'.hash = Upto(chain, h) /\ k'.done = j.done /\ k'.cur = j.cur
        /\ k'.height = j.height
    <2> HIDE DEF j
    <2>1. QED
      BY <1>1, <1>3, <1>4 DEF Cursors
  <1>6. Tidy(k'.hash)
    BY <1>2, <1>5, TowerTypes, TidyPrefix DEF TowerInv
  <1>7. ~torn => Stands(k', k'.hash)
    <2>1. SUFFICES ASSUME ~torn PROVE Stands(k', Upto(chain, h))
      BY <1>5
    <2>2. Upto(chain, h - 1) = k.hash /\ Stands(k, k.hash)
      BY <1>1, <1>2, <2>1 DEF TowerInv, Walked
    <2>3. TowerTypeOK /\ Tidy(chain) /\ Stands(k, Upto(chain, h - 1))
      BY <2>2 DEF TowerInv
    <2>4. Stands(j, Upto(chain, h))
      BY <1>1, <1>2, <2>3, FollowOK
    <2> HIDE DEF j
    <2>5. QED
      BY <1>5, <2>4 DEF Stands
  <1>8. Len(k'.hash) = h /\ Upto(chain', Len(k'.hash)) = k'.hash
    BY <1>1, <1>3, <1>5
  <1>9. Walked'
    BY <1>1, <1>6, <1>7, <1>8 DEF Walked
  <1>10. CleanRound'
    BY <1>1 DEF TowerInv, CleanRound
  <1>11. QED
    BY <1>1, <1>5, <1>9, <1>10, TowerTypes, TowerMovesOK

(* sym_scan() returns: undisturbed, it has seen all there is to see. *)
LEMMA ScanEndsOK ==
    ASSUME TowerInv, ScanEnds
    PROVE  TowerInv'
  <1>1. /\ round.at = "scan"
        /\ k.done \/ Len(k.hash) >= round.tip \/ Len(k.hash) >= Len(chain)
        /\ round' = Idle \/ round' = [round EXCEPT !.at = "act"]
        /\ UNCHANGED <<chain, node, k, pool, clean, torn>>
    BY DEF ScanEnds
  <1>2. round' \in Rounds /\ round'.at \in {"act", "idle"} /\ (round'.at = "act" => round'.tip = round.tip)
    BY <1>1, TowerTypes
  <1>3. Walked'
    BY <1>1, <1>2 DEF TowerInv, Walked
  <1>4. clean /\ ~torn => Stands(k, chain)
    <2>1. SUFFICES ASSUME clean, ~torn PROVE Stands(k, chain)
      OBVIOUS
    <2>2. /\ round.tip = Len(chain) /\ Stands(k, k.hash)
          /\ Upto(chain, Len(k.hash)) = k.hash /\ Tidy(chain)
      BY <1>1, <2>1 DEF TowerInv, Walked, CleanRound
    <2>3. CASE Len(k.hash) = Len(chain)
      <3>1. Upto(chain, Len(chain)) = chain
        BY TowerTypes, SubSeqFull DEF Upto
      <3>2. QED
        BY <2>2, <2>3, <3>1
    <2>4. CASE Len(k.hash) # Len(chain)
      <3>1. k.done
        BY <1>1, <2>2, <2>4, TowerTypes
      <3>2. /\ Spends(k.hash) # <<>> /\ Ends(Last(Spends(k.hash)))
            /\ k.cur = Front(Spends(k.hash))
        BY <2>2, <3>1 DEF Stands
      <3>3. Spends(chain) = Spends(k.hash)
        <4> DEFINE l == Len(k.hash)
        <4>1. l \in 0..Len(chain) /\ Upto(chain, l) = k.hash
          BY <2>2, TowerTypes
        <4> HIDE DEF l
        <4>2. QED
          BY <2>2, <3>2, <4>1, TowerTypes, EndedChain
      <3>4. QED
        BY <3>1, <3>2, <3>3 DEF Stands
    <2>5. QED
      BY <2>3, <2>4
  <1>5. CleanRound'
    BY <1>1, <1>2, <1>4 DEF TowerInv, CleanRound
  <1>6. QED
    BY <1>1, <1>2, <1>3, <1>5, TowerTypes, TowerMovesOK

(* defend_sym_lane() sends something, or does not. *)
LEMMA ActOK ==
    ASSUME TowerInv, Broadcast \/ NothingToDo
    PROVE  TowerInv'
  <1>1. round.at = "act" /\ round' = Idle /\ UNCHANGED <<chain, node, clean, torn>>
    BY DEF Broadcast, NothingToDo
  <1>2. /\ k' \in Cursors /\ k'.hash = k.hash /\ k'.done = k.done /\ k'.cur = k.cur
        /\ k'.height = k.height
    <2>1. k' = k \/ k' = [k EXCEPT !.bcast = round.tip, !.by = round.s]
      BY DEF Broadcast, NothingToDo
    <2>2. k \in Cursors /\ round.tip \in Int /\ round.s \in Files
      BY TowerTypes DEF Rounds
    <2>3. QED
      BY <2>1, <2>2 DEF Cursors
  <1>3. pool' \subseteq Sends
    <2>1. CASE Broadcast
      <3> DEFINE to == IF updates THEN round.s.best ELSE Settle
      <3>1. pool' = pool \cup {[over |-> k.cur, to |-> to]}
        BY <2>1 DEF Broadcast
      <3>2. to \in States \cup {NoState, Settle}
        <4>1. round.s.best \in States \cup {NoState}
          BY TowerTypes DEF Rounds, Files
        <4>2. QED
          BY <4>1
      <3> HIDE DEF to
      <3>3. [over |-> k.cur, to |-> to] \in Sends
        BY <3>2, TowerTypes DEF Sends
      <3>4. QED
        BY <3>1, <3>3, TowerTypes
    <2>2. CASE NothingToDo
      BY <2>2, TowerTypes DEF NothingToDo
    <2>3. QED
      BY <2>1, <2>2
  <1>4. \A c : Stands(k', c) <=> Stands(k, c)
    BY <1>2 DEF Stands
  <1>5. round' \in Rounds /\ round'.at = "idle" /\ clean' \in BOOLEAN /\ torn' \in BOOLEAN
    BY <1>1, TowerTypes
  <1>6. Walked' /\ CleanRound'
    BY <1>1, <1>2, <1>4, <1>5 DEF TowerInv, Walked, CleanRound
  <1>7. QED
    BY <1>1, <1>2, <1>3, <1>5, <1>6, TowerMovesOK

(* A call fails: that ends the round, unless it is the one for the hash. *)
LEMMA RpcFailsOK ==
    ASSUME TowerInv, RpcFails
    PROVE  TowerInv'
  <1>1. /\ round' = IF round.at = "sync" THEN [round EXCEPT !.at = "scan"] ELSE Idle
        /\ clean' = FALSE /\ torn' = (torn \/ (round.at = "sync" /\ ~sym_block_hash_is))
        /\ UNCHANGED <<chain, node, k, pool>>
    BY DEF RpcFails
  <1>2. round' \in Rounds /\ (round'.at = "scan" => round.at = "sync")
    BY <1>1, TowerTypes
  <1>3. torn' \in BOOLEAN /\ (torn => torn') /\ (round.at = "sync" /\ ~torn' => sym_block_hash_is)
    BY <1>1, TowerTypes DEF sym_block_hash_is
  <1>4. Walked'
    BY <1>1, <1>2, <1>3, HashFacts DEF TowerInv, Walked
  <1>5. CleanRound'
    BY <1>1 DEF CleanRound
  <1>6. QED
    BY <1>1, <1>2, <1>3, <1>4, <1>5, TowerTypes, TowerMovesOK

(* The tower restarts. *)
LEMMA TowerRestartsOK ==
    ASSUME TowerInv, TowerRestarts
    PROVE  TowerInv'
  <1>1. /\ k' = sym_cursor_reset /\ round' = Idle /\ clean' = FALSE /\ torn' = FALSE
        /\ UNCHANGED <<chain, node, pool>>
    BY DEF TowerRestarts
  <1>2. CleanRound' /\ round' \in Rounds /\ clean' \in BOOLEAN
    BY <1>1, TowerTypes DEF CleanRound
  <1>3. QED
    BY <1>1, <1>2, ResetOK

(* Every step of lightningd, of the chain and of the tower. *)
LEMMA TowerStepOK == TowerInv /\ [Next]_vars => TowerInv'
  <1>1. SUFFICES ASSUME TowerInv, [Next]_vars PROVE TowerInv'
    OBVIOUS
  <1>2. CASE UNCHANGED vars
    <2>1. UNCHANGED <<chain, node, k, round, pool, clean, torn>>
      BY <1>2 DEF vars
    <2>2. /\ k' \in Cursors /\ round' \in Rounds /\ pool' \subseteq Sends
          /\ clean' \in BOOLEAN /\ torn' \in BOOLEAN /\ Walked' /\ CleanRound'
      BY <1>1, <2>1 DEF TowerInv, TowerTypeOK, Walked, CleanRound
    <2>3. QED
      BY <1>1, <2>1, <2>2, TowerMovesOK
  <1>3. CASE Lightningd
    BY <1>1, <1>3, LightningdOK
  <1>4. CASE Extend
    BY <1>1, <1>4, ExtendOK
  <1>5. CASE Reorg
    BY <1>1, <1>5, ReorgStepOK
  <1>6. CASE StartRound(TRUE) \/ StartRound(FALSE)
    BY <1>1, <1>6, StartRoundOK
  <1>7. CASE LookAtFunding
    BY <1>1, <1>7, LookAtFundingOK
  <1>8. CASE CheckScanned
    BY <1>1, <1>8, CheckScannedOK
  <1>9. CASE ScanBlock
    BY <1>1, <1>9, ScanBlockOK
  <1>10. CASE ScanEnds
    BY <1>1, <1>10, ScanEndsOK
  <1>11. CASE Broadcast \/ NothingToDo
    BY <1>1, <1>11, ActOK
  <1>12. CASE RpcFails
    BY <1>1, <1>12, RpcFailsOK
  <1>13. CASE TowerRestarts
    BY <1>1, <1>13, TowerRestartsOK
  <1>14. CASE Next
    BY <1>3, <1>4, <1>5, <1>6, <1>7, <1>8, <1>9, <1>10, <1>11, <1>12, <1>13, <1>14, Zenon
       DEF Next, Tower
  <1>15. QED
    BY <1>1, <1>2, <1>14

(* The walk is that of one branch, or marked as torn. *)
THEOREM TowerInvHolds == Spec => []TowerInv
  <1>1. Init => TowerInv
    BY TowerInitOK
  <1>2. TowerInv /\ [Next]_vars => TowerInv'
    BY TowerStepOK
  <1>3. QED
    BY <1>1, <1>2, PTL DEF Spec

(* FollowsChain for any chain and any number of reorgs, restarts and failed *)
(* calls: after an undisturbed round the walk of sym_scan() stands at the   *)
(* output that stands on chain, and knows the block that made it, but for   *)
(* the torn walks that FollowsChain names.                                  *)
THEOREM TowerFollowsChain == Spec => []FollowsChain
  <1>1. TowerInv => FollowsChain
    BY DEF TowerInv, CleanRound, FollowsChain, Follows, Stands
  <1>2. QED
    BY <1>1, TowerInvHolds, PTL

(* RecordCovers for any number of states, crashes and failed writes, and    *)
(* either role: sym_save() writes the file before the database commits, so  *)
(* unless it could not be written the last time the tower can replace or    *)
(* settle any state the peer may publish but its first.                     *)
THEOREM TowerCanAnswer == Spec => []RecordCovers
  <1>1. TowerInv => RecordCovers
    BY DEF TowerInv
  <1>2. QED
    BY <1>1, TowerInvHolds, PTL
=============================================================================
