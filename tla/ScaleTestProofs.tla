-------------------------- MODULE ScaleTestProofs --------------------------
(***************************************************************************)
(* NoFalseAlarm and PassMeansUp for trees of any size.  The tree: who has  *)
(* which producers (PrdcrBelow, PrdcrApart), and so what an aggregator     *)
(* lists when nothing is under way (SteadyView).  The script: what holds   *)
(* when it comes to a step (Down, Gone, Calm), from one step to the next.  *)
(***************************************************************************)
EXTENDS ScaleTest, FiniteSetTheorems, TLAPS
-----------------------------------------------------------------------------
(* The tree.                                                               *)

LEMMA Sizes ==
  /\ NDL[0] = NSamp /\ NDL[1] = NL1 /\ NDL[2] = NL2 /\ NDL[3] = 1
  /\ \A l \in 0 .. 3 : NDL[l] \in Nat /\ NDL[l] >= 1
  /\ \A l \in 1 .. 3 : NDL[l] <= NDL[l - 1]
<1>1. NDL[0] = NSamp /\ NDL[1] = NL1 /\ NDL[2] = NL2 /\ NDL[3] = 1
  BY DEF NDL
<1> QED
  BY <1>1, ScaleTestAssumption

(* Quotients: n producers for each of m daemons.                           *)
LEMMA Quotient ==
  ASSUME NEW a \in Nat, NEW m \in Nat, m >= 1, m <= a
  PROVE  /\ a \div m \in Nat /\ a \div m >= 1
         /\ \A i \in 0 .. m - 1, j \in 0 .. (a \div m) - 1 :
               i * (a \div m) + j \in 0 .. a - 1
<1> DEFINE n == a \div m
<1>1. n \in Nat /\ n * m <= a /\ a < n * m + m
  BY SMTT(30)
<1> HIDE DEF n
<1>2. n >= 1
  <2>1. n = 0 => n * m = 0
    OBVIOUS
  <2> QED
    BY <1>1, <2>1
<1>3. ASSUME NEW i \in 0 .. m - 1, NEW j \in 0 .. n - 1
      PROVE  i * n + j \in 0 .. a - 1
  <2>1. i * n \in Nat /\ (m - 1 - i) * n \in Nat
    BY <1>1
  <2>2. (m - 1 - i) * n = n * m - n - i * n
    BY <1>1
  <2> QED
    BY <1>1, <2>1, <2>2
<1> QED
  BY <1>1, <1>2, <1>3 DEF n

LEMMA Shares ==
  ASSUME NEW n \in Nat, NEW i \in Nat, NEW j \in 0 .. n - 1,
         NEW h \in Nat, NEW k \in 0 .. n - 1, i * n + j = h * n + k
  PROVE  i = h
<1>1. ASSUME NEW x \in Nat, NEW y \in Nat, x < y, NEW u \in 0 .. n - 1,
             NEW v \in 0 .. n - 1
      PROVE  x * n + u # y * n + v
  <2>1. PICK e \in Nat : y = x + 1 + e
    <3>1. y - x - 1 \in Nat /\ y = x + 1 + (y - x - 1)
      BY <1>1
    <3> QED
      BY <3>1
  <2>2. y * n = x * n + n + e * n /\ e * n \in Nat /\ x * n \in Nat
    BY <2>1
  <2> QED
    BY <2>2
<1> QED
  BY <1>1

LEMMA DLMeans ==
  ASSUME NEW l \in 0 .. 3
  PROVE  /\ \A d \in DL(l) : /\ agg_level(d) = l /\ d[2] \in 0 .. NDL[l] - 1
                             /\ d = <<l, d[2]>>
         /\ \A i \in 0 .. NDL[l] - 1 : <<l, i>> \in DL(l)
  BY DEF DL, agg_level

LEMMA Levels ==
  /\ L3 \in DL(3) /\ l10 \in DL(1) /\ l11 \in DL(1) /\ l21 \in DL(2)
  /\ \A a \in DL(3) : a = L3
  /\ \A d \in Daemons : agg_level(d) \in 0 .. 3 /\ d \in DL(agg_level(d))
  /\ \A d \in Daemons : d \in Samplers <=> agg_level(d) = 0
  /\ \A l \in 0 .. 3 : DL(l) \subseteq Daemons
  /\ \A l \in 1 .. 3 : DL(l) \subseteq Aggs
  /\ Samplers \cap Aggs = {} /\ Samplers \cup Aggs = Daemons
  /\ Aggs \subseteq Daemons /\ \A a \in Aggs : agg_level(a) \in 1 .. 3
<1>1. L3 \in DL(3) /\ l10 \in DL(1) /\ l11 \in DL(1) /\ l21 \in DL(2)
  BY DLMeans, Sizes, ScaleTestAssumption DEF L3, l10, l11, l21
<1>2. \A a \in DL(3) : a = L3
  BY DLMeans, Sizes DEF L3
<1>3. \A d \in Daemons : \E l \in 0 .. 3 : d \in DL(l)
  BY DEF Daemons, Samplers, Aggs
<1>4. \A l \in 0 .. 3 : \A d \in DL(l) : agg_level(d) = l
  BY DLMeans
<1>5. \A l \in 0 .. 3 : DL(l) \subseteq Daemons
  <2>1. SUFFICES ASSUME NEW l \in 0 .. 3 PROVE DL(l) \subseteq Daemons
    OBVIOUS
  <2>2. l = 0 \/ l = 1 \/ l = 2 \/ l = 3
    OBVIOUS
  <2> QED
    BY <2>2 DEF Daemons, Samplers, Aggs
<1>6. \A l \in 1 .. 3 : DL(l) \subseteq Aggs
  <2>1. SUFFICES ASSUME NEW l \in 1 .. 3 PROVE DL(l) \subseteq Aggs
    OBVIOUS
  <2>2. l = 1 \/ l = 2 \/ l = 3
    OBVIOUS
  <2> QED
    BY <2>2 DEF Aggs
<1>7. \A a \in Aggs : a \in Daemons /\ \E l \in 1 .. 3 : a \in DL(l)
  BY DEF Aggs, Daemons
<1>8. \A a \in Aggs : agg_level(a) \in 1 .. 3
  BY <1>4, <1>7
<1>9. \A d \in Daemons : agg_level(d) \in 0 .. 3 /\ d \in DL(agg_level(d))
  BY <1>3, <1>4
<1>10. \A d \in Samplers : agg_level(d) = 0
  BY <1>4 DEF Samplers
<1>11. Samplers \cap Aggs = {} /\ Samplers \cup Aggs = Daemons
  BY <1>8, <1>10 DEF Daemons
<1>12. \A d \in Daemons : d \in Samplers <=> agg_level(d) = 0
  BY <1>8, <1>10, <1>11
<1> QED
  BY <1>1, <1>2, <1>5, <1>6, <1>7, <1>8, <1>9, <1>11, <1>12

(* Producers are on the level below, each has its own, and L3 all of L2.   *)
LEMMA PrdcrBelow ==
  ASSUME NEW l \in 1 .. 3, NEW a \in DL(l)
  PROVE  getPrdcr(a) \subseteq DL(l - 1) /\ getPrdcr(a) # {}
<1> DEFINE n == NDL[l - 1] \div NDL[l]
<1>1. /\ n \in Nat /\ n >= 1
      /\ \A i \in 0 .. NDL[l] - 1, j \in 0 .. n - 1 : i * n + j \in 0 .. NDL[l - 1] - 1
  <2>1. l \in 0 .. 3 /\ l - 1 \in 0 .. 3
    OBVIOUS
  <2>2. /\ NDL[l] \in Nat /\ NDL[l - 1] \in Nat
        /\ NDL[l] >= 1 /\ NDL[l] <= NDL[l - 1]
    BY <2>1, Sizes
  <2> QED
    BY <2>2, Quotient
<1>2. agg_level(a) = l /\ a[2] \in 0 .. NDL[l] - 1
  BY DLMeans
<1>3. getPrdcr(a) = {<<l - 1, a[2] * n + j>> : j \in 0 .. n - 1}
  BY <1>2 DEF getPrdcr
<1> HIDE DEF n
<1>4. \A j \in 0 .. n - 1 : <<l - 1, a[2] * n + j>> \in DL(l - 1)
  BY <1>1, <1>2, DLMeans
<1>5. 0 \in 0 .. n - 1
  BY <1>1
<1> QED
  BY <1>3, <1>4, <1>5

LEMMA PrdcrApart ==
  ASSUME NEW l \in 1 .. 3, NEW a \in DL(l), NEW b \in DL(l), a # b
  PROVE  getPrdcr(a) \cap getPrdcr(b) = {}
<1> DEFINE n == NDL[l - 1] \div NDL[l]
<1>1. n \in Nat
  <2>1. l \in 0 .. 3 /\ l - 1 \in 0 .. 3
    OBVIOUS
  <2>2. /\ NDL[l] \in Nat /\ NDL[l - 1] \in Nat
        /\ NDL[l] >= 1 /\ NDL[l] <= NDL[l - 1]
    BY <2>1, Sizes
  <2> QED
    BY <2>2, Quotient
<1>2. /\ agg_level(a) = l /\ a[2] \in Nat /\ a = <<l, a[2]>>
      /\ agg_level(b) = l /\ b[2] \in Nat /\ b = <<l, b[2]>>
  BY DLMeans, Sizes
<1>3. /\ getPrdcr(a) = {<<l - 1, a[2] * n + j>> : j \in 0 .. n - 1}
      /\ getPrdcr(b) = {<<l - 1, b[2] * n + j>> : j \in 0 .. n - 1}
  BY <1>2 DEF getPrdcr
<1> HIDE DEF n
<1>4. a[2] # b[2]
  BY <1>2
<1>5. \A j \in 0 .. n - 1, k \in 0 .. n - 1 : a[2] * n + j # b[2] * n + k
  BY <1>1, <1>2, <1>4, Shares
<1> QED
  BY <1>3, <1>5

LEMMA ConfigIsPrdcr ==
  \A a \in Aggs : getConfig(a) = getPrdcr(a)
<1>1. L3 \in Aggs /\ agg_level(L3) = 3 /\ L3[2] = 0
  BY Levels, DLMeans DEF L3
<1>2. NDL[2] \div NDL[3] = NDL[2] /\ NDL[2] \in Nat
  <2>1. \A n \in Nat : n \div 1 = n
    OBVIOUS
  <2> QED
    BY <2>1, Sizes
<1>3. getPrdcr(L3) = {<<2, 0 * NDL[2] + j>> : j \in 0 .. NDL[2] - 1}
  BY <1>1, <1>2 DEF getPrdcr
<1>4. getPrdcr(L3) = DL(2)
  BY <1>2, <1>3 DEF DL
<1> QED
  BY <1>4 DEF getConfig

(* What is expected of an aggregator is what is expected of its producers. *)
LEMMA ExpectedMeans ==
  /\ \A d \in Samplers : getExpectedDir(d) = {d}
  /\ \A l \in 1 .. 3 : \A a \in DL(l) :
       getExpectedDir(a) = UNION {getExpectedDir(p) : p \in getPrdcr(a)}
<1>1. \A d \in Samplers : getExpectedDir(d) = {d}
  BY Levels DEF getExpectedDir, Daemons
<1>2. \A a \in DL(1) : getExpectedDir(a) = getPrdcr(a)
  BY DLMeans DEF getExpectedDir, L1Dir
<1>3. \A a \in DL(2) : getExpectedDir(a) = UNION {getPrdcr(p) : p \in getPrdcr(a)}
  BY DLMeans DEF getExpectedDir, L2Dir, L1Dir
<1>4. \A a \in DL(3) : getExpectedDir(a) = UNION {L2Dir(p) : p \in getPrdcr(a)}
  BY DLMeans DEF getExpectedDir, L3Dir
<1>5. \A p \in DL(2) : L2Dir(p) = getExpectedDir(p)
  BY <1>3 DEF L2Dir, L1Dir
<1>6. /\ \A a \in DL(1) : getPrdcr(a) \subseteq Samplers
      /\ \A a \in DL(2) : getPrdcr(a) \subseteq DL(1)
      /\ \A a \in DL(3) : getPrdcr(a) \subseteq DL(2)
  BY PrdcrBelow DEF Samplers
<1>7. \A a \in DL(1) : getExpectedDir(a) = UNION {getExpectedDir(p) : p \in getPrdcr(a)}
  BY <1>1, <1>2, <1>6
<1>8. \A a \in DL(2) : getExpectedDir(a) = UNION {getExpectedDir(p) : p \in getPrdcr(a)}
  BY <1>2, <1>3, <1>6
<1>9. \A a \in DL(3) : getExpectedDir(a) = UNION {getExpectedDir(p) : p \in getPrdcr(a)}
  BY <1>4, <1>5, <1>6
<1>10. \A l \in 1 .. 3 : l = 1 \/ l = 2 \/ l = 3
  OBVIOUS
<1> QED
  BY <1>1, <1>7, <1>8, <1>9, <1>10

LEMMA ExpectedSamplers ==
  \A d \in Daemons : getExpectedDir(d) \subseteq Samplers /\ getExpectedDir(d) # {}
<1> DEFINE Fine(d) == getExpectedDir(d) \subseteq Samplers /\ getExpectedDir(d) # {}
<1>1. \A d \in DL(0) : Fine(d)
  BY ExpectedMeans DEF Samplers
<1>2. ASSUME NEW l \in 1 .. 3, \A p \in DL(l - 1) : Fine(p)
      PROVE  \A a \in DL(l) : Fine(a)
  <2>1. SUFFICES ASSUME NEW a \in DL(l) PROVE Fine(a)
    OBVIOUS
  <2>2. getExpectedDir(a) = UNION {getExpectedDir(p) : p \in getPrdcr(a)}
    BY ExpectedMeans
  <2>3. getPrdcr(a) \subseteq DL(l - 1) /\ getPrdcr(a) # {}
    BY PrdcrBelow
  <2> QED
    BY <1>2, <2>2, <2>3
<1> HIDE DEF Fine
<1>3. \A d \in DL(1) : Fine(d)
  BY <1>1, <1>2
<1>4. \A d \in DL(2) : Fine(d)
  BY <1>2, <1>3
<1>5. \A d \in DL(3) : Fine(d)
  BY <1>2, <1>4
<1>6. \A d \in Daemons : d \in DL(0) \/ d \in DL(1) \/ d \in DL(2) \/ d \in DL(3)
  BY DEF Daemons, Samplers, Aggs
<1>7. \A d \in Daemons : Fine(d)
  BY <1>1, <1>3, <1>4, <1>5, <1>6
<1> QED
  BY <1>7 DEF Fine

LEMMA ExpectedApart ==
  \A l \in 0 .. 3 : \A a, b \in DL(l) :
    a # b => getExpectedDir(a) \cap getExpectedDir(b) = {}
<1> DEFINE Apart(l) == \A a, b \in DL(l) :
             a # b => getExpectedDir(a) \cap getExpectedDir(b) = {}
<1>1. Apart(0)
  BY ExpectedMeans DEF Samplers
<1>2. ASSUME NEW l \in 1 .. 3, Apart(l - 1)
      PROVE  Apart(l)
  <2>1. SUFFICES ASSUME NEW a \in DL(l), NEW b \in DL(l), a # b,
                        NEW x, x \in getExpectedDir(a), x \in getExpectedDir(b)
                 PROVE  FALSE
    OBVIOUS
  <2>2. PICK p \in getPrdcr(a) : x \in getExpectedDir(p)
    BY <2>1, ExpectedMeans
  <2>3. PICK q \in getPrdcr(b) : x \in getExpectedDir(q)
    BY <2>1, ExpectedMeans
  <2>4. p # q
    BY <2>1, PrdcrApart
  <2>5. p \in DL(l - 1) /\ q \in DL(l - 1)
    BY PrdcrBelow
  <2> QED
    BY <1>2, <2>2, <2>3, <2>4, <2>5
<1> HIDE DEF Apart
<1>3. Apart(1) /\ 1 \in 1 .. 3 /\ 2 \in 1 .. 3 /\ 3 \in 1 .. 3
  BY <1>1, <1>2
<1>4. Apart(2)
  BY <1>2, <1>3
<1>5. Apart(3)
  BY <1>2, <1>4
<1>6. \A l \in 0 .. 3 : l = 0 \/ l = 1 \/ l = 2 \/ l = 3
  OBVIOUS
<1>7. \A l \in 0 .. 3 : Apart(l)
  BY <1>1, <1>3, <1>4, <1>5, <1>6
<1> QED
  BY <1>7 DEF Apart

-----------------------------------------------------------------------------
(* What is seen when nothing is under way.                                 *)

(* The sets that are missing when the daemons in D are.                    *)
Rm(D) == UNION {getExpectedDir(d) : d \in D}

LEMMA HalfFacts ==
  half \subseteq Samplers /\ halfSets = Rm(half) /\ halfSets # {}
<1> DEFINE n == NDL[0] \div NDL[1]
           f == [j \in 0 .. n - 1 |-> <<0, j>>]
<1>1. n \in Nat /\ n >= 1
  <2>1. NDL[0] = NSamp /\ NDL[1] = NL1 /\ NSamp \in Nat /\ NL1 \in Nat
    BY Sizes, ScaleTestAssumption
  <2>2. NL1 >= 1 /\ NL1 <= NSamp
    BY ScaleTestAssumption
  <2> QED
    BY <2>1, <2>2, Quotient
<1>2. getPrdcr(l10) = {<<0, 0 * n + j>> : j \in 0 .. n - 1}
  BY Sizes DEF getPrdcr, agg_level, l10
<1> HIDE DEF n
<1>3. getPrdcr(l10) = {<<0, j>> : j \in 0 .. n - 1}
  BY <1>1, <1>2
<1>4. f \in Bijection(0 .. n - 1, getPrdcr(l10))
  BY <1>3 DEF Bijection, Injection, Surjection, IsInjective
<1>5. IsFiniteSet(0 .. n - 1) /\ Cardinality(0 .. n - 1) = n
  BY <1>1, FS_Interval
<1> HIDE DEF f
<1>6. Cardinality(getPrdcr(l10)) = n
  <2>1. ExistsBijection(0 .. n - 1, getPrdcr(l10))
    BY <1>4 DEF ExistsBijection
  <2> QED
    BY <1>5, <2>1, FS_Bijection
<1>7. <<0, n - 1>> \in getPrdcr(l10) /\ <<0, n - 1>>[2] >= n \div 2
  <2>1. n - 1 \in 0 .. n - 1 /\ n - 1 >= n \div 2
    BY <1>1
  <2> QED
    BY <1>3, <2>1
<1>8. <<0, n - 1>> \in half
  BY <1>6, <1>7 DEF half
<1>9. half \subseteq Samplers
  <2>1. getPrdcr(l10) \subseteq DL(1 - 1)
    BY Levels, PrdcrBelow
  <2> QED
    BY <2>1 DEF half, Samplers
<1>10. halfSets = Rm(half)
  BY DEF halfSets, Rm
<1> QED
  BY <1>8, <1>9, <1>10, ExpectedMeans DEF Rm

LEMMA SteadyMeans ==
  ASSUME TypeOK, DirsInv, Steady, NEW l \in 1 .. 3, NEW a \in DL(l), st[a] = "up"
  PROVE  DirOf(a) = UNION {DirOf(p) : p \in getPrdcr(a)}
<1>1. a \in Aggs /\ a \notin Samplers /\ DirOf(a) = dirs[a]
  BY Levels DEF DirOf
<1>2. dirs[a] \subseteq UNION {getExpectedDir(p) : p \in getPrdcr(a)}
  BY <1>1, ExpectedMeans DEF DirsInv
<1>3. ASSUME NEW p \in getPrdcr(a)
      PROVE  DirOf(p) = dirs[a] \cap getExpectedDir(p)
  <2>1. (dirs[a] \ getExpectedDir(p)) \cup DirOf(p) = dirs[a]
    BY <1>1, ConfigIsPrdcr DEF Steady, Collected
  <2>2. p \in DL(l - 1) /\ p \in Daemons
    BY PrdcrBelow, Levels
  <2>3. DirOf(p) \subseteq getExpectedDir(p)
    BY <2>2, Levels, ExpectedMeans DEF DirOf, DirsInv
  <2> QED
    BY <2>1, <2>3
<1> QED
  BY <1>1, <1>2, <1>3

(* With the daemons D of level l missing, the levels above miss their sets *)
(* and the others miss nothing.                                            *)
Seen(a, l, D) ==
  IF agg_level(a) > l THEN getExpectedDir(a) \ Rm(D) ELSE getExpectedDir(a)

LEMMA SteadyView ==
  ASSUME TypeOK, DirsInv, Steady, NEW l \in 0 .. 3, NEW D \in SUBSET DL(l),
         \A d \in Daemons : st[d] = "up" <=> d \notin D
  PROVE  \A a \in Daemons \ D : DirOf(a) = Seen(a, l, D)
<1> DEFINE View(m) == \A a \in DL(m) \ D : DirOf(a) = Seen(a, l, D)
<1>1. \A d \in D : DirOf(d) = {}
  BY Levels DEF DirOf
<1>2. View(0)
  <2>1. SUFFICES ASSUME NEW a \in DL(0) \ D PROVE DirOf(a) = Seen(a, l, D)
    OBVIOUS
  <2>2. a \in Samplers /\ a \in Daemons /\ agg_level(a) = 0 /\ ~(agg_level(a) > l)
    BY Levels DEF Samplers
  <2> QED
    BY <2>2, ExpectedMeans DEF DirOf, Seen
<1>3. ASSUME NEW m \in 1 .. 3, View(m - 1)
      PROVE  View(m)
  <2>1. SUFFICES ASSUME NEW a \in DL(m) \ D PROVE DirOf(a) = Seen(a, l, D)
    OBVIOUS
  <2>2. agg_level(a) = m /\ a \in Daemons /\ st[a] = "up"
    BY Levels, DLMeans
  <2>3. /\ DirOf(a) = UNION {DirOf(p) : p \in getPrdcr(a)}
        /\ getExpectedDir(a) = UNION {getExpectedDir(p) : p \in getPrdcr(a)}
    BY <2>2, SteadyMeans, ExpectedMeans
  <2>4. \A p \in getPrdcr(a) : p \in DL(m - 1) /\ agg_level(p) = m - 1
    BY PrdcrBelow, DLMeans
  <2>5. CASE m <= l
    <3>1. \A p \in getPrdcr(a) : p \notin D
      BY <2>4, <2>5, DLMeans
    <3>2. \A p \in getPrdcr(a) : DirOf(p) = getExpectedDir(p)
      BY <1>3, <2>4, <2>5, <3>1 DEF Seen
    <3> QED
      BY <2>2, <2>3, <2>5, <3>2 DEF Seen
  <2>6. CASE m = l + 1
    <3>1. \A p \in getPrdcr(a) : p \notin D => DirOf(p) = getExpectedDir(p)
      BY <1>3, <2>4, <2>6 DEF Seen
    <3>2. \A p \in getPrdcr(a) : p \notin D => getExpectedDir(p) \cap Rm(D) = {}
      <4>1. \A p \in getPrdcr(a) : p \in DL(l)
        BY <2>4, <2>6
      <4>2. \A p \in getPrdcr(a), d \in D : p # d => getExpectedDir(p) \cap getExpectedDir(d) = {}
        BY <4>1, ExpectedApart
      <4> QED
        BY <4>2 DEF Rm
    <3>3. \A p \in getPrdcr(a) : p \in D => DirOf(p) = {} /\ getExpectedDir(p) \subseteq Rm(D)
      BY <1>1 DEF Rm
    <3>4. \A p \in getPrdcr(a) : DirOf(p) = getExpectedDir(p) \ Rm(D)
      BY <3>1, <3>2, <3>3
    <3>5. DirOf(a) = getExpectedDir(a) \ Rm(D)
      BY <2>3, <3>4
    <3> QED
      BY <2>2, <2>6, <3>5 DEF Seen
  <2>7. CASE m > l + 1
    <3>1. \A p \in getPrdcr(a) : p \notin D
      BY <2>4, <2>7, DLMeans
    <3>2. \A p \in getPrdcr(a) : DirOf(p) = getExpectedDir(p) \ Rm(D)
      BY <1>3, <2>4, <2>7, <3>1 DEF Seen
    <3>3. DirOf(a) = getExpectedDir(a) \ Rm(D)
      BY <2>3, <3>2
    <3> QED
      BY <2>2, <2>7, <3>3 DEF Seen
  <2> QED
    BY <2>5, <2>6, <2>7
<1> HIDE DEF View
<1>4. View(1) /\ 1 \in 1 .. 3 /\ 2 \in 1 .. 3 /\ 3 \in 1 .. 3
  BY <1>2, <1>3
<1>5. View(2)
  BY <1>3, <1>4
<1>6. View(3)
  BY <1>3, <1>5
<1>7. \A m \in 0 .. 3 : m = 0 \/ m = 1 \/ m = 2 \/ m = 3
  OBVIOUS
<1>8. \A m \in 0 .. 3 : View(m)
  BY <1>2, <1>4, <1>5, <1>6, <1>7
<1> QED
  BY <1>8, Levels DEF View

-----------------------------------------------------------------------------
(* The script, step by step.                                               *)

LEMMA ScriptLen == Len(Script) = 62 /\ DOMAIN Script = 1 .. 62
  BY DEF Script

LEMMA ScriptDo ==
  /\ Script[1].do = "stop" /\ Script[2].do = "cleanup"
  /\ Script[3].do = "start" /\ Script[4].do = "restored"
  /\ Script[5].do = "sleep" /\ Script[6].do = "verify"
  /\ Script[7].do = "sleep" /\ Script[8].do = "stop"
  /\ Script[9].do = "stopped" /\ Script[10].do = "removed"
  /\ Script[11].do = "sleep" /\ Script[12].do = "verify"
  /\ Script[13].do = "sleep" /\ Script[14].do = "start"
  /\ Script[15].do = "started" /\ Script[16].do = "restored"
  /\ Script[17].do = "sleep" /\ Script[18].do = "verify"
  /\ Script[19].do = "sleep" /\ Script[20].do = "disconnect"
  /\ Script[21].do = "stop" /\ Script[22].do = "stopped"
  /\ Script[23].do = "removed" /\ Script[24].do = "sleep"
  /\ Script[25].do = "verify" /\ Script[26].do = "sleep"
  /\ Script[27].do = "start" /\ Script[28].do = "started"
  /\ Script[29].do = "restored" /\ Script[30].do = "sleep"
  /\ Script[31].do = "connect" /\ Script[32].do = "verify"
  /\ Script[33].do = "sleep" /\ Script[34].do = "disconnect"
  /\ Script[35].do = "stop" /\ Script[36].do = "stopped"
  /\ Script[37].do = "removed" /\ Script[38].do = "sleep"
  /\ Script[39].do = "verify" /\ Script[40].do = "sleep"
  /\ Script[41].do = "start" /\ Script[42].do = "started"
  /\ Script[43].do = "restored" /\ Script[44].do = "sleep"
  /\ Script[45].do = "connect" /\ Script[46].do = "verify"
  /\ Script[47].do = "sleep" /\ Script[48].do = "disconnect"
  /\ Script[49].do = "stop" /\ Script[50].do = "stopped"
  /\ Script[51].do = "sleep" /\ Script[52].do = "verify"
  /\ Script[53].do = "sleep" /\ Script[54].do = "start"
  /\ Script[55].do = "started" /\ Script[56].do = "sleep"
  /\ Script[57].do = "connect" /\ Script[58].do = "restored"
  /\ Script[59].do = "sleep" /\ Script[60].do = "verify"
  /\ Script[61].do = "sleep" /\ Script[62].do = "stop"
  BY DEF Script, Step, Restored, Removed, Verify, Sleep

(* What the steps are about.                                               *)
LEMMA ScriptIs ==
  /\ Script[1] = Step("stop", Daemons)
  /\ Script[2] = Step("cleanup", Daemons)
  /\ Script[3] = Step("start", Daemons)
  /\ Script[6] = Verify(1, Aggs, {}, 0)
  /\ Script[8] = Step("stop", half)
  /\ Script[9] = Step("stopped", half)
  /\ Script[10] = Removed(halfSets)
  /\ Script[12] = Verify(2, Aggs, halfSets, 0)
  /\ Script[14] = Step("start", half)
  /\ Script[15] = Step("started", half)
  /\ Script[18] = Verify(3, Aggs, {}, 0)
  /\ Script[20] = Step("disconnect", {l11})
  /\ Script[21] = Step("stop", {l11})
  /\ Script[22] = Step("stopped", {l11})
  /\ Script[23] = Removed(getExpectedDir(l11))
  /\ Script[25] = Verify(4, Aggs \ {l11}, getExpectedDir(l11), 1)
  /\ Script[27] = Step("start", {l11})
  /\ Script[28] = Step("started", {l11})
  /\ Script[31] = Step("connect", {l11})
  /\ Script[32] = Verify(5, Aggs, {}, 0)
  /\ Script[34] = Step("disconnect", {l21})
  /\ Script[35] = Step("stop", {l21})
  /\ Script[36] = Step("stopped", {l21})
  /\ Script[37] = Removed(getExpectedDir(l21))
  /\ Script[39] = Verify(6, Aggs \ {l21}, getExpectedDir(l21), 2)
  /\ Script[41] = Step("start", {l21})
  /\ Script[42] = Step("started", {l21})
  /\ Script[45] = Step("connect", {l21})
  /\ Script[46] = Verify(7, Aggs, {}, 0)
  /\ Script[48] = Step("disconnect", {L3})
  /\ Script[49] = Step("stop", {L3})
  /\ Script[50] = Step("stopped", {L3})
  /\ Script[52] = Verify(8, Aggs \ {L3}, {}, 3)
  /\ Script[54] = Step("start", {L3})
  /\ Script[55] = Step("started", {L3})
  /\ Script[57] = Step("connect", {L3})
  /\ Script[60] = Verify(9, Aggs, {}, 0)
  /\ Script[62] = Step("stop", Daemons)
  BY DEF Script

LEMMA Places ==
  ASSUME NEW k \in 1 .. 62
  PROVE  /\ Script[k].do = "stop" => k \in {1, 8, 21, 35, 49, 62}
         /\ Script[k].do = "cleanup" => k \in {2}
         /\ Script[k].do = "start" => k \in {3, 14, 27, 41, 54}
         /\ Script[k].do = "restored" => k \in {4, 16, 29, 43, 58}
         /\ Script[k].do = "sleep" => k \in {5, 7, 11, 13, 17, 19, 24, 26, 30, 33, 38, 40, 44, 47, 51, 53, 56, 59, 61}
         /\ Script[k].do = "verify" => k \in {6, 12, 18, 25, 32, 39, 46, 52, 60}
         /\ Script[k].do = "stopped" => k \in {9, 22, 36, 50}
         /\ Script[k].do = "removed" => k \in {10, 23, 37}
         /\ Script[k].do = "started" => k \in {15, 28, 42, 55}
         /\ Script[k].do = "disconnect" => k \in {20, 34, 48}
         /\ Script[k].do = "connect" => k \in {31, 45, 57}
<1>1. Script[k].do = "stop" => k \in {1, 8, 21, 35, 49, 62}
  BY ScriptDo, SMTT(30)
<1>2. Script[k].do = "cleanup" => k \in {2}
  BY ScriptDo, SMTT(30)
<1>3. Script[k].do = "start" => k \in {3, 14, 27, 41, 54}
  BY ScriptDo, SMTT(30)
<1>4. Script[k].do = "restored" => k \in {4, 16, 29, 43, 58}
  BY ScriptDo, SMTT(30)
<1>5. Script[k].do = "sleep" => k \in {5, 7, 11, 13, 17, 19, 24, 26, 30, 33, 38, 40, 44, 47, 51, 53, 56, 59, 61}
  BY ScriptDo, SMTT(30)
<1>6. Script[k].do = "verify" => k \in {6, 12, 18, 25, 32, 39, 46, 52, 60}
  BY ScriptDo, SMTT(30)
<1>7. Script[k].do = "stopped" => k \in {9, 22, 36, 50}
  BY ScriptDo, SMTT(30)
<1>8. Script[k].do = "removed" => k \in {10, 23, 37}
  BY ScriptDo, SMTT(30)
<1>9. Script[k].do = "started" => k \in {15, 28, 42, 55}
  BY ScriptDo, SMTT(30)
<1>10. Script[k].do = "disconnect" => k \in {20, 34, 48}
  BY ScriptDo, SMTT(30)
<1>11. Script[k].do = "connect" => k \in {31, 45, 57}
  BY ScriptDo, SMTT(30)
<1> QED
  BY <1>1, <1>2, <1>3, <1>4, <1>5, <1>6, <1>7, <1>8, <1>9, <1>10, <1>11

LEMMA StopAt ==
  ASSUME NEW k \in 1 .. 62, Script[k].do = "stop"
  PROVE  /\ Script[k].ds \subseteq Daemons
         /\ k = 1 => Script[k].ds = Daemons
         /\ k # 62 => /\ Down(k + 1) = Down(k) \cup Script[k].ds
                      /\ ~Gone(k + 1) /\ ~Calm(k + 1)
                      /\ Script[k + 1].do \notin {"stop", "verify"}
<1>1. k \in {1, 8, 21, 35, 49, 62}
  BY Places
<1>2. half \subseteq Daemons /\ l11 \in Daemons /\ l21 \in Daemons /\ L3 \in Daemons
  BY Levels, HalfFacts
<1>3. /\ Script[1].ds = Daemons /\ Script[8].ds = half /\ Script[21].ds = {l11}
      /\ Script[35].ds = {l21} /\ Script[49].ds = {L3} /\ Script[62].ds = Daemons
  BY ScriptIs DEF Step
<1>4. Script[k].ds \subseteq Daemons /\ (k = 1 => Script[k].ds = Daemons)
  BY <1>1, <1>2, <1>3
<1>5. /\ Down(1) = Daemons /\ Down(2) = Daemons /\ Down(8) = {} /\ Down(9) = half
      /\ Down(21) = {} /\ Down(22) = {l11} /\ Down(35) = {} /\ Down(36) = {l21}
      /\ Down(49) = {} /\ Down(50) = {L3}
  BY DEF Down
<1>6. k # 62 => Down(k + 1) = Down(k) \cup Script[k].ds
  BY <1>1, <1>3, <1>5
<1>7. k # 62 => ~Gone(k + 1) /\ ~Calm(k + 1)
  BY <1>1 DEF Gone, Calm
<1>8. k # 62 => Script[k + 1].do \notin {"stop", "verify"}
  BY <1>1, ScriptDo
<1> QED
  BY <1>4, <1>6, <1>7, <1>8

LEMMA StartAt ==
  ASSUME NEW k \in 1 .. 62, Script[k].do = "start"
  PROVE  /\ Script[k].ds = Down(k) /\ Down(k) \subseteq Daemons
         /\ Down(k + 1) = {} /\ Gone(k) /\ ~Calm(k + 1) /\ k # 1 /\ k # 62
         /\ Script[k + 1].do \notin {"stop", "verify"}
<1>1. k \in {3, 14, 27, 41, 54}
  BY Places
<1>2. half \subseteq Daemons /\ l11 \in Daemons /\ l21 \in Daemons /\ L3 \in Daemons
  BY Levels, HalfFacts
<1>3. /\ Script[3].ds = Daemons /\ Script[14].ds = half /\ Script[27].ds = {l11}
      /\ Script[41].ds = {l21} /\ Script[54].ds = {L3}
  BY ScriptIs DEF Step
<1>4. /\ Down(3) = Daemons /\ Down(14) = half /\ Down(27) = {l11}
      /\ Down(41) = {l21} /\ Down(54) = {L3}
      /\ Down(4) = {} /\ Down(15) = {} /\ Down(28) = {} /\ Down(42) = {} /\ Down(55) = {}
  BY DEF Down
<1>5. Script[k].ds = Down(k) /\ Down(k) \subseteq Daemons /\ Down(k + 1) = {}
  <2>1. Script[k].ds = Down(k)
    BY <1>1, <1>3, <1>4, ZenonT(60)
  <2>2. Down(k) \subseteq Daemons
    BY <1>1, <1>2, <1>4
  <2>3. Down(k + 1) = {}
    BY <1>1, <1>4
  <2> QED
    BY <2>1, <2>2, <2>3
<1>6. Gone(k) /\ ~Calm(k + 1) /\ k # 1 /\ k # 62
  BY <1>1 DEF Gone, Calm
<1>7. Script[k + 1].do \notin {"stop", "verify"}
  BY <1>1, ScriptDo
<1> QED
  BY <1>5, <1>6, <1>7

(* The other steps tell no daemon anything.                                *)
LEMMA StepAt ==
  ASSUME NEW k \in 1 .. 62, Script[k].do \notin {"stop", "start"}
  PROVE  /\ k # 1 /\ k # 62 /\ Down(k + 1) = Down(k) /\ Gone(k + 1)
         /\ Calm(k + 1) => Calm(k) \/ Script[k].do = "sleep"
         /\ Script[k].do = "verify" => Calm(k)
         /\ ~Gone(k) => Script[k].do \in {"cleanup", "stopped"} /\ Script[k].ds = Down(k)
<1>0. \A i \in {1, 8, 21, 35, 49, 62, 3, 14, 27, 41, 54} :
        Script[i].do = "stop" \/ Script[i].do = "start"
  BY ScriptDo
<1>1. k \notin {1, 8, 21, 35, 49, 62, 3, 14, 27, 41, 54}
  BY <1>0
<1>2. Down(k + 1) = Down(k)
  BY <1>1 DEF Down
<1>3. Gone(k + 1)
  BY <1>1 DEF Gone
<1>4. Calm(k + 1) => Calm(k) \/ k \in {5, 11, 17, 24, 30, 38, 44, 51, 56}
  BY <1>1 DEF Calm
<1>5. \A i \in {5, 11, 17, 24, 30, 38, 44, 51, 56} : Script[i].do = "sleep"
  BY ScriptDo
<1>6. Script[k].do = "verify" => Calm(k)
  BY Places DEF Calm
<1>7. ASSUME ~Gone(k)
      PROVE  Script[k].do \in {"cleanup", "stopped"} /\ Script[k].ds = Down(k)
  <2>1. k \in {2, 9, 22, 36, 50}
    BY <1>1, <1>7 DEF Gone
  <2>2. /\ Script[2].ds = Daemons /\ Script[9].ds = half /\ Script[22].ds = {l11}
        /\ Script[36].ds = {l21} /\ Script[50].ds = {L3}
    BY ScriptIs DEF Step
  <2>3. /\ Down(2) = Daemons /\ Down(9) = half /\ Down(22) = {l11}
        /\ Down(36) = {l21} /\ Down(50) = {L3}
    BY DEF Down
  <2>4. Script[k].do \in {"cleanup", "stopped"}
    BY <2>1, ScriptDo
  <2> QED
    BY <2>1, <2>2, <2>3, <2>4
<1> QED
  BY <1>1, <1>2, <1>3, <1>4, <1>5, <1>6, <1>7

(* Only the daemons that were told to stop are left out, or expected to be *)
(* missed.                                                                 *)
LEMMA VerifyAt ==
  ASSUME NEW k \in 1 .. 62, Script[k].do = "verify"
  PROVE  /\ Script[k].ds = Aggs \ Down(k) /\ Script[k].n \in 1 .. 9
         /\ Script[k].level \in 0 .. 3 /\ Down(k) \subseteq DL(Script[k].level)
         /\ Script[k].level # 3 => Script[k].rm = Rm(Down(k))
<1>1. k \in {6, 12, 18, 25, 32, 39, 46, 52, 60}
  BY Places
<1>2. Rm({}) = {} /\ \A d : Rm({d}) = getExpectedDir(d)
  BY DEF Rm
<1>3. /\ half \subseteq DL(0) /\ half \cap Aggs = {} /\ halfSets = Rm(half)
      /\ l11 \in DL(1) /\ l21 \in DL(2) /\ L3 \in DL(3)
  BY HalfFacts, Levels DEF Samplers
<1>4. CASE k \in {6, 18, 32, 46, 60}
  <2>1. Down(k) = {}
    BY <1>4 DEF Down
  <2>2. /\ Script[k].ds = Aggs /\ Script[k].n \in 1 .. 9 /\ Script[k].level = 0
        /\ Script[k].rm = {}
    BY <1>4, ScriptIs DEF Verify
  <2> QED
    BY <1>2, <2>1, <2>2
<1>5. CASE k = 12
  <2>1. Down(k) = half
    BY <1>5 DEF Down
  <2>2. /\ Script[k].ds = Aggs /\ Script[k].n = 2 /\ Script[k].level = 0
        /\ Script[k].rm = halfSets
    BY <1>5, ScriptIs DEF Verify
  <2> QED
    BY <1>3, <2>1, <2>2
<1>6. CASE k = 25
  <2>1. Down(k) = {l11}
    BY <1>6 DEF Down
  <2>2. /\ Script[k].ds = Aggs \ {l11} /\ Script[k].n = 4 /\ Script[k].level = 1
        /\ Script[k].rm = getExpectedDir(l11)
    BY <1>6, ScriptIs DEF Verify
  <2> QED
    BY <1>2, <1>3, <2>1, <2>2
<1>7. CASE k = 39
  <2>1. Down(k) = {l21}
    BY <1>7 DEF Down
  <2>2. /\ Script[k].ds = Aggs \ {l21} /\ Script[k].n = 6 /\ Script[k].level = 2
        /\ Script[k].rm = getExpectedDir(l21)
    BY <1>7, ScriptIs DEF Verify
  <2> QED
    BY <1>2, <1>3, <2>1, <2>2
<1>8. CASE k = 52
  <2>1. Down(k) = {L3}
    BY <1>8 DEF Down
  <2>2. Script[k].ds = Aggs \ {L3} /\ Script[k].n = 8 /\ Script[k].level = 3
    BY <1>8, ScriptIs DEF Verify
  <2> QED
    BY <1>3, <2>1, <2>2
<1> QED
  BY <1>1, <1>4, <1>5, <1>6, <1>7, <1>8

LEMMA RemovedAt ==
  ASSUME NEW k \in 1 .. 62, Script[k].do = "removed"
  PROVE  /\ Script[k].rm = Rm(Down(k)) /\ Script[k].rm # {}
         /\ \E l \in 0 .. 2 : Down(k) \subseteq DL(l)
<1>1. k = 10 \/ k = 23 \/ k = 37
  BY Places
<1>2. \A d : Rm({d}) = getExpectedDir(d)
  BY DEF Rm
<1>3. /\ half \subseteq DL(0) /\ halfSets = Rm(half) /\ halfSets # {}
      /\ l11 \in DL(1) /\ l21 \in DL(2)
      /\ getExpectedDir(l11) # {} /\ getExpectedDir(l21) # {}
  BY HalfFacts, Levels, ExpectedSamplers DEF Samplers
<1>4. /\ Script[10].rm = halfSets /\ Script[23].rm = getExpectedDir(l11)
      /\ Script[37].rm = getExpectedDir(l21)
  BY ScriptIs DEF Removed
<1>5. Down(10) = half /\ Down(23) = {l11} /\ Down(37) = {l21}
  BY DEF Down
<1>6. 0 \in 0 .. 2 /\ 1 \in 0 .. 2 /\ 2 \in 0 .. 2
  OBVIOUS
<1>7. CASE k = 10
  BY <1>3, <1>4, <1>5, <1>6, <1>7
<1>8. CASE k = 23
  BY <1>2, <1>3, <1>4, <1>5, <1>6, <1>8
<1>9. CASE k = 37
  BY <1>2, <1>3, <1>4, <1>5, <1>6, <1>9
<1> QED
  BY <1>1, <1>7, <1>8, <1>9

LEMMA QuietAt ==
  ASSUME NEW k \in 1 .. 62
  PROVE  /\ Script[k].do \in {"started", "restored", "connect", "disconnect"} => Down(k) = {}
         /\ Script[k].do = "started" => Script[k].ds \subseteq Daemons
         /\ Script[k].do \in {"connect", "disconnect"} => Script[k].ds \subseteq Aggs
<1>1. Script[k].do = "started" => k \in {15, 28, 42, 55}
  BY Places
<1>2. Script[k].do = "restored" => k \in {4, 16, 29, 43, 58}
  BY Places
<1>3. Script[k].do = "connect" => k \in {31, 45, 57}
  BY Places
<1>4. Script[k].do = "disconnect" => k \in {20, 34, 48}
  BY Places
<1>5. k \in {15, 28, 42, 55, 4, 16, 29, 43, 58, 31, 45, 57, 20, 34, 48} => Down(k) = {}
  BY DEF Down
<1>6. l11 \in Aggs /\ l21 \in Aggs /\ L3 \in Aggs /\ half \subseteq Daemons /\ Aggs \subseteq Daemons
  BY Levels, HalfFacts
<1>7. /\ Script[15].ds = half /\ Script[28].ds = {l11} /\ Script[42].ds = {l21}
      /\ Script[55].ds = {L3}
      /\ Script[31].ds = {l11} /\ Script[45].ds = {l21} /\ Script[57].ds = {L3}
      /\ Script[20].ds = {l11} /\ Script[34].ds = {l21} /\ Script[48].ds = {L3}
  BY ScriptIs DEF Step
<1>8. Script[k].do = "started" => Script[k].ds \subseteq Daemons
  BY <1>1, <1>6, <1>7
<1>9. Script[k].do \in {"connect", "disconnect"} => Script[k].ds \subseteq Aggs
  BY <1>3, <1>4, <1>6, <1>7
<1> QED
  BY <1>1, <1>2, <1>3, <1>4, <1>5, <1>8, <1>9

(* An aggregator is stopped after it was disconnected.                     *)
LEMMA BeforeStop ==
  ASSUME NEW k \in 1 .. 60, Script[k + 1].do = "stop"
  PROVE  \/ Script[k + 1].ds \cap Aggs = {}
         \/ Script[k].do = "disconnect" /\ Script[k].ds = Script[k + 1].ds
<1>1. k = 7 \/ k = 20 \/ k = 34 \/ k = 48
  <2>1. k + 1 \in 1 .. 62
    OBVIOUS
  <2>2. k + 1 \in {1, 8, 21, 35, 49, 62}
    BY <2>1, Places
  <2> QED
    BY <2>2
<1>2. Script[8].ds = half /\ half \cap Aggs = {}
  BY ScriptIs, HalfFacts, Levels DEF Step
<1>3. /\ Script[20].do = "disconnect" /\ Script[20].ds = Script[21].ds
      /\ Script[34].do = "disconnect" /\ Script[34].ds = Script[35].ds
      /\ Script[48].do = "disconnect" /\ Script[48].ds = Script[49].ds
  BY ScriptIs DEF Step
<1> QED
  BY <1>1, <1>2, <1>3

-----------------------------------------------------------------------------
(* Types, and what aggregators have.                                       *)

LEMMA Continues ==
  ASSUME TypeOK, Continue
  PROVE  /\ pc \in 1 .. 62
         /\ pc = 62 => pc' = 62 /\ outcome' = "finished" /\ todo' = {}
         /\ pc # 62 => /\ pc' = pc + 1 /\ pc' \in 1 .. 62 /\ outcome' = outcome
                       /\ todo' = IF Script[pc'].do = "verify" THEN Script[pc'].ds ELSE {}
  BY ScriptLen DEF TypeOK, Continue

LEMMA ContinueTypes ==
  ASSUME TypeOK, Continue
  PROVE  /\ pc' \in DOMAIN Script /\ todo' \subseteq Aggs
         /\ outcome' \in {"running", "finished", "raised"}
<1>1. pc' \in 1 .. 62
  BY Continues
<1>2. Script[pc'].do = "verify" => Script[pc'].ds \subseteq Aggs
  BY <1>1, VerifyAt
<1>3. todo' \subseteq Aggs
  BY <1>2, Continues
<1>4. outcome' \in {"running", "finished", "raised"}
  BY Continues DEF TypeOK
<1> QED
  BY <1>1, <1>3, <1>4, ScriptLen

LEMMA RaiseTypes ==
  ASSUME TypeOK, Raise
  PROVE  /\ pc' \in DOMAIN Script /\ todo' \subseteq Aggs
         /\ outcome' \in {"running", "finished", "raised"}
  BY DEF TypeOK, Raise

LEMMA BecomeTypes ==
  ASSUME TypeOK, NEW ds, NEW s \in {"down", "boot", "up", "dying"}, Become(ds, s)
  PROVE  /\ st' \in [Daemons -> {"down", "boot", "up", "dying"}]
         /\ dirs' \in [Aggs -> SUBSET Samplers]
         /\ conn' \in [Aggs -> {"none", "open", "dead"}]
<1>1. st' \in [Daemons -> {"down", "boot", "up", "dying"}]
  BY DEF TypeOK, Become
<1>2. dirs' \in [Aggs -> SUBSET Samplers]
  BY DEF TypeOK, Become
<1>3. conn' \in [Aggs -> {"none", "open", "dead"}]
  BY DEF TypeOK, Become
<1> QED
  BY <1>1, <1>2, <1>3

LEMMA DirOfTypes ==
  ASSUME TypeOK, NEW d \in Daemons
  PROVE  DirOf(d) \subseteq Samplers
  BY Levels DEF TypeOK, DirOf

LEMMA TypeStep ==
  ASSUME TypeOK, [Next]_vars
  PROVE  TypeOK'
<1>0. pc \in 1 .. 62
  BY ScriptLen DEF TypeOK
<1>1. CASE UNCHANGED vars
  BY <1>1 DEF TypeOK, vars, script
<1>2. CASE Stop
  <2>1. want' \subseteq Daemons
    BY <1>2 DEF Stop, TypeOK
  <2>2. Continue /\ Become({d \in I.ds : st[d] \in {"boot", "up"}}, "dying")
    BY <1>2 DEF Stop
  <2>3. UNCHANGED <<crashed, verdict, downAt>>
    BY <1>2 DEF Stop
  <2> QED
    BY <2>1, <2>2, <2>3, ContinueTypes, BecomeTypes DEF TypeOK
<1>3. CASE Start
  <2>1. I.ds \subseteq Daemons
    <3>1. Script[pc].do = "start"
      BY <1>3 DEF Start, At, I
    <3>2. Script[pc].ds \subseteq Daemons
      BY <1>0, <3>1, StartAt, SMTT(40)
    <3> QED
      BY <3>2 DEF I
  <2>2. want' \subseteq Daemons
    BY <1>3, <2>1 DEF Start, TypeOK
  <2>3. Continue /\ Become({d \in I.ds : st[d] = "down"}, "boot")
    BY <1>3 DEF Start
  <2>4. UNCHANGED <<crashed, verdict, downAt>>
    BY <1>3 DEF Start
  <2> QED
    BY <2>2, <2>3, <2>4, ContinueTypes, BecomeTypes DEF TypeOK
<1>4. CASE Cleanup
  <2>1. Continue \/ Raise
    BY <1>4 DEF Cleanup
  <2>2. UNCHANGED <<st, dirs, conn, crashed, verdict, want, downAt>>
    BY <1>4 DEF Cleanup
  <2> QED
    BY <2>1, <2>2, ContinueTypes, RaiseTypes DEF TypeOK
<1>5. CASE Connect
  <2>1. Continue \/ Raise
    BY <1>5 DEF Connect
  <2>2. UNCHANGED <<st, dirs, crashed, verdict, want, downAt>>
    BY <1>5 DEF Connect
  <2>3. conn' \in [Aggs -> {"none", "open", "dead"}]
    BY <1>5 DEF Connect, TypeOK
  <2> QED
    BY <2>1, <2>2, <2>3, ContinueTypes, RaiseTypes DEF TypeOK
<1>6. CASE Disconnect
  <2>1. Continue /\ UNCHANGED <<st, dirs, crashed, verdict, want, downAt>>
    BY <1>6 DEF Disconnect
  <2>2. conn' \in [Aggs -> {"none", "open", "dead"}]
    BY <1>6 DEF Disconnect, TypeOK
  <2> QED
    BY <2>1, <2>2, ContinueTypes DEF TypeOK
<1>7. CASE CondWait
  <2>1. Continue \/ Raise
    BY <1>7 DEF CondWait
  <2>2. UNCHANGED <<st, dirs, crashed, verdict, want, downAt>>
    BY <1>7 DEF CondWait
  <2>3. conn' \in [Aggs -> {"none", "open", "dead"}]
    BY <1>7 DEF CondWait, Opened, TypeOK
  <2> QED
    BY <2>1, <2>2, <2>3, ContinueTypes, RaiseTypes DEF TypeOK
<1>8. CASE SleepEnds
  <2>1. Continue /\ UNCHANGED <<st, dirs, conn, crashed, verdict, want>>
    BY <1>8 DEF SleepEnds
  <2>2. downAt' \subseteq Daemons
    BY <1>8 DEF SleepEnds
  <2> QED
    BY <2>1, <2>2, ContinueTypes DEF TypeOK
<1>9. CASE VerifyNext
  <2>1. /\ pc' = pc /\ todo' \subseteq todo /\ outcome' \in {outcome, "raised"}
        /\ verdict' = verdict \/ verdict' = [verdict EXCEPT ![I.n] = "failed"]
    BY <1>9 DEF VerifyNext, Raise, BadDir
  <2>2. UNCHANGED <<st, dirs, crashed, want, downAt>>
    BY <1>9 DEF VerifyNext
  <2>3. conn' \in [Aggs -> {"none", "open", "dead"}]
    BY <1>9 DEF VerifyNext, Opened, TypeOK
  <2>4. verdict' \in [1..9 -> {"none", "passed", "failed"}]
    BY <2>1 DEF TypeOK
  <2> QED
    BY <2>1, <2>2, <2>3, <2>4 DEF TypeOK
<1>10. CASE Verified
  <2>1. Continue /\ UNCHANGED <<st, dirs, conn, crashed, want, downAt>>
    BY <1>10 DEF Verified
  <2>2. verdict' \in [1..9 -> {"none", "passed", "failed"}]
    BY <1>10 DEF Verified, TypeOK
  <2> QED
    BY <2>1, <2>2, ContinueTypes DEF TypeOK
<1>11. ASSUME NEW d \in Daemons, Boot(d)
       PROVE  TypeOK'
  BY <1>11 DEF Boot, TypeOK, script
<1>12. ASSUME NEW d \in Daemons, Exit(d)
       PROVE  TypeOK'
  <2>1. Become({d}, "down") /\ UNCHANGED <<crashed, script>>
    BY <1>12 DEF Exit
  <2> QED
    BY <2>1, BecomeTypes DEF TypeOK, script
<1>13. ASSUME NEW d \in Daemons, Crash(d)
       PROVE  TypeOK'
  <2>1. Become({d}, "down") /\ UNCHANGED script /\ crashed' = crashed \cup {d}
    BY <1>13 DEF Crash
  <2>2. crashed' \subseteq Daemons
    BY <2>1 DEF TypeOK
  <2> QED
    BY <2>1, <2>2, BecomeTypes DEF TypeOK, script
<1>14. ASSUME NEW a \in Aggs, NEW p \in Daemons, Collect(a, p)
       PROVE  TypeOK'
  <2>1. Collected(a, p) \subseteq Samplers
    BY DirOfTypes DEF Collected, TypeOK
  <2>2. dirs' \in [Aggs -> SUBSET Samplers]
    BY <1>14, <2>1 DEF Collect, TypeOK
  <2>3. UNCHANGED <<st, conn, crashed, script>>
    BY <1>14 DEF Collect
  <2> QED
    BY <2>2, <2>3 DEF TypeOK, script
<1> QED
  BY <1>1, <1>2, <1>3, <1>4, <1>5, <1>6, <1>7, <1>8, <1>9, <1>10, <1>11, <1>12, <1>13, <1>14
     DEF Next, TestStep, Ldmsd

LEMMA BecomeDirs ==
  ASSUME TypeOK, DirsInv, NEW ds, NEW s, s # "up", Become(ds, s)
  PROVE  DirsInv'
<1>1. SUFFICES ASSUME NEW a \in Aggs
               PROVE  dirs'[a] \subseteq getExpectedDir(a) /\ (st'[a] # "up" => dirs'[a] = {})
  BY DEF DirsInv
<1>2. a \in Daemons
  BY Levels
<1>3. /\ dirs'[a] = IF a \in ds THEN {} ELSE dirs[a]
      /\ st'[a] = IF a \in ds THEN s ELSE st[a]
  BY <1>2 DEF Become
<1> QED
  BY <1>3 DEF DirsInv

LEMMA DirsStep ==
  ASSUME TypeOK, DirsInv, [Next]_vars
  PROVE  DirsInv'
<1>1. CASE UNCHANGED <<st, dirs>>
  BY <1>1 DEF DirsInv
<1>2. CASE Stop
  BY <1>2, BecomeDirs DEF Stop
<1>3. CASE Start
  BY <1>3, BecomeDirs DEF Start
<1>4. ASSUME NEW d \in Daemons, Boot(d)
      PROVE  DirsInv'
  BY <1>4, Levels DEF Boot, DirsInv, TypeOK
<1>5. ASSUME NEW d \in Daemons, Exit(d) \/ Crash(d)
      PROVE  DirsInv'
  BY <1>5, BecomeDirs DEF Exit, Crash
<1>6. ASSUME NEW a \in Aggs, NEW p \in Daemons, Collect(a, p)
      PROVE  DirsInv'
  <2>1. PICK l \in 1 .. 3 : a \in DL(l)
    BY DEF Aggs
  <2>2. p \in getPrdcr(a)
    BY <1>6, ConfigIsPrdcr DEF Collect
  <2>3. getExpectedDir(p) \subseteq getExpectedDir(a)
    BY <2>1, <2>2, ExpectedMeans
  <2>4. DirOf(p) \subseteq getExpectedDir(p)
    BY Levels, ExpectedMeans DEF DirOf, DirsInv
  <2>5. Collected(a, p) \subseteq getExpectedDir(a)
    BY <2>3, <2>4 DEF Collected, DirsInv
  <2>6. st' = st /\ st[a] = "up" /\ dirs' = [dirs EXCEPT ![a] = Collected(a, p)]
    BY <1>6 DEF Collect
  <2> QED
    BY <2>5, <2>6 DEF DirsInv, TypeOK
<1>7. Next => \/ UNCHANGED <<st, dirs>> \/ Stop \/ Start
              \/ \E d \in Daemons : Boot(d) \/ Exit(d) \/ Crash(d)
              \/ \E a \in Aggs, p \in Daemons : Collect(a, p)
  <2>1. Cleanup \/ Connect \/ Disconnect \/ CondWait \/ SleepEnds \/ VerifyNext \/ Verified
           => UNCHANGED <<st, dirs>>
    BY DEF Cleanup, Connect, Disconnect, CondWait, SleepEnds, VerifyNext, Verified
  <2> QED
    BY <2>1 DEF Next, TestStep, Ldmsd
<1> QED
  BY <1>1, <1>2, <1>3, <1>4, <1>5, <1>6, <1>7 DEF vars

-----------------------------------------------------------------------------
(* NoFalseAlarm.                                                           *)

LEMMA InitIInv == Init => IInv
<1> SUFFICES ASSUME Init PROVE IInv
  OBVIOUS
<1>1. TypeOK
  <2>1. 1 \in DOMAIN Script
    BY ScriptLen
  <2> QED
    BY <2>1 DEF Init, TypeOK
<1>2. DirsInv
  BY DEF Init, DirsInv
<1>3. pc = 1 /\ I.do = "stop" /\ Down(1) = Daemons /\ ~Gone(1) /\ ~Calm(1)
  BY ScriptDo DEF Init, I, Down, Gone, Calm
<1>4. ScriptInv
  BY <1>3 DEF Init, ScriptInv
<1>5. ObeyInv
  BY <1>3 DEF Init, ObeyInv
<1>6. NoFalseAlarm
  BY DEF Init, NoFalseAlarm
<1> QED
  BY <1>1, <1>2, <1>4, <1>5, <1>6 DEF IInv

LEMMA ScriptStep ==
  ASSUME TypeOK, ScriptInv, [Next]_vars
  PROVE  ScriptInv'
<1>0. pc \in 1 .. 62
  BY ScriptLen DEF TypeOK
<1>1. CASE UNCHANGED <<pc, todo, outcome, want>>
  BY <1>1 DEF ScriptInv, I
<1>2. CASE outcome' # "running"
  BY <1>2 DEF ScriptInv
<1>3. ASSUME Continue, outcome = "running", outcome' = "running",
             want' = Daemons \ Down(pc + 1)
      PROVE  ScriptInv'
  <2>1. pc' = pc + 1 /\ todo' = IF Script[pc'].do = "verify" THEN Script[pc'].ds ELSE {}
    BY <1>3, Continues
  <2> QED
    BY <1>3, <2>1 DEF ScriptInv, I
<1>4. CASE Stop /\ outcome' = "running"
  <2>1. Continue /\ want' = want \ I.ds /\ outcome = "running" /\ I.do = "stop"
    BY <1>4 DEF Stop, At
  <2>2. pc # 62 /\ want = Daemons \ Down(pc)
    BY <1>4, <2>1, Continues DEF ScriptInv
  <2>3. Down(pc + 1) = Down(pc) \cup I.ds
    BY <1>0, <2>1, <2>2, StopAt DEF I
  <2> QED
    BY <1>3, <1>4, <2>1, <2>2, <2>3
<1>5. CASE Start /\ outcome' = "running"
  <2>1. Continue /\ want' = want \cup I.ds /\ outcome = "running" /\ I.do = "start"
    BY <1>5 DEF Start, At
  <2>2. want = Daemons \ Down(pc)
    BY <2>1 DEF ScriptInv
  <2>3. Down(pc + 1) = {} /\ I.ds = Down(pc) /\ Down(pc) \subseteq Daemons
    BY <1>0, <2>1, StartAt DEF I
  <2> QED
    BY <1>3, <1>5, <2>1, <2>2, <2>3
<1>6. ASSUME Continue, outcome = "running", outcome' = "running",
             want' = want, I.do \notin {"stop", "start"}
      PROVE  ScriptInv'
  <2>1. Down(pc + 1) = Down(pc)
    BY <1>0, <1>6, StepAt DEF I
  <2>2. want = Daemons \ Down(pc)
    BY <1>6 DEF ScriptInv
  <2> QED
    BY <1>3, <1>6, <2>1, <2>2
<1>7. CASE (Cleanup \/ Connect \/ Disconnect \/ CondWait \/ SleepEnds \/ Verified)
              /\ outcome' = "running"
  <2>1. /\ Continue \/ Raise
        /\ outcome = "running" /\ want' = want /\ I.do \notin {"stop", "start"}
    BY <1>7 DEF Cleanup, Connect, Disconnect, CondWait, SleepEnds, Verified, At
  <2>2. ~Raise
    BY <1>7 DEF Raise
  <2> QED
    BY <1>6, <1>7, <2>1, <2>2
<1>8. CASE VerifyNext /\ outcome' = "running"
  <2>1. pc' = pc /\ todo' \subseteq todo /\ want' = want /\ outcome = "running"
    BY <1>8 DEF VerifyNext, Raise, BadDir, At
  <2> QED
    BY <2>1 DEF ScriptInv, I
<1>9. (Ldmsd \/ \E d \in Daemons : Crash(d)) => UNCHANGED <<pc, todo, outcome, want>>
  BY DEF Ldmsd, Boot, Exit, Collect, Crash, script
<1> QED
  BY <1>1, <1>2, <1>4, <1>5, <1>7, <1>8, <1>9 DEF Next, TestStep, vars, script

(* Where nothing died on its own.                                          *)
LEMMA SteadyUp ==
  ASSUME IInv, outcome = "running", crashed = {}, pc # 1, Steady
  PROVE  \A d \in Daemons : /\ st[d] = "up" <=> d \notin Down(pc)
                            /\ st[d] # "up" => st[d] = "down"
<1>1. want = Daemons \ Down(pc)
  BY DEF IInv, ScriptInv
<1>2. \A d \in Daemons : st[d] \in IF d \in want THEN {"boot", "up"} ELSE {"dying", "down"}
  BY DEF IInv, ObeyInv
<1>3. \A d \in Daemons : st[d] \notin {"boot", "dying"}
  BY DEF Steady, Transit
<1> QED
  BY <1>1, <1>2, <1>3

LEMMA SameSteady ==
  ASSUME UNCHANGED <<st, dirs>>
  PROVE  (Steady <=> Steady') /\ Transit' = Transit
  BY DEF Steady, Transit, Collected, DirOf

(* A step that tells no daemon anything.                                   *)
LEMMA StepObeys ==
  ASSUME IInv, outcome = "running", crashed = {}, UNCHANGED <<st, dirs, want>>,
         I.do \notin {"stop", "start"}, Continue,
         I.do \in {"cleanup", "stopped"} => \A d \in I.ds : st[d] = "down",
         I.do = "sleep" => Steady,
         \A a \in Aggs : conn'[a] # "dead" /\ (conn'[a] = "open" => st[a] = "up"),
         I.do = "disconnect" => \A a \in I.ds : conn'[a] = "none"
  PROVE  ObeyInv'
<1>0. pc \in 1 .. 62 /\ TypeOK
  BY ScriptLen DEF IInv, TypeOK
<1>1. /\ pc # 1 /\ pc # 62 /\ Down(pc + 1) = Down(pc)
      /\ Calm(pc + 1) => Calm(pc) \/ I.do = "sleep"
      /\ ~Gone(pc) => I.do \in {"cleanup", "stopped"} /\ I.ds = Down(pc)
  BY <1>0, StepAt DEF I
<1>2. pc' = pc + 1
  BY <1>0, <1>1, Continues
<1>3. /\ \A d \in Daemons : st[d] \in IF d \in want THEN {"boot", "up"} ELSE {"dying", "down"}
      /\ Gone(pc) => \A d \in Daemons \ want : st[d] = "down"
      /\ Calm(pc) => Steady
      /\ want = Daemons \ Down(pc)
  BY <1>1 DEF IInv, ObeyInv, ScriptInv
<1>4. \A d \in Daemons \ want : st[d] = "down"
  BY <1>1, <1>3
<1>5. Calm(pc') => Steady'
  BY <1>1, <1>2, <1>3, SameSteady
<1>6. ASSUME I'.do = "stop", pc' # 62
      PROVE  \A a \in I'.ds \cap Aggs : conn'[a] = "none"
  <2>1. pc \in 1 .. 60 /\ Script[pc + 1].do = "stop"
    BY <1>0, <1>1, <1>2, <1>6 DEF I
  <2>2. \/ Script[pc + 1].ds \cap Aggs = {}
        \/ Script[pc].do = "disconnect" /\ Script[pc].ds = Script[pc + 1].ds
    BY <2>1, BeforeStop
  <2> QED
    BY <1>2, <2>2 DEF I
<1>7. \A d \in Daemons : st'[d] \in IF d \in want' THEN {"boot", "up"} ELSE {"dying", "down"}
  BY <1>3
<1> QED
  BY <1>4, <1>5, <1>6, <1>7 DEF ObeyInv

LEMMA StopObeys ==
  ASSUME IInv, Stop, crashed = {}, outcome' = "running"
  PROVE  ObeyInv'
<1> DEFINE S == {d \in I.ds : st[d] \in {"boot", "up"}}
<1>0. pc \in 1 .. 62 /\ TypeOK /\ I = Script[pc]
  BY ScriptLen DEF IInv, TypeOK, I
<1>1. /\ I.do = "stop" /\ outcome = "running" /\ Continue /\ Become(S, "dying")
      /\ want' = want \ I.ds
  BY DEF Stop, At
<1>2. pc # 62 /\ pc' = pc + 1
  BY <1>0, <1>1, Continues
<1>3. /\ I.ds \subseteq Daemons /\ (pc = 1 => I.ds = Daemons)
      /\ ~Gone(pc') /\ ~Calm(pc') /\ Script[pc'].do # "stop"
  BY <1>0, <1>1, <1>2, StopAt
<1>4. /\ pc # 1 => \A d \in Daemons : st[d] \in IF d \in want THEN {"boot", "up"} ELSE {"dying", "down"}
      /\ \A a \in Aggs : conn[a] # "dead" /\ (conn[a] = "open" => st[a] = "up")
      /\ \A a \in I.ds \cap Aggs : conn[a] = "none"
  BY <1>1, <1>2 DEF IInv, ObeyInv
<1>5. \A d \in Daemons : st'[d] = IF d \in S THEN "dying" ELSE st[d]
  BY <1>1 DEF Become
<1>6. \A a \in Aggs : conn'[a] = IF a \in S /\ conn[a] = "open" THEN "dead" ELSE conn[a]
  BY <1>1 DEF Become
<1>7. \A d \in Daemons : st'[d] \in IF d \in want' THEN {"boot", "up"} ELSE {"dying", "down"}
  <2>1. SUFFICES ASSUME NEW d \in Daemons
                 PROVE  st'[d] \in IF d \in want' THEN {"boot", "up"} ELSE {"dying", "down"}
    OBVIOUS
  <2>2. st[d] \in {"down", "boot", "up", "dying"}
    BY <1>0 DEF TypeOK
  <2>3. CASE d \in I.ds
    BY <1>1, <1>5, <2>2, <2>3
  <2>4. CASE d \notin I.ds
    BY <1>1, <1>3, <1>4, <1>5, <2>4
  <2> QED
    BY <2>3, <2>4
<1>8. \A a \in Aggs : conn'[a] # "dead" /\ (conn'[a] = "open" => st'[a] = "up")
  <2>1. Aggs \subseteq Daemons
    BY Levels
  <2> QED
    BY <1>4, <1>5, <1>6, <2>1
<1>9. I'.do # "stop"
  BY <1>3 DEF I
<1> QED
  BY <1>3, <1>7, <1>8, <1>9 DEF ObeyInv

LEMMA StartObeys ==
  ASSUME IInv, Start, crashed = {}, outcome' = "running"
  PROVE  ObeyInv'
<1> DEFINE S == {d \in I.ds : st[d] = "down"}
<1>0. pc \in 1 .. 62 /\ TypeOK /\ I = Script[pc]
  BY ScriptLen DEF IInv, TypeOK, I
<1>1. /\ I.do = "start" /\ outcome = "running" /\ Continue /\ Become(S, "boot")
      /\ want' = want \cup I.ds
  BY DEF Start, At
<1>2. /\ I.ds = Down(pc) /\ Down(pc) \subseteq Daemons /\ Gone(pc) /\ pc # 1 /\ pc # 62
      /\ ~Calm(pc + 1) /\ Script[pc + 1].do # "stop"
  BY <1>0, <1>1, StartAt
<1>3. pc' = pc + 1
  BY <1>0, <1>1, <1>2, Continues
<1>4. /\ \A d \in Daemons : st[d] \in IF d \in want THEN {"boot", "up"} ELSE {"dying", "down"}
      /\ \A d \in Daemons \ want : st[d] = "down"
      /\ \A a \in Aggs : conn[a] # "dead" /\ (conn[a] = "open" => st[a] = "up")
      /\ want = Daemons \ Down(pc)
  BY <1>1, <1>2 DEF IInv, ObeyInv, ScriptInv
<1>5. \A d \in Daemons : st'[d] = IF d \in S THEN "boot" ELSE st[d]
  BY <1>1 DEF Become
<1>6. \A a \in Aggs : conn'[a] = IF a \in S /\ conn[a] = "open" THEN "dead" ELSE conn[a]
  BY <1>1 DEF Become
<1>7. want' = Daemons
  BY <1>1, <1>2, <1>4
<1>8. \A d \in Daemons : st'[d] \in {"boot", "up"}
  BY <1>2, <1>4, <1>5
<1>9. \A a \in Aggs : conn'[a] # "dead" /\ (conn'[a] = "open" => st'[a] = "up")
  <2>1. Aggs \subseteq Daemons
    BY Levels
  <2> QED
    BY <1>4, <1>5, <1>6, <2>1
<1>10. I'.do # "stop" /\ ~Calm(pc')
  BY <1>2, <1>3 DEF I
<1> QED
  BY <1>7, <1>8, <1>9, <1>10 DEF ObeyInv

(* A daemon that comes up, goes or collects: something was under way.      *)
LEMMA LdmsdObeys ==
  ASSUME IInv, outcome = "running", crashed = {}, UNCHANGED <<pc, want, outcome>>, ~Steady,
         \A d \in Daemons : \/ st'[d] = st[d]
                            \/ st[d] = "boot" /\ st'[d] = "up"
                            \/ st[d] = "dying" /\ st'[d] = "down",
         \A a \in Aggs : conn'[a] = conn[a] \/ (conn[a] = "open" /\ st[a] = "dying")
  PROVE  ObeyInv'
<1>0. I' = I
  BY DEF I
<1>1. /\ pc # 1 => \A d \in Daemons : st[d] \in IF d \in want THEN {"boot", "up"} ELSE {"dying", "down"}
      /\ Gone(pc) => \A d \in Daemons \ want : st[d] = "down"
      /\ ~Calm(pc)
      /\ \A a \in Aggs : conn[a] # "dead" /\ (conn[a] = "open" => st[a] = "up")
      /\ I.do = "stop" /\ pc # 62 => \A a \in I.ds \cap Aggs : conn[a] = "none"
  BY DEF IInv, ObeyInv
<1>2. \A a \in Aggs : a \in Daemons /\ conn'[a] = conn[a]
  BY <1>1, Levels
<1>3. pc # 1 => \A d \in Daemons : st'[d] \in IF d \in want THEN {"boot", "up"} ELSE {"dying", "down"}
  BY <1>1
<1>4. Gone(pc) => \A d \in Daemons \ want : st'[d] = "down"
  BY <1>1
<1>5. \A a \in Aggs : conn'[a] # "dead" /\ (conn'[a] = "open" => st'[a] = "up")
  BY <1>1, <1>2
<1>6. I.do = "stop" /\ pc # 62 => \A a \in I.ds \cap Aggs : conn'[a] = "none"
  BY <1>1, <1>2
<1> QED
  BY <1>0, <1>1, <1>3, <1>4, <1>5, <1>6 DEF ObeyInv

LEMMA OpenedMeans ==
  ASSUME TypeOK, NEW a \in Aggs, Opened(a), ~DirFails(a),
         \A b \in Aggs : conn[b] # "dead" /\ (conn[b] = "open" => st[b] = "up")
  PROVE  \A b \in Aggs : conn'[b] # "dead" /\ (conn'[b] = "open" => st[b] = "up")
<1>1. st[a] = "up"
  BY DEF DirFails
<1>2. \A b \in Aggs : conn'[b] = IF b = a THEN "open" ELSE conn[b]
  BY DEF Opened, TypeOK
<1> QED
  BY <1>1, <1>2

LEMMA ObeyStep ==
  ASSUME IInv, [Next]_vars
  PROVE  ObeyInv'
<1>1. CASE UNCHANGED vars
  BY <1>1, SameSteady DEF IInv, ObeyInv, vars, script, I
<1>2. SUFFICES ASSUME Next, outcome' = "running", crashed' = {}
               PROVE  ObeyInv'
  BY <1>1 DEF ObeyInv
<1>3. outcome = "running" /\ crashed = {} /\ TypeOK /\ pc \in 1 .. 62
  <2>1. crashed \subseteq crashed'
    BY <1>2 DEF Next, TestStep, Ldmsd, Stop, Start, Cleanup, Connect, Disconnect, CondWait,
                SleepEnds, VerifyNext, Verified, Boot, Exit, Crash, Collect
  <2> QED
    BY <1>2, <2>1, ScriptLen DEF Next, IInv, TypeOK
<1>4. /\ \A a \in Aggs : conn[a] # "dead" /\ (conn[a] = "open" => st[a] = "up")
      /\ \A a \in Aggs : a \in Daemons
  BY <1>3, Levels DEF IInv, ObeyInv
<1>5. CASE Stop
  BY <1>2, <1>3, <1>5, StopObeys
<1>6. CASE Start
  BY <1>2, <1>3, <1>6, StartObeys
<1>7. CASE Cleanup
  <2>1. I.do = "cleanup" /\ Continue /\ \A d \in I.ds : st[d] = "down"
    BY <1>2, <1>7 DEF Cleanup, At, Raise
  <2>2. UNCHANGED <<st, dirs, want>> /\ conn' = conn
    BY <1>7 DEF Cleanup
  <2> QED
    BY <1>3, <1>4, <2>1, <2>2, StepObeys
<1>8. CASE Connect
  <2>1. I.do = "connect" /\ UNCHANGED <<st, dirs, want>>
    BY <1>8 DEF Connect, At
  <2>2. PICK a \in I.ds : /\ conn' = [conn EXCEPT ![a] = IF st[a] = "up" THEN "open" ELSE "dead"]
                          /\ IF st[a] = "up" THEN Continue ELSE Raise
    BY <1>8 DEF Connect
  <2>3. st[a] = "up" /\ Continue
    BY <1>2, <2>2 DEF Raise
  <2>4. \A b \in Aggs : conn'[b] = IF b = a THEN "open" ELSE conn[b]
    BY <1>3, <2>2, <2>3 DEF TypeOK
  <2>5. \A b \in Aggs : conn'[b] # "dead" /\ (conn'[b] = "open" => st[b] = "up")
    BY <1>4, <2>3, <2>4
  <2> QED
    BY <1>3, <2>1, <2>3, <2>5, StepObeys
<1>9. CASE Disconnect
  <2>1. I.do = "disconnect" /\ Continue
    BY <1>9 DEF Disconnect, At
  <2>2. UNCHANGED <<st, dirs, want>>
    BY <1>9 DEF Disconnect
  <2>3. \A b \in Aggs : conn'[b] = IF b \in I.ds THEN "none" ELSE conn[b]
    BY <1>9 DEF Disconnect
  <2>4. I.ds \subseteq Aggs
    BY <1>3, <2>1, QuietAt DEF I
  <2>5. \A b \in Aggs : conn'[b] # "dead" /\ (conn'[b] = "open" => st[b] = "up")
    BY <1>4, <2>3
  <2>6. \A a \in I.ds : conn'[a] = "none"
    BY <2>3, <2>4
  <2> QED
    BY <1>3, <2>1, <2>2, <2>5, <2>6, StepObeys
<1>10. CASE CondWait
  <2>1. /\ I.do \in {"stopped", "started", "removed", "restored"}
        /\ Continue /\ CondHolds
        /\ ~(I.do \in {"removed", "restored"} /\ DirFails(L3))
    BY <1>2, <1>10 DEF CondWait, Raise
  <2>2. UNCHANGED <<st, dirs, want>>
    BY <1>10 DEF CondWait
  <2>3. I.do = "stopped" => \A d \in I.ds : st[d] = "down"
    BY <2>1 DEF CondHolds
  <2>4. \A b \in Aggs : conn'[b] # "dead" /\ (conn'[b] = "open" => st[b] = "up")
    <3>1. CASE I.do \in {"removed", "restored"}
      <4>1. Opened(L3) /\ ~DirFails(L3) /\ L3 \in Aggs
        BY <1>10, <2>1, <3>1, Levels DEF CondWait
      <4> QED
        BY <1>3, <1>4, <4>1, OpenedMeans
    <3>2. CASE I.do \notin {"removed", "restored"}
      BY <1>4, <1>10, <3>2 DEF CondWait
    <3> QED
      BY <3>1, <3>2
  <2> QED
    BY <1>3, <2>1, <2>2, <2>3, <2>4, StepObeys
<1>11. CASE SleepEnds
  <2>1. I.do = "sleep" /\ Continue /\ Steady
    BY <1>11 DEF SleepEnds, At
  <2>2. UNCHANGED <<st, dirs, want>> /\ conn' = conn
    BY <1>11 DEF SleepEnds
  <2> QED
    BY <1>3, <1>4, <2>1, <2>2, StepObeys
<1>12. CASE VerifyNext
  <2>1. I.do = "verify" /\ UNCHANGED <<st, dirs, want, crashed>>
    BY <1>12 DEF VerifyNext, At
  <2>2. PICK a \in todo : Opened(a) /\ ~DirFails(a)
    BY <1>2, <1>12 DEF VerifyNext, Raise
  <2>3. pc' = pc /\ I' = I
    BY <1>12 DEF VerifyNext, Raise, BadDir, I
  <2>4. a \in Aggs
    BY <1>3 DEF TypeOK
  <2>5. \A b \in Aggs : conn'[b] # "dead" /\ (conn'[b] = "open" => st[b] = "up")
    BY <1>3, <1>4, <2>2, <2>4, OpenedMeans
  <2>6. Steady <=> Steady'
    BY <2>1, SameSteady
  <2> QED
    BY <1>3, <2>1, <2>3, <2>5, <2>6 DEF IInv, ObeyInv
<1>13. CASE Verified
  <2>1. I.do = "verify" /\ Continue
    BY <1>13 DEF Verified, At
  <2>2. UNCHANGED <<st, dirs, want>> /\ conn' = conn
    BY <1>13 DEF Verified
  <2> QED
    BY <1>3, <1>4, <2>1, <2>2, StepObeys
<1>14. ASSUME NEW d \in Daemons, Boot(d)
       PROVE  ObeyInv'
  <2>1. st[d] = "boot" /\ st' = [st EXCEPT ![d] = "up"] /\ conn' = conn
    BY <1>14 DEF Boot
  <2>2. UNCHANGED <<pc, want, outcome>> /\ ~Steady
    BY <1>14, <2>1 DEF Boot, Steady, Transit, script
  <2>3. \A e \in Daemons : \/ st'[e] = st[e]
                           \/ st[e] = "boot" /\ st'[e] = "up"
                           \/ st[e] = "dying" /\ st'[e] = "down"
    BY <1>3, <2>1 DEF TypeOK
  <2>4. \A a \in Aggs : conn'[a] = conn[a] \/ (conn[a] = "open" /\ st[a] = "dying")
    BY <2>1
  <2> QED
    BY <1>3, <2>2, <2>3, <2>4, LdmsdObeys
<1>15. ASSUME NEW d \in Daemons, Exit(d)
       PROVE  ObeyInv'
  <2>1. st[d] = "dying" /\ Become({d}, "down")
    BY <1>15 DEF Exit
  <2>2. UNCHANGED <<pc, want, outcome>> /\ ~Steady
    BY <1>15, <2>1 DEF Exit, Steady, Transit, script
  <2>3. \A e \in Daemons : \/ st'[e] = st[e]
                           \/ st[e] = "boot" /\ st'[e] = "up"
                           \/ st[e] = "dying" /\ st'[e] = "down"
    BY <2>1 DEF Become
  <2>4. \A a \in Aggs : conn'[a] = conn[a] \/ (conn[a] = "open" /\ st[a] = "dying")
    BY <2>1 DEF Become
  <2> QED
    BY <1>3, <2>2, <2>3, <2>4, LdmsdObeys
<1>16. ASSUME NEW a \in Aggs, NEW p \in Daemons, Collect(a, p)
       PROVE  ObeyInv'
  <2>1. /\ st' = st /\ conn' = conn
        /\ st[a] = "up" /\ p \in getConfig(a) /\ Collected(a, p) # dirs[a]
    BY <1>16 DEF Collect
  <2>2. UNCHANGED <<pc, want, outcome>>
    BY <1>16 DEF Collect, script
  <2>3. ~Steady
    BY <2>1 DEF Steady
  <2>4. \A e \in Daemons : \/ st'[e] = st[e]
                           \/ st[e] = "boot" /\ st'[e] = "up"
                           \/ st[e] = "dying" /\ st'[e] = "down"
    BY <2>1
  <2>5. \A b \in Aggs : conn'[b] = conn[b] \/ (conn[b] = "open" /\ st[b] = "dying")
    BY <2>1
  <2> QED
    BY <1>3, <2>2, <2>3, <2>4, <2>5, LdmsdObeys
<1>17. ASSUME NEW d \in Daemons, Crash(d)
       PROVE  FALSE
  BY <1>2, <1>17 DEF Crash
<1> QED
  BY <1>2, <1>5, <1>6, <1>7, <1>8, <1>9, <1>10, <1>11, <1>12, <1>13, <1>14, <1>15, <1>16, <1>17
     DEF Next, TestStep, Ldmsd

(* cond_wait does not time out.                                            *)
LEMMA CondMet ==
  ASSUME IInv, outcome = "running", crashed = {}, Steady,
         I.do \in {"stopped", "started", "removed", "restored"}
  PROVE  CondHolds
<1>0. TypeOK /\ DirsInv /\ pc \in 1 .. 62 /\ I = Script[pc]
  BY ScriptLen DEF IInv, TypeOK, I
<1>1. pc # 1
  BY <1>0, StepAt
<1>2. \A d \in Daemons : /\ st[d] = "up" <=> d \notin Down(pc)
                         /\ st[d] # "up" => st[d] = "down"
  BY <1>1, SteadyUp
<1>3. L3 \in Daemons /\ agg_level(L3) = 3
  BY Levels, DLMeans
<1>4. CASE I.do = "stopped"
  <2>1. ~Gone(pc)
    BY <1>0, <1>4, Places DEF Gone
  <2>2. I.ds = Down(pc)
    BY <1>0, <1>4, <2>1, StepAt
  <2>3. Down(pc) \subseteq Daemons
    <3>1. half \subseteq Daemons /\ l11 \in Daemons /\ l21 \in Daemons /\ L3 \in Daemons
      BY Levels, HalfFacts
    <3> QED
      BY <1>0, <3>1 DEF Down
  <2> QED
    BY <1>2, <1>4, <2>2, <2>3 DEF CondHolds
<1>5. CASE I.do = "started"
  <2>1. Down(pc) = {} /\ I.ds \subseteq Daemons
    BY <1>0, <1>5, QuietAt
  <2> QED
    BY <1>2, <1>5, <2>1 DEF CondHolds
<1>6. CASE I.do = "removed"
  <2>1. I.rm = Rm(Down(pc)) /\ I.rm # {}
    BY <1>0, <1>6, RemovedAt
  <2>2. PICK l \in 0 .. 2 : Down(pc) \subseteq DL(l)
    BY <1>0, <1>6, RemovedAt
  <2>3. L3 \notin Down(pc) /\ agg_level(L3) > l /\ l \in 0 .. 3
    BY <1>3, <2>2, DLMeans
  <2>4. DirOf(L3) = Seen(L3, l, Down(pc))
    BY <1>0, <1>2, <1>3, <2>2, <2>3, SteadyView
  <2>5. DirOf(L3) \cap I.rm = {}
    BY <2>1, <2>3, <2>4 DEF Seen
  <2> QED
    BY <1>6, <2>1, <2>5 DEF CondHolds
<1>7. CASE I.do = "restored"
  <2>1. Down(pc) = {}
    BY <1>0, <1>7, QuietAt
  <2>2. DirOf(L3) = Seen(L3, 0, {})
    <3>1. /\ 0 \in 0 .. 3 /\ {} \in SUBSET DL(0) /\ L3 \in Daemons \ {}
          /\ \A d \in Daemons : st[d] = "up" <=> d \notin {}
      BY <1>2, <1>3, <2>1
    <3> QED
      BY <1>0, <3>1, SteadyView
  <2>3. DirOf(L3) = getExpectedDir(L3)
    BY <1>3, <2>2 DEF Seen, Rm
  <2> QED
    BY <1>7, <2>3 DEF CondHolds
<1> QED
  BY <1>4, <1>5, <1>6, <1>7

(* dir_verify finds what it expects.                                       *)
LEMMA VerifyMet ==
  ASSUME IInv, outcome = "running", crashed = {}, I.do = "verify", NEW a \in todo
  PROVE  ~DirFails(a) /\ DirOf(a) = Expected(a)
<1>0. TypeOK /\ DirsInv /\ pc \in 1 .. 62 /\ I = Script[pc]
  BY ScriptLen DEF IInv, TypeOK, I
<1>1. pc # 1 /\ Calm(pc)
  BY <1>0, StepAt
<1>2. Steady /\ \A b \in Aggs : conn[b] # "dead"
  BY <1>1 DEF IInv, ObeyInv
<1>3. \A d \in Daemons : st[d] = "up" <=> d \notin Down(pc)
  BY <1>1, <1>2, SteadyUp
<1>4. /\ I.ds = Aggs \ Down(pc) /\ I.level \in 0 .. 3 /\ Down(pc) \subseteq DL(I.level)
      /\ I.level # 3 => I.rm = Rm(Down(pc))
  BY <1>0, VerifyAt
<1>5. a \in Aggs /\ a \notin Down(pc) /\ a \in Daemons /\ agg_level(a) \in 1 .. 3
  <2>1. a \in I.ds
    BY DEF IInv, ScriptInv
  <2> QED
    BY <1>4, <2>1, Levels
<1>6. DirOf(a) = Seen(a, I.level, Down(pc))
  BY <1>0, <1>2, <1>3, <1>4, <1>5, SteadyView
<1>7. Expected(a) = Seen(a, I.level, Down(pc))
  BY <1>4, <1>5 DEF Expected, Seen
<1> QED
  BY <1>2, <1>3, <1>5, <1>6, <1>7 DEF DirFails

(* Nothing wanted is missing where the script goes on to use it.           *)
LEMMA NotYetUp ==
  ASSUME IInv, outcome = "running", crashed = {}, pc # 1,
         NEW d \in Daemons, d \notin Down(pc), st[d] # "up"
  PROVE  Transit # {}
<1>1. d \in want
  BY DEF IInv, ScriptInv
<1>2. st[d] = "boot"
  BY <1>1 DEF IInv, ObeyInv
<1> QED
  BY <1>2 DEF Transit

LEMMA AlarmStep ==
  ASSUME IInv, [Next]_vars
  PROVE  NoFalseAlarm'
<1>0. TypeOK /\ NoFalseAlarm /\ pc \in 1 .. 62 /\ I = Script[pc]
  BY ScriptLen DEF IInv, TypeOK, I
<1>1. CASE UNCHANGED vars
  BY <1>0, <1>1 DEF NoFalseAlarm, Transit, vars, script
<1>2. CASE crashed' # {}
  BY <1>2 DEF NoFalseAlarm
<1>3. SUFFICES ASSUME Next, crashed' = {} PROVE NoFalseAlarm'
  BY <1>1, <1>2
<1>4. outcome = "running" /\ crashed = {} /\ \A n \in 1..9 : verdict[n] # "failed"
  <2>1. crashed \subseteq crashed'
    BY <1>3 DEF Next, TestStep, Ldmsd, Stop, Start, Cleanup, Connect, Disconnect, CondWait,
                SleepEnds, VerifyNext, Verified, Boot, Exit, Crash, Collect
  <2> QED
    BY <1>0, <1>3, <2>1 DEF Next, NoFalseAlarm
<1>5. ASSUME verdict' = verdict, outcome' # "raised"
      PROVE  NoFalseAlarm'
  BY <1>4, <1>5 DEF NoFalseAlarm
<1>6. ASSUME verdict' = verdict, Transit # {}, st' = st
      PROVE  NoFalseAlarm'
  BY <1>4, <1>6 DEF NoFalseAlarm, Transit
<1>7. Continue => outcome' # "raised"
  BY <1>4 DEF Continue
<1>8. CASE Stop \/ Start \/ Disconnect \/ SleepEnds
  <2>1. Continue /\ verdict' = verdict
    BY <1>8 DEF Stop, Start, Disconnect, SleepEnds
  <2> QED
    BY <1>5, <1>7, <2>1
<1>9. CASE Cleanup
  <2>1. verdict' = verdict /\ st' = st /\ I.do = "cleanup"
    BY <1>9 DEF Cleanup, At
  <2>2. CASE \A d \in I.ds : st[d] = "down"
    <3>1. Continue
      BY <1>9, <2>2 DEF Cleanup
    <3> QED
      BY <1>5, <1>7, <2>1, <3>1
  <2>3. CASE \E d \in I.ds : st[d] # "down"
    <3>1. pc = 2
      BY <1>0, <2>1, Places
    <3>2. I.ds = Daemons /\ Down(2) = Daemons
      BY <1>0, <3>1, ScriptIs DEF Step, Down
    <3>3. PICK d \in Daemons : st[d] # "down"
      BY <2>3, <3>2
    <3>4. d \notin want
      BY <1>4, <3>1, <3>2 DEF IInv, ScriptInv
    <3>5. st[d] = "dying"
      BY <1>4, <3>1, <3>3, <3>4 DEF IInv, ObeyInv
    <3> QED
      BY <1>6, <2>1, <3>5 DEF Transit
  <2> QED
    BY <2>2, <2>3
<1>10. CASE Connect
  <2>1. verdict' = verdict /\ st' = st /\ I.do = "connect"
    BY <1>10 DEF Connect, At
  <2>2. PICK a \in I.ds : IF st[a] = "up" THEN Continue ELSE Raise
    BY <1>10 DEF Connect
  <2>3. CASE st[a] = "up"
    BY <1>5, <1>7, <2>1, <2>2, <2>3
  <2>4. CASE st[a] # "up"
    <3>1. a \in Daemons /\ Down(pc) = {} /\ pc # 1
      BY <1>0, <2>1, QuietAt, StepAt, Levels
    <3>2. Transit # {}
      BY <1>4, <2>4, <3>1, NotYetUp
    <3> QED
      BY <1>6, <2>1, <3>2
  <2> QED
    BY <2>3, <2>4
<1>11. CASE CondWait
  <2>1. /\ verdict' = verdict /\ st' = st
        /\ I.do \in {"stopped", "started", "removed", "restored"}
    BY <1>11 DEF CondWait
  <2>2. ~(~CondHolds /\ Steady)
    BY <1>4, <2>1, CondMet
  <2>3. Continue \/ (I.do \in {"removed", "restored"} /\ DirFails(L3))
    BY <1>11, <2>2 DEF CondWait
  <2>4. CASE I.do \in {"removed", "restored"} /\ DirFails(L3)
    <3>1. L3 \in Daemons /\ L3 \in Aggs /\ agg_level(L3) = 3
      BY Levels, DLMeans
    <3>2. L3 \notin Down(pc)
      <4>1. I.do = "restored" => Down(pc) = {}
        BY <1>0, QuietAt
      <4>2. I.do = "removed" => \E l \in 0 .. 2 : Down(pc) \subseteq DL(l)
        BY <1>0, RemovedAt
      <4>3. \A l \in 0 .. 2 : L3 \notin DL(l)
        BY <3>1, DLMeans
      <4> QED
        BY <2>4, <4>1, <4>2, <4>3
    <3>3. st[L3] # "up" /\ pc # 1
      <4>1. conn[L3] # "dead"
        BY <1>4, <3>1 DEF IInv, ObeyInv
      <4>2. pc # 1
        BY <1>0, <2>1, StepAt
      <4> QED
        BY <2>4, <4>1, <4>2 DEF DirFails
    <3>4. Transit # {}
      BY <1>4, <3>1, <3>2, <3>3, NotYetUp
    <3> QED
      BY <1>6, <2>1, <3>4
  <2> QED
    BY <1>5, <1>7, <2>1, <2>3, <2>4
<1>12. CASE VerifyNext
  <2>1. I.do = "verify"
    BY <1>12 DEF VerifyNext, At
  <2>2. \A a \in todo : ~DirFails(a) /\ DirOf(a) = Expected(a)
    BY <1>4, <2>1, VerifyMet
  <2>3. verdict' = verdict /\ outcome' = outcome
    BY <1>12, <2>2 DEF VerifyNext
  <2> QED
    BY <1>4, <1>5, <2>3
<1>13. CASE Verified
  <2>1. Continue /\ verdict' = [verdict EXCEPT ![I.n] = "passed"]
    BY <1>13 DEF Verified
  <2>2. \A n \in 1..9 : verdict'[n] # "failed"
    BY <1>0, <1>4, <2>1 DEF TypeOK
  <2> QED
    BY <1>7, <2>1, <2>2 DEF NoFalseAlarm
<1>14. CASE Ldmsd \/ \E d \in Daemons : Crash(d)
  <2>1. UNCHANGED <<verdict, outcome>>
    BY <1>14 DEF Ldmsd, Boot, Exit, Collect, Crash, script
  <2> QED
    BY <1>4, <1>5, <2>1
<1> QED
  BY <1>3, <1>8, <1>9, <1>10, <1>11, <1>12, <1>13, <1>14 DEF Next, TestStep

LEMMA IInvStep == IInv /\ [Next]_vars => IInv'
  BY TypeStep, DirsStep, ScriptStep, ObeyStep, AlarmStep DEF IInv

(* The script raises, or reports a failed assertion, only because a daemon *)
(* died on its own or the script did not wait for one: for trees of any    *)
(* size, whatever the quotients of the levels leave over.                  *)
THEOREM NoFalseAlarmAlways == Spec => []NoFalseAlarm
<1>1. IInv => NoFalseAlarm
  BY DEF IInv
<1> QED
  BY InitIInv, IInvStep, <1>1, PTL DEF Spec

(* The types of the scenario: in particular the script never leaves its    *)
(* last step, and dir_verify asks aggregators only (test.py:84-101).       *)
THEOREM ScaleTestTypes == Spec => []TypeOK
<1>1. IInv => TypeOK
  BY DEF IInv
<1> QED
  BY InitIInv, IInvStep, <1>1, PTL DEF Spec

-----------------------------------------------------------------------------
(* PassMeansUp.                                                            *)

(* Who is asked, when dir_verify begins.                                   *)
LEMMA AsksAll ==
  ASSUME TypeOK, Continue, ScriptInv', TypeOK', outcome' = "running", I'.do = "verify"
  PROVE  \A d \in want' : /\ d \in Aggs => d \in todo'
                          /\ getConfig(d) # {} => d \in todo'
<1>1. /\ pc' \in 1 .. 62
      /\ todo' = IF Script[pc'].do = "verify" THEN Script[pc'].ds ELSE {}
  BY Continues DEF I
<1>2. Script[pc'].do = "verify"
  BY DEF I
<1>3. todo' = Aggs \ Down(pc')
  BY <1>1, <1>2, VerifyAt
<1>4. want' = Daemons \ Down(pc')
  BY DEF ScriptInv
<1>5. ASSUME NEW d \in Daemons, d \notin Aggs
      PROVE  getConfig(d) = {}
  <2>1. agg_level(d) = 0 /\ d # L3
    BY <1>5, Levels
  <2> QED
    BY <2>1 DEF getConfig, getPrdcr
<1> QED
  BY <1>3, <1>4, <1>5

(* Which aggregators are configured for a sampler.                         *)
LEMMA SamplerPrdcr ==
  ASSUME NEW a \in Aggs, NEW d \in Samplers, d \in getConfig(a)
  PROVE  agg_level(a) = 1 /\ d \in getExpectedDir(a) /\ getConfig(a) \subseteq Samplers
<1>1. PICK l \in 1 .. 3 : a \in DL(l)
  BY DEF Aggs
<1>2. getConfig(a) = getPrdcr(a) /\ getPrdcr(a) \subseteq DL(l - 1)
  BY <1>1, ConfigIsPrdcr, PrdcrBelow
<1>3. agg_level(a) = l /\ agg_level(d) = l - 1 /\ agg_level(d) = 0 /\ l = 1
  BY <1>1, <1>2, DLMeans DEF Samplers
<1>4. getExpectedDir(a) = UNION {getExpectedDir(p) : p \in getPrdcr(a)}
  BY <1>1, ExpectedMeans
<1>5. d \in getExpectedDir(d)
  BY ExpectedMeans
<1> QED
  BY <1>2, <1>3, <1>4, <1>5 DEF Samplers

(* The parts of MissInv that are about the daemons.                        *)
Missing(d) ==
  /\ st[d] = "down"
  /\ d \in Samplers => \A a \in Aggs : d \in getConfig(a) => d \notin dirs[a]

LEMMA MissingStays ==
  ASSUME TypeOK, Ldmsd \/ \E e \in Daemons : Crash(e), NEW d \in Daemons, Missing(d)
  PROVE  Missing(d)'
<1>1. ASSUME NEW e \in Daemons, Boot(e)
      PROVE  Missing(d)'
  BY <1>1 DEF Boot, Missing, TypeOK
<1>2. ASSUME NEW e \in Daemons, Exit(e) \/ Crash(e)
      PROVE  Missing(d)'
  <2>1. Become({e}, "down")
    BY <1>2 DEF Exit, Crash
  <2>2. st'[d] = "down" /\ \A a \in Aggs : dirs'[a] \subseteq dirs[a]
    BY <2>1 DEF Become, Missing
  <2> QED
    BY <2>2 DEF Missing
<1>3. ASSUME NEW b \in Aggs, NEW p \in Daemons, Collect(b, p)
      PROVE  Missing(d)'
  <2>1. st' = st /\ p \in getConfig(b) /\ dirs' = [dirs EXCEPT ![b] = Collected(b, p)]
    BY <1>3 DEF Collect
  <2>2. \A a \in Aggs : dirs'[a] = IF a = b THEN Collected(b, p) ELSE dirs[a]
    BY <2>1 DEF TypeOK
  <2>3. ASSUME d \in Samplers, d \in getConfig(b)
        PROVE  d \notin Collected(b, p)
    <3>1. p \in Samplers
      BY <2>1, <2>3, SamplerPrdcr
    <3>2. d \notin DirOf(p)
      BY <3>1 DEF DirOf, Missing
    <3>3. d \notin dirs[b]
      BY <2>3 DEF Missing
    <3> QED
      BY <3>2, <3>3 DEF Collected
  <2> QED
    BY <2>1, <2>2, <2>3 DEF Missing
<1> QED
  BY <1>1, <1>2, <1>3 DEF Ldmsd

LEMMA MissingWhenSteady ==
  ASSUME TypeOK, DirsInv, Steady, NEW d \in Daemons, st[d] # "up"
  PROVE  Missing(d)
<1>1. st[d] = "down"
  BY DEF Steady, Transit, TypeOK
<1>2. ASSUME d \in Samplers, NEW a \in Aggs, d \in getConfig(a)
      PROVE  d \notin dirs[a]
  <2>1. CASE st[a] # "up"
    BY <2>1 DEF DirsInv
  <2>2. CASE st[a] = "up"
    <3>1. Collected(a, d) = dirs[a]
      BY <1>2, <2>2 DEF Steady
    <3>2. DirOf(d) = {} /\ d \in getExpectedDir(d)
      BY <1>2, ExpectedMeans DEF DirOf
    <3> QED
      BY <3>1, <3>2 DEF Collected
  <2> QED
    BY <2>1, <2>2
<1> QED
  BY <1>1, <1>2 DEF Missing

(* An aggregator that lists what is expected misses no wanted sampler.     *)
LEMMA NoticesSampler ==
  ASSUME TypeOK, ScriptInv, outcome = "running", I.do = "verify",
         NEW a \in Aggs, NEW d \in Samplers, d \in want, d \in getConfig(a)
  PROVE  d \in Expected(a)
<1>1. agg_level(a) = 1 /\ d \in getExpectedDir(a)
  BY SamplerPrdcr
<1>2. pc \in 1 .. 62 /\ I = Script[pc] /\ d \notin Down(pc)
  BY ScriptLen DEF TypeOK, I, ScriptInv
<1>3. /\ I.level \in 0 .. 3 /\ Down(pc) \subseteq DL(I.level)
      /\ I.level # 3 => I.rm = Rm(Down(pc))
  BY <1>2, VerifyAt
<1>4. CASE I.level = 0
  <2>1. \A e \in Down(pc) : getExpectedDir(e) = {e}
    BY <1>3, <1>4, ExpectedMeans DEF Samplers
  <2>2. d \notin Rm(Down(pc))
    BY <1>2, <2>1 DEF Rm
  <2>3. d \notin I.rm
    BY <1>3, <1>4, <2>2
  <2> QED
    BY <1>1, <2>3 DEF Expected
<1>5. CASE I.level # 0
  BY <1>1, <1>3, <1>5 DEF Expected
<1> QED
  BY <1>4, <1>5

LEMMA MissStep ==
  ASSUME Debug, TypeOK, DirsInv, ScriptInv, MissInv, TypeOK', ScriptInv', [Next]_vars
  PROVE  MissInv'
<1>0. pc \in 1 .. 62 /\ I = Script[pc] /\ Aggs \subseteq Daemons /\ Samplers \subseteq Daemons
  BY ScriptLen, Levels DEF TypeOK, I
<1>1. CASE UNCHANGED vars
  BY <1>1 DEF MissInv, vars, script, I
<1>2. SUFFICES ASSUME Next, outcome' = "running", Calm(pc')
               PROVE  MissInv'
  BY <1>1 DEF MissInv
<1>3. outcome = "running"
  BY <1>2 DEF Next
<1>4. Calm(pc) => \A d \in downAt \cap want : Missing(d)
  BY <1>3 DEF MissInv, Missing
<1>5. ASSUME Continue, \A d \in downAt' \cap want' : Missing(d)'
      PROVE  MissInv'
  <2>1. SUFFICES ASSUME NEW d \in downAt' \cap want', I'.do = "verify"
                 PROVE  /\ d \in Aggs => d \in todo'
                        /\ d \in Samplers => \A a \in want' : d \in getConfig(a) => a \in todo'
    BY <1>5 DEF MissInv, Missing
  <2>2. \A b \in want' : /\ b \in Aggs => b \in todo'
                         /\ getConfig(b) # {} => b \in todo'
    BY <1>2, <1>5, <2>1, AsksAll
  <2> QED
    BY <2>2
<1>6. CASE Stop \/ Start
  <2>1. I.do \in {"stop", "start"} /\ Continue
    BY <1>6 DEF Stop, Start, At
  <2>2. pc # 62 /\ pc' = pc + 1
    BY <1>2, <2>1, Continues
  <2>3. ~Calm(pc')
    BY <1>0, <2>1, <2>2, StopAt, StartAt
  <2> QED
    BY <1>2, <2>3
<1>7. CASE Cleanup \/ Connect \/ Disconnect \/ CondWait \/ Verified
  <2>1. /\ UNCHANGED <<st, dirs, want, downAt>>
        /\ I.do \notin {"stop", "start", "sleep"}
    BY <1>7 DEF Cleanup, Connect, Disconnect, CondWait, Verified, At
  <2>2. Continue
    <3>1. Continue \/ Raise
      BY <1>7 DEF Cleanup, Connect, Disconnect, CondWait, Verified
    <3> QED
      BY <1>2, <3>1 DEF Raise
  <2>3. pc' = pc + 1
    BY <1>0, <2>1, <2>2, Continues, StepAt
  <2>4. Calm(pc)
    BY <1>0, <1>2, <2>1, <2>3, StepAt
  <2>5. \A d \in downAt' \cap want' : Missing(d)'
    BY <1>4, <2>1, <2>4 DEF Missing
  <2> QED
    BY <1>5, <2>2, <2>5
<1>8. CASE SleepEnds
  <2>1. /\ Continue /\ Steady /\ UNCHANGED <<st, dirs, want>>
        /\ downAt' = {d \in Daemons : st[d] # "up"}
    BY <1>8 DEF SleepEnds
  <2>2. \A d \in downAt' : Missing(d)
    BY <2>1, MissingWhenSteady
  <2>3. \A d \in downAt' \cap want' : Missing(d)'
    BY <2>1, <2>2 DEF Missing
  <2> QED
    BY <1>5, <2>1, <2>3
<1>9. CASE VerifyNext
  <2>1. I.do = "verify" /\ UNCHANGED <<st, dirs, want, downAt>>
    BY <1>9 DEF VerifyNext, At
  <2>2. PICK a \in todo : /\ ~DirFails(a) /\ DirOf(a) = Expected(a)
                          /\ todo' = todo \ {a} /\ pc' = pc
    BY <1>2, <1>9 DEF VerifyNext, Raise, BadDir
  <2>3. I' = I /\ a \in Aggs /\ st[a] = "up" /\ a \notin Samplers
    BY <2>2, Levels DEF I, TypeOK, DirFails
  <2>4. \A d \in downAt \cap want :
          /\ Missing(d)
          /\ d \in Aggs => d \in todo
          /\ d \in Samplers => \A b \in want : d \in getConfig(b) => b \in todo
    BY <1>2, <1>3, <2>1, <2>2 DEF MissInv, Missing
  <2>5. ASSUME NEW d \in downAt \cap want
        PROVE  /\ Missing(d)'
               /\ d \in Aggs => d \in todo'
               /\ d \in Samplers => \A b \in want : d \in getConfig(b) => b \in todo'
    <3>1. Missing(d) /\ d # a
      BY <2>3, <2>4 DEF Missing
    <3>2. Missing(d)'
      BY <2>1, <3>1 DEF Missing
    <3>3. d \in Samplers => d \notin getConfig(a)
      <4>1. SUFFICES ASSUME d \in Samplers, d \in getConfig(a) PROVE FALSE
        OBVIOUS
      <4>2. d \in Expected(a)
        BY <1>3, <2>1, <2>3, <4>1, NoticesSampler
      <4>3. DirOf(a) = dirs[a]
        BY <2>3 DEF DirOf
      <4>4. d \notin dirs[a]
        BY <2>3, <3>1, <4>1 DEF Missing
      <4> QED
        BY <2>2, <4>2, <4>3, <4>4
    <3> QED
      BY <2>2, <2>4, <3>1, <3>2, <3>3
  <2> QED
    BY <2>1, <2>3, <2>5 DEF MissInv, Missing
<1>10. CASE Ldmsd \/ \E d \in Daemons : Crash(d)
  <2>1. UNCHANGED <<pc, todo, outcome, want, downAt>> /\ I' = I
    BY <1>10 DEF Ldmsd, Boot, Exit, Collect, Crash, script, I
  <2>2. \A d \in downAt \cap want :
          /\ Missing(d)
          /\ I.do = "verify" =>
               /\ d \in Aggs => d \in todo
               /\ d \in Samplers => \A b \in want : d \in getConfig(b) => b \in todo
    BY <1>2, <1>3, <2>1 DEF MissInv, Missing
  <2>3. \A d \in downAt \cap want : d \in Daemons
    BY DEF TypeOK
  <2>4. \A d \in downAt \cap want : Missing(d)'
    BY <1>10, <2>2, <2>3, MissingStays
  <2> QED
    BY <2>1, <2>2, <2>4 DEF MissInv, Missing
<1> QED
  BY <1>2, <1>6, <1>7, <1>8, <1>9, <1>10 DEF Next, TestStep

(* With DEBUG set, as the script needs it (without, a bad directory listing *)
(* is overwritten by the else part of the loop), a passed assertion means  *)
(* that no wanted aggregator was down when the steady state was reached,   *)
(* and no wanted sampler that a wanted aggregator is configured for        *)
(* (test.py:84-101).                                                       *)
THEOREM PassMeansUpAlways == ASSUME Debug PROVE Spec => PassMeansUp
<1> DEFINE Inv == TypeOK /\ DirsInv /\ ScriptInv /\ MissInv
<1>1. Init => Inv
  <2>1. Init => pc = 1 /\ ~Calm(1)
    BY DEF Init, Calm
  <2>2. Init => MissInv
    BY <2>1 DEF MissInv
  <2> QED
    BY <2>2, InitIInv DEF IInv
<1>2. Inv /\ [Next]_vars => Inv'
  BY TypeStep, DirsStep, ScriptStep, MissStep
<1>3. Inv /\ [Next]_vars =>
        [\A n \in 1..9 : verdict'[n] = "passed" /\ verdict[n] # "passed"
           => \A d \in downAt \cap want :
                d \in Samplers /\ \A a \in want : d \notin getConfig(a)]_vars
  <2>1. SUFFICES ASSUME Inv, Next, NEW n \in 1..9, verdict'[n] = "passed", verdict[n] # "passed",
                        NEW d \in downAt \cap want
                 PROVE  d \in Samplers /\ \A a \in want : d \notin getConfig(a)
    OBVIOUS
  <2>2. Verified
    <3>1. Stop \/ Start \/ Cleanup \/ Connect \/ Disconnect \/ CondWait \/ SleepEnds
            \/ Ldmsd \/ (\E e \in Daemons : Crash(e)) => verdict' = verdict
      BY DEF Stop, Start, Cleanup, Connect, Disconnect, CondWait, SleepEnds,
             Ldmsd, Boot, Exit, Collect, Crash, script
    <3>2. VerifyNext => verdict' = verdict \/ verdict' = [verdict EXCEPT ![I.n] = "failed"]
      BY DEF VerifyNext, BadDir
    <3>3. VerifyNext => verdict'[n] # "passed"
      BY <2>1, <3>2 DEF TypeOK
    <3> QED
      BY <2>1, <3>1, <3>3 DEF Next, TestStep
  <2>3. I.do = "verify" /\ todo = {} /\ outcome = "running"
    BY <2>2 DEF Verified, At
  <2>4. Calm(pc)
    <3>1. pc \in 1 .. 62 /\ I = Script[pc]
      BY <2>1, ScriptLen DEF TypeOK, I
    <3> QED
      BY <2>3, <3>1, StepAt
  <2>5. /\ d \in Aggs => d \in todo
        /\ d \in Samplers => \A a \in want : d \in getConfig(a) => a \in todo
    BY <2>1, <2>3, <2>4 DEF MissInv
  <2>6. d \in Daemons
    BY <2>1 DEF TypeOK
  <2> QED
    BY <2>3, <2>5, <2>6, Levels
<1> HIDE DEF Inv
<1> QED
  BY <1>1, <1>2, <1>3, PTL DEF Spec, PassMeansUp
=============================================================================
