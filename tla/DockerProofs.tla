---------------------------- MODULE DockerProofs ----------------------------
(***************************************************************************)
(* That the properties of DockerCluster hold for any number of processes,  *)
(* cluster names, hosts and nodes.  A step of process p touches at most    *)
(* one container, of the cluster p works on, and at most the network of    *)
(* that name (Touches).  What any other process relies on is about another *)
(* name, or about a name that two work on, of which nothing is claimed     *)
(* (OthersKeep); so each action is left with what it owes itself (Keeps).  *)
(* Where the containers are placed plays no part.                          *)
(* And RefusedOnlyWhenStale for any number of scripts and networks: the    *)
(* subnet after the highest one is free, because subnets do not overlap    *)
(* and lie at multiples of their length.                                   *)
(***************************************************************************)
EXTENDS DockerSwarm, WellFoundedInduction, TLAPS
-----------------------------------------------------------------------------
(* The highest subnet.                                                     *)

(* A bounded set of numbers has a greatest one: its distance from the      *)
(* bound is the least.                                                     *)
LEMMA HasGreatest ==
    ASSUME NEW S \in SUBSET Nat, S # {}, NEW b \in Nat, \A n \in S : n <= b
    PROVE  \E m \in S : \A n \in S : n <= m
<1>. DEFINE T == {k \in Nat : b - k \in S}
<1>1. T \subseteq Nat /\ T # {}
  <2>1. PICK n \in S : TRUE
    OBVIOUS
  <2>2. b - n \in Nat /\ b - (b - n) = n
    BY <2>1
  <2> QED
    BY <2>2
<1>. DEFINE R == OpToRel(<, Nat)
<1>2. IsWellFoundedOn(R, Nat)
  BY NatLessThanWellFounded
<1>3. PICK x \in T : \A y \in T : ~(y < x)
  <2>1. \A x, y \in Nat : y < x => <<y, x>> \in R
    BY DEF OpToRel
  <2>. HIDE DEF R, T
  <2>2. \E x \in T : \A y \in T : ~(<<y, x>> \in R)
    BY <1>1, <1>2, WFMin
  <2>. QED
    BY <1>1, <2>1, <2>2
<1>4. b - x \in S /\ \A n \in S : b - n \in T
  <2>1. \A n \in S : b - n \in Nat /\ b - (b - n) = n
    OBVIOUS
  <2> QED
    BY <2>1
<1>5. \A n \in S : n <= b - x
  BY <1>3, <1>4
<1> QED
  BY <1>4, <1>5

(* Highest(S) is a member of S, and no other one is after it.              *)
LEMMA HighestIsLast ==
    ASSUME NEW S \in SUBSET Subnets, S # {}, NEW b \in Nat, \A x \in S : x.base <= b
    PROVE  /\ Highest(S) \in S
           /\ \A y \in S : \/ y.base < Highest(S).base
                           \/ y.base = Highest(S).base /\ y.len >= Highest(S).len
<1>. DEFINE rank(x) == 2 * x.base + 2 - x.len
            T == {rank(x) : x \in S}
<1>1. \A x \in S : x.base \in Nat /\ x.len \in {1, 2}
  BY DEF Subnets
<1>2. PICK t \in Nat : T \in SUBSET Nat /\ T # {} /\ \A n \in T : n <= t
  <2>1. 2 * b + 2 \in Nat /\ T \in SUBSET Nat /\ T # {} /\ \A n \in T : n <= 2 * b + 2
    BY <1>1
  <2>. QED BY <2>1
<1>3. PICK m \in T : \A n \in T : n <= m
  <2>. HIDE DEF T
  <2>. QED BY <1>2, HasGreatest
<1>4. PICK h \in S : m = rank(h)
  OBVIOUS
<1>5. ASSUME NEW y \in S
      PROVE  y.base < h.base \/ (y.base = h.base /\ y.len >= h.len)
  <2>1. rank(y) <= rank(h)
    BY <1>3, <1>4
  <2>. QED BY <1>1, <2>1
<1>. QED BY <1>5 DEF Highest

(* next_subnet: what it changes.                                           *)
LEMMA NextSubnet ==
    ASSUME NEW x \in Subnets
    PROVE  next_subnet(x) = [fam |-> x.fam, base |-> x.base + x.len, len |-> x.len]
BY DEF next_subnet, Subnets

(* Lengths are one or two.                                                 *)
LEMMA AlignedMeans ==
    ASSUME NEW x \in Subnets
    PROVE  Aligned(x) <=> (x.len = 2 => x.base % 2 = 0)
<1>1. x.len \in {1, 2} /\ x.base \in Nat
  BY DEF Subnets
<1>2. CASE x.len = 1
  BY <1>1, <1>2 DEF Aligned
<1>3. CASE x.len = 2
  BY <1>1, <1>3 DEF Aligned
<1>. QED BY <1>1, <1>2, <1>3

(* The next IPv6 subnet is of the same kind as those it comes after, and   *)
(* none of them overlaps with it.                                          *)
LEMMA NextV6 ==
    ASSUME NEW S \in SUBSET Subnets, NEW n \in Nat, \A x \in S : Regular(x, n)
    PROVE  LET z == next_ipv6_subnet(S)
           IN  /\ z \in Subnets /\ z.fam = 6 /\ Regular(z, n + 1)
               /\ \A y \in S : ~Overlap(z, y)
<1>. DEFINE V == {x \in S : x.fam = 6}
            z == next_ipv6_subnet(S)
<1>1. CASE V = {}
  <2>1. z = [fam |-> 6, base |-> 0, len |-> 1]
    BY <1>1 DEF next_ipv6_subnet, NextAfter, FirstV6, Subnet
  <2>2. z \in Subnets
    BY <2>1 DEF Subnets
  <2>3. Aligned(z)
    BY <2>1, <2>2, AlignedMeans
  <2>4. \A y \in S : ~Overlap(z, y)
    BY <1>1, <2>1 DEF Overlap
  <2>. QED BY <2>1, <2>2, <2>3, <2>4 DEF Regular
<1>2. CASE V # {}
  <2>. DEFINE h == Highest(V)
  <2>1. \A x \in V : x.base \in Nat /\ x.len = 1 /\ x.base <= n
    BY DEF Regular, Subnets
  <2>2. h \in V /\ \A y \in V : y.base <= h.base
    <3>1. V \in SUBSET Subnets
      OBVIOUS
    <3>. HIDE DEF V
    <3>2. /\ h \in V
          /\ \A y \in V : y.base < h.base \/ (y.base = h.base /\ y.len >= h.len)
      BY <1>2, <2>1, <3>1, HighestIsLast
    <3>. QED BY <2>1, <3>2
  <2>3. z = [fam |-> 6, base |-> h.base + 1, len |-> 1]
    <3>1. h \in Subnets /\ h.fam = 6 /\ h.len = 1
      BY <2>1, <2>2
    <3>2. z = next_subnet(h)
      BY <1>2 DEF next_ipv6_subnet, NextAfter
    <3>. QED BY <3>1, <3>2, NextSubnet
  <2>4. z \in Subnets
    BY <2>1, <2>2, <2>3 DEF Subnets
  <2>5. Aligned(z)
    BY <2>3, <2>4, AlignedMeans
  <2>. HIDE DEF h, z
  <2>6. \A y \in S : y.fam = 6 => y.base + 1 <= z.base /\ y.len = 1 /\ y.base \in Nat
    BY <2>1, <2>2, <2>3
  <2>7. \A y \in S : ~Overlap(z, y)
    BY <2>1, <2>2, <2>3, <2>6 DEF Overlap
  <2>8. z.base <= n + 1
    BY <2>1, <2>2, <2>3
  <2>9. QED
    BY <2>3, <2>4, <2>5, <2>7, <2>8 DEF Regular, z
<1>. QED BY <1>1, <1>2

(* The next IPv4 subnet: those below the limit end before it begins, and   *)
(* it ends before the others begin.                                        *)
LEMMA NextV4 ==
    ASSUME NEW S \in SUBSET Subnets, NEW n \in Nat, \A x \in S : Regular(x, n)
    PROVE  LET z == next_ipv4_subnet(S)
           IN  /\ z \in Subnets /\ z.fam = 4 /\ Regular(z, n)
               /\ Apart(S) /\ z.base < Limit => \A y \in S : ~Overlap(z, y)
<1>. DEFINE V == {x \in S : x.fam = 4 /\ x.base < Limit}
            z == next_ipv4_subnet(S)
<1>. USE DockerNetAssumption
<1>1. \A x \in S : x.base \in Nat /\ x.len \in {1, 2}
  BY DEF Subnets
<1>2. CASE V = {}
  <2>1. z = [fam |-> 4, base |-> First, len |-> 1]
    BY <1>2 DEF next_ipv4_subnet, NextAfter, FirstV4, Subnet
  <2>2. z \in Subnets
    BY <2>1 DEF Subnets
  <2>3. Aligned(z)
    BY <2>1, <2>2, AlignedMeans
  <2>. HIDE DEF z
  <2>4. z.base < Limit => \A y \in S : ~Overlap(z, y)
    BY <1>1, <1>2, <2>1 DEF Overlap
  <2>5. First <= Limit + First + 1
    OBVIOUS
  <2>. QED BY <2>1, <2>2, <2>3, <2>4, <2>5 DEF Regular, z
<1>3. CASE V # {}
  <2>. DEFINE h == Highest(V)
  <2>1. /\ h \in V
        /\ \A y \in V : y.base < h.base \/ (y.base = h.base /\ y.len >= h.len)
    <3>1. V \in SUBSET Subnets /\ \A x \in V : x.base <= Limit
      BY <1>1
    <3>. HIDE DEF V
    <3>. QED BY <1>3, <3>1, HighestIsLast
  <2>2. h \in Subnets /\ h \in S /\ h.fam = 4 /\ h.base < Limit
        /\ h.base \in Nat /\ h.len \in {1, 2} /\ Aligned(h)
    BY <1>1, <2>1 DEF Regular
  <2>3. z = [fam |-> 4, base |-> h.base + h.len, len |-> h.len]
    <3>1. z = next_subnet(h)
      BY <1>3 DEF next_ipv4_subnet, NextAfter
    <3>. QED BY <2>2, <3>1, NextSubnet
  <2>. HIDE DEF h, z
  <2>4. z \in Subnets
    BY <2>2, <2>3 DEF Subnets
  <2>5. h.len = 2 => h.base % 2 = 0 /\ z.base % 2 = 0
    BY <2>2, <2>3, AlignedMeans
  <2>6. Aligned(z)
    BY <2>3, <2>4, <2>5, AlignedMeans
  <2>7. z.base <= Limit + First + 1
    BY <2>2, <2>3
  <2>8. ASSUME Apart(S), z.base < Limit, NEW y \in S
        PROVE  ~Overlap(z, y)
    <3>1. z.base + z.len <= Limit
      BY <2>2, <2>3, <2>5, <2>8
    <3>2. CASE y.fam # 4
      BY <2>3, <3>2 DEF Overlap
    <3>3. CASE y.fam = 4 /\ y.base >= Limit
      BY <1>1, <2>2, <2>3, <3>1, <3>3 DEF Overlap
    <3>4. CASE y.fam = 4 /\ y.base < Limit
      <4>1. y \in V
        BY <3>4
      <4>2. y = h \/ ~Overlap(y, h)
        BY <2>2, <2>8 DEF Apart
      <4>3. y.base + y.len <= z.base
        <5>1. CASE y = h
          BY <2>2, <2>3, <5>1
        <5>2. CASE ~Overlap(y, h)
          BY <1>1, <2>1, <2>2, <2>3, <3>4, <4>1, <5>2 DEF Overlap
        <5>. QED BY <4>2, <5>1, <5>2
      <4>. QED BY <1>1, <2>2, <2>3, <4>3 DEF Overlap
    <3>. QED BY <1>1, <3>2, <3>3, <3>4
  <2>9. QED
    BY <2>3, <2>4, <2>6, <2>7, <2>8 DEF Regular, z
<1>. QED BY <1>2, <1>3
-----------------------------------------------------------------------------
(* The steps.                                                              *)

(* What is present comes from the networks.                                *)
LEMMA PresentMeans ==
    ASSUME NetTypeOK, NEW x
    PROVE  /\ x \in Present <=> \E n \in NetNames : pools[n] # NoNet /\ x \in pools[n]
           /\ Present \in SUBSET Subnets
BY DEF NetTypeOK, Present

(* Network.create(): a choice is of the right kind, and free unless the    *)
(* list had more than what is present.                                     *)
LEMMA ChooseKeeps ==
    ASSUME PoolInv, NEW s \in Scripts, ChooseV6(s) \/ ChooseV4(s)
    PROVE  PoolInv'
<1>. DEFINE found == lst[s] \cup Present
            six == next_ipv6_subnet(found)
            four == next_ipv4_subnet(found)
<1>. USE DEF PoolInv
<1>1. Present \in SUBSET Subnets
  BY PresentMeans
<1>2. found \in SUBSET Subnets /\ made \in Nat /\ \A x \in found : Regular(x, made)
  BY <1>1 DEF NetTypeOK, SubnetInv
<1>3. /\ six \in Subnets /\ six.fam = 6 /\ Regular(six, made + 1)
      /\ \A y \in found : ~Overlap(six, y)
  BY <1>2, NextV6
<1>4. /\ four \in Subnets /\ four.fam = 4 /\ Regular(four, made)
      /\ Apart(found) /\ four.base < Limit => \A y \in found : ~Overlap(four, y)
  BY <1>2, NextV4
<1>5. CASE ChooseV6(s)
  <2>1. /\ UNCHANGED <<pools, net4, made>> /\ step' = [step EXCEPT ![s] = "v4"]
        /\ lst' = [lst EXCEPT ![s] = found]
        /\ net6' = [net6 EXCEPT ![s] = six]
        /\ fresh' = [fresh EXCEPT ![s] = (found = Present)]
    BY <1>5 DEF ChooseV6, attr_grep
  <2>. HIDE DEF six, four, found
  <2>2. NetTypeOK'
    BY <1>2, <1>3, <2>1 DEF NetTypeOK
  <2>3. Present' = Present
    BY <2>1 DEF Present
  <2>4. SubnetInv'
    BY <1>2, <1>3, <2>1, <2>3 DEF SubnetInv, NetTypeOK
  <2>5. Apart(Present)'
    BY <2>3 DEF Apart
  <2>6. ChoiceInv'
    BY <1>3, <2>1, <2>3 DEF ChoiceInv, NetTypeOK, Clear, found
  <2>. QED BY <2>2, <2>4, <2>5, <2>6
<1>6. CASE ChooseV4(s)
  <2>1. /\ UNCHANGED <<pools, net6, made>> /\ step' = [step EXCEPT ![s] = "create"]
        /\ lst' = [lst EXCEPT ![s] = found]
        /\ net4' = [net4 EXCEPT ![s] = four]
        /\ fresh' = [fresh EXCEPT ![s] = @ /\ found = Present]
        /\ step[s] = "v4"
    BY <1>6 DEF ChooseV4, attr_grep
  <2>. HIDE DEF six, four, found
  <2>2. NetTypeOK'
    BY <1>2, <1>4, <2>1 DEF NetTypeOK
  <2>3. Present' = Present
    BY <2>1 DEF Present
  <2>4. SubnetInv'
    BY <1>2, <1>4, <2>1, <2>3 DEF SubnetInv, NetTypeOK
  <2>5. Apart(Present)'
    BY <2>3 DEF Apart
  <2>6. fresh'[s] => fresh[s] /\ found = Present
    BY <2>1 DEF NetTypeOK
  <2>7. ChoiceInv'
    BY <1>4, <2>1, <2>3, <2>6 DEF ChoiceInv, NetTypeOK, Clear
  <2>. QED BY <2>2, <2>4, <2>5, <2>7
<1>. QED BY <1>5, <1>6

(* A script that is at its start again.                                    *)
LEMMA RestKeeps ==
    ASSUME PoolInv, NEW s \in Scripts, NEW list \in SUBSET Subnets, Rest(s, list),
           NEW m \in Nat, m >= made, \A x \in list : Regular(x, m)
    PROVE  /\ \A r \in Scripts :
                /\ \A x \in lst'[r] : Regular(x, m)
                /\ Regular(net6'[r], m + 1) /\ net6'[r].fam = 6
                /\ Regular(net4'[r], m) /\ net4'[r].fam = 4
           /\ lst' \in [Scripts -> SUBSET Subnets]
           /\ step' \in [Scripts -> {"idle", "v4", "create"}]
           /\ net6' \in [Scripts -> Subnets] /\ net4' \in [Scripts -> Subnets]
           /\ step'[s] = "idle"
           /\ \A r \in Scripts \ {s} : step'[r] = step[r] /\ net6'[r] = net6[r]
                                       /\ net4'[r] = net4[r]
<1>. USE DockerNetAssumption DEF PoolInv
<1>1. FirstV6 \in Subnets /\ FirstV6.fam = 6 /\ FirstV6.len = 1 /\ FirstV6.base = 0
  BY DEF FirstV6, Subnet, Subnets
<1>2. FirstV4 \in Subnets /\ FirstV4.fam = 4 /\ FirstV4.len = 1 /\ FirstV4.base = First
  BY DEF FirstV4, Subnet, Subnets
<1>3. Aligned(FirstV6) /\ Aligned(FirstV4)
  BY <1>1, <1>2, AlignedMeans
<1>. HIDE DEF FirstV4, FirstV6
<1>4. Regular(FirstV6, m + 1) /\ Regular(FirstV4, m)
  <2>1. 0 <= m + 1 /\ First <= Limit + First + 1
    OBVIOUS
  <2>. QED BY <1>1, <1>2, <1>3, <2>1 DEF Regular
<1>5. ASSUME NEW x \in Subnets, NEW n \in Nat, NEW k \in Nat, n <= k, Regular(x, n)
      PROVE  Regular(x, k)
  BY <1>5 DEF Regular, Subnets
<1>6. made \in Nat
  BY DEF NetTypeOK
<1>7. ASSUME NEW r \in Scripts, r # s
      PROVE  /\ \A x \in lst[r] : Regular(x, m)
             /\ Regular(net6[r], m + 1) /\ Regular(net4[r], m)
  BY <1>5, <1>6 DEF SubnetInv, NetTypeOK
<1>. QED BY <1>1, <1>2, <1>4, <1>7 DEF Rest, NetTypeOK, SubnetInv

(* A subnet that Docker accepts keeps the networks apart.                  *)
LEMMA AskKeeps ==
    ASSUME PoolInv, NEW s \in Scripts, NEW n \in NetNames, NEW S \in SUBSET Subnets,
           Ask(s, n, S), Apart(S), \A x \in S : Regular(x, made + 1)
    PROVE  PoolInv'
<1>. USE DEF PoolInv
<1>1. made \in Nat /\ Present \in SUBSET Subnets
  BY PresentMeans DEF NetTypeOK
<1>2. CASE Refuses(S)
  <2>1. /\ Rest(s, {}) /\ UNCHANGED <<pools, made>>
        /\ fresh' = [fresh EXCEPT ![s] = TRUE]
    BY <1>2 DEF Ask
  <2>2. Present' = Present
    BY <2>1 DEF Present
  <2>. QED BY <1>1, <2>1, <2>2, RestKeeps DEF NetTypeOK, SubnetInv, Apart, ChoiceInv, Clear
<1>3. CASE ~Refuses(S)
  <2>1. /\ pools' = [pools EXCEPT ![n] = S] /\ made' = made + 1
        /\ fresh' = [r \in Scripts |-> r = s]
        /\ Rest(s, lst[s] \cup S)
    BY <1>3 DEF Ask, attr_grep
  <2>2. ASSUME NEW x \in Subnets, Regular(x, made)
        PROVE  Regular(x, made + 1)
    BY <1>1, <2>2 DEF Regular, Subnets
  <2>3. lst[s] \cup S \in SUBSET Subnets /\ \A x \in lst[s] \cup S : Regular(x, made')
    BY <2>1, <2>2 DEF NetTypeOK, SubnetInv
  <2>4. /\ pools' \in [NetNames -> (SUBSET Subnets) \cup {NoNet}]
        /\ fresh' \in [Scripts -> BOOLEAN] /\ made' \in Nat
    BY <1>1, <2>1 DEF NetTypeOK
  <2>5. NetTypeOK'
    BY <1>1, <2>1, <2>3, <2>4, RestKeeps DEF NetTypeOK
  <2>6. ASSUME NEW x \in Present'
        PROVE  x \in Present \/ x \in S
    <3>1. PICK k \in NetNames : pools'[k] # NoNet /\ x \in pools'[k]
      BY <2>6 DEF Present
    <3>2. CASE k = n
      BY <2>1, <3>1, <3>2 DEF NetTypeOK
    <3>3. CASE k # n
      BY <2>1, <3>1, <3>3, PresentMeans DEF NetTypeOK
    <3>. QED BY <3>2, <3>3
  <2>7. \A x \in Present' : Regular(x, made')
    BY <1>1, <2>1, <2>2, <2>6 DEF SubnetInv
  <2>8. SubnetInv'
    BY <1>1, <2>1, <2>3, <2>7, RestKeeps DEF SubnetInv
  <2>9. Apart(Present)'
    <3>1. \A x \in S, y \in Present : ~Overlap(x, y)
      BY <1>3 DEF Refuses
    <3>2. \A x, y \in Subnets : Overlap(x, y) <=> Overlap(y, x)
      BY DEF Overlap
    <3>. QED BY <1>1, <2>6, <3>1, <3>2 DEF Apart
  <2>10. ChoiceInv'
    <3>1. step'[s] = "idle" /\ \A r \in Scripts : fresh'[r] => r = s
      BY <2>1 DEF Rest, NetTypeOK
    <3>. QED BY <3>1 DEF ChoiceInv
  <2>. QED BY <2>5, <2>8, <2>9, <2>10
<1>. QED BY <1>2, <1>3

(* Every step of the scripts keeps the invariant.                          *)
LEMMA PoolInvStep ==
    ASSUME PoolInv, [NetNext]_netVars
    PROVE  PoolInv'
<1>. USE DEF PoolInv
<1>0. made \in Nat
  BY DEF NetTypeOK
<1>1. ASSUME NEW s \in Scripts, NEW n \in NetNames, CreateChosen(s, n)
      PROVE  PoolInv'
  <2>. DEFINE S == {net6[s], net4[s]}
  <2>1. S \in SUBSET Subnets /\ \A x \in S : Regular(x, made + 1)
    <3>1. /\ net6[s] \in Subnets /\ net4[s] \in Subnets /\ net4[s].fam = 4
          /\ Regular(net6[s], made + 1) /\ Regular(net4[s], made)
      BY DEF NetTypeOK, SubnetInv
    <3>2. Regular(net4[s], made + 1)
      BY <3>1 DEF Regular
    <3>. QED BY <3>1, <3>2
  <2>2. Apart(S)
    BY DEF Apart, Overlap, SubnetInv
  <2>3. Ask(s, n, S)
    BY <1>1 DEF CreateChosen
  <2>. QED BY <2>1, <2>2, <2>3, AskKeeps
<1>2. ASSUME NEW s \in Scripts, NEW n \in NetNames, CreateAuto(s, n)
      PROVE  PoolInv'
  BY <1>2, AskKeeps DEF CreateAuto, Apart
<1>3. ASSUME NEW s \in Scripts, NEW n \in NetNames, NEW x \in Given, CreateGiven(s, n, x)
      PROVE  PoolInv'
  <2>1. x \in Subnets /\ x.fam = 4 /\ x.base < Limit
    BY DockerNetAssumption DEF Given, Subnet, Subnets
  <2>2. Regular(x, made + 1)
    BY <1>3, <2>1, DockerNetAssumption DEF Regular, CreateGiven, Subnets
  <2>3. Apart({x})
    BY DEF Apart
  <2>. QED BY <1>3, <2>1, <2>2, <2>3, AskKeeps DEF CreateGiven
<1>4. ASSUME NEW s \in Scripts, NEW n \in NetNames, Wrap(s, n)
      PROVE  PoolInv'
  <2>1. pools[n] \in SUBSET Present /\ pools[n] \in SUBSET Subnets
    BY <1>4, PresentMeans DEF Wrap, NetTypeOK
  <2>2. Present' = Present
    BY <1>4 DEF Wrap, Present
  <2>. QED BY <1>4, <2>1, <2>2 DEF Wrap, attr_grep, NetTypeOK, SubnetInv, Apart, ChoiceInv, Clear
<1>5. ASSUME NEW n \in NetNames, NetRemove(n)
      PROVE  PoolInv'
  <2>1. NetTypeOK'
    BY <1>5 DEF NetRemove, NetTypeOK
  <2>2. Present' \subseteq Present
    <3>1. SUFFICES ASSUME NEW x \in Present'
                   PROVE  x \in Present
      OBVIOUS
    <3>2. PICK k \in NetNames : pools'[k] # NoNet /\ x \in pools'[k]
      BY <3>1 DEF Present
    <3>3. pools[k] # NoNet /\ x \in pools[k]
      BY <1>5, <3>2 DEF NetRemove, NetTypeOK
    <3>. QED BY <3>3, PresentMeans
  <2>. QED BY <1>5, <2>1, <2>2 DEF NetRemove, SubnetInv, Apart, ChoiceInv, Clear
<1>6. ASSUME NEW s \in Scripts, NewScript(s)
      PROVE  PoolInv'
  <2>1. Present' = Present /\ UNCHANGED <<pools, fresh, made>> /\ Rest(s, {})
    BY <1>6 DEF NewScript, Present
  <2>. QED BY <1>0, <2>1, RestKeeps, SMTT(40) DEF NetTypeOK, SubnetInv, Apart, ChoiceInv, Clear
<1>7. CASE UNCHANGED netVars
  BY <1>7 DEF netVars, NetTypeOK, SubnetInv, Apart, ChoiceInv, Clear, Present
<1>. QED BY <1>1, <1>2, <1>3, <1>4, <1>5, <1>6, <1>7, ChooseKeeps DEF NetNext

(* The invariant holds throughout.                                         *)
LEMMA AlwaysPoolInv == NetSpec => []PoolInv
<1>1. NetInit => PoolInv
  <2>. SUFFICES ASSUME NetInit PROVE PoolInv
    OBVIOUS
  <2>. USE DockerNetAssumption DEF NetInit
  <2>1. FirstV6 \in Subnets /\ FirstV6.fam = 6 /\ FirstV6.len = 1 /\ FirstV6.base = 0
    BY DEF FirstV6, Subnet, Subnets
  <2>2. FirstV4 \in Subnets /\ FirstV4.fam = 4 /\ FirstV4.len = 1 /\ FirstV4.base = First
    BY DEF FirstV4, Subnet, Subnets
  <2>3. Regular(FirstV6, 1) /\ Regular(FirstV4, 0)
    BY <2>1, <2>2, AlignedMeans DEF Regular
  <2>4. Present = {}
    BY DEF Present
  <2>5. NetTypeOK
    BY <2>1, <2>2 DEF NetTypeOK
  <2>6. SubnetInv
    BY <2>1, <2>2, <2>3, <2>4 DEF SubnetInv
  <2>. QED BY <2>4, <2>5, <2>6 DEF PoolInv, Apart, ChoiceInv
<1>. QED BY <1>1, PoolInvStep, PTL DEF NetSpec

(* Docker refuses the subnets that Network.create() chose only when the    *)
(* choice was stale or 172.0.0.0/8 is used up, for any number of scripts,  *)
(* networks and blocks (docker.py:264-319, 366-376).                       *)
THEOREM RefusedOnlyWhenStaleAlways == NetSpec => RefusedOnlyWhenStale
<1>. DEFINE Excused(s) == step[s] = "create" /\ step'[s] = "idle" /\ made' = made
                            => ~fresh[s] \/ net4[s].base >= Limit
<1>1. ASSUME PoolInv, [NetNext]_netVars, NEW s \in Scripts,
             step[s] = "create", step'[s] = "idle", made' = made
      PROVE  ~fresh[s] \/ net4[s].base >= Limit
  <2>1. made \in Nat /\ step \in [Scripts -> {"idle", "v4", "create"}]
    BY <1>1 DEF PoolInv, NetTypeOK
  <2>2. ASSUME NEW r \in Scripts, step' = [step EXCEPT ![r] = step'[r]],
               step[r] = "idle" \/ step'[r] # "idle"
        PROVE  FALSE
    BY <1>1, <2>1, <2>2
  <2>3. ASSUME NEW r \in Scripts, ChooseV6(r) \/ ChooseV4(r) \/ NewScript(r)
        PROVE  FALSE
    BY <2>1, <2>2, <2>3 DEF ChooseV6, ChooseV4, NewScript, Rest
  <2>4. ASSUME NEW r \in Scripts, NEW S, NEW n, step[r] = "idle", Ask(r, n, S)
        PROVE  FALSE
    BY <2>1, <2>2, <2>4 DEF Ask, Rest
  <2>5. step' # step
    BY <1>1
  <2>6. PICK r \in Scripts, n \in NetNames : CreateChosen(r, n)
    <3>1. ~UNCHANGED netVars
      BY <2>5 DEF netVars
    <3>2. \A n \in NetNames : ~NetRemove(n) /\ \A r \in Scripts : ~Wrap(r, n)
      BY <2>5 DEF NetRemove, Wrap
    <3>3. \A r \in Scripts, n \in NetNames :
            ~CreateAuto(r, n) /\ \A x \in Given : ~CreateGiven(r, n, x)
      BY <2>4 DEF CreateAuto, CreateGiven
    <3>. QED BY <1>1, <2>3, <3>1, <3>2, <3>3 DEF NetNext
  <2>7. r = s /\ Refuses({net6[s], net4[s]})
    <3>1. step' = [step EXCEPT ![r] = "idle"]
      BY <2>6 DEF CreateChosen, Ask, Rest
    <3>2. r = s
      BY <1>1, <2>1, <3>1
    <3>. QED BY <1>1, <2>1, <2>6, <3>2 DEF CreateChosen, Ask
  <2>8. net4[s].base \in Nat /\ Limit \in Nat
    BY <1>1, DockerNetAssumption DEF PoolInv, NetTypeOK, Subnets
  <2>. QED BY <1>1, <2>7, <2>8 DEF Refuses, PoolInv, ChoiceInv, Clear
<1>2. PoolInv /\ [NetNext]_netVars => [\A s \in Scripts : Excused(s)]_netVars
  BY <1>1
<1>. QED BY <1>2, AlwaysPoolInv, PTL DEF NetSpec, RefusedOnlyWhenStale

-----------------------------------------------------------------------------
(* Clusters.                                                               *)

\* A step of p that leaves every container alone but container i, of the
\* cluster p works on.
Touches(p, i) ==
    /\ i \in Id /\ cl[i[1]] = cl[p]
    /\ UNCHANGED <<op, cl, size, shared>>
    /\ \A q \in Proc \ {p} :
          /\ pc'[q] = pc[q] /\ node'[q] = node[q] /\ net'[q] = net[q]
          /\ conts'[q] = conts[q] /\ todo'[q] = todo[q]
    /\ \A c \in Cluster \ {cl[p]} : nets'[c] = nets[c]
    /\ \A x \in live : x.id # i => x \in live'
    /\ \A x \in live' : x.id # i => x \in live

-----------------------------------------------------------------------------
(* The invariant holds at the start, when nothing is there.                *)
LEMMA InitIInv ==
    ASSUME Init
    PROVE  IInv
<1>. USE DockerAssumption
<1>1. StateOK
  <2>1. (CHOOSE c \in Cluster : TRUE) \in Cluster
    OBVIOUS
  <2>2. 1 \in 1 .. MaxNodes
    OBVIOUS
  <2>. QED BY <2>1, <2>2 DEF Init, StateOK, Pc
<1>2. ContInv /\ AttachedInv /\ KnownInv
  BY DEF Init, ContInv, AttachedInv, KnownInv
<1>3. NetInv /\ OwnInv
  BY DEF Init, NetInv, NamedRight, HoldsNet, OwnInv, OwnsAll, Creating, Handling
<1>4. SharedInv /\ AloneInv
  BY DEF Init, SharedInv, AloneInv, Active
<1>. QED BY <1>1, <1>2, <1>3, <1>4 DEF IInv

(* A process that works on a name alone is the only one that can know of a *)
(* container there.                                                        *)
LEMMA KnownIsMine ==
    ASSUME IInv, NEW p \in Proc, Active(p), NEW x \in live,
           cl[x.id[1]] = cl[p], Calm(cl[p]), x.on = NULL
    PROVE  KnownBy(p, x)
<1>1. PICK q \in Proc : cl[q] = cl[p] /\ KnownBy(q, x)
  BY DEF IInv, KnownInv
<1>2. Active(q)
  BY <1>1 DEF KnownBy, Active
<1>3. cl[p] \notin shared
  BY DEF Calm
<1>. QED BY <1>1, <1>2, <1>3 DEF IInv, SharedInv

(* What an attached container is attached to.                              *)
LEMMA AttachedMeans ==
    ASSUME StateOK, NEW x \in live, x.on # NULL
    PROVE  x.on = x.id[1] /\ x.on \in Proc /\ x.id[1] \in Proc
BY DEF StateOK, Id

LEMMA AttachedHere ==
    ASSUME StateOK, NEW c, NEW x \in AttachedTo(c)
    PROVE  x \in live /\ x.on = x.id[1] /\ x.on \in Proc /\ cl[x.id[1]] = c
BY AttachedMeans DEF AttachedTo

-----------------------------------------------------------------------------
(* Another process, on another name, finds everything as it was.           *)
LEMMA OthersKeep ==
    ASSUME IInv, NEW p \in Proc, NEW i, Touches(p, i), StateOK',
           NEW q \in Proc, q # p, Active(q), cl[q] # cl[p], Alone(q)
    PROVE  Alone(q)'
<1>. USE DEF IInv
<1>0. /\ cl' = cl /\ size' = size /\ pc'[q] = pc[q] /\ node'[q] = node[q]
      /\ net'[q] = net[q] /\ conts'[q] = conts[q] /\ todo'[q] = todo[q]
      /\ nets'[cl[q]] = nets[cl[q]] /\ cl[q] \in Cluster
  BY DEF Touches, StateOK
<1>1. \A x \in live : cl[x.id[1]] = cl[q] => x \in live'
  BY DEF Touches
<1>2. \A x \in live' : cl[x.id[1]] = cl[q] => x \in live
  BY DEF Touches
<1>. DEFINE StillUp(n) == \A k \in 1 .. n : \E x \in live' :
                 x.id = <<q, k>> /\ x.on = q /\ x.state = "running"
<1>3. /\ UpTo(q, node[q] - 1) => StillUp(node[q] - 1)
      /\ UpTo(q, size[q]) => StillUp(size[q])
  <2>1. ASSUME NEW n, NEW k \in 1 .. n, UpTo(q, n)
        PROVE  \E x \in live' : x.id = <<q, k>> /\ x.on = q /\ x.state = "running"
    <3>1. PICK x \in live : x.id = <<q, k>> /\ x.on = q /\ x.state = "running"
      BY <2>1 DEF UpTo
    <3>. QED BY <1>1, <3>1
  <2>. QED BY <2>1
<1>4. Current(q)' = Current(q)
  <2>1. {x \in live' : x.id = <<q, node[q]>>} = {x \in live : x.id = <<q, node[q]>>}
    BY <1>1, <1>2
  <2>. QED BY <1>0, <2>1 DEF Current
<1>5. AttachedTo(cl[q])' = AttachedTo(cl[q])
  <2>1. ASSUME NEW x \in live', x.on # NULL, cl[x.on] = cl[q]
        PROVE  x \in live
    <3>1. x.on = x.id[1]
      BY <2>1 DEF StateOK
    <3>. QED BY <1>2, <2>1, <3>1
  <2>2. ASSUME NEW x \in live, x.on # NULL, cl[x.on] = cl[q]
        PROVE  x \in live'
    BY <1>1, <2>2, AttachedMeans
  <2>. QED BY <1>0, <2>1, <2>2 DEF AttachedTo
<1>6. Ids(AttachedTo(cl[q]))' = Ids(AttachedTo(cl[q]))
  BY <1>5 DEF Ids
<1>7. ASSUME NEW S, S \subseteq Ids(live), \A j \in S : cl[j[1]] = cl[q]
      PROVE  S \subseteq Ids(live)'
  <2>. SUFFICES ASSUME NEW j \in S PROVE \E x \in live' : j = x.id
    BY DEF Ids
  <2>1. PICK x \in live : j = x.id
    BY <1>7 DEF Ids
  <2>. QED BY <1>1, <1>7, <2>1
<1>8. pc[q] = "disconnect" => \A j \in conts[q] : cl[j[1]] = cl[q]
  <2>. SUFFICES ASSUME pc[q] = "disconnect", NEW j \in conts[q]
                PROVE  cl[j[1]] = cl[q]
    OBVIOUS
  <2>1. CASE j \in todo[q]
    <3>1. PICK x \in AttachedTo(cl[q]) : j = x.id
      BY <2>1 DEF Alone, Ids
    <3>. QED BY <3>1, AttachedHere
  <2>2. CASE j \notin todo[q]
    BY <2>2 DEF OwnInv, OwnsAll, NetInv, HoldsNet, Handling
  <2>. QED BY <2>1, <2>2
<1>9. pc[q] = "remove" => \A j \in todo[q] : cl[j[1]] = cl[q]
  BY DEF OwnInv, OwnsAll, NetInv, HoldsNet, Handling
<1>10. /\ pc[q] \in Creating => nets[cl[q]] = q /\ UpTo(q, node[q] - 1)'
       /\ pc[q] \in {"list", "up"} /\ net[q] = q => UpTo(q, size[q])'
  BY <1>0, <1>3 DEF Alone, UpTo
<1>11. /\ pc[q] = "disconnect" => conts[q] \subseteq Ids(live)'
       /\ pc[q] = "remove" => todo[q] \subseteq Ids(live)'
  BY <1>7, <1>8, <1>9 DEF Alone
<1>. HIDE DEF StillUp
<1>. QED BY <1>0, <1>4, <1>6, <1>10, <1>11 DEF Alone

(* What a step of p owes: its own part of the invariant, and that of the   *)
(* container and of the network it touches.                                *)
LEMMA Keeps ==
    ASSUME IInv, NEW p \in Proc, Active(p), NEW i, Touches(p, i), StateOK',
           pc[p] \notin Early => pc'[p] \notin Early,
           \A x \in live' : x.id = i \/ x.id[1] = p => MadeInTurn(x)',
           \A x, y \in live' : x.id = i /\ y.id = i => x = y,
           NamedRight(cl[p])', HoldsNet(p)', OwnsAll(p)',
           Active(p)' /\ cl[p] \notin shared => Alone(p)',
           \A x \in live' : x.on # NULL /\ cl[x.on] = cl[p] /\ cl[p] \notin shared
                => nets'[cl[p]] = x.on,
           \A x \in live' : x.on = NULL /\ cl[x.id[1]] = cl[p] /\ Calm(cl[p])'
                => KnownBy(p, x)'
    PROVE  IInv'
<1>. USE DEF IInv
<1>0. /\ cl' = cl /\ size' = size /\ shared' = shared /\ cl[i[1]] = cl[p]
      /\ cl \in [Proc -> Cluster]
      /\ \A q \in Proc \ {p} :
            /\ pc'[q] = pc[q] /\ node'[q] = node[q] /\ net'[q] = net[q]
            /\ conts'[q] = conts[q] /\ todo'[q] = todo[q]
      /\ \A c \in Cluster \ {cl[p]} : nets'[c] = nets[c]
      /\ \A x \in live' : x.id # i => x \in live
  BY DEF Touches, StateOK
<1>1. \A x \in live' : x.id[1] \in Proc /\ x.on \in {NULL, x.id[1]}
  BY DEF StateOK, Id
<1>2. ContInv'
  <2>1. ASSUME NEW x \in live'
        PROVE  MadeInTurn(x)'
    <3>1. CASE x.id = i \/ x.id[1] = p
      BY <3>1
    <3>2. CASE x.id # i /\ x.id[1] # p
      <4>1. MadeInTurn(x)
        BY <1>0, <3>2 DEF ContInv
      <4>. QED BY <1>0, <1>1, <3>2, <4>1 DEF MadeInTurn
    <3>. QED BY <3>1, <3>2
  <2>2. ASSUME NEW x \in live', NEW y \in live', x.id = y.id
        PROVE  x = y
    BY <1>0, <2>2 DEF ContInv
  <2>. QED BY <2>1, <2>2 DEF ContInv
<1>3. NetInv'
  <2>1. ASSUME NEW c \in Cluster
        PROVE  NamedRight(c)'
    <3>1. CASE c = cl[p]
      BY <1>0, <3>1 DEF NamedRight
    <3>2. CASE c # cl[p] /\ nets[c] # NULL
      <4>1. NamedRight(c) /\ nets[c] \in Proc /\ nets[c] # p
        BY <3>2 DEF NetInv, StateOK, NamedRight
      <4>. QED BY <1>0, <3>2, <4>1 DEF NamedRight
    <3>3. CASE c # cl[p] /\ nets[c] = NULL
      BY <1>0, <3>3 DEF NamedRight
    <3>. QED BY <3>1, <3>2, <3>3
  <2>2. ASSUME NEW q \in Proc
        PROVE  HoldsNet(q)'
    <3>1. CASE q = p
      BY <3>1
    <3>2. CASE q # p
      <4>1. HoldsNet(q)
        BY DEF NetInv
      <4>2. net[q] \in Proc /\ pc[net[q]] \notin Early => pc'[net[q]] \notin Early
        BY <1>0
      <4>. QED BY <1>0, <3>2, <4>1, <4>2 DEF HoldsNet
    <3>. QED BY <3>1, <3>2
  <2>. QED BY <2>1, <2>2 DEF NetInv
<1>4. OwnInv'
  <2>1. ASSUME NEW q \in Proc, q # p
        PROVE  OwnsAll(q)'
    BY <1>0, <2>1 DEF OwnInv, OwnsAll
  <2>. QED BY <2>1 DEF OwnInv
<1>5. SharedInv'
  <2>1. \A q \in Proc : Active(q)' => Active(q)
    BY <1>0 DEF Active
  <2>. QED BY <1>0, <2>1 DEF SharedInv
<1>6. AloneInv'
  <2>1. ASSUME NEW q \in Proc, q # p, Active(q)', cl[q] \notin shared
        PROVE  Alone(q)'
    <3>1. Active(q) /\ cl[q] # cl[p]
      BY <1>0, <2>1 DEF Active, SharedInv
    <3>. QED BY <2>1, <3>1, OthersKeep DEF AloneInv
  <2>. QED BY <1>0, <2>1 DEF AloneInv
<1>7. AttachedInv'
  <2>1. ASSUME NEW x \in live', x.on # NULL, cl[x.on] \notin shared, cl[x.on] # cl[p]
        PROVE  nets'[cl[x.on]] = x.on
    <3>1. x.on = x.id[1] /\ x.on \in Proc /\ x \in live
      BY <1>0, <1>1, <2>1
    <3>. QED BY <1>0, <2>1, <3>1 DEF AttachedInv
  <2>. QED BY <1>0, <2>1 DEF AttachedInv
<1>8. KnownInv'
  <2>1. ASSUME NEW x \in live', x.on = NULL, Calm(cl[x.id[1]])', cl[x.id[1]] # cl[p]
        PROVE  \E q \in Proc : cl[q] = cl[x.id[1]] /\ KnownBy(q, x)'
    <3>1. x \in live
      BY <1>0, <2>1
    <3>2. Calm(cl[x.id[1]])
      BY <1>0, <2>1 DEF Calm
    <3>3. PICK q \in Proc : cl[q] = cl[x.id[1]] /\ KnownBy(q, x)
      BY <2>1, <3>1, <3>2 DEF KnownInv
    <3>4. q # p
      BY <2>1, <3>3
    <3>5. KnownBy(q, x)'
      BY <1>0, <3>3, <3>4 DEF KnownBy
    <3>. QED BY <3>3, <3>5
  <2>2. ASSUME NEW x \in live', x.on = NULL, Calm(cl[x.id[1]])', cl[x.id[1]] = cl[p]
        PROVE  KnownBy(p, x)'
    <3>1. Calm(cl[p])'
      BY <1>0, <2>2 DEF Calm
    <3>. QED BY <2>2, <3>1
  <2>. QED BY <1>0, <2>1, <2>2 DEF KnownInv
<1>. QED BY <1>2, <1>3, <1>4, <1>5, <1>6, <1>7, <1>8

(* The same for a step that touches no container.                          *)
LEMMA KeepsStill ==
    ASSUME IInv, NEW p \in Proc, Active(p), UNCHANGED <<op, cl, size, live, shared>>,
           \A q \in Proc \ {p} :
                /\ pc'[q] = pc[q] /\ node'[q] = node[q] /\ net'[q] = net[q]
                /\ conts'[q] = conts[q] /\ todo'[q] = todo[q],
           \A c \in Cluster \ {cl[p]} : nets'[c] = nets[c],
           StateOK',
           pc[p] \notin Early => pc'[p] \notin Early,
           \A x \in live : x.id[1] = p => MadeInTurn(x)',
           NamedRight(cl[p])', HoldsNet(p)', OwnsAll(p)',
           Active(p)' /\ cl[p] \notin shared => Alone(p)',
           \A x \in live : x.on # NULL /\ cl[x.on] = cl[p] /\ cl[p] \notin shared
                => nets'[cl[p]] = x.on,
           \A x \in live : x.on = NULL /\ cl[x.id[1]] = cl[p] /\ Calm(cl[p])'
                => KnownBy(p, x)'
    PROVE  IInv'
<1>. DEFINE i == <<p, 1>>
<1>1. i \in Id /\ i[1] = p
  BY DockerAssumption DEF Id
<1>2. Touches(p, i)
  BY <1>1 DEF Touches
<1>3. live' = live
  OBVIOUS
<1>4. \A x \in live' : x.id = i \/ x.id[1] = p => MadeInTurn(x)'
  BY <1>1, <1>3
<1>5. \A x, y \in live' : x.id = i /\ y.id = i => x = y
  BY <1>3 DEF IInv, ContInv
<1>. HIDE DEF i
<1>. QED BY <1>2, <1>3, <1>4, <1>5, Keeps

(* A process that ends loses nothing that only it knew of, unless it is    *)
(* killed.                                                                 *)
LEMMA EndKeeps ==
    ASSUME IInv, NEW p \in Proc, Active(p), NEW l \in {"left", "done", "ended", "killed"},
           End(p, l), UNCHANGED <<op, cl, size, nets, live, shared>>,
           l = "killed" \/ cl[p] \in shared \/ \A x \in live : ~KnownBy(p, x)
    PROVE  IInv'
<1>. USE DEF IInv
<1>1. pc'[p] = l /\ pc' \in [Proc -> Pc]
  BY DEF End, Goto, StateOK, Pc
<1>2. \A q \in Proc \ {p} :
          /\ pc'[q] = pc[q] /\ node'[q] = node[q] /\ net'[q] = net[q]
          /\ conts'[q] = conts[q] /\ todo'[q] = todo[q]
  BY DEF End, Goto, StateOK
<1>3. StateOK'
  <2>1. /\ node' \in [Proc -> 1 .. MaxNodes]
        /\ net' \in [Proc -> Proc \cup {NULL}]
        /\ conts' \in [Proc -> SUBSET Id] /\ todo' \in [Proc -> SUBSET Id]
    BY DockerAssumption DEF End, StateOK
  <2>. QED BY <1>1, <2>1 DEF StateOK
<1>4. pc'[p] \notin Early /\ ~Active(p)'
  BY <1>1 DEF Early, Active
<1>5. ASSUME NEW x \in live, x.id[1] = p
      PROVE  MadeInTurn(x)'
  BY <1>1, <1>4, <1>5 DEF ContInv, MadeInTurn
<1>6. NamedRight(cl[p])'
  <2>1. NamedRight(cl[p])
    BY DEF NetInv, StateOK
  <2>2. nets[cl[p]] # NULL => nets[cl[p]] \in Proc
    BY DEF StateOK
  <2>. QED BY <1>2, <1>4, <2>1, <2>2 DEF NamedRight
<1>7. HoldsNet(p)' /\ OwnsAll(p)'
  BY <1>1 DEF HoldsNet, OwnsAll, Creating, Handling
<1>8. \A x \in live : x.on # NULL /\ cl[x.on] = cl[p] /\ cl[p] \notin shared
         => nets'[cl[p]] = x.on
  BY DEF AttachedInv
<1>9. ASSUME NEW x \in live, x.on = NULL, cl[x.id[1]] = cl[p], Calm(cl[p])'
      PROVE  KnownBy(p, x)'
  <2>1. l # "killed" /\ cl[p] \notin shared
    BY <1>1, <1>9 DEF Calm
  <2>2. pc[p] # "killed"
    BY DEF Active
  <2>3. Calm(cl[p])
    BY <1>2, <1>9, <2>1, <2>2 DEF Calm
  <2>. QED BY <1>9, <2>1, <2>3, KnownIsMine
<1>. QED BY <1>2, <1>3, <1>4, <1>5, <1>6, <1>7, <1>8, <1>9, KeepsStill

-----------------------------------------------------------------------------
(* A process that begins had no part in anything before.                   *)
LEMMA BeginKeeps ==
    ASSUME IInv, NEW p \in Proc, NEW o \in {"get", "remove"}, NEW c \in Cluster,
           NEW n \in 1 .. MaxNodes, Begin(p, o, c, n)
    PROVE  IInv'
<1>. USE DEF IInv
<1>1. /\ UNCHANGED <<node, net, conts, todo, nets, live>>
      /\ pc[p] = "idle" /\ pc'[p] = "get" /\ cl'[p] = c
      /\ \A q \in Proc \ {p} : pc'[q] = pc[q] /\ cl'[q] = cl[q] /\ size'[q] = size[q]
      /\ shared \subseteq shared'
      /\ (\E q \in Proc : Active(q) /\ cl[q] = c) => c \in shared'
  BY DEF Begin, Goto, StateOK
<1>2. StateOK'
  BY DEF Begin, Goto, StateOK, Pc
<1>3. ~Active(p) /\ p \notin {q \in Proc : pc[q] \notin Early}
  BY <1>1 DEF Active, Early
<1>4. \A q \in Proc \ {p} : (Active(q)' <=> Active(q)) /\ (pc'[q] \notin Early <=> pc[q] \notin Early)
  BY <1>1 DEF Active
<1>5. \A x \in live : /\ x.id[1] \in Proc \ {p} /\ x.on \in {NULL, x.id[1]}
                      /\ x.on # NULL => x.on \in Proc \ {p}
  BY <1>3 DEF ContInv, MadeInTurn, StateOK, Id
<1>6. ContInv'
  BY <1>1, <1>4, <1>5 DEF ContInv, MadeInTurn
<1>7. NetInv'
  <2>1. ASSUME NEW d \in Cluster
        PROVE  NamedRight(d)'
    <3>1. nets[d] # NULL => nets[d] \in Proc \ {p} /\ cl[nets[d]] = d /\ pc[nets[d]] \notin Early
      BY <1>3 DEF NetInv, NamedRight, StateOK
    <3>. QED BY <1>1, <1>4, <3>1 DEF NamedRight
  <2>2. ASSUME NEW q \in Proc \ {p}
        PROVE  HoldsNet(q)'
    <3>1. pc[q] \in Handling => net[q] \in Proc \ {p} /\ cl[net[q]] = cl[q]
                                /\ pc[net[q]] \notin Early
      BY <1>3 DEF NetInv, HoldsNet
    <3>2. pc[q] \in Creating => net[q] = q /\ node[q] <= size[q]
      BY DEF NetInv, HoldsNet
    <3>. QED BY <1>1, <1>4, <3>1, <3>2 DEF HoldsNet
  <2>3. HoldsNet(p)'
    BY <1>1 DEF HoldsNet, Creating, Handling
  <2>. QED BY <2>1, <2>2, <2>3 DEF NetInv
<1>8. OwnInv'
  BY <1>1 DEF OwnInv, OwnsAll
<1>9. SharedInv'
  BY <1>1, <1>3, <1>4 DEF SharedInv
<1>10. AloneInv'
  <2>1. ASSUME NEW q \in Proc \ {p}, Active(q)', cl'[q] \notin shared'
        PROVE  Alone(q)'
    <3>1. Alone(q)
      BY <1>1, <1>4, <2>1 DEF AloneInv
    <3>2. Current(q)' = Current(q)
      BY <1>1 DEF Current
    <3>3. AttachedTo(cl[q])' = AttachedTo(cl[q])
      BY <1>1, <1>5 DEF AttachedTo
    <3>4. Ids(AttachedTo(cl[q]))' = Ids(AttachedTo(cl[q])) /\ Ids(live)' = Ids(live)
      BY <1>1, <3>3 DEF Ids
    <3>5. /\ UpTo(q, node[q] - 1) => UpTo(q, node[q] - 1)'
          /\ UpTo(q, size[q]) => UpTo(q, size[q])'
      BY <1>1 DEF UpTo
    <3>. QED BY <1>1, <3>1, <3>2, <3>4, <3>5 DEF Alone
  <2>2. Alone(p)'
    BY <1>1 DEF Alone, Creating, Handling
  <2>. QED BY <2>1, <2>2 DEF AloneInv
<1>11. AttachedInv'
  BY <1>1, <1>5 DEF AttachedInv
<1>12. KnownInv'
  <2>1. ASSUME NEW x \in live, Calm(cl[x.id[1]])', x.on = NULL
        PROVE  \E q \in Proc : cl'[q] = cl'[x.id[1]] /\ KnownBy(q, x)'
    <3>1. Calm(cl[x.id[1]])
      BY <1>1, <1>5, <2>1 DEF Calm
    <3>2. PICK q \in Proc : cl[q] = cl[x.id[1]] /\ KnownBy(q, x)
      BY <2>1, <3>1 DEF KnownInv
    <3>3. q # p
      BY <1>1, <3>2 DEF KnownBy
    <3>4. KnownBy(q, x)'
      BY <1>1, <3>2, <3>3 DEF KnownBy
    <3>. QED BY <1>1, <1>5, <3>2, <3>3, <3>4
  <2>. QED BY <1>1, <2>1 DEF KnownInv
<1>. QED BY <1>2, <1>6, <1>7, <1>8, <1>9, <1>10, <1>11, <1>12

(* What is calm after a step of p was so before.                           *)
LEMMA CalmBefore ==
    ASSUME NEW p \in Proc, Active(p), UNCHANGED <<cl, shared>>,
           \A q \in Proc \ {p} : pc'[q] = pc[q], Calm(cl[p])'
    PROVE  Calm(cl[p])
BY DEF Calm, Active

LEMMA NoneKnown ==
    ASSUME IInv, NEW p \in Proc, Active(p), pc[p] \notin {"connect", "disconnect", "remove"},
           NEW x \in live, cl[x.id[1]] = cl[p], Calm(cl[p])
    PROVE  x.on # NULL
BY KnownIsMine DEF KnownBy

(* get() and the steps of __create() before it has a network.              *)
LEMMA GetKeeps ==
    ASSUME IInv, NEW p \in Proc, pc[p] \in {"get", "plan"},
           NEW l \in {"plan", "network", "list"}, Goto(p, l),
           UNCHANGED <<op, cl, size, node, conts, todo, nets, live, shared>>,
           \/ l # "list" /\ UNCHANGED net
           \/ l = "list" /\ nets[cl[p]] # NULL /\ net' = [net EXCEPT ![p] = nets[cl[p]]]
    PROVE  IInv'
<1>. USE DEF IInv
<1>1. pc'[p] = l /\ \A q \in Proc \ {p} : pc'[q] = pc[q] /\ net'[q] = net[q]
  BY DEF Goto, StateOK
<1>2. StateOK'
  <2>1. net' \in [Proc -> Proc \cup {NULL}] /\ pc' \in [Proc -> Pc]
    BY DEF Goto, StateOK, Pc
  <2>. QED BY <2>1 DEF StateOK
<1>3. Active(p) /\ pc[p] \in Early
  BY DEF Active, Early
<1>4. \A x \in live : x.id[1] # p
  BY <1>3 DEF ContInv, MadeInTurn
<1>5. nets[cl[p]] # NULL => /\ nets[cl[p]] \in Proc \ {p} /\ cl[nets[cl[p]]] = cl[p]
                            /\ pc'[nets[cl[p]]] \notin Early
  BY <1>1, <1>3 DEF NetInv, NamedRight, StateOK
<1>6. NamedRight(cl[p])'
  BY <1>5 DEF NamedRight
<1>7. HoldsNet(p)' /\ OwnsAll(p)'
  <2>1. CASE l = "list"
    <3>1. net'[p] = nets[cl[p]]
      BY <2>1 DEF StateOK
    <3>. QED BY <1>1, <1>5, <2>1, <3>1 DEF HoldsNet, OwnsAll, Creating
  <2>2. CASE l # "list"
    BY <1>1, <2>2 DEF HoldsNet, OwnsAll, Creating, Handling
  <2>. QED BY <2>1, <2>2
<1>8. Alone(p)'
  <2>1. CASE l = "list"
    <3>1. net'[p] = nets[cl[p]] /\ net'[p] # p
      BY <1>5, <2>1 DEF StateOK
    <3>. QED BY <1>1, <2>1, <3>1 DEF Alone, Creating
  <2>2. CASE l # "list"
    BY <1>1, <2>2 DEF Alone, Creating, Handling
  <2>. QED BY <2>1, <2>2
<1>9. \A x \in live : x.on # NULL /\ cl[x.on] = cl[p] /\ cl[p] \notin shared
         => nets'[cl[p]] = x.on
  BY DEF AttachedInv
<1>10. ASSUME NEW x \in live, x.on = NULL, cl[x.id[1]] = cl[p], Calm(cl[p])'
       PROVE  KnownBy(p, x)'
  BY <1>1, <1>3, <1>10, CalmBefore, NoneKnown
<1>. QED BY <1>1, <1>2, <1>3, <1>4, <1>6, <1>7, <1>8, <1>9, <1>10, KeepsStill

LEMMA NetworkCreateKeeps ==
    ASSUME IInv, NEW p \in Proc, NetworkCreate(p)
    PROVE  IInv'
<1>. USE DEF IInv
<1>1. /\ UNCHANGED <<op, cl, size, conts, todo, live, shared>>
      /\ pc[p] = "network" /\ pc'[p] = "make" /\ node'[p] = 1 /\ net'[p] = p
      /\ nets[cl[p]] = NULL /\ nets'[cl[p]] = p
      /\ \A q \in Proc \ {p} : pc'[q] = pc[q] /\ net'[q] = net[q] /\ node'[q] = node[q]
      /\ \A c \in Cluster \ {cl[p]} : nets'[c] = nets[c]
  BY DEF NetworkCreate, Goto, StateOK
<1>2. StateOK'
  <2>1. /\ net' \in [Proc -> Proc \cup {NULL}] /\ pc' \in [Proc -> Pc]
        /\ node' \in [Proc -> 1 .. MaxNodes] /\ nets' \in [Cluster -> Proc \cup {NULL}]
    BY DockerAssumption DEF NetworkCreate, Goto, StateOK, Pc
  <2>. QED BY <1>1, <2>1 DEF StateOK
<1>3. Active(p) /\ pc[p] \in Early /\ pc'[p] \notin Early
  BY <1>1 DEF Active, Early
<1>4. \A x \in live : x.id[1] # p
  BY <1>3 DEF ContInv, MadeInTurn
<1>5. NamedRight(cl[p])' /\ HoldsNet(p)' /\ OwnsAll(p)'
  <2>1. size[p] >= 1
    BY DEF StateOK
  <2>. QED BY <1>1, <1>3, <2>1 DEF NamedRight, HoldsNet, OwnsAll, Handling
<1>6. Alone(p)'
  <2>1. 1 .. (node'[p] - 1) = {}
    BY <1>1
  <2>2. UpTo(p, node[p] - 1)'
    BY <2>1 DEF UpTo
  <2>. QED BY <1>1, <2>2 DEF Alone, Handling
<1>7. ASSUME NEW x \in live, x.on # NULL, cl[x.on] = cl[p], cl[p] \notin shared
      PROVE  nets'[cl[p]] = x.on
  BY <1>1, <1>7 DEF AttachedInv
<1>8. ASSUME NEW x \in live, x.on = NULL, cl[x.id[1]] = cl[p], Calm(cl[p])'
      PROVE  KnownBy(p, x)'
  BY <1>1, <1>3, <1>8, CalmBefore, NoneKnown
<1>. QED BY <1>1, <1>2, <1>3, <1>4, <1>5, <1>6, <1>7, <1>8, KeepsStill

-----------------------------------------------------------------------------
(* The nodes that are up stay so when only the next one is touched.        *)
LEMMA UpToStays ==
    ASSUME NEW p \in Proc, UpTo(p, node[p] - 1), node[p] \in Nat,
           \A x \in live : x.id # <<p, node[p]>> => x \in live'
    PROVE  \A k \in 1 .. (node[p] - 1) : \E x \in live' :
              x.id = <<p, k>> /\ x.on = p /\ x.state = "running"
<1>. TAKE k \in 1 .. (node[p] - 1)
<1>1. PICK x \in live : x.id = <<p, k>> /\ x.on = p /\ x.state = "running"
  BY DEF UpTo
<1>2. x.id # <<p, node[p]>>
  BY <1>1
<1>. QED BY <1>1, <1>2

LEMMA ContainerCreateKeeps ==
    ASSUME IInv, NEW p \in Proc, ContainerCreate(p)
    PROVE  IInv'
<1>. USE DEF IInv
<1>. DEFINE i == <<p, node[p]>>
            new == [id |-> i, host |-> place[p][node[p]], on |-> NULL, state |-> "created"]
<1>1. /\ UNCHANGED <<op, cl, size, node, net, conts, todo, nets, shared>>
      /\ pc[p] = "make" /\ pc'[p] = "connect" /\ live' = live \cup {new}
      /\ \A q \in Proc \ {p} : pc'[q] = pc[q]
  BY DEF ContainerCreate, Goto, StateOK
<1>2. i \in Id /\ i[1] = p /\ i[2] = node[p] /\ node[p] \in 1 .. MaxNodes /\ size[p] \in Nat
  BY DEF Id, StateOK
<1>3. new.id = i /\ new.on = NULL /\ new = [id |-> new.id, host |-> new.host, on |-> new.on,
                                            state |-> new.state]
  OBVIOUS
<1>. HIDE DEF new, i
<1>4. StateOK'
  <2>1. pc' \in [Proc -> Pc]
    BY DEF ContainerCreate, Goto, StateOK, Pc
  <2>2. \A x \in live' : /\ x.id \in Id /\ x.on \in {NULL, x.id[1]}
                         /\ x = [id |-> x.id, host |-> x.host, on |-> x.on,
                                 state |-> x.state]
    BY <1>1, <1>2, <1>3 DEF StateOK
  <2>. QED BY <1>1, <2>1, <2>2 DEF StateOK
<1>5. Active(p) /\ pc[p] \notin Early /\ pc'[p] \notin Early /\ net[p] = p /\ node[p] <= size[p]
  BY <1>1 DEF Active, Early, NetInv, HoldsNet, Creating
<1>6. \A x \in live : x.id[1] = p => x.id[2] < node[p] /\ x.id[2] <= size[p]
  BY <1>1 DEF ContInv, MadeInTurn
<1>7. \A x \in live : x.id # i /\ x.id[2] \in Nat
  <2>1. \A x \in live : x.id[2] \in Nat
    BY DEF StateOK, Id
  <2>. QED BY <1>2, <1>6, <2>1
<1>8. Touches(p, i)
  BY <1>1, <1>2, <1>3 DEF Touches
<1>9. \A x \in live' : x.id = i \/ x.id[1] = p => MadeInTurn(x)'
  BY <1>1, <1>2, <1>3, <1>5, <1>6, <1>7 DEF MadeInTurn
<1>10. \A x, y \in live' : x.id = i /\ y.id = i => x = y
  BY <1>1, <1>7
<1>11. NamedRight(cl[p])' /\ HoldsNet(p)' /\ OwnsAll(p)'
  <2>1. NamedRight(cl[p]) /\ nets[cl[p]] \in Proc \cup {NULL}
    BY DEF NetInv, StateOK
  <2>. QED BY <1>1, <1>5, <2>1 DEF NamedRight, HoldsNet, OwnsAll, Handling
<1>12. ASSUME cl[p] \notin shared
       PROVE  Alone(p)'
  <2>1. nets[cl[p]] = p /\ UpTo(p, node[p] - 1)
    BY <1>1, <1>5, <1>12 DEF AloneInv, Alone, Creating
  <2>2. \A x \in live : x.id # <<p, node[p]>> => x \in live'
    BY <1>1
  <2>3. UpTo(p, node[p] - 1)'
    BY <1>1, <1>2, <2>1, <2>2, UpToStays, ZenonT(60) DEF UpTo
  <2>4. new \in Current(p)'
    BY <1>1, <1>3 DEF Current, i
  <2>. QED BY <1>1, <2>1, <2>3, <2>4 DEF Alone, Handling
<1>13. \A x \in live' : x.on # NULL /\ cl[x.on] = cl[p] /\ cl[p] \notin shared
         => nets'[cl[p]] = x.on
  BY <1>1, <1>3 DEF AttachedInv
<1>14. ASSUME NEW x \in live', x.on = NULL, cl[x.id[1]] = cl[p], Calm(cl[p])'
       PROVE  KnownBy(p, x)'
  <2>1. x = new
    BY <1>1, <1>5, <1>14, CalmBefore, NoneKnown
  <2>. QED BY <1>1, <1>3, <2>1 DEF KnownBy, i
<1>. QED BY <1>1, <1>4, <1>5, <1>8, <1>9, <1>10, <1>11, <1>12, <1>13, <1>14, Keeps

-----------------------------------------------------------------------------
(* What connect and start make of a container.                             *)
Follows(p, x, y) ==
    /\ y = [id |-> x.id, host |-> x.host, on |-> y.on, state |-> y.state]
    /\ pc[p] = "connect" => y.on = p /\ nets[cl[p]] = p /\ y.state = x.state
    /\ pc[p] = "start" => y.on = x.on /\ y.state = "running"

(* The container that p is creating, which p has come to but not passed.   *)
LEMMA ReplacedKeeps ==
    ASSUME IInv, NEW p \in Proc, pc[p] \in {"connect", "start"},
           UNCHANGED <<op, cl, size, net, conts, todo, nets, shared>>,
           pc' \in [Proc -> Pc], node' \in [Proc -> 1 .. MaxNodes],
           \A q \in Proc \ {p} : pc'[q] = pc[q] /\ node'[q] = node[q],
           \/ pc'[p] = "start" /\ node'[p] = node[p]
           \/ pc'[p] = "make" /\ node'[p] = node[p] + 1 /\ node[p] < size[p]
           \/ pc'[p] = "list",
           live \ Current(p) \subseteq live',
           \A y \in live' : \/ y \in live \ Current(p)
                            \/ \E x \in Current(p) : Follows(p, x, y),
           cl[p] \notin shared => Alone(p)'
    PROVE  IInv'
<1>. USE DEF IInv
<1>. DEFINE i == <<p, node[p]>>
<1>1. i \in Id /\ i[1] = p /\ i[2] = node[p] /\ node[p] \in 1 .. MaxNodes /\ size[p] \in Nat
  BY DEF Id, StateOK
<1>2. Current(p) = {x \in live : x.id = i}
  BY DEF Current
<1>3. \A x \in Current(p) : x \in live /\ x.id = i /\ x.on \in {NULL, p}
  BY <1>1, <1>2 DEF StateOK
<1>. HIDE DEF i
<1>4. ASSUME NEW x \in Current(p), NEW y, Follows(p, x, y)
      PROVE  /\ y.id = i /\ y.on \in {NULL, p}
             /\ y = [id |-> y.id, host |-> y.host, on |-> y.on, state |-> y.state]
             /\ y.on = x.on \/ (y.on = p /\ nets[cl[p]] = p)
             /\ pc[p] = "connect" => y.on = p
  BY <1>3, <1>4 DEF Follows
<1>5. /\ \A x \in live : x.id # i => x \in live'
      /\ \A y \in live' : y.id # i => y \in live
      /\ \A y \in live' : y.id = i => \E x \in Current(p) : Follows(p, x, y)
      /\ \A x, y \in live' : x.id = i /\ y.id = i => x = y
      /\ \A y \in live' : /\ y.id \in Id /\ y.on \in {NULL, y.id[1]}
                          /\ y = [id |-> y.id, host |-> y.host, on |-> y.on,
                                  state |-> y.state]
  <2>1. \A y \in live' : \/ y \in live /\ y.id # i
                         \/ y.id = i /\ \E x \in Current(p) : Follows(p, x, y)
    BY <1>2, <1>4
  <2>2. \A x, y \in Current(p) : x = y
    BY <1>3 DEF ContInv
  <2>3. \A x \in live : x.id # i => x \in live'
    BY <1>2
  <2>4. ASSUME NEW y \in live'
        PROVE  /\ y.id \in Id /\ y.on \in {NULL, y.id[1]}
               /\ y = [id |-> y.id, host |-> y.host, on |-> y.on, state |-> y.state]
    <3>1. CASE y \in live
      BY <3>1 DEF StateOK
    <3>2. CASE \E x \in Current(p) : Follows(p, x, y)
      BY <1>1, <1>4, <3>2
    <3>. QED BY <2>1, <3>1, <3>2
  <2>5. ASSUME NEW x \in live', NEW y \in live', x.id = i, y.id = i
        PROVE  x = y
    <3>1. PICK u \in Current(p) : Follows(p, u, x)
      BY <2>1, <2>5
    <3>2. PICK v \in Current(p) : Follows(p, v, y)
      BY <2>1, <2>5
    <3>3. u = v
      BY <2>2
    <3>4. x.on = y.on /\ x.state = y.state
      BY <3>1, <3>2, <3>3 DEF Follows
    <3>. QED BY <3>1, <3>2, <3>3, <3>4 DEF Follows
  <2>. QED BY <2>1, <2>3, <2>4, <2>5
<1>6. StateOK'
  BY <1>5 DEF StateOK
<1>7. Active(p) /\ pc[p] \notin Early /\ pc'[p] \notin Early /\ net[p] = p /\ node[p] <= size[p]
  BY DEF Active, Early, NetInv, HoldsNet, Creating
<1>8. Touches(p, i)
  BY <1>1, <1>5 DEF Touches
<1>9. ASSUME NEW x \in live', x.id = i \/ x.id[1] = p
      PROVE  MadeInTurn(x)'
  <2>1. x.id[1] = p /\ x.id[2] \in Nat
    BY <1>1, <1>5, <1>9 DEF Id
  <2>2. x.id[2] <= node[p] /\ x.id[2] <= size[p]
    <3>1. CASE x.id = i
      BY <1>1, <1>7, <3>1
    <3>2. CASE x.id # i
      BY <1>5, <2>1, <3>2 DEF ContInv, MadeInTurn
    <3>. QED BY <3>1, <3>2
  <2>. QED BY <1>1, <1>7, <2>1, <2>2 DEF MadeInTurn
<1>10. NamedRight(cl[p])' /\ HoldsNet(p)' /\ OwnsAll(p)'
  <2>1. NamedRight(cl[p]) /\ nets[cl[p]] \in Proc \cup {NULL}
    BY DEF NetInv, StateOK
  <2>2. NamedRight(cl[p])'
    BY <1>7, <2>1 DEF NamedRight
  <2>3. pc'[p] \in Creating => node'[p] <= size[p]
    BY <1>1, <1>7 DEF Creating
  <2>. QED BY <1>7, <2>2, <2>3 DEF HoldsNet, OwnsAll
<1>11. ASSUME NEW y \in live', y.on # NULL, cl[y.on] = cl[p], cl[p] \notin shared
       PROVE  nets'[cl[p]] = y.on
  <2>1. CASE y.id # i
    BY <1>5, <1>11, <2>1 DEF AttachedInv
  <2>2. CASE y.id = i
    <3>1. PICK x \in Current(p) : Follows(p, x, y)
      BY <1>5, <2>2
    <3>2. y.on = p
      BY <1>1, <1>5, <1>11, <2>2
    <3>3. CASE nets[cl[p]] = p
      BY <3>2, <3>3
    <3>4. CASE y.on = x.on
      BY <1>3, <1>11, <3>1, <3>2, <3>4 DEF AttachedInv
    <3>. QED BY <1>4, <3>1, <3>3, <3>4
  <2>. QED BY <2>1, <2>2
<1>12. ASSUME NEW y \in live', y.on = NULL, cl[y.id[1]] = cl[p], Calm(cl[p])'
       PROVE  KnownBy(p, y)'
  <2>1. Calm(cl[p])
    BY <1>7, <1>12, CalmBefore
  <2>2. PICK x \in live : x.id = y.id /\ (x = y \/ (x \in Current(p) /\ Follows(p, x, y)))
    BY <1>3, <1>5
  <2>3. x.on = NULL
    <3>1. CASE x = y
      BY <1>12, <3>1
    <3>2. CASE x \in Current(p) /\ Follows(p, x, y)
      <4>1. p # NULL
        BY DockerAssumption
      <4>. QED BY <1>3, <1>4, <1>12, <3>2, <4>1
    <3>. QED BY <2>2, <3>1, <3>2
  <2>4. KnownBy(p, x)
    BY <1>7, <1>12, <2>1, <2>2, <2>3, KnownIsMine
  <2>5. pc[p] = "connect" /\ x.id = i
    BY <2>4 DEF KnownBy, i
  <2>6. y \in live' /\ y.id = i
    BY <2>2, <2>5
  <2>. QED
    <3>1. PICK z \in Current(p) : Follows(p, z, y)
      BY <1>5, <2>6
    <3>. QED BY <1>4, <1>12, <2>5, <3>1, DockerAssumption
<1>. QED BY <1>5, <1>6, <1>7, <1>8, <1>9, <1>10, <1>11, <1>12, Keeps

(* net.connect(cont)                                                       *)
LEMMA ConnectKeeps ==
    ASSUME IInv, NEW p \in Proc, Connect(p)
    PROVE  IInv'
<1>1. pc[p] = "connect" /\ Active(p)
  BY DEF Connect, Active
<1>2. CASE nets[cl[p]] = p
  <2>1. /\ UNCHANGED <<op, cl, size, node, net, conts, todo, nets, shared>>
        /\ live' = (live \ Current(p)) \cup {[x EXCEPT !.on = p] : x \in Current(p)}
        /\ Goto(p, "start")
    BY <1>2 DEF Connect, locals
  <2>2. pc' \in [Proc -> Pc] /\ pc'[p] = "start" /\ \A q \in Proc \ {p} : pc'[q] = pc[q]
    BY <2>1 DEF Goto, IInv, StateOK, Pc
  <2>3. ASSUME NEW x \in Current(p)
        PROVE  [x EXCEPT !.on = p]
                 = [id |-> x.id, host |-> x.host, on |-> p, state |-> x.state]
    <3>1. x = [id |-> x.id, host |-> x.host, on |-> x.on, state |-> x.state]
      BY DEF Current, IInv, StateOK
    <3>. QED BY <3>1
  <2>4. /\ live \ Current(p) \subseteq live'
        /\ \A x \in Current(p) :
              [id |-> x.id, host |-> x.host, on |-> p, state |-> x.state] \in live'
        /\ \A y \in live' : \/ y \in live \ Current(p)
                            \/ \E x \in Current(p) :
                                  y = [id |-> x.id, host |-> x.host, on |-> p,
                                       state |-> x.state]
    BY <2>1, <2>3
  <2>5. \A y \in live' : \/ y \in live \ Current(p)
                         \/ \E x \in Current(p) : Follows(p, x, y)
    BY <1>1, <1>2, <2>4 DEF Follows
  <2>6. node \in [Proc -> 1 .. MaxNodes]
    BY DEF IInv, StateOK
  <2>7. ASSUME cl[p] \notin shared
        PROVE  Alone(p)'
    <3>1. UpTo(p, node[p] - 1) /\ Current(p) # {}
      BY <1>1, <2>7 DEF IInv, AloneInv, Alone, Creating
    <3>2. \A x \in live : x.id # <<p, node[p]>> => x \in live'
      BY <2>4 DEF Current
    <3>3. UpTo(p, node[p] - 1)'
      <4>1. node[p] \in Nat
        BY <2>6
      <4>2. \A k \in 1 .. (node[p] - 1) : \E x \in live' :
                x.id = <<p, k>> /\ x.on = p /\ x.state = "running"
        BY <3>1, <3>2, <4>1, UpToStays
      <4>. QED BY <2>1, <4>2 DEF UpTo
    <3>4. PICK x \in Current(p) : TRUE
      BY <3>1
    <3>5. PICK y \in live' : y.id = <<p, node[p]>> /\ y.on = p
      <4>. DEFINE y == [id |-> x.id, host |-> x.host, on |-> p, state |-> x.state]
      <4>1. y \in live' /\ x.id = <<p, node[p]>>
        BY <2>4, <3>4 DEF Current
      <4>2. y.id = x.id /\ y.on = p
        OBVIOUS
      <4>. HIDE DEF y
      <4>. QED BY <4>1, <4>2
    <3>6. \E z \in Current(p)' : z.on = p
      BY <2>1, <3>5 DEF Current
    <3>. QED BY <1>2, <2>1, <2>2, <3>3, <3>6 DEF Alone, Handling
  <2>. QED BY <1>1, <1>2, <2>1, <2>2, <2>4, <2>5, <2>6, <2>7, ReplacedKeeps
<1>3. CASE nets[cl[p]] # p
  <2>1. End(p, "ended") /\ UNCHANGED <<op, cl, size, nets, live, shared>>
    BY <1>3 DEF Connect
  <2>2. cl[p] \in shared
    BY <1>1, <1>3 DEF IInv, AloneInv, Alone, Creating
  <2>. QED BY <1>1, <2>1, <2>2, EndKeeps
<1>. QED BY <1>2, <1>3

(* cont.start()                                                            *)
LEMMA ContainerStartKeeps ==
    ASSUME IInv, NEW p \in Proc, ContainerStart(p)
    PROVE  IInv'
<1>1. pc[p] = "start" /\ Active(p) /\ net[p] = p
  BY DEF ContainerStart, Active, IInv, NetInv, HoldsNet, Creating
<1>2. /\ UNCHANGED <<op, cl, size, net, conts, todo, nets, shared>>
      /\ live' = (live \ Current(p)) \cup {[x EXCEPT !.state = "running"] : x \in Current(p)}
  BY DEF ContainerStart
<1>3. /\ node[p] \in 1 .. MaxNodes /\ size[p] \in 1 .. MaxNodes /\ node[p] <= size[p]
      /\ pc \in [Proc -> Pc] /\ node \in [Proc -> 1 .. MaxNodes]
  BY <1>1 DEF IInv, StateOK, NetInv, HoldsNet, Creating
<1>4. /\ pc' \in [Proc -> Pc] /\ node' \in [Proc -> 1 .. MaxNodes]
      /\ \A q \in Proc \ {p} : pc'[q] = pc[q] /\ node'[q] = node[q]
      /\ \/ pc'[p] = "make" /\ node'[p] = node[p] + 1 /\ node[p] < size[p]
         \/ pc'[p] = "list" /\ node[p] = size[p]
  <2>1. CASE node[p] < size[p]
    <3>1. node' = [node EXCEPT ![p] = @ + 1] /\ Goto(p, "make")
      BY <2>1, Zenon DEF ContainerStart
    <3>2. node[p] + 1 \in 1 .. MaxNodes
      BY <1>3, <2>1, DockerAssumption
    <3>. QED BY <1>3, <2>1, <3>1, <3>2 DEF Pc, Goto
  <2>2. CASE ~(node[p] < size[p])
    <3>1. node' = [node EXCEPT ![p] = 1] /\ Goto(p, "list")
      BY <2>2, Zenon DEF ContainerStart
    <3>2. 1 \in 1 .. MaxNodes /\ node[p] = size[p]
      BY <1>3, <2>2, DockerAssumption
    <3>. QED BY <1>3, <3>1, <3>2 DEF Pc, Goto
  <2>. QED BY <2>1, <2>2
<1>5. ASSUME NEW x \in Current(p)
      PROVE  [x EXCEPT !.state = "running"]
               = [id |-> x.id, host |-> x.host, on |-> x.on, state |-> "running"]
  <2>1. x = [id |-> x.id, host |-> x.host, on |-> x.on, state |-> x.state]
    BY DEF Current, IInv, StateOK
  <2>. QED BY <2>1
<1>6. /\ live \ Current(p) \subseteq live'
      /\ \A x \in Current(p) :
            [id |-> x.id, host |-> x.host, on |-> x.on, state |-> "running"] \in live'
      /\ \A y \in live' : \/ y \in live \ Current(p)
                          \/ \E x \in Current(p) :
                                y = [id |-> x.id, host |-> x.host, on |-> x.on,
                                     state |-> "running"]
  BY <1>2, <1>5
<1>7. \A y \in live' : \/ y \in live \ Current(p)
                       \/ \E x \in Current(p) : Follows(p, x, y)
  BY <1>1, <1>6 DEF Follows
<1>8. ASSUME cl[p] \notin shared
      PROVE  Alone(p)'
  <2>1. UpTo(p, node[p] - 1) /\ nets[cl[p]] = p
    BY <1>1, <1>8 DEF IInv, AloneInv, Alone, Creating
  <2>2. PICK x \in Current(p) : x.on = p
    BY <1>1, <1>8 DEF IInv, AloneInv, Alone
  <2>3. PICK y \in live' : y.id = <<p, node[p]>> /\ y.on = p /\ y.state = "running"
    BY <1>6, <2>2 DEF Current
  <2>4. \A z \in live : z.id # <<p, node[p]>> => z \in live'
    BY <1>6 DEF Current
  <2>5. \A k \in 1 .. node[p] : \E z \in live' :
            z.id = <<p, k>> /\ z.on = p /\ z.state = "running"
    <3>. TAKE k \in 1 .. node[p]
    <3>1. CASE k = node[p]
      BY <2>3, <3>1
    <3>2. CASE k \in 1 .. (node[p] - 1)
      BY <1>3, <2>1, <2>4, <3>2, UpToStays, SMTT(40)
    <3>. QED BY <1>3, <3>1, <3>2
  <2>6. CASE pc'[p] = "make"
    <3>1. node'[p] - 1 = node[p]
      BY <1>3, <1>4, <2>6
    <3>2. UpTo(p, node[p] - 1)'
      BY <2>5, <3>1 DEF UpTo
    <3>. QED BY <1>2, <2>1, <2>6, <3>2 DEF Alone, Handling
  <2>7. CASE pc'[p] = "list"
    <3>1. UpTo(p, size[p])'
      BY <1>2, <1>4, <2>5, <2>7 DEF UpTo
    <3>. QED BY <1>1, <1>2, <2>1, <2>7, <3>1 DEF Alone, Creating
  <2>. QED BY <1>4, <2>6, <2>7
<1>. QED BY <1>1, <1>2, <1>4, <1>6, <1>7, <1>8, ReplacedKeeps

-----------------------------------------------------------------------------
(* A step of a cluster object that has its network, from pc[p] to l, which *)
(* touches no container.                                                   *)
LEMMA HandlingKeeps ==
    ASSUME IInv, NEW p \in Proc, pc[p] \in Handling,
           NEW l \in {"up", "disconnect", "remove"}, Goto(p, l),
           UNCHANGED <<op, cl, size, node, net, live, shared>>,
           conts' \in [Proc -> SUBSET Id], todo' \in [Proc -> SUBSET Id],
           nets' \in [Cluster -> Proc \cup {NULL}],
           \A q \in Proc \ {p} : conts'[q] = conts[q] /\ todo'[q] = todo[q],
           \A c \in Cluster \ {cl[p]} : nets'[c] = nets[c],
           nets'[cl[p]] \in {nets[cl[p]], NULL},
           OwnsAll(p)', cl[p] \notin shared => Alone(p)',
           \A x \in live : x.on # NULL /\ cl[x.on] = cl[p] /\ cl[p] \notin shared
                => nets'[cl[p]] = x.on,
           \A x \in live : KnownBy(p, x) => KnownBy(p, x)'
    PROVE  IInv'
<1>. USE DEF IInv
<1>1. pc'[p] = l /\ pc' \in [Proc -> Pc] /\ \A q \in Proc \ {p} : pc'[q] = pc[q]
  BY DEF Goto, StateOK, Pc
<1>2. StateOK'
  BY <1>1 DEF StateOK
<1>3. Active(p) /\ pc'[p] \notin Early
  BY <1>1 DEF Active, Early, Handling
<1>4. ASSUME NEW x \in live, x.id[1] = p
      PROVE  MadeInTurn(x)'
  BY <1>1, <1>3, <1>4 DEF ContInv, MadeInTurn
<1>5. NamedRight(cl[p])'
  <2>1. NamedRight(cl[p]) /\ nets[cl[p]] \in Proc \cup {NULL}
    BY DEF NetInv, StateOK
  <2>. QED BY <1>1, <1>3, <2>1 DEF NamedRight
<1>6. HoldsNet(p)'
  <2>1. net[p] \in Proc /\ cl[net[p]] = cl[p] /\ pc[net[p]] \notin Early
    BY DEF NetInv, HoldsNet
  <2>2. pc'[net[p]] \notin Early
    BY <1>1, <1>3, <2>1
  <2>. QED BY <1>1, <2>1, <2>2 DEF HoldsNet, Creating
<1>7. ASSUME NEW x \in live, x.on = NULL, cl[x.id[1]] = cl[p], Calm(cl[p])'
      PROVE  KnownBy(p, x)'
  BY <1>1, <1>3, <1>7, CalmBefore, KnownIsMine
<1>. QED BY <1>1, <1>2, <1>3, <1>4, <1>5, <1>6, <1>7, KeepsStill

(* The first use of self.containers.                                       *)
LEMMA ListKeeps ==
    ASSUME IInv, NEW p \in Proc, List(p)
    PROVE  IInv'
<1>. DEFINE list == {x.id : x \in AttachedTo(cl[p])}
            up == \A x \in AttachedTo(cl[p]) : x.state = "running"
            next == IF op[p] = "remove" THEN "disconnect" ELSE "up"
            left == IF op[p] = "remove" THEN list ELSE {}
<1>1. pc[p] = "list" /\ Active(p) /\ pc[p] \in Handling
  BY DEF List, Active, Handling
<1>2. \A x \in live : ~KnownBy(p, x)
  BY <1>1 DEF KnownBy
<1>3. list \subseteq Id /\ list = Ids(AttachedTo(cl[p])) /\ list \subseteq Ids(live)
  BY DEF AttachedTo, Ids, IInv, StateOK
<1>4. CASE op[p] = "remove" \/ up
  <2>1. /\ conts' = [conts EXCEPT ![p] = list] /\ todo' = [todo EXCEPT ![p] = left]
        /\ Goto(p, next) /\ UNCHANGED <<op, cl, size, node, net, nets, live, shared>>
    BY <1>4, Zenon DEF List
  <2>. HIDE DEF list, up
  <2>2. /\ conts' \in [Proc -> SUBSET Id] /\ todo' \in [Proc -> SUBSET Id]
        /\ conts'[p] = list /\ todo'[p] = left
        /\ \A q \in Proc \ {p} : conts'[q] = conts[q] /\ todo'[q] = todo[q]
    BY <1>3, <2>1 DEF IInv, StateOK
  <2>3. pc'[p] = next /\ next \in {"up", "disconnect", "remove"}
    BY <2>1 DEF Goto, IInv, StateOK
  <2>4. OwnsAll(p)'
    BY <2>2, <2>3 DEF OwnsAll
  <2>5. ASSUME cl[p] \notin shared
        PROVE  Alone(p)'
    <3>1. Alone(p)
      BY <1>1, <2>5 DEF IInv, AloneInv
    <3>2. nets[cl[p]] = net[p] /\ (net[p] = p => UpTo(p, size[p]))
      BY <1>1, <3>1 DEF Alone
    <3>3. net[p] = p => UpTo(p, size[p])'
      BY <2>1, <3>2 DEF UpTo
    <3>4. Ids(AttachedTo(cl[p]))' = list /\ list \subseteq Ids(live)'
      BY <1>3, <2>1 DEF AttachedTo, Ids
    <3>. QED BY <2>1, <2>2, <2>3, <3>2, <3>3, <3>4 DEF Alone, Creating, Handling
  <2>6. \A x \in live : x.on # NULL /\ cl[x.on] = cl[p] /\ cl[p] \notin shared
           => nets[cl[p]] = x.on
    BY DEF IInv, AttachedInv
  <2>7. nets \in [Cluster -> Proc \cup {NULL}]
    BY DEF IInv, StateOK
  <2>. HIDE DEF next, left
  <2>. QED BY <1>1, <1>2, <2>1, <2>2, <2>3, <2>4, <2>5, <2>6, <2>7, HandlingKeeps
<1>5. CASE ~(op[p] = "remove" \/ up)
  <2>1. End(p, "ended") /\ UNCHANGED <<op, cl, size, nets, live, shared>>
    BY <1>5, Zenon DEF List
  <2>. QED BY <1>1, <1>2, <2>1, EndKeeps
<1>. QED BY <1>4, <1>5

(* remove() at exit of the script.                                         *)
LEMMA RemoveKeeps ==
    ASSUME IInv, NEW p \in Proc, Remove(p)
    PROVE  IInv'
<1>1. pc[p] = "up" /\ Active(p) /\ pc[p] \in Handling
  BY DEF Remove, Active, Handling
<1>2. \A x \in live : ~KnownBy(p, x)
  BY <1>1 DEF KnownBy
<1>3. /\ UNCHANGED <<op, cl, size, node, net, conts, nets, live, shared>>
      /\ Goto(p, "disconnect") /\ todo' = [todo EXCEPT ![p] = conts[p]]
  BY DEF Remove
<1>4. /\ conts' \in [Proc -> SUBSET Id] /\ todo' \in [Proc -> SUBSET Id]
      /\ nets' \in [Cluster -> Proc \cup {NULL}]
      /\ todo'[p] = conts[p] /\ pc'[p] = "disconnect"
      /\ \A q \in Proc \ {p} : todo'[q] = todo[q]
  BY <1>3 DEF Goto, IInv, StateOK
<1>5. OwnsAll(p)'
  BY <1>3, <1>4 DEF OwnsAll
<1>6. ASSUME cl[p] \notin shared
      PROVE  Alone(p)'
  <2>1. Alone(p)
    BY <1>1, <1>6 DEF IInv, AloneInv
  <2>2. nets[cl[p]] = net[p] /\ conts[p] = Ids(AttachedTo(cl[p]))
    BY <1>1, <2>1 DEF Alone, Handling
  <2>3. Ids(AttachedTo(cl[p]))' = conts[p] /\ conts[p] \subseteq Ids(live)'
    BY <1>3, <2>2 DEF AttachedTo, Ids
  <2>. QED BY <1>3, <1>4, <2>2, <2>3 DEF Alone, Creating, Handling
<1>7. \A x \in live : x.on # NULL /\ cl[x.on] = cl[p] /\ cl[p] \notin shared
         => nets[cl[p]] = x.on
  BY DEF IInv, AttachedInv
<1>. QED BY <1>1, <1>2, <1>3, <1>4, <1>5, <1>6, <1>7, HandlingKeeps

(* The network goes when nothing of the cluster is attached.               *)
LEMMA NetworkRemoveKeeps ==
    ASSUME IInv, NEW p \in Proc, NetworkRemove(p)
    PROVE  IInv'
<1>1. pc[p] = "disconnect" /\ Active(p) /\ pc[p] \in Handling /\ todo[p] = {}
  BY DEF NetworkRemove, Active, Handling
<1>2. cl[p] \notin shared => /\ nets[cl[p]] = net[p] /\ AttachedTo(cl[p]) = {}
                             /\ conts[p] \subseteq Ids(live)
  BY <1>1 DEF IInv, AloneInv, Alone, Handling, Ids
<1>3. CASE Removable(p)
  <2>1. /\ UNCHANGED <<op, cl, size, node, net, conts, live, shared>>
        /\ Goto(p, "remove") /\ todo' = [todo EXCEPT ![p] = conts[p]]
        /\ nets' = [nets EXCEPT ![cl[p]] = NULL]
    BY <1>3 DEF NetworkRemove
  <2>2. /\ conts' \in [Proc -> SUBSET Id] /\ todo' \in [Proc -> SUBSET Id]
        /\ nets' \in [Cluster -> Proc \cup {NULL}]
        /\ todo'[p] = conts[p] /\ pc'[p] = "remove" /\ nets'[cl[p]] = NULL
        /\ \A q \in Proc \ {p} : todo'[q] = todo[q]
        /\ \A c \in Cluster \ {cl[p]} : nets'[c] = nets[c]
    BY <2>1 DEF Goto, IInv, StateOK
  <2>3. OwnsAll(p)'
    BY <1>1, <2>1, <2>2 DEF IInv, OwnInv, OwnsAll
  <2>4. ASSUME cl[p] \notin shared
        PROVE  Alone(p)'
    <3>1. conts[p] \subseteq Ids(live)'
      BY <1>2, <2>1, <2>4 DEF Ids
    <3>. QED BY <2>1, <2>2, <3>1 DEF Alone, Creating
  <2>5. \A x \in live : x.on # NULL /\ cl[x.on] = cl[p] /\ cl[p] \notin shared
           => nets'[cl[p]] = x.on
    BY <1>2 DEF AttachedTo
  <2>6. \A x \in live : KnownBy(p, x) => KnownBy(p, x)'
    BY <1>1, <2>2 DEF KnownBy
  <2>. QED BY <1>1, <2>1, <2>2, <2>3, <2>4, <2>5, <2>6, HandlingKeeps
<1>4. CASE ~Removable(p)
  <2>1. End(p, "ended") /\ UNCHANGED <<op, cl, size, nets, live, shared>>
    BY <1>4 DEF NetworkRemove
  <2>2. ASSUME cl[p] \notin shared
        PROVE  FALSE
    <3>1. net[p] \in Proc /\ cl[net[p]] = cl[p] /\ net[p] # NULL
      BY <1>1, DockerAssumption DEF IInv, NetInv, HoldsNet
    <3>2. \A x \in live : x.on # net[p]
      BY <1>2, <2>2, <3>1 DEF AttachedTo
    <3>. QED BY <1>2, <1>4, <2>2, <3>2 DEF Removable
  <2>. QED BY <1>1, <2>1, <2>2, EndKeeps
<1>. QED BY <1>3, <1>4

-----------------------------------------------------------------------------
(* A step of remove() that touches container i of the network it removes.  *)
LEMMA DropKeeps ==
    ASSUME IInv, NEW p \in Proc, pc[p] \in {"disconnect", "remove"}, NEW i \in Id,
           i[1] = net[p], UNCHANGED <<pc, op, cl, size, node, net, conts, nets, shared>>,
           todo' = [todo EXCEPT ![p] = @ \ {i}],
           \A x \in live : x.id # i => x \in live',
           \A y \in live' : y.id # i => y \in live,
           \A y \in live' : y.id = i =>
                pc[p] = "disconnect" /\ i \in conts[p]
                /\ \E x \in live : y = [id |-> i, host |-> x.host, on |-> NULL, state |-> x.state]
                                   /\ x.id = i,
           cl[p] \notin shared => Alone(p)'
    PROVE  IInv'
<1>. USE DEF IInv
<1>1. /\ net[p] \in Proc /\ cl[i[1]] = cl[p] /\ pc[p] \notin Early /\ pc[p] \in Handling
      /\ Active(p)
  BY DEF NetInv, HoldsNet, Handling, Active, Early
<1>2. /\ todo' \in [Proc -> SUBSET Id] /\ todo'[p] = todo[p] \ {i}
      /\ \A q \in Proc \ {p} : todo'[q] = todo[q]
  BY DEF StateOK
<1>3. ASSUME NEW y \in live'
      PROVE  /\ y.id \in Id /\ y.on \in {NULL, y.id[1]}
             /\ y = [id |-> y.id, host |-> y.host, on |-> y.on, state |-> y.state]
             /\ MadeInTurn(y)
  <2>1. CASE y.id # i
    BY <2>1 DEF StateOK, ContInv
  <2>2. CASE y.id = i
    <3>1. PICK x \in live : y = [id |-> i, host |-> x.host, on |-> NULL, state |-> x.state]
                            /\ x.id = i
      BY <2>2
    <3>2. MadeInTurn(x)
      BY DEF ContInv
    <3>. QED BY <3>1, <3>2 DEF MadeInTurn
  <2>. QED BY <2>1, <2>2
<1>4. StateOK'
  BY <1>2, <1>3 DEF StateOK
<1>5. Touches(p, i)
  BY <1>1, <1>2 DEF Touches
<1>6. \A y \in live' : MadeInTurn(y)'
  BY <1>3 DEF MadeInTurn
<1>7. \A x, y \in live' : x.id = i /\ y.id = i => x = y
  BY DEF ContInv
<1>8. NamedRight(cl[p])' /\ HoldsNet(p)'
  BY DEF NetInv, NamedRight, HoldsNet, StateOK
<1>9. OwnsAll(p)'
  BY <1>2 DEF OwnInv, OwnsAll, StateOK
<1>10. \A y \in live' : y.on # NULL /\ cl[y.on] = cl[p] /\ cl[p] \notin shared
          => nets'[cl[p]] = y.on
  <2>1. \A y \in live' : y.id = i => y.on = NULL
    OBVIOUS
  <2>. QED BY <2>1 DEF AttachedInv
<1>11. ASSUME NEW y \in live', y.on = NULL, cl[y.id[1]] = cl[p], Calm(cl[p])'
       PROVE  KnownBy(p, y)'
  <2>1. CASE y.id = i
    BY <2>1 DEF KnownBy
  <2>2. CASE y.id # i
    <3>1. KnownBy(p, y)
      BY <1>1, <1>11, <2>2, CalmBefore, KnownIsMine
    <3>. QED BY <1>2, <2>2, <3>1 DEF KnownBy
  <2>. QED BY <2>1, <2>2
<1>. QED BY <1>1, <1>4, <1>5, <1>6, <1>7, <1>8, <1>9, <1>10, <1>11, Keeps

(* disconnect()                                                            *)
LEMMA DisconnectKeeps ==
    ASSUME IInv, NEW p \in Proc, NEW i \in todo[p], Disconnect(p, i)
    PROVE  IInv'
<1>. DEFINE cont == {x \in live : x.id = i /\ x.on = net[p]}
<1>1. pc[p] = "disconnect" /\ Active(p) /\ i \in Id /\ todo[p] \subseteq conts[p]
  BY DEF Disconnect, Active, IInv, StateOK, OwnInv, OwnsAll
<1>2. net[p] \in Proc /\ cl[net[p]] = cl[p] /\ net[p] # NULL
  BY <1>1, DockerAssumption DEF IInv, NetInv, HoldsNet, Handling
<1>3. CASE nets[cl[p]] = net[p] /\ cont # {}
  <2>1. /\ UNCHANGED <<pc, op, cl, size, node, net, conts, nets, shared>>
        /\ live' = (live \ cont) \cup {[x EXCEPT !.on = NULL] : x \in cont}
        /\ todo' = [todo EXCEPT ![p] = @ \ {i}]
    BY <1>3, Zenon DEF Disconnect
  <2>2. ASSUME NEW x \in cont
        PROVE  [x EXCEPT !.on = NULL]
                 = [id |-> i, host |-> x.host, on |-> NULL, state |-> x.state]
    <3>1. x = [id |-> x.id, host |-> x.host, on |-> x.on, state |-> x.state] /\ x.id = i
      BY DEF IInv, StateOK
    <3>. QED BY <3>1
  <2>3. i[1] = net[p]
    <3>1. PICK x \in live : x.id = i /\ x.on = net[p]
      BY <1>3
    <3>. QED BY <1>2, <3>1, AttachedMeans DEF IInv
  <2>4. \A x \in live : x.id = i => x \in cont
    <3>1. PICK x \in live : x.id = i /\ x.on = net[p]
      BY <1>3
    <3>. QED BY <3>1 DEF IInv, ContInv
  <2>5. /\ \A x \in live : x.id # i => x \in live'
        /\ \A y \in live' : \/ y \in live /\ y.id # i
                            \/ \E x \in cont : y = [id |-> i, host |-> x.host, on |-> NULL,
                                                    state |-> x.state]
        /\ \A x \in cont : [id |-> i, host |-> x.host, on |-> NULL, state |-> x.state] \in live'
    <3>1. \A x \in live : x \in cont <=> x.id = i
      BY <2>4
    <3>. HIDE DEF cont
    <3>2. \A x \in cont : [id |-> i, host |-> x.host, on |-> NULL, state |-> x.state]
                            \in {[z EXCEPT !.on = NULL] : z \in cont}
      BY <2>2
    <3>3. \A y \in {[z EXCEPT !.on = NULL] : z \in cont} :
             \E x \in cont : y = [id |-> i, host |-> x.host, on |-> NULL, state |-> x.state]
      BY <2>2
    <3>. QED BY <2>1, <3>1, <3>2, <3>3
  <2>6. ASSUME NEW y \in live'
        PROVE  /\ y.id # i => y \in live
               /\ y.id = i => /\ pc[p] = "disconnect" /\ i \in conts[p] /\ y.on = NULL
                              /\ \E x \in live :
                                    y = [id |-> i, host |-> x.host, on |-> NULL,
                                         state |-> x.state] /\ x.id = i
    <3>1. CASE y \in live /\ y.id # i
      BY <3>1
    <3>2. CASE \E x \in cont : y = [id |-> i, host |-> x.host, on |-> NULL, state |-> x.state]
      <4>1. PICK x \in cont : y = [id |-> i, host |-> x.host, on |-> NULL, state |-> x.state]
        BY <3>2
      <4>2. x \in live /\ x.id = i /\ y.id = i /\ y.on = NULL
        BY <4>1
      <4>. QED BY <1>1, <4>1, <4>2
    <3>. QED BY <2>5, <3>1, <3>2
  <2>7. ASSUME NEW j \in Ids(live)
        PROVE  j \in Ids(live)'
    <3>1. PICK x \in live : x.id = j
      BY DEF Ids
    <3>2. \E y \in live' : y.id = j
      <4>1. CASE j # i
        BY <2>5, <3>1, <4>1
      <4>2. CASE j = i
        <5>. DEFINE y == [id |-> i, host |-> x.host, on |-> NULL, state |-> x.state]
        <5>1. y \in live' /\ y.id = i
          BY <2>4, <2>5, <3>1, <4>2
        <5>. HIDE DEF y
        <5>. QED BY <4>2, <5>1
      <4>. QED BY <4>1, <4>2
    <3>. QED BY <3>2 DEF Ids
  <2>8. todo'[p] = todo[p] \ {i}
    BY <2>1 DEF IInv, StateOK
  <2>9. ASSUME cl[p] \notin shared
        PROVE  Alone(p)'
    <3>1. todo[p] = Ids(AttachedTo(cl[p])) /\ conts[p] \subseteq Ids(live)
      BY <1>1, <2>9 DEF IInv, AloneInv, Alone
    <3>2. Ids(AttachedTo(cl[p]))' = {y.id : y \in {z \in live' : z.on # NULL /\ cl[z.on] = cl[p]}}
      BY <2>1 DEF AttachedTo, Ids
    <3>3. ASSUME NEW j \in todo[p], j # i
          PROVE  \E y \in live' : y.on # NULL /\ cl[y.on] = cl[p] /\ y.id = j
      <4>1. PICK x \in live : x.on # NULL /\ cl[x.on] = cl[p] /\ x.id = j
        BY <3>1 DEF Ids, AttachedTo
      <4>. QED BY <2>5, <3>3, <4>1
    <3>4. ASSUME NEW y \in live', y.on # NULL, cl[y.on] = cl[p]
          PROVE  y.id \in todo[p] \ {i}
      <4>1. y \in live /\ y.id # i
        BY <2>6, <3>4
      <4>. QED BY <3>1, <3>4, <4>1 DEF Ids, AttachedTo
    <3>5. todo'[p] = Ids(AttachedTo(cl[p]))'
      BY <2>8, <3>2, <3>3, <3>4
    <3>6. conts[p] \subseteq Ids(live)'
      BY <2>7, <3>1
    <3>. QED BY <1>1, <1>3, <2>1, <3>5, <3>6 DEF Alone, Creating, Handling
  <2>10. /\ \A y \in live' : y.id # i => y \in live
         /\ \A y \in live' : y.id = i =>
               pc[p] = "disconnect" /\ i \in conts[p]
               /\ \E x \in live : y = [id |-> i, host |-> x.host, on |-> NULL, state |-> x.state]
                                  /\ x.id = i
    BY <2>6
  <2>. HIDE DEF cont
  <2>. QED BY <1>1, <2>1, <2>3, <2>5, <2>9, <2>10, DropKeeps
<1>4. CASE ~(nets[cl[p]] = net[p] /\ cont # {})
  <2>1. End(p, "ended") /\ UNCHANGED <<op, cl, size, nets, live, shared>>
    BY <1>4, Zenon DEF Disconnect
  <2>2. ASSUME cl[p] \notin shared
        PROVE  FALSE
    <3>1. nets[cl[p]] = net[p] /\ i \in Ids(AttachedTo(cl[p]))
      BY <1>1, <2>2 DEF IInv, AloneInv, Alone, Handling
    <3>2. PICK x \in live : x.on # NULL /\ cl[x.on] = cl[p] /\ x.id = i
      BY <3>1 DEF Ids, AttachedTo
    <3>3. x.on = net[p]
      BY <2>2, <3>1, <3>2 DEF IInv, AttachedInv
    <3>. QED BY <1>4, <3>1, <3>2, <3>3
  <2>. QED BY <1>1, <2>1, <2>2, EndKeeps
<1>. QED BY <1>3, <1>4

(* cont.remove(force = True)                                               *)
LEMMA ContainerRemoveKeeps ==
    ASSUME IInv, NEW p \in Proc, NEW i \in todo[p], ContainerRemove(p, i)
    PROVE  IInv'
<1>1. pc[p] = "remove" /\ Active(p) /\ i \in Id /\ i[1] = net[p]
  BY DEF ContainerRemove, Active, IInv, StateOK, OwnInv, OwnsAll
<1>2. CASE \E x \in live : x.id = i
  <2>1. /\ UNCHANGED <<pc, op, cl, size, node, net, conts, nets, shared>>
        /\ live' = {x \in live : x.id # i}
        /\ todo' = [todo EXCEPT ![p] = @ \ {i}]
    BY <1>2 DEF ContainerRemove
  <2>2. /\ \A x \in live : x.id # i => x \in live'
        /\ \A y \in live' : y.id # i /\ y \in live
    BY <2>1
  <2>3. todo'[p] = todo[p] \ {i}
    BY <2>1 DEF IInv, StateOK
  <2>4. ASSUME cl[p] \notin shared
        PROVE  Alone(p)'
    <3>1. nets[cl[p]] = NULL /\ todo[p] \subseteq Ids(live)
      BY <1>1, <2>4 DEF IInv, AloneInv, Alone
    <3>2. ASSUME NEW j \in todo[p], j # i
          PROVE  \E y \in live' : y.id = j
      <4>1. PICK x \in live : x.id = j
        BY <3>1 DEF Ids
      <4>. QED BY <2>2, <3>2, <4>1
    <3>3. todo'[p] \subseteq Ids(live)'
      BY <2>3, <3>2 DEF Ids
    <3>. QED BY <1>1, <2>1, <3>1, <3>3 DEF Alone, Creating, Handling
  <2>. QED BY <1>1, <2>1, <2>2, <2>4, DropKeeps
<1>3. CASE ~\E x \in live : x.id = i
  <2>1. End(p, "ended") /\ UNCHANGED <<op, cl, size, nets, live, shared>>
    BY <1>3 DEF ContainerRemove
  <2>2. cl[p] \in shared
    BY <1>1, <1>3 DEF IInv, AloneInv, Alone, Ids
  <2>. QED BY <1>1, <2>1, <2>2, EndKeeps
<1>. QED BY <1>2, <1>3

(* The steps that only end the process.                                    *)
LEMMA StopKeeps ==
    ASSUME IInv, NEW p \in Proc,
           \/ NetworkConflict(p) \/ ContainerConflict(p) \/ StartFails(p)
           \/ Leave(p) \/ Removed(p) \/ Crash(p)
    PROVE  IInv'
<1>1. UNCHANGED <<op, cl, size, nets, live, shared>>
  BY DEF NetworkConflict, ContainerConflict, StartFails, Leave, Removed, Crash
<1>2. CASE NetworkConflict(p) \/ ContainerConflict(p) \/ StartFails(p)
  <2>1. pc[p] \in {"network", "make", "start"} /\ End(p, "ended")
    BY <1>2 DEF NetworkConflict, ContainerConflict, StartFails
  <2>2. Active(p) /\ \A x \in live : ~KnownBy(p, x)
    BY <2>1 DEF Active, KnownBy
  <2>. QED BY <1>1, <2>1, <2>2, EndKeeps
<1>3. CASE Leave(p)
  <2>1. pc[p] = "up" /\ End(p, "left")
    BY <1>3 DEF Leave
  <2>2. Active(p) /\ \A x \in live : ~KnownBy(p, x)
    BY <2>1 DEF Active, KnownBy
  <2>. QED BY <1>1, <2>1, <2>2, EndKeeps
<1>4. CASE Removed(p)
  <2>1. pc[p] = "remove" /\ todo[p] = {} /\ End(p, "done")
    BY <1>4 DEF Removed
  <2>2. Active(p) /\ \A x \in live : ~KnownBy(p, x)
    BY <2>1 DEF Active, KnownBy
  <2>. QED BY <1>1, <2>1, <2>2, EndKeeps
<1>5. CASE Crash(p)
  BY <1>1, <1>5, EndKeeps DEF Crash
<1>. QED BY <1>2, <1>3, <1>4, <1>5

(* get() and __create() up to the network.                                 *)
LEMMA FirstStepsKeep ==
    ASSUME IInv, NEW p \in Proc,
           GetNone(p) \/ GetExisting(p) \/ \E other \in OtherLoad : Plan(p, other)
    PROVE  IInv'
<1>. USE DEF locals
<1>1. pc[p] \in {"get", "plan"} /\ Active(p) /\ \A x \in live : ~KnownBy(p, x)
  BY DEF GetNone, GetExisting, Plan, Active, KnownBy
<1>2. CASE GetNone(p)
  <2>1. CASE op[p] = "remove"
    <3>1. End(p, "ended") /\ UNCHANGED <<op, cl, size, nets, live, shared>>
      BY <1>2, <2>1 DEF GetNone
    <3>. QED BY <1>1, <3>1, EndKeeps
  <2>2. CASE op[p] # "remove"
    <3>1. Goto(p, "plan") /\ UNCHANGED <<op, cl, size, node, net, conts, todo, nets, live, shared>>
      BY <1>2, <2>2 DEF GetNone
    <3>. QED BY <1>1, <3>1, GetKeeps
  <2>. QED BY <2>1, <2>2
<1>3. CASE GetExisting(p)
  <2>1. CASE op[p] # "remove" /\ size[nets[cl[p]]] # size[p]
    <3>1. End(p, "ended") /\ UNCHANGED <<op, cl, size, nets, live, shared>>
      BY <1>3, <2>1 DEF GetExisting
    <3>. QED BY <1>1, <3>1, EndKeeps
  <2>2. CASE ~(op[p] # "remove" /\ size[nets[cl[p]]] # size[p])
    <3>1. /\ Goto(p, "list") /\ net' = [net EXCEPT ![p] = nets[cl[p]]] /\ nets[cl[p]] # NULL
          /\ UNCHANGED <<op, cl, size, node, conts, todo, nets, live, shared>>
      BY <1>3, <2>2 DEF GetExisting
    <3>. QED BY <1>1, <3>1, GetKeeps
  <2>. QED BY <2>1, <2>2
<1>4. CASE \E other \in OtherLoad : Plan(p, other)
  <2>1. Goto(p, "network") /\ UNCHANGED <<op, cl, size, node, net, conts, todo, nets, live, shared>>
    BY <1>4 DEF Plan
  <2>. QED BY <1>1, <2>1, GetKeeps
<1>. QED BY <1>2, <1>3, <1>4

(* Every step keeps the invariant.                                         *)
LEMMA IInvStep ==
    ASSUME IInv, [Next]_vars
    PROVE  IInv'
<1>1. CASE UNCHANGED vars
  <2>1. UNCHANGED <<pc, op, cl, size, node, net, conts, todo, nets, live, shared>>
    BY <1>1 DEF vars, procVars
  <2>. USE <2>1 DEF IInv
  <2>2. StateOK' /\ ContInv'
    BY DEF StateOK, ContInv, MadeInTurn
  <2>3. NetInv' /\ OwnInv'
    BY DEF NetInv, NamedRight, HoldsNet, OwnInv, OwnsAll
  <2>4. SharedInv' /\ AttachedInv'
    BY DEF SharedInv, Active, AttachedInv
  <2>5. AloneInv'
    <3>1. ASSUME NEW p \in Proc
          PROVE  /\ Current(p)' = Current(p) /\ AttachedTo(cl[p])' = AttachedTo(cl[p])
                 /\ UpTo(p, node[p] - 1)' = UpTo(p, node[p] - 1)
                 /\ UpTo(p, size[p])' = UpTo(p, size[p])
      BY DEF Current, AttachedTo, UpTo
    <3>2. \A p \in Proc : Ids(AttachedTo(cl[p]))' = Ids(AttachedTo(cl[p]))
      BY <3>1 DEF Ids
    <3>3. Ids(live)' = Ids(live)
      BY DEF Ids
    <3>4. ASSUME NEW p \in Proc, Alone(p)
          PROVE  Alone(p)'
      BY <3>1, <3>2, <3>3, <3>4 DEF Alone
    <3>. QED BY <3>4 DEF AloneInv, Active
  <2>6. KnownInv'
    BY DEF KnownInv, KnownBy, Calm
  <2>. QED BY <2>2, <2>3, <2>4, <2>5, <2>6
<1>2. ASSUME NEW p \in Proc,
             \/ \E o \in {"get", "remove"}, c \in Cluster, n \in 1 .. MaxNodes : Begin(p, o, c, n)
             \/ CreateStep(p) \/ RemoveStep(p) \/ Crash(p)
      PROVE  IInv'
  <2>1. CASE \E o \in {"get", "remove"}, c \in Cluster, n \in 1 .. MaxNodes : Begin(p, o, c, n)
    BY <2>1, BeginKeeps
  <2>2. CASE CreateStep(p)
    BY <2>2, FirstStepsKeep, NetworkCreateKeeps, StopKeeps, ContainerCreateKeeps, ConnectKeeps,
       ContainerStartKeeps, ListKeeps DEF CreateStep
  <2>3. CASE RemoveStep(p)
    BY <2>3, StopKeeps, RemoveKeeps, NetworkRemoveKeeps, DisconnectKeeps, ContainerRemoveKeeps
       DEF RemoveStep
  <2>4. CASE Crash(p)
    BY <2>4, StopKeeps
  <2>. QED BY <1>2, <2>1, <2>2, <2>3, <2>4
<1>. QED BY <1>1, <1>2 DEF Next

-----------------------------------------------------------------------------
(* The theorems *)

(* In every state that the clusters of a swarm reach, the inductive        *)
(* invariant holds.                                                        *)
THEOREM AlwaysIInv == SwarmSpec => []IInv
<1>1. SwarmInit => IInv
  BY InitIInv DEF SwarmInit
<1>2. IInv /\ [SwarmNext]_swarmVars => IInv'
  <2>1. [SwarmNext]_swarmVars => [Next]_vars
    BY DEF SwarmNext, swarmVars
  <2>. QED BY <2>1, IInvStep
<1>. QED BY <1>1, <1>2, PTL DEF SwarmSpec

(* DockerCluster.create() returns a cluster with exactly the nodes of the  *)
(* spec, each running and attached to its network: for any number of       *)
(* scripts and of clusters, and whatever killed scripts left behind,       *)
(* unless another process works on the same name at the same time.         *)
THEOREM CreateReturnsComplete == SwarmSpec => []CreatedIsComplete
<1>1. IInv => CreatedIsComplete
  <2>. SUFFICES ASSUME IInv, NEW p \in Proc, pc[p] = "up", net[p] = p, cl[p] \notin shared
                PROVE  Complete(p)
    BY DEF CreatedIsComplete
  <2>. USE DEF IInv
  <2>1. nets[cl[p]] = p /\ UpTo(p, size[p]) /\ conts[p] = Ids(AttachedTo(cl[p]))
    BY DEF AloneInv, Alone, Active, Handling
  <2>2. size[p] \in 1 .. MaxNodes
    BY DEF StateOK
  <2>3. ASSUME NEW i \in conts[p]
        PROVE  i \in {p} \X (1 .. size[p])
    <3>1. PICK x \in AttachedTo(cl[p]) : x.id = i
      BY <2>1 DEF Ids
    <3>2. x \in live /\ x.on = i[1] /\ x.on \in Proc /\ cl[i[1]] = cl[p]
      BY <3>1, AttachedHere
    <3>3. i[1] = p
      BY <2>1, <3>2, DockerAssumption DEF AttachedInv
    <3>4. i \in Id /\ i[2] <= size[p]
      BY <3>1, <3>2, <3>3 DEF StateOK, ContInv, MadeInTurn
    <3>. QED BY <2>2, <3>3, <3>4 DEF Id
  <2>4. ASSUME NEW k \in 1 .. size[p]
        PROVE  /\ <<p, k>> \in conts[p]
               /\ \E x \in live : x.id = <<p, k>> /\ x.on = p /\ x.state = "running"
    <3>1. PICK x \in live : x.id = <<p, k>> /\ x.on = p /\ x.state = "running"
      BY <2>1 DEF UpTo
    <3>2. x \in AttachedTo(cl[p])
      BY <3>1, DockerAssumption DEF AttachedTo
    <3>. QED BY <2>1, <3>1, <3>2 DEF Ids
  <2>5. conts[p] = {p} \X (1 .. size[p])
    BY <2>3, <2>4
  <2>6. \A i \in conts[p] : \E x \in live : x.id = i /\ x.on = p /\ x.state = "running"
    BY <2>3, <2>4
  <2>. QED BY <2>5, <2>6 DEF Complete
<1>. QED BY <1>1, AlwaysIInv, PTL

(* Only the end of remove() makes a process "done".                        *)
LEMMA DoneByRemoved ==
    ASSUME IInv, [Next]_vars, NEW p \in Proc, pc[p] # "done", pc'[p] = "done"
    PROVE  Removed(p)
<1>. USE DEF IInv, Goto, End, StateOK
<1>1. pc' # pc
  OBVIOUS
<1>2. PICK r \in Proc :
          \/ \E o \in {"get", "remove"}, c \in Cluster, n \in 1 .. MaxNodes : Begin(r, o, c, n)
          \/ CreateStep(r) \/ RemoveStep(r) \/ Crash(r)
  BY <1>1 DEF Next, vars, procVars
<1>3. ASSUME NEW l, pc' = [pc EXCEPT ![r] = l]
      PROVE  r = p /\ l = "done"
  BY <1>3
<1>4. CASE \E o \in {"get", "remove"}, c \in Cluster, n \in 1 .. MaxNodes : Begin(r, o, c, n)
  BY <1>3, <1>4 DEF Begin
<1>5. CASE CreateStep(r)
  BY <1>1, <1>3, <1>5 DEF CreateStep, GetNone, GetExisting, NetworkCreate, Plan, NetworkConflict,
     ContainerConflict, ContainerCreate, Connect, ContainerStart, StartFails, List
<1>6. CASE RemoveStep(r)
  BY <1>1, <1>3, <1>6 DEF RemoveStep, Leave, Remove, NetworkRemove, Disconnect, ContainerRemove,
     Removed
<1>7. CASE Crash(r)
  BY <1>3, <1>7 DEF Crash
<1>. QED BY <1>2, <1>4, <1>5, <1>6, <1>7

(* DockerCluster.remove(): when it returns, neither the network nor any    *)
(* container of the cluster is left on any host, unless a process was      *)
(* killed at work on the name or two worked on it at a time.               *)
THEOREM RemoveLeavesNothingAlways == SwarmSpec => RemoveLeavesNothing
<1>1. ASSUME IInv, [Next]_vars, NEW p \in Proc, pc[p] # "done", pc'[p] = "done",
             Calm(cl[p])
      PROVE  nets'[cl[p]] = NULL /\ \A x \in live' : ~Of(x, cl[p])
  <2>. USE DEF IInv
  <2>1. pc[p] = "remove" /\ todo[p] = {} /\ UNCHANGED <<nets, live>>
    BY <1>1, DoneByRemoved DEF Removed
  <2>2. Active(p) /\ cl[p] \notin shared
    BY <1>1, <2>1 DEF Active, Calm
  <2>3. nets[cl[p]] = NULL
    BY <1>1, <2>1, <2>2 DEF AloneInv, Alone
  <2>4. ASSUME NEW x \in live, cl[x.id[1]] = cl[p]
        PROVE  FALSE
    <3>1. CASE x.on = NULL
      BY <1>1, <2>1, <2>2, <2>4, <3>1, KnownIsMine DEF KnownBy
    <3>2. CASE x.on # NULL
      BY <1>1, <2>2, <2>3, <2>4, <3>2, AttachedMeans DEF AttachedInv
    <3>. QED BY <3>1, <3>2
  <2>. QED BY <2>1, <2>3, <2>4 DEF Of
<1>2. IInv /\ [SwarmNext]_swarmVars =>
        [\A p \in Proc :
            /\ pc[p] # "done" /\ pc'[p] = "done"
            /\ cl[p] \notin shared
            /\ \A q \in Proc : pc[q] = "killed" => cl[q] # cl[p]
            => /\ nets'[cl[p]] = NULL
               /\ \A x \in live' : ~Of(x, cl[p])]_vars
  <2>1. [SwarmNext]_swarmVars => [Next]_vars
    BY DEF SwarmNext, swarmVars
  <2>. QED BY <1>1, <2>1 DEF Calm
<1>. QED BY <1>2, AlwaysIInv, PTL DEF SwarmSpec, RemoveLeavesNothing

(* DockerCluster.remove() removes containers of the cluster it got, never  *)
(* those of a cluster created under the same name since, however many work *)
(* on the name.                                                            *)
THEOREM RemovesOnlyItsOwnAlways == SwarmSpec => RemovesOnlyItsOwn
<1>1. ASSUME IInv, [Next]_vars, NEW p \in Proc, NEW x \in live \ live',
             pc[p] = "remove", todo'[p] # todo[p]
      PROVE  x.id[1] = net[p]
  <2>. USE <1>1 DEF IInv
  <2>1. PICK r \in Proc :
            \/ \E o \in {"get", "remove"}, c \in Cluster, n \in 1 .. MaxNodes : Begin(r, o, c, n)
            \/ CreateStep(r) \/ RemoveStep(r) \/ Crash(r)
    BY DEF Next, vars, procVars
  <2>2. live' # live
    OBVIOUS
  <2>3. CASE \E o \in {"get", "remove"}, c \in Cluster, n \in 1 .. MaxNodes : Begin(r, o, c, n)
    BY <2>2, <2>3 DEF Begin
  <2>4. CASE Crash(r)
    BY <2>2, <2>4 DEF Crash
  <2>5. CASE CreateStep(r)
    <3>1. ContainerCreate(r) \/ Connect(r) \/ ContainerStart(r)
      BY <2>2, <2>5 DEF CreateStep, GetNone, GetExisting, NetworkCreate, Plan, NetworkConflict,
         ContainerConflict, StartFails, List
    <3>2. UNCHANGED todo
      BY <2>2, <3>1 DEF ContainerCreate, Connect, ContainerStart, locals
    <3>. QED BY <3>2
  <2>6. CASE RemoveStep(r)
    <3>1. PICK i \in todo[r] : Disconnect(r, i) \/ ContainerRemove(r, i)
      BY <2>2, <2>6 DEF RemoveStep, Leave, Remove, NetworkRemove, Removed
    <3>2. todo' = [todo EXCEPT ![r] = @ \ {i}]
      BY <2>2, <3>1 DEF Disconnect, ContainerRemove
    <3>3. r = p
      BY <3>2 DEF StateOK
    <3>4. ContainerRemove(p, i)
      BY <3>1, <3>3 DEF Disconnect
    <3>5. x.id = i
      BY <2>2, <3>4 DEF ContainerRemove
    <3>. QED BY <3>1, <3>3, <3>5 DEF OwnInv, OwnsAll
  <2>. QED BY <2>1, <2>3, <2>4, <2>5, <2>6
<1>2. IInv /\ [SwarmNext]_swarmVars =>
        [\A p \in Proc, x \in live \ live' :
            /\ pc[p] = "remove" /\ todo'[p] # todo[p]
            /\ x.id \notin {y.id : y \in live'}
            => x.id[1] = net[p]]_vars
  <2>1. [SwarmNext]_swarmVars => [Next]_vars
    BY DEF SwarmNext, swarmVars
  <2>. QED BY <1>1, <2>1
<1>. QED BY <1>2, AlwaysIInv, PTL DEF SwarmSpec, RemovesOnlyItsOwn

(* The swarm's scripts choose subnets as DockerNet says, so Docker refuses *)
(* a choice only when it was stale.                                        *)
THEOREM SwarmRefusesOnlyWhenStale == SwarmSpec => RefusedOnlyWhenStale
<1>1. SwarmInit => NetInit
  BY DEF SwarmInit
<1>2. [SwarmNext]_swarmVars => [NetNext]_netVars
  BY DEF SwarmNext, swarmVars
<1>3. SwarmSpec => NetSpec
  BY <1>1, <1>2, PTL DEF SwarmSpec, NetSpec
<1>. QED BY <1>3, RefusedOnlyWhenStaleAlways
=============================================================================
