------------------------------ MODULE DockerNet ------------------------------
(***************************************************************************)
(* How the networks of Docker clusters get their subnets (class Network of *)
(* runtime/docker.py).  With IPv6, Network.create() lists the networks of  *)
(* the swarm and takes the subnet after the highest one, for IPv6 and then *)
(* for IPv4; only then does it ask Docker for the network.  attr_grep(),   *)
(* which collects the subnets, adds to a list that lives as long as the    *)
(* process.                                                                *)
(*                                                                         *)
(* Addresses are counted in blocks of the smallest subnet; the IPv4 blocks *)
(* below Limit are those of 172.0.0.0/8.                                   *)
(***************************************************************************)
EXTENDS Naturals, FiniteSets

CONSTANTS
  Scripts,   \* test scripts
  NetNames,  \* names of networks
  Limit,     \* number of IPv4 blocks that start with "172."
  First,     \* the block of 172.172.0.0/24
  MaxMade,   \* bound on the networks created in all
  NoNet      \* no network of that name

Subnets == [fam : {4, 6}, base : Nat, len : {1, 2}]

(* No subnet of 172.0.0.0/8 goes on behind it.                             *)
ASSUME DockerNetAssumption ==
  /\ Limit \in Nat /\ First \in Nat /\ MaxMade \in Nat
  /\ Limit % 2 = 0

VARIABLES
  pools,  \* pools[n]: the subnets of network n
  lst,    \* lst[s]: the default argument of attr_grep() in script s
  step,   \* step[s]: where Network.create() of s is
  net6,   \* net6[s]: the IPv6 subnet chosen
  net4,   \* net4[s]: the IPv4 subnet chosen
  fresh,  \* history: s chose by the networks there are, and no other was made since
  made    \* number of networks created

netVars == <<pools, lst, step, net6, net4, fresh, made>>

Subnet(fam, base, len) == [fam |-> fam, base |-> base, len |-> len]
FirstV4 == Subnet(4, First, 1)
FirstV6 == Subnet(6, 0, 1)

(* What the spec of a cluster or another user may ask for.                 *)
Given == {Subnet(4, b, l) : b \in 0..(Limit - 1), l \in {1, 2}}
Aligned(x) == x.base % x.len = 0

Overlap(x, y) == x.fam = y.fam /\ x.base < y.base + y.len /\ y.base < x.base + x.len
Present == UNION {pools[n] : n \in {m \in NetNames : pools[m] # NoNet}}
Refuses(S) == \E x \in S, y \in Present : Overlap(x, y)
-----------------------------------------------------------------------------
(* attr_grep: the subnets of some networks, and all it ever found.         *)
attr_grep(s, found) == lst[s] \cup found

(* The last one when sorted by address, then by netmask.                   *)
Highest(S) ==
  CHOOSE x \in S : \A y \in S : y.base < x.base \/ (y.base = x.base /\ y.len >= x.len)

(* Mutant: the address after the network address.                          *)
next_subnetByOne(x) == [x EXCEPT !.base = @ + 1]

(* The subnet of the same length that begins where x ends.                 *)
next_subnet(x) == [x EXCEPT !.base = @ + x.len]

NextAfter(S, first) == IF S = {} THEN first ELSE next_subnet(Highest(S))
next_ipv6_subnet(S) == NextAfter({x \in S : x.fam = 6}, FirstV6)
next_ipv4_subnet(S) == NextAfter({x \in S : x.fam = 4 /\ x.base < Limit}, FirstV4)

(* Network.create with ipv6: the two choices, each from a list of its own. *)
ChooseV6(s) ==
  /\ step[s] = "idle"
  /\ LET found == attr_grep(s, Present) IN
       /\ lst' = [lst EXCEPT ![s] = found]
       /\ net6' = [net6 EXCEPT ![s] = next_ipv6_subnet(found)]
       /\ fresh' = [fresh EXCEPT ![s] = found = Present]
  /\ step' = [step EXCEPT ![s] = "v4"]
  /\ UNCHANGED <<pools, net4, made>>

ChooseV4(s) ==
  /\ step[s] = "v4"
  /\ LET found == attr_grep(s, Present) IN
       /\ lst' = [lst EXCEPT ![s] = found]
       /\ net4' = [net4 EXCEPT ![s] = next_ipv4_subnet(found)]
       /\ fresh' = [fresh EXCEPT ![s] = @ /\ found = Present]
  /\ step' = [step EXCEPT ![s] = "create"]
  /\ UNCHANGED <<pools, net6, made>>

(* The script is at its start again: a new process, or Network.create()    *)
(* has returned.                                                           *)
Rest(s, list) ==
  /\ step' = [step EXCEPT ![s] = "idle"]
  /\ net6' = [net6 EXCEPT ![s] = FirstV6]
  /\ net4' = [net4 EXCEPT ![s] = FirstV4]
  /\ lst' = [lst EXCEPT ![s] = list]

(* Docker makes the network, and Network(obj) greps its attributes; or it  *)
(* refuses a subnet that overlaps with another one, and the script ends.   *)
Ask(s, n, S) ==
  /\ pools[n] = NoNet
  /\ made < MaxMade
  /\ IF Refuses(S)
       THEN Rest(s, {}) /\ UNCHANGED <<pools, made>> /\ fresh' = [fresh EXCEPT ![s] = TRUE]
       ELSE /\ pools' = [pools EXCEPT ![n] = S]
            /\ made' = made + 1
            /\ fresh' = [r \in Scripts |-> r = s]
            /\ Rest(s, attr_grep(s, S))

CreateChosen(s, n) == step[s] = "create" /\ Ask(s, n, {net6[s], net4[s]})

(* Network.create with the subnet of the spec.                             *)
CreateGiven(s, n, x) == step[s] = "idle" /\ Aligned(x) /\ Ask(s, n, {x})

(* Network.create without either: Docker chooses, in 10.0.0.0/8.           *)
CreateAuto(s, n) == step[s] = "idle" /\ Ask(s, n, {})

(* Network(obj): DockerCluster.__init__ and _list wrap what is there.      *)
Wrap(s, n) ==
  /\ step[s] = "idle"
  /\ pools[n] # NoNet
  /\ lst' = [lst EXCEPT ![s] = attr_grep(s, pools[n])]
  /\ UNCHANGED <<pools, step, net6, net4, fresh, made>>

(* Network.remove, by whichever process.                                   *)
NetRemove(n) ==
  /\ pools[n] # NoNet
  /\ pools' = [pools EXCEPT ![n] = NoNet]
  /\ UNCHANGED <<lst, step, net6, net4, fresh, made>>

(* The script ends and another one begins.                                 *)
NewScript(s) ==
  /\ step[s] = "idle"
  /\ Rest(s, {})
  /\ UNCHANGED <<pools, fresh, made>>
-----------------------------------------------------------------------------
NetInit ==
  /\ pools = [n \in NetNames |-> NoNet]
  /\ lst = [s \in Scripts |-> {}]
  /\ step = [s \in Scripts |-> "idle"]
  /\ net6 = [s \in Scripts |-> FirstV6]
  /\ net4 = [s \in Scripts |-> FirstV4]
  /\ fresh = [s \in Scripts |-> TRUE]
  /\ made = 0

NetNext ==
  \/ \E s \in Scripts :
       \/ ChooseV6(s) \/ ChooseV4(s) \/ NewScript(s)
       \/ \E n \in NetNames :
            \/ CreateChosen(s, n) \/ CreateAuto(s, n) \/ Wrap(s, n)
            \/ \E x \in Given : CreateGiven(s, n, x)
  \/ \E n \in NetNames : NetRemove(n)

NetSpec == NetInit /\ [][NetNext]_netVars
-----------------------------------------------------------------------------
(* Docker refuses the subnets that Network.create() chose only when the    *)
(* choice was stale: the list still had a network that is gone, or another *)
(* network was made between the choice and the request; or when the blocks *)
(* of 172.0.0.0/8 are used up.  Networks of any size that others made in   *)
(* any order do no harm (docker.py:264-319, 366-376).                      *)
RefusedOnlyWhenStale ==
  [][\A s \in Scripts :
        step[s] = "create" /\ step'[s] = "idle" /\ made' = made
          => ~fresh[s] \/ net4[s].base >= Limit]_netVars
-----------------------------------------------------------------------------
(* Why RefusedOnlyWhenStale holds.                                         *)
NetTypeOK ==
  /\ pools \in [NetNames -> (SUBSET Subnets) \cup {NoNet}]
  /\ lst \in [Scripts -> SUBSET Subnets]
  /\ step \in [Scripts -> {"idle", "v4", "create"}]
  /\ net6 \in [Scripts -> Subnets] /\ net4 \in [Scripts -> Subnets]
  /\ fresh \in [Scripts -> BOOLEAN] /\ made \in Nat

(* A subnet lies at a multiple of its length.  The highest of each family  *)
(* is bounded, by what the code starts with and adds.                      *)
Regular(x, n) ==
  /\ Aligned(x)
  /\ x.fam = 6 => x.len = 1 /\ x.base <= n
  /\ x.fam = 4 => x.base <= Limit + First + 1

SubnetInv ==
  /\ \A x \in Present : Regular(x, made)
  /\ \A s \in Scripts :
       /\ \A x \in lst[s] : Regular(x, made)
       /\ Regular(net6[s], made + 1) /\ net6[s].fam = 6
       /\ Regular(net4[s], made) /\ net4[s].fam = 4

Apart(S) == \A x, y \in S : x = y \/ ~Overlap(x, y)
Clear(x) == \A y \in Present : ~Overlap(x, y)

(* A choice that is not stale overlaps with no network.                    *)
ChoiceInv ==
  \A s \in Scripts : fresh[s] =>
    /\ step[s] \in {"v4", "create"} => Clear(net6[s])
    /\ step[s] = "create" /\ net4[s].base < Limit => Clear(net4[s])

PoolInv == NetTypeOK /\ SubnetInv /\ Apart(Present) /\ ChoiceInv
=============================================================================
