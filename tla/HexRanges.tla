------------------------------ MODULE HexRanges ------------------------------
(***************************************************************************)
(* The range arithmetic of class HexRanges, and the loop of alloc_addr()    *)
(* that runs on it.  A HexRanges object is its sequence of entries          *)
(* <<first, last>>.  The table is what the file of IPAddrDb holds between   *)
(* two calls; every call parses it, which inserts the entries in order and  *)
(* prunes them (the hexadecimal digits themselves are left out).            *)
(***************************************************************************)
EXTENDS Integers, Sequences, FiniteSets
LOCAL INSTANCE SequencesExt

CONSTANTS
    Cluster,     \* cluster names
    AddrMin,     \* first usable address of the subnet
    AddrMax,     \* last usable address
    MaxNodes     \* bound on the addresses of a request

ASSUME RangeAssumption ==
    AddrMin \in Nat /\ AddrMax \in Nat /\ MaxNodes \in Nat

VARIABLES
    alloc_tbl,   \* cluster -> [entry, ranges]
    refused      \* the request that the last call turned down, 0 if none

rangeVars == <<alloc_tbl, refused>>

NoEntry == [entry |-> FALSE, ranges |-> <<>>]

\* Python compares lists from the left.
Before(x, y) == x[1] < y[1] \/ (x[1] = y[1] /\ x[2] < y[2])

Sorted(ents) == SortSeq(ents, Before)

PruneStep(tmp, ent) ==
    IF tmp = <<>> \/ tmp[Len(tmp)][2] < ent[1]
    THEN Append(tmp, ent)
    ELSE [tmp EXCEPT ![Len(tmp)] = <<@[1], ent[2]>>]

prune(ents) == FoldLeft(PruneStep, <<>>, Sorted(ents))

\* union() of the ranges of every cluster in the table.
union(tbl) ==
    prune(FlattenSeq([i \in 1 .. Cardinality(Cluster) |->
                        tbl[SetToSeq(Cluster)[i]].ranges]))

ins(ents, ent) ==
    LET idx == Cardinality({i \in DOMAIN ents : ~Before(ent, ents[i])})
        inL == idx > 0 /\ ents[idx][2] >= ent[1]
        inR == idx < Len(ents) /\ ents[idx + 1][1] <= ent[2]
    IN  CASE inL /\ inR ->
                RemoveAt([ents EXCEPT ![idx] = <<@[1], ents[idx + 1][2]>>],
                         idx + 1)
          [] inL /\ ~inR -> [ents EXCEPT ![idx] = <<@[1], ent[2]>>]
          [] ~inL /\ inR -> [ents EXCEPT ![idx + 1] = <<ent[1], @[2]>>]
          [] ~inL /\ ~inR -> InsertAt(ents, idx + 1, ent)

\* Mutant: the gap starts with the last address of the entry before it.
invOffByOne(ents, min, max) ==
    LET Add(acc, r) == IF acc.l <= r THEN ins(acc.new, <<acc.l, r>>)
                       ELSE acc.new
        Gap(acc, ent) == [l |-> ent[2], new |-> Add(acc, ent[1] - 1)]
    IN  Add(FoldLeft(Gap, [l |-> min, new |-> <<>>], ents), max)

\* The gaps between the entries, from min to max.
inv(ents, min, max) ==
    LET Add(acc, r) == IF acc.l <= r THEN ins(acc.new, <<acc.l, r>>)
                       ELSE acc.new
        Gap(acc, ent) == [l |-> ent[2] + 1, new |-> Add(acc, ent[1] - 1)]
    IN  Add(FoldLeft(Gap, [l |-> min, new |-> <<>>], ents), max)

\* One turn of the loop in alloc_addr(): n addresses are still wanted.
TakeFrom(acc, ent) ==
    LET width == ent[2] - ent[1] + 1
    IN  IF acc.n = 0 THEN acc
        ELSE IF acc.n < width
             THEN [n |-> 0, addrs |-> ins(acc.addrs,
                                          <<ent[1], ent[1] + acc.n - 1>>)]
             ELSE [n |-> acc.n - width, addrs |-> ins(acc.addrs, ent)]

\* Mutant: only the first gap is looked at.
takeFirstGap(avail, n) ==
    FoldLeft(TakeFrom, [n |-> n, addrs |-> <<>>],
             IF avail = <<>> THEN <<>> ELSE <<Head(avail)>>)

take(avail, n) == FoldLeft(TakeFrom, [n |-> n, addrs |-> <<>>], avail)

\* _read(): every value of the table is parsed.
parsed(tbl) == [c \in Cluster |-> [tbl[c] EXCEPT !.ranges = prune(@)]]

-----------------------------------------------------------------------------
alloc_addr(c, n) ==
    LET tbl == parsed(alloc_tbl)
        got == take(inv(union(tbl), AddrMin, AddrMax), n)
    IN  /\ ~tbl[c].entry
        /\ IF got.n = 0
           THEN /\ alloc_tbl' = [tbl EXCEPT ![c] =
                                   [entry |-> TRUE, ranges |-> got.addrs]]
                /\ refused' = 0
           ELSE /\ UNCHANGED alloc_tbl
                /\ refused' = n

free_addr(c) ==
    /\ alloc_tbl' = [parsed(alloc_tbl) EXCEPT ![c] = NoEntry]
    /\ refused' = 0

RangeInit ==
    /\ alloc_tbl = [c \in Cluster |-> NoEntry]
    /\ refused = 0

RangeNext ==
    \E c \in Cluster :
        free_addr(c) \/ \E n \in 1 .. MaxNodes : alloc_addr(c, n)

RangeSpec == RangeInit /\ [][RangeNext]_rangeVars

-----------------------------------------------------------------------------
(* Properties *)

\* The addresses that iterating over a HexRanges yields.
Members(ents) == UNION {ents[i][1] .. ents[i][2] : i \in DOMAIN ents}

Pool == INSTANCE AddrPool WITH
    Addr <- AddrMin .. AddrMax,
    pool <- [c \in Cluster |->
               [entry |-> alloc_tbl[c].entry,
                addrs |-> Members(alloc_tbl[c].ranges)]]

\* With any history of requests and releases, the range arithmetic computes
\* what sets would: a request gets exactly its number of the first addresses
\* that nobody has, across as many gaps as needed, and a release gives back
\* exactly what was got, after the ranges went through the file and back.
ImplementsPool == Pool!Spec

\* A request is turned down only when there are too few addresses left.
RefusedOnlyWhenFull ==
    refused # 0 => Cardinality(Pool!Unused) < refused

=============================================================================
