--------------------------- MODULE SClusterProofs ---------------------------
(***************************************************************************)
(* Proofs about SCluster for any processes, clusters, hosts and addresses.  *)
(***************************************************************************)
EXTENDS SCluster, FiniteSetTheorems, TLAPS

\* A step of the system is a step of one process.
StepOf(p) ==
    \/ \E o \in {"script", "remove"}, c \in Cluster, n \in 1 .. MaxNodes :
          Begin(p, o, c, n)
    \/ Step(p) \/ Crash(p)

\* alloc_addr() and free_addr() replace the entry of one cluster.
LEMMA TableUpdate ==
    ASSUME NEW t \in Table, NEW c \in Cluster, NEW S \in SUBSET Addr
    PROVE  /\ [t EXCEPT ![c] = AnEntry(S)] \in Table
           /\ [t EXCEPT ![c] = NoEntry] \in Table
BY DEF Table, AnEntry, NoEntry

\* The table of a new file is a table.
LEMMA EmptyTable == NoAllocs \in Table
BY DEF Table, NoEntry, NoAllocs

\* The types, and the hosts that _create() has assigned, are kept.
LEMMA TypeStep ==
    ASSUME TypeOK, AssignedInv, NEW p \in Proc, StepOf(p)
    PROVE  TypeOK' /\ AssignedInv'
<1>a. MaxNodes \in Nat /\ NULL \notin Table
  BY SClusterAssumption, EmptyAssumption DEF EMPTY
<1>. USE <1>a DEF TypeOK, AssignedInv, Goto, Pc, DbPc, EMPTY
<1>1. CASE \E o \in {"script", "remove"}, c \in Cluster, n \in 1 .. MaxNodes :
                Begin(p, o, c, n)
  BY <1>1 DEF Begin
<1>2. CASE Lock(p)
  BY <1>2 DEF Lock
<1>3. CASE InitDb(p)
  <2>1. CASE file = EMPTY
    <3>1. /\ db' = [db EXCEPT ![p] = NoAllocs]
          /\ pc' = [pc EXCEPT ![p] = "trunc"]
          /\ UNCHANGED <<task, op, cl, size, hosts, addrs, started, mine, lock,
                         file, running>>
          /\ task[p] = "init"
      BY <1>3, <2>1 DEF InitDb
    <3>2. db' \in [Proc -> Table]
      BY <3>1, EmptyTable
    <3>. QED
      BY <3>1, <3>2
  <2>2. CASE file # EMPTY
    BY <1>3, <2>2 DEF InitDb
  <2>. QED
    BY <2>1, <2>2
<1>4. CASE AllocExisting(p)
  BY <1>4 DEF AllocExisting, Table
<1>5. CASE AllocNew(p)
  <2>. PICK S \in SUBSET Addr :
          /\ addrs' = [addrs EXCEPT ![p] = S]
          /\ db' = [db EXCEPT ![p] = [file EXCEPT ![cl[p]] = AnEntry(S)]]
    BY <1>5 DEF AllocNew
  <2>1. [file EXCEPT ![cl[p]] = AnEntry(S)] \in Table
    BY <1>5, TableUpdate DEF AllocNew
  <2>. QED
    BY <1>5, <2>1 DEF AllocNew
<1>6. CASE AllocNone(p)
  BY <1>6 DEF AllocNone
<1>7. CASE FreeAddr(p)
  <2>1. [file EXCEPT ![cl[p]] = NoEntry] \in Table
    BY <1>7, TableUpdate DEF FreeAddr
  <2>. QED
    BY <1>7, <2>1 DEF FreeAddr
<1>8. CASE ReadNone(p)
  BY <1>8 DEF ReadNone
<1>9. CASE Truncate(p)
  BY <1>9 DEF Truncate
<1>10. CASE Write(p)
  BY <1>10 DEF Write
<1>11. CASE GetNone(p)
  BY <1>11 DEF GetNone
<1>12. CASE GetExisting(p)
  BY <1>12, ZenonT(60) DEF GetExisting, Found
<1>13. CASE Assign(p)
  <2>1. PICK asg \in [1 .. size[p] -> Host] :
          hosts' = [hosts EXCEPT ![p] = asg]
    BY <1>13 DEF Assign
  <2>a. size[p] \in 0 .. MaxNodes
    OBVIOUS
  <2>b. asg \in UNION {[1 .. n -> Host] : n \in 0 .. MaxNodes}
    BY <2>a
  <2>2. hosts' \in [Proc -> UNION {[1 .. n -> Host] : n \in 0 .. MaxNodes}]
    BY <2>1, <2>b
  <2>3. AssignedInv'
    BY <1>13, <2>1 DEF Assign
  <2>. QED
    BY <1>13, <2>2, <2>3 DEF Assign
<1>14. CASE StartNode(p)
  <2>. DEFINE j == started[p] + 1
  <2>1. j \in 1 .. size[p] /\ j \in 1 .. MaxNodes /\ hosts[p][j] \in Host
    BY <1>14 DEF StartNode, Unstarted
  <2>2. PICK a \in addrs[p] :
          LET x == [host |-> hosts[p][j], cluster |-> cl[p], node |-> j,
                    addr |-> a, size |-> size[p]]
          IN  /\ running' = running \cup {x}
              /\ mine' = [mine EXCEPT ![p] = @ \cup {x}]
    BY <1>14 DEF StartNode
  <2>. DEFINE x == [host |-> hosts[p][j], cluster |-> cl[p], node |-> j,
                    addr |-> a, size |-> size[p]]
  <2>3. x \in Instance
    BY <2>1 DEF Instance
  <2>4. running' \subseteq Instance /\ mine' \in [Proc -> SUBSET Instance]
    BY <2>2, <2>3
  <2>5. started' \in [Proc -> 0 .. MaxNodes]
    BY <1>14, <2>1 DEF StartNode
  <2>. QED
    BY <1>14, <2>4, <2>5 DEF StartNode
<1>15. CASE StartRefused(p)
  BY <1>15 DEF StartRefused
<1>16. CASE Created(p)
  BY <1>16 DEF Created
<1>17. CASE Remove(p)
  BY <1>17 DEF Remove
<1>18. CASE Stopped(p)
  BY <1>18 DEF Stopped
<1>19. CASE \E x \in mine[p] : StopNode(p, x)
  <2>1. running' \subseteq Instance /\ mine' \in [Proc -> SUBSET Instance]
    BY <1>19 DEF StopNode
  <2>2. pc' = [pc EXCEPT ![p] = "ended"] \/ pc' = pc
    BY <1>19 DEF StopNode
  <2>3. UNCHANGED <<task, op, cl, size, hosts, addrs, started, db, lock, file>>
    BY <1>19 DEF StopNode
  <2>. QED
    BY <2>1, <2>2, <2>3
<1>20. CASE Crash(p)
  BY <1>20 DEF Crash
<1>. QED
  BY <1>1, <1>2, <1>3, <1>4, <1>5, <1>6, <1>7, <1>8, <1>9, <1>10, <1>11, <1>12, <1>13, <1>14, <1>15, <1>16, <1>17, <1>18, <1>19, <1>20 DEF StepOf, Step, DbStep, ClusterStep

\* The table of a new file is disjoint.
LEMMA EmptyDisjoint == Disjoint(NoAllocs)
BY DEF Disjoint, NoAllocs, NoEntry

\* A new entry with addresses that no cluster has keeps the table disjoint,
\* and so does dropping an entry.
LEMMA DisjointUpdate ==
    ASSUME NEW t \in Table, Disjoint(t), NEW c \in Cluster,
           NEW S \in SUBSET Addr,
           \A d \in Cluster : S \cap t[d].addrs = {}
    PROVE  /\ Disjoint([t EXCEPT ![c] = AnEntry(S)])
           /\ Disjoint([t EXCEPT ![c] = NoEntry])
BY DEF Disjoint, Table, AnEntry, NoEntry

\* No step makes the file, or a table on its way to the file, give an address
\* to two clusters.
LEMMA DisjointStep ==
    ASSUME TypeOK, TableDisjoint, WriteDisjoint, NEW p \in Proc, StepOf(p)
    PROVE  TableDisjoint' /\ WriteDisjoint'
<1>. USE EmptyAssumption DEF TypeOK, TableDisjoint, WriteDisjoint, Goto, Pc
<1>1. CASE \E o \in {"script", "remove"}, c \in Cluster, n \in 1 .. MaxNodes :
                Begin(p, o, c, n)
  BY <1>1 DEF Begin, Disjoint
<1>2. CASE Lock(p)
  BY <1>2 DEF Lock, Disjoint
<1>3. CASE InitDb(p)
  <2>1. CASE file = EMPTY
    BY <1>3, <2>1, EmptyDisjoint, ZenonT(60) DEF InitDb, Disjoint
  <2>2. CASE file # EMPTY
    BY <1>3, <2>2 DEF InitDb, Disjoint
  <2>. QED
    BY <2>1, <2>2
<1>4. CASE AllocExisting(p)
  BY <1>4 DEF AllocExisting, Disjoint
<1>5. CASE AllocNew(p)
  <2>1. PICK S \in SUBSET Addr :
          /\ S \subseteq Addr \ Taken
          /\ db' = [db EXCEPT ![p] = [file EXCEPT ![cl[p]] = AnEntry(S)]]
    BY <1>5 DEF AllocNew, FirstFree
  <2>2. file \in Table /\ Disjoint(file) /\ cl[p] \in Cluster
    BY <1>5 DEF AllocNew
  <2>3. \A d \in Cluster : S \cap file[d].addrs = {}
    BY <2>1 DEF Taken
  <2>4. Disjoint(db'[p])
    BY <2>1, <2>2, <2>3, DisjointUpdate
  <2>. QED
    BY <1>5, <2>1, <2>4 DEF AllocNew, Disjoint
<1>6. CASE AllocNone(p)
  BY <1>6 DEF AllocNone, Disjoint
<1>7. CASE FreeAddr(p)
  <2>1. file \in Table /\ Disjoint(file) /\ cl[p] \in Cluster
    BY <1>7 DEF FreeAddr
  <2>2. \A d \in Cluster : {} \cap file[d].addrs = {}
    OBVIOUS
  <2>3. Disjoint([file EXCEPT ![cl[p]] = NoEntry])
    BY <2>1, <2>2, DisjointUpdate
  <2>. QED
    BY <1>7, <2>3 DEF FreeAddr, Disjoint
<1>8. CASE ReadNone(p)
  BY <1>8 DEF ReadNone, Disjoint
<1>9. CASE Truncate(p)
  BY <1>9 DEF Truncate, Disjoint
<1>10. CASE Write(p)
  BY <1>10 DEF Write, Disjoint
<1>11. CASE GetNone(p)
  BY <1>11 DEF GetNone, Disjoint
<1>12. CASE GetExisting(p)
  BY <1>12, ZenonT(60) DEF GetExisting, Disjoint
<1>13. CASE Assign(p)
  BY <1>13 DEF Assign, Disjoint
<1>14. CASE StartNode(p)
  BY <1>14 DEF StartNode, Disjoint
<1>15. CASE StartRefused(p)
  BY <1>15 DEF StartRefused, Disjoint
<1>16. CASE Created(p)
  BY <1>16 DEF Created, Disjoint
<1>17. CASE Remove(p)
  BY <1>17 DEF Remove, Disjoint
<1>18. CASE Stopped(p)
  BY <1>18 DEF Stopped, Disjoint
<1>19. CASE \E x \in mine[p] : StopNode(p, x)
  BY <1>19 DEF StopNode, Disjoint
<1>20. CASE Crash(p)
  BY <1>20 DEF Crash, Disjoint
<1>. QED
  BY <1>1, <1>2, <1>3, <1>4, <1>5, <1>6, <1>7, <1>8, <1>9, <1>10, <1>11, <1>12, <1>13, <1>14, <1>15, <1>16, <1>17, <1>18, <1>19, <1>20 DEF StepOf, Step, DbStep, ClusterStep

\* lockf() gives the file to one process at a time.
LEMMA LockStep ==
    ASSUME TypeOK, LockInv,
           NEW p \in Proc, StepOf(p)
    PROVE  LockInv'
<1>. USE SClusterAssumption DEF TypeOK, LockInv, DbPc, Goto, Pc, Active
<1>1. CASE \E o \in {"script", "remove"}, c \in Cluster, n \in 1 .. MaxNodes :
                Begin(p, o, c, n)
  BY <1>1 DEF Begin
<1>2. CASE Lock(p)
  BY <1>2 DEF Lock
<1>3. CASE InitDb(p)
  BY <1>3 DEF InitDb
<1>4. CASE AllocExisting(p)
  BY <1>4 DEF AllocExisting
<1>5. CASE AllocNew(p)
  BY <1>5 DEF AllocNew
<1>6. CASE AllocNone(p)
  BY <1>6 DEF AllocNone
<1>7. CASE FreeAddr(p)
  BY <1>7 DEF FreeAddr
<1>8. CASE ReadNone(p)
  BY <1>8 DEF ReadNone
<1>9. CASE Truncate(p)
  BY <1>9 DEF Truncate
<1>10. CASE Write(p)
  BY <1>10 DEF Write
<1>11. CASE GetNone(p)
  BY <1>11 DEF GetNone
<1>12. CASE GetExisting(p)
  BY <1>12 DEF GetExisting
<1>13. CASE Assign(p)
  BY <1>13 DEF Assign
<1>14. CASE StartNode(p)
  BY <1>14 DEF StartNode
<1>15. CASE StartRefused(p)
  BY <1>15 DEF StartRefused
<1>16. CASE Created(p)
  BY <1>16 DEF Created
<1>17. CASE Remove(p)
  BY <1>17 DEF Remove
<1>18. CASE Stopped(p)
  BY <1>18 DEF Stopped
<1>19. CASE \E x \in mine[p] : StopNode(p, x)
  BY <1>19 DEF StopNode
<1>20. CASE Crash(p)
  BY <1>20 DEF Crash
<1>. QED
  BY <1>1, <1>2, <1>3, <1>4, <1>5, <1>6, <1>7, <1>8, <1>9, <1>10, <1>11, <1>12, <1>13, <1>14, <1>15, <1>16, <1>17, <1>18, <1>19, <1>20 DEF StepOf, Step, DbStep, ClusterStep

\* One process at a time works on a cluster name.
LEMMA ExclusiveStep ==
    ASSUME TypeOK, Exclusive, ExclusiveInv,
           NEW p \in Proc, StepOf(p)
    PROVE  ExclusiveInv'
<1>. USE DEF TypeOK, ExclusiveInv, Goto, Pc, Active
<1>1. CASE \E o \in {"script", "remove"}, c \in Cluster, n \in 1 .. MaxNodes :
                Begin(p, o, c, n)
  BY <1>1 DEF Begin
<1>2. CASE Lock(p)
  BY <1>2 DEF Lock
<1>3. CASE InitDb(p)
  BY <1>3 DEF InitDb
<1>4. CASE AllocExisting(p)
  BY <1>4 DEF AllocExisting
<1>5. CASE AllocNew(p)
  BY <1>5 DEF AllocNew
<1>6. CASE AllocNone(p)
  BY <1>6 DEF AllocNone
<1>7. CASE FreeAddr(p)
  BY <1>7 DEF FreeAddr
<1>8. CASE ReadNone(p)
  BY <1>8 DEF ReadNone
<1>9. CASE Truncate(p)
  BY <1>9 DEF Truncate
<1>10. CASE Write(p)
  BY <1>10 DEF Write
<1>11. CASE GetNone(p)
  BY <1>11 DEF GetNone
<1>12. CASE GetExisting(p)
  BY <1>12 DEF GetExisting
<1>13. CASE Assign(p)
  BY <1>13 DEF Assign
<1>14. CASE StartNode(p)
  BY <1>14 DEF StartNode
<1>15. CASE StartRefused(p)
  BY <1>15 DEF StartRefused
<1>16. CASE Created(p)
  BY <1>16 DEF Created
<1>17. CASE Remove(p)
  BY <1>17 DEF Remove
<1>18. CASE Stopped(p)
  BY <1>18 DEF Stopped
<1>19. CASE \E x \in mine[p] : StopNode(p, x)
  BY <1>19 DEF StopNode
<1>20. CASE Crash(p)
  BY <1>20 DEF Crash
<1>. QED
  BY <1>1, <1>2, <1>3, <1>4, <1>5, <1>6, <1>7, <1>8, <1>9, <1>10, <1>11, <1>12, <1>13, <1>14, <1>15, <1>16, <1>17, <1>18, <1>19, <1>20 DEF StepOf, Step, DbStep, ClusterStep

\* A process that is past _get() keeps knowing the instances of its cluster.
LEMMA MineStep ==
    ASSUME TypeOK, ExclusiveInv, MineInv,
           NEW p \in Proc, StepOf(p)
    PROVE  MineInv'
<1>. USE SClusterAssumption DEF TypeOK, MineInv, Informed, DbPc, Goto, Pc
<1>1. CASE \E o \in {"script", "remove"}, c \in Cluster, n \in 1 .. MaxNodes :
                Begin(p, o, c, n)
  BY <1>1 DEF Begin
<1>2. CASE Lock(p)
  BY <1>2 DEF Lock
<1>3. CASE InitDb(p)
  BY <1>3 DEF InitDb
<1>4. CASE AllocExisting(p)
  BY <1>4 DEF AllocExisting
<1>5. CASE AllocNew(p)
  BY <1>5 DEF AllocNew
<1>6. CASE AllocNone(p)
  BY <1>6 DEF AllocNone
<1>7. CASE FreeAddr(p)
  BY <1>7 DEF FreeAddr
<1>8. CASE ReadNone(p)
  BY <1>8 DEF ReadNone
<1>9. CASE Truncate(p)
  BY <1>9 DEF Truncate
<1>10. CASE Write(p)
  BY <1>10 DEF Write
<1>11. CASE GetNone(p)
  <2>1. \A x \in running : x.cluster # cl[p]
    BY <1>11 DEF GetNone, Found
  <2>. QED
    BY <1>11, <2>1 DEF GetNone
<1>12. CASE GetExisting(p)
  <2>1. \A x \in running : x.cluster = cl[p] => x \in Found(p)
    BY DEF Found
  <2>2. \E l \in {"up", "ended", "stop"} : pc' = [pc EXCEPT ![p] = l]
    BY <1>12 DEF GetExisting
  <2>3. /\ mine' = [mine EXCEPT ![p] = Found(p)]
        /\ UNCHANGED <<task, cl, running>>
    BY <1>12 DEF GetExisting
  <2>. QED
    BY <2>1, <2>2, <2>3
<1>13. CASE Assign(p)
  BY <1>13 DEF Assign
<1>14. CASE StartNode(p)
  <2>1. PICK x :
          /\ x.cluster = cl[p]
          /\ running' = running \cup {x}
          /\ mine' = [mine EXCEPT ![p] = @ \cup {x}]
    BY <1>14 DEF StartNode
  <2>2. UNCHANGED <<pc, task, cl>> /\ pc[p] = "start"
    BY <1>14 DEF StartNode
  <2>3. \A q \in Proc : q # p /\ Informed(q) => cl[q] # cl[p]
    BY <2>2 DEF ExclusiveInv, Active
  <2>4. \A y \in running' : y.cluster = cl[p] => y \in mine'[p]
    BY <2>1, <2>2
  <2>5. \A q \in Proc : q # p => mine'[q] = mine[q]
    BY <2>1
  <2>6. ASSUME NEW q \in Proc, q # p, Informed(q)
        PROVE  \A y \in running' : y.cluster = cl[q] => y \in mine[q]
    BY <2>1, <2>3, <2>6
  <2>7. \A q \in Proc : Informed(q)' <=> Informed(q)
    BY <2>2
  <2>. QED
    BY <2>2, <2>4, <2>5, <2>6, <2>7, ZenonT(60)
<1>15. CASE StartRefused(p)
  BY <1>15 DEF StartRefused
<1>16. CASE Created(p)
  BY <1>16 DEF Created
<1>17. CASE Remove(p)
  BY <1>17 DEF Remove
<1>18. CASE Stopped(p)
  BY <1>18 DEF Stopped
<1>19. CASE \E x \in mine[p] : StopNode(p, x)
  <2>1. PICK x \in mine[p] : StopNode(p, x)
    BY <1>19
  <2>2. \A y \in running' : y \in running /\ y # x
    BY <2>1 DEF StopNode, Named
  <2>3. pc' = pc \/ pc' = [pc EXCEPT ![p] = "ended"]
    BY <2>1 DEF StopNode
  <2>4. /\ mine' = [mine EXCEPT ![p] = @ \ {x}]
        /\ UNCHANGED <<task, cl>>
        /\ pc[p] = "stop"
    BY <2>1 DEF StopNode
  <2>. QED
    BY <2>2, <2>3, <2>4
<1>20. CASE Crash(p)
  BY <1>20 DEF Crash
<1>. QED
  BY <1>1, <1>2, <1>3, <1>4, <1>5, <1>6, <1>7, <1>8, <1>9, <1>10, <1>11, <1>12, <1>13, <1>14, <1>15, <1>16, <1>17, <1>18, <1>19, <1>20 DEF StepOf, Step, DbStep, ClusterStep

\* Every address in use, or handed to a process that is about to use it, is in
\* the file, and in a table on its way to the file.
LEMMA CoverStep ==
    ASSUME TypeOK, ExclusiveInv, LockInv, MineInv, FileInv, WriteInv, ~Torn,
           NEW p \in Proc, StepOf(p)
    PROVE  FileInv' /\ WriteInv'
<1>. USE EmptyAssumption DEF TypeOK, FileInv, WriteInv, Covers, Fresh, Goto, Pc
<1>1. CASE \E o \in {"script", "remove"}, c \in Cluster, n \in 1 .. MaxNodes :
                Begin(p, o, c, n)
  BY <1>1, SMTT(40) DEF Begin
<1>2. CASE Lock(p)
  BY <1>2 DEF Lock
<1>3. CASE InitDb(p)
  <2>1. CASE file = EMPTY
    <3>1. \A q \in Proc : pc[q] # "write"
      BY <1>3 DEF InitDb, LockInv, DbPc
    <3>2. Fresh
      BY <2>1, <3>1
    <3>3. /\ pc' = [pc EXCEPT ![p] = "trunc"] /\ task[p] = "init"
          /\ UNCHANGED <<file, running, addrs, task>>
      BY <1>3, <2>1 DEF InitDb
    <3>4. Fresh'
      BY <3>2, <3>3
    <3>5. WriteInv'
      BY <3>4
    <3>. QED
      BY <2>1, <3>3, <3>4, <3>5
  <2>2. CASE file # EMPTY
    <3>1. /\ pc' = [pc EXCEPT ![p] = "get"] /\ pc[p] = "read"
          /\ UNCHANGED <<file, running, addrs, task, cl, db>>
      BY <1>3, <2>2 DEF InitDb
    <3>. QED
      BY <2>2, <3>1
  <2>. QED
    BY <2>1, <2>2
<1>4. CASE AllocExisting(p)
  <2>1. \A q \in Proc : pc'[q] \notin {"trunc", "write"}
    BY <1>4 DEF AllocExisting, LockInv, DbPc
  <2>2. Covers(file)'
    BY <1>4 DEF AllocExisting
  <2>. QED
    BY <1>4, <2>1, <2>2 DEF AllocExisting
<1>5. CASE AllocNew(p)
  <2>1. PICK S \in SUBSET Addr :
          /\ addrs' = [addrs EXCEPT ![p] = S]
          /\ db' = [db EXCEPT ![p] = [file EXCEPT ![cl[p]] = AnEntry(S)]]
    BY <1>5 DEF AllocNew
  <2>2. /\ pc' = [pc EXCEPT ![p] = "trunc"] /\ pc[p] = "read"
        /\ file # EMPTY /\ file \in Table /\ task[p] = "alloc"
        /\ UNCHANGED <<file, running, cl, task>>
    BY <1>5 DEF AllocNew
  <2>3. \A x \in running : x.cluster # cl[p]
    BY <2>2 DEF MineInv, Informed, DbPc
  <2>4. \A q \in Proc : pc[q] = "start" => cl[q] # cl[p]
    BY <2>2 DEF ExclusiveInv, Active
  <2>5. \A q \in Proc : q # p => pc[q] \notin {"trunc", "write"}
    BY <2>2 DEF LockInv, DbPc
  <2>6. /\ \A c \in Cluster : c # cl[p] => db'[p][c] = file[c]
        /\ db'[p][cl[p]].addrs = S
    BY <2>1, <2>2 DEF Table, AnEntry
  <2>7. Covers(db[p])'
    BY <2>1, <2>2, <2>3, <2>4, <2>6 DEF Instance
  <2>8. Covers(file)'
    BY <2>1, <2>2
  <2>. QED
    BY <2>1, <2>2, <2>5, <2>6, <2>7, <2>8
<1>6. CASE AllocNone(p)
  BY <1>6 DEF AllocNone
<1>7. CASE FreeAddr(p)
  <2>2. /\ pc' = [pc EXCEPT ![p] = "trunc"] /\ pc[p] = "read"
        /\ file # EMPTY /\ file \in Table /\ task[p] = "free"
        /\ db' = [db EXCEPT ![p] = [file EXCEPT ![cl[p]] = NoEntry]]
        /\ UNCHANGED <<file, running, cl, task, addrs>>
    BY <1>7 DEF FreeAddr
  <2>3. \A x \in running : x.cluster # cl[p]
    BY <2>2 DEF MineInv, Informed, DbPc
  <2>4. \A q \in Proc : pc[q] = "start" => cl[q] # cl[p]
    BY <2>2 DEF ExclusiveInv, Active
  <2>5. \A q \in Proc : q # p => pc[q] \notin {"trunc", "write"}
    BY <2>2 DEF LockInv, DbPc
  <2>6. \A c \in Cluster : c # cl[p] => db'[p][c] = file[c]
    BY <2>2 DEF Table
  <2>7. Covers(db[p])'
    BY <2>2, <2>3, <2>4, <2>6 DEF Instance
  <2>. QED
    BY <2>2, <2>5, <2>7
<1>8. CASE ReadNone(p)
  BY <1>8 DEF ReadNone
<1>9. CASE Truncate(p)
  BY <1>9 DEF Truncate
<1>10. CASE Write(p)
  <2>1. /\ file' = db[p] /\ file' # EMPTY
        /\ UNCHANGED <<running, cl, task, addrs, db>>
        /\ pc[p] = "write"
    BY <1>10 DEF Write
  <2>2. \A q \in Proc : q # p => pc'[q] = pc[q]
    BY <1>10 DEF Write
  <2>3. pc'[p] \in {"get", "start", "done"} /\ (pc'[p] = "start" => task[p] = "alloc")
    BY <1>10 DEF Write
  <2>4. \A q \in Proc : q # p => pc[q] \notin {"trunc", "write"}
    BY <2>1 DEF LockInv, DbPc
  <2>5. Covers(file)'
    BY <2>1, <2>2, <2>3
  <2>. QED
    BY <2>1, <2>2, <2>3, <2>4, <2>5
<1>11. CASE GetNone(p)
  BY <1>11 DEF GetNone
<1>12. CASE GetExisting(p)
  <2>1. \E l \in {"up", "ended", "stop"} : pc' = [pc EXCEPT ![p] = l]
    BY <1>12 DEF GetExisting
  <2>2. pc[p] = "get" /\ UNCHANGED <<task, cl, addrs, db, file, running>>
    BY <1>12 DEF GetExisting
  <2>. QED
    BY <2>1, <2>2, SMTT(40)
<1>13. CASE Assign(p)
  BY <1>13 DEF Assign
<1>14. CASE StartNode(p)
  <2>1. PICK x :
          /\ x.cluster = cl[p] /\ x.addr \in addrs[p]
          /\ running' = running \cup {x}
    BY <1>14 DEF StartNode
  <2>2. pc[p] = "start" /\ UNCHANGED <<pc, task, cl, addrs, db, file>>
    BY <1>14 DEF StartNode
  <2>3. ASSUME NEW t \in Table, Covers(t)
        PROVE  Covers(t)'
    BY <2>1, <2>2, <2>3
  <2>4. FileInv'
    BY <2>2, <2>3
  <2>5. WriteInv'
    BY <2>2, <2>3
  <2>. QED
    BY <2>4, <2>5
<1>15. CASE StartRefused(p)
  BY <1>15 DEF StartRefused
<1>16. CASE Created(p)
  BY <1>16 DEF Created
<1>17. CASE Remove(p)
  BY <1>17 DEF Remove
<1>18. CASE Stopped(p)
  BY <1>18 DEF Stopped
<1>19. CASE \E x \in mine[p] : StopNode(p, x)
  <2>1. running' \subseteq running
    BY <1>19 DEF StopNode
  <2>2. pc' = pc \/ pc' = [pc EXCEPT ![p] = "ended"]
    BY <1>19 DEF StopNode
  <2>3. pc[p] = "stop" /\ UNCHANGED <<task, cl, addrs, db, file>>
    BY <1>19 DEF StopNode
  <2>. QED
    BY <2>1, <2>2, <2>3, ZenonT(60)
<1>20. CASE Crash(p)
  BY <1>20 DEF Crash
<1>. QED
  BY <1>1, <1>2, <1>3, <1>4, <1>5, <1>6, <1>7, <1>8, <1>9, <1>10, <1>11, <1>12, <1>13, <1>14, <1>15, <1>16, <1>17, <1>18, <1>19, <1>20 DEF StepOf, Step, DbStep, ClusterStep

\* Every step is a step of one process, or changes nothing.
LEMMA StepOfOne ==
    ASSUME [Next]_vars
    PROVE  (\E p \in Proc : StepOf(p)) \/ UNCHANGED vars
BY DEF Next, StepOf

\* Every variable of the cluster processes, of the address file and of the
\* hosts keeps its type, whatever runs at the same time and wherever it ends.
THEOREM TypeCorrect == Spec => []TypeOK
<1>1. Init => TypeOK /\ AssignedInv
  <2>. SUFFICES ASSUME Init PROVE TypeOK /\ AssignedInv
    OBVIOUS
  <2>1. MaxNodes \in Nat \ {0} /\ (CHOOSE c \in Cluster : TRUE) \in Cluster
    BY SClusterAssumption
  <2>2. <<>> \in [1 .. 0 -> Host] /\ 0 \in 0 .. MaxNodes
    BY <2>1
  <2>3. hosts \in [Proc -> UNION {[1 .. n -> Host] : n \in 0 .. MaxNodes}]
    BY <2>2 DEF Init
  <2>4. cl \in [Proc -> Cluster] /\ size \in [Proc -> 1 .. MaxNodes]
    BY <2>1 DEF Init
  <2>5. db \in [Proc -> Table] /\ file \in Table \cup {EMPTY}
    BY EmptyTable DEF Init
  <2>6. started \in [Proc -> 0 .. MaxNodes]
    BY <2>1 DEF Init
  <2>7. TypeOK
    BY <2>3, <2>4, <2>5, <2>6 DEF Init, TypeOK, Pc
  <2>8. AssignedInv
    BY DEF Init, AssignedInv, DbPc
  <2>. QED
    BY <2>7, <2>8
<1>2. TypeOK /\ AssignedInv /\ [Next]_vars => (TypeOK /\ AssignedInv)'
  <2>. SUFFICES ASSUME TypeOK, AssignedInv, [Next]_vars
                PROVE  (TypeOK /\ AssignedInv)'
    OBVIOUS
  <2>1. CASE UNCHANGED vars
    BY <2>1 DEF TypeOK, AssignedInv, vars, procVars
  <2>2. CASE \E p \in Proc : StepOf(p)
    BY <2>2, TypeStep
  <2>. QED
    BY <2>1, <2>2, StepOfOne
<1>. QED
  BY <1>1, <1>2, PTL DEF Spec

\* The file and the tables on their way to it are always disjoint.
LEMMA DisjointInvariant == Spec => [](TableDisjoint /\ WriteDisjoint)
<1>1. Init => TableDisjoint /\ WriteDisjoint
  BY EmptyDisjoint DEF Init, TableDisjoint, WriteDisjoint
<1>2. TypeOK /\ TableDisjoint /\ WriteDisjoint /\ [Next]_vars
        => (TableDisjoint /\ WriteDisjoint)'
  <2>. SUFFICES ASSUME TypeOK, TableDisjoint, WriteDisjoint, [Next]_vars
                PROVE  (TableDisjoint /\ WriteDisjoint)'
    OBVIOUS
  <2>1. CASE UNCHANGED vars
    BY <2>1 DEF TableDisjoint, WriteDisjoint, Disjoint, vars, procVars
  <2>2. CASE \E p \in Proc : StepOf(p)
    BY <2>2, DisjointStep
  <2>. QED
    BY <2>1, <2>2, StepOfOne
<1>. QED
  BY <1>1, <1>2, TypeCorrect, PTL DEF Spec

\* The address file never gives one address to two clusters: not with scripts
\* that share a cluster name, and not after a process ended between truncate()
\* and write().
THEOREM TableDisjointAlways == Spec => []TableDisjoint
BY DisjointInvariant, PTL

\* The invariant that keeps the address of an instance out of reach of every
\* other cluster.
LEMMA CoveringInvariant ==
    ASSUME Exclusive, ~Torn
    PROVE  Spec => [](LockInv /\ ExclusiveInv /\ MineInv /\ FileInv /\ WriteInv)
<1>. DEFINE Inv == LockInv /\ ExclusiveInv /\ MineInv /\ FileInv /\ WriteInv
<1>1. Init => Inv
  BY SClusterAssumption, EmptyAssumption
  DEF Init, LockInv, ExclusiveInv, MineInv, FileInv, WriteInv, Active,
      Informed, DbPc, Fresh, Covers
<1>2. TypeOK /\ Inv /\ [Next]_vars => Inv'
  <2>. SUFFICES ASSUME TypeOK, Inv, [Next]_vars
                PROVE  Inv'
    OBVIOUS
  <2>1. CASE UNCHANGED vars
    BY <2>1 DEF LockInv, ExclusiveInv, MineInv, FileInv, WriteInv, Active,
      Informed, DbPc, Fresh, Covers, vars, procVars
  <2>2. CASE \E p \in Proc : StepOf(p)
    BY <2>2, LockStep, ExclusiveStep, MineStep, CoverStep
  <2>. QED
    BY <2>1, <2>2, StepOfOne
<1>. QED
  BY <1>1, <1>2, TypeCorrect, PTL DEF Spec

\* Instances of two clusters never share an address, for any number of scripts
\* and remove_cluster calls that end anywhere outside _write(), if no two of
\* them work on one cluster name at the same time.
THEOREM ClustersApartAlways ==
    ASSUME Exclusive, ~Torn
    PROVE  Spec => []ClustersApart
<1>1. /\ TypeOK /\ LockInv /\ FileInv /\ WriteInv
      /\ TableDisjoint /\ WriteDisjoint
      => ClustersApart
  <2>. SUFFICES ASSUME TypeOK, FileInv, WriteInv, TableDisjoint, WriteDisjoint
                PROVE  ClustersApart
    OBVIOUS
  <2>1. ASSUME NEW t \in Table, Covers(t), Disjoint(t)
        PROVE  ClustersApart
    BY <2>1 DEF Covers, Disjoint, ClustersApart, TypeOK, Instance
  <2>2. CASE file # EMPTY
    BY <2>1, <2>2 DEF FileInv, TableDisjoint, TypeOK
  <2>3. CASE file = EMPTY /\ Fresh
    BY <2>3 DEF Fresh, ClustersApart
  <2>4. CASE file = EMPTY /\ ~Fresh
    <3>1. PICK p \in Proc : pc[p] = "write"
      BY <2>4 DEF FileInv
    <3>2. db[p] \in Table /\ Covers(db[p]) /\ Disjoint(db[p])
      BY <3>1 DEF WriteInv, WriteDisjoint, TypeOK
    <3>. QED
      BY <2>1, <3>2
  <2>. QED
    BY <2>2, <2>3, <2>4
<1>. QED
  BY <1>1, TypeCorrect, DisjointInvariant, CoveringInvariant, PTL

\* Under the same assumptions the file assigns every address in use to the
\* cluster that uses it.
THEOREM AssignmentsKeptAlways ==
    ASSUME Exclusive, ~Torn
    PROVE  Spec => []AssignmentsKept
<1>1. FileInv => AssignmentsKept
  BY DEF FileInv, Covers, AssignmentsKept
<1>. QED
  BY <1>1, CoveringInvariant, PTL

-----------------------------------------------------------------------------
(* What only some of the steps do. *)

\* The other processes are where they were, with what they had.
Others(p) ==
    \A q \in Proc \ {p} :
        /\ pc'[q] = pc[q] /\ task'[q] = task[q] /\ cl'[q] = cl[q]
        /\ size'[q] = size[q] /\ addrs'[q] = addrs[q]
        /\ started'[q] = started[q] /\ db'[q] = db[q]

\* A step leaves the file alone unless it prepares, begins or ends _write().
FileAlone(p) ==
    /\ file' = file
    /\ pc[p] # "write" \/ (Torn /\ Crash(p))
    /\ pc'[p] \notin {"trunc", "write"}

\* What a step of p may do to the others, to the file and to the instances.
LEMMA StepEffects ==
    ASSUME TypeOK, NEW p \in Proc, StepOf(p)
    PROVE  /\ Others(p)
           /\ \/ FileAlone(p) \/ InitDb(p) \/ AllocNew(p) \/ FreeAddr(p)
              \/ Truncate(p) \/ Write(p)
           /\ StartNode(p) \/ running' \subseteq running
           /\ pc'[p] = "start" => AllocExisting(p) \/ Write(p) \/ StartNode(p)
           /\ pc'[p] = "done" => Write(p) \/ pc[p] = "done"
<1>. USE DEF TypeOK, Goto, Pc, Others, FileAlone
<1>1. CASE \E o \in {"script", "remove"}, c \in Cluster, n \in 1 .. MaxNodes :
                Begin(p, o, c, n)
  BY <1>1 DEF Begin
<1>2. CASE Lock(p)
  BY <1>2 DEF Lock
<1>3. CASE InitDb(p)
  BY <1>3 DEF InitDb
<1>4. CASE AllocExisting(p)
  BY <1>4 DEF AllocExisting
<1>5. CASE AllocNew(p)
  <2>1. PICK S \in SUBSET Addr :
          /\ addrs' = [addrs EXCEPT ![p] = S]
          /\ db' = [db EXCEPT ![p] = [file EXCEPT ![cl[p]] = AnEntry(S)]]
    BY <1>5 DEF AllocNew
  <2>2. /\ pc' = [pc EXCEPT ![p] = "trunc"]
        /\ UNCHANGED <<task, cl, size, started, file, running>>
    BY <1>5 DEF AllocNew
  <2>. QED
    BY <1>5, <2>1, <2>2
<1>6. CASE AllocNone(p)
  BY <1>6 DEF AllocNone
<1>7. CASE FreeAddr(p)
  BY <1>7 DEF FreeAddr
<1>8. CASE ReadNone(p)
  BY <1>8 DEF ReadNone
<1>9. CASE Truncate(p)
  BY <1>9 DEF Truncate
<1>10. CASE Write(p)
  <2>1. /\ \E l \in {"get", "start", "done"} : pc' = [pc EXCEPT ![p] = l]
        /\ UNCHANGED <<task, cl, size, addrs, started, db, running>>
    BY <1>10 DEF Write
  <2>. QED
    BY <1>10, <2>1
<1>11. CASE GetNone(p)
  BY <1>11 DEF GetNone
<1>12. CASE GetExisting(p)
  <2>1. pc[p] = "get" /\ \E l \in {"up", "ended", "stop"} : pc' = [pc EXCEPT ![p] = l]
    BY <1>12 DEF GetExisting
  <2>2. UNCHANGED <<task, cl, size, addrs, started, db, file, running>>
    BY <1>12 DEF GetExisting
  <2>. QED
    BY <2>1, <2>2
<1>13. CASE Assign(p)
  BY <1>13 DEF Assign
<1>14. CASE StartNode(p)
  <2>1. /\ started' = [started EXCEPT ![p] = @ + 1]
        /\ UNCHANGED <<pc, task, cl, size, addrs, db, file>> /\ pc[p] = "start"
    BY <1>14 DEF StartNode
  <2>. QED
    BY <1>14, <2>1
<1>15. CASE StartRefused(p)
  BY <1>15 DEF StartRefused
<1>16. CASE Created(p)
  BY <1>16 DEF Created
<1>17. CASE Remove(p)
  BY <1>17 DEF Remove
<1>18. CASE Stopped(p)
  BY <1>18 DEF Stopped
<1>19. CASE \E x \in mine[p] : StopNode(p, x)
  <2>1. PICK x \in mine[p] : StopNode(p, x)
    BY <1>19
  <2>2. pc' = pc \/ pc' = [pc EXCEPT ![p] = "ended"]
    BY <2>1 DEF StopNode
  <2>3. /\ running' \subseteq running /\ pc[p] = "stop"
        /\ UNCHANGED <<task, cl, size, addrs, started, db, file>>
    BY <2>1 DEF StopNode
  <2>. QED
    BY <2>2, <2>3
<1>20. CASE Crash(p)
  BY <1>20 DEF Crash
<1>. QED
  BY <1>1, <1>2, <1>3, <1>4, <1>5, <1>6, <1>7, <1>8, <1>9, <1>10, <1>11, <1>12, <1>13, <1>14, <1>15, <1>16, <1>17, <1>18, <1>19, <1>20 DEF StepOf, Step, DbStep, ClusterStep

\* The owner of the lock is the only one that prepares or does a _write().
LEMMA OneWriter ==
    ASSUME LockInv, NEW p \in Proc, NEW q \in Proc, pc[p] \in DbPc, q # p
    PROVE  pc[q] \notin {"read", "trunc", "write"}
BY DEF LockInv, DbPc

\* What a process is about to write still fits the file.
LEMMA DbInvStep ==
    ASSUME TypeOK, LockInv, DbInv, NEW p \in Proc, StepOf(p)
    PROVE  DbInv'
<1>. DEFINE Fits(q) ==
              /\ pc[q] = "trunc" =>
                    \/ task[q] = "init" /\ file = EMPTY /\ db[q] = NoAllocs
                    \/ /\ task[q] = "free" /\ file # EMPTY
                       /\ db[q] = [file EXCEPT ![cl[q]] = NoEntry]
                    \/ /\ task[q] = "alloc" /\ file # EMPTY /\ ~file[cl[q]].entry
                       /\ \E S \in SUBSET Addr :
                             /\ FirstFree(size[q], S)
                             /\ db[q] = [file EXCEPT ![cl[q]] = AnEntry(S)]
              /\ pc[q] = "write" =>
                    /\ file = EMPTY
                    /\ task[q] = "free" => db[q][cl[q]] = NoEntry
<1>0. DbInv <=> \A q \in Proc : Fits(q)
  BY DEF DbInv
<1>1. Others(p)
  BY StepEffects
<1>2. ASSUME NEW q \in Proc, q # p, file' = file
      PROVE  Fits(q)'
  <2>1. /\ pc'[q] = pc[q] /\ task'[q] = task[q] /\ cl'[q] = cl[q]
        /\ size'[q] = size[q] /\ db'[q] = db[q]
    BY <1>1, <1>2 DEF Others
  <2>2. \A S : FirstFree(size[q], S)' <=> FirstFree(size[q], S)
    BY <1>2, <2>1 DEF FirstFree, Taken
  <2>3. Fits(q)
    BY <1>0
  <2>. QED
    BY <1>2, <2>1, <2>2, <2>3
<1>3. ASSUME NEW q \in Proc, q # p, pc[p] \in {"trunc", "write"}
      PROVE  Fits(q)'
  <2>1. pc[q] \notin {"read", "trunc", "write"}
    BY <1>3, OneWriter DEF DbPc
  <2>2. pc'[q] = pc[q]
    BY <1>1, <1>3 DEF Others
  <2>. QED
    BY <2>1, <2>2
<1>4. CASE FileAlone(p)
  <2>1. Fits(p)'
    BY <1>4 DEF FileAlone
  <2>2. file' = file
    BY <1>4 DEF FileAlone
  <2>. QED
    BY <1>0, <1>2, <2>1, <2>2 DEF DbInv
<1>5. CASE InitDb(p)
  <2>1. file' = file /\ task' = task /\ task[p] = "init"
    BY <1>5 DEF InitDb
  <2>2. Fits(p)'
    <3>1. CASE file = EMPTY
      <4>1. db'[p] = NoAllocs /\ pc'[p] = "trunc"
        BY <1>5, <3>1 DEF InitDb, Goto, TypeOK
      <4>. QED
        BY <2>1, <3>1, <4>1
    <3>2. CASE file # EMPTY
      <4>1. pc'[p] = "get"
        BY <1>5, <3>2 DEF InitDb, Goto, TypeOK
      <4>. QED
        BY <4>1
    <3>. QED
      BY <3>1, <3>2
  <2>. QED
    BY <1>2, <2>1, <2>2 DEF DbInv
<1>6. CASE FreeAddr(p)
  <2>1. /\ file' = file /\ task' = task /\ cl' = cl /\ task[p] = "free" /\ file # EMPTY
        /\ pc'[p] = "trunc" /\ db'[p] = [file EXCEPT ![cl[p]] = NoEntry]
    BY <1>6 DEF FreeAddr, Goto, TypeOK
  <2>2. Fits(p)'
    BY <2>1
  <2>. QED
    BY <1>2, <2>1, <2>2 DEF DbInv
<1>7. CASE AllocNew(p)
  <2>1. PICK S \in SUBSET Addr :
          /\ FirstFree(size[p], S)
          /\ db' = [db EXCEPT ![p] = [file EXCEPT ![cl[p]] = AnEntry(S)]]
    BY <1>7 DEF AllocNew
  <2>2. /\ file' = file /\ task' = task /\ cl' = cl /\ size' = size
        /\ task[p] = "alloc" /\ file # EMPTY /\ ~file[cl[p]].entry
        /\ pc'[p] = "trunc"
    BY <1>7 DEF AllocNew, Goto, TypeOK
  <2>3. db'[p] = [file EXCEPT ![cl[p]] = AnEntry(S)]
    BY <2>1 DEF TypeOK
  <2>4. FirstFree(size[p], S)'
    BY <2>1, <2>2 DEF FirstFree, Taken
  <2>5. Fits(p)'
    BY <2>2, <2>3, <2>4
  <2>. QED
    BY <1>2, <2>2, <2>5 DEF DbInv
<1>8. CASE Truncate(p)
  <2>1. /\ pc[p] = "trunc" /\ pc'[p] = "write" /\ file' = EMPTY
        /\ UNCHANGED <<task, cl, db>>
    BY <1>8 DEF Truncate, Goto, TypeOK
  <2>2. task[p] = "free" => db[p][cl[p]] = NoEntry
    <3>1. task[p] = "free" => file # EMPTY /\ db[p] = [file EXCEPT ![cl[p]] = NoEntry]
      BY <2>1 DEF DbInv
    <3>. QED
      BY <3>1 DEF TypeOK, Table
  <2>3. Fits(p)'
    BY <2>1, <2>2
  <2>. QED
    BY <1>3, <2>1, <2>3 DEF DbInv
<1>9. CASE Write(p)
  <2>1. pc[p] = "write" /\ pc'[p] \in {"get", "start", "done"}
    BY <1>9 DEF Write, Goto, TypeOK
  <2>2. Fits(p)'
    BY <2>1
  <2>. QED
    BY <1>3, <2>1, <2>2 DEF DbInv
<1>. QED
  BY <1>4, <1>5, <1>6, <1>7, <1>8, <1>9, StepEffects

\* Lock and DbInv, without any assumption on who runs when.
LEMMA DbInvariant == Spec => [](LockInv /\ DbInv)
<1>1. Init => LockInv /\ DbInv
  BY SClusterAssumption DEF Init, LockInv, DbInv, DbPc
<1>2. TypeOK /\ LockInv /\ DbInv /\ [Next]_vars => (LockInv /\ DbInv)'
  <2>. SUFFICES ASSUME TypeOK, LockInv, DbInv, [Next]_vars
                PROVE  LockInv' /\ DbInv'
    OBVIOUS
  <2>1. CASE UNCHANGED vars
    BY <2>1 DEF LockInv, DbInv, DbPc, FirstFree, Taken, vars, procVars
  <2>2. CASE \E p \in Proc : StepOf(p)
    BY <2>2, LockStep, DbInvStep
  <2>. QED
    BY <2>1, <2>2, StepOfOne
<1>. QED
  BY <1>1, <1>2, TypeCorrect, PTL DEF Spec

\* Unless a process ends inside _write(), a step that leaves the file alone
\* leaves the committed table alone.
LEMMA CommittedKept ==
    ASSUME TypeOK, TypeOK', LockInv, LockInv', NEW p \in Proc, Others(p),
           file' = file, pc[p] # "write", pc'[p] # "write"
    PROVE  Committed' = Committed
<1>1. CASE file # EMPTY
  BY <1>1 DEF Committed, EMPTY
<1>2. CASE file = EMPTY
  <2>1. CASE lock # NULL /\ pc[lock] = "write"
    <3>1. lock \in Proc /\ lock # p
      BY <2>1 DEF TypeOK
    <3>2. PICK q \in Proc : q = lock
      BY <3>1
    <3>3. pc'[q] = "write" /\ db'[q] = db[q]
      BY <2>1, <3>1, <3>2 DEF Others
    <3>4. lock' = q
      BY <3>3 DEF LockInv, DbPc
    <3>. QED
      BY <1>2, <2>1, <3>2, <3>3, <3>4 DEF Committed, EMPTY
  <2>2. CASE ~(lock # NULL /\ pc[lock] = "write")
    <3>1. \A q \in Proc : pc'[q] # "write"
      <4>1. \A q \in Proc : pc[q] # "write"
        BY <2>2, SClusterAssumption DEF LockInv, DbPc
      <4>. QED
        BY <4>1 DEF Others
    <3>2. ~(lock' # NULL /\ pc'[lock'] = "write")
      BY <3>1 DEF TypeOK
    <3>. QED
      BY <1>2, <2>2, <3>2 DEF Committed
  <2>. QED
    BY <2>1, <2>2
<1>. QED
  BY <1>1, <1>2

\* truncate() commits what was prepared, as one step of the pool.
LEMMA TruncateCommits ==
    ASSUME TypeOK, LockInv, DbInv, NEW p \in Proc, Truncate(p)
    PROVE  Pool!Next \/ Committed' = Committed
<1>1. /\ pc[p] = "trunc" /\ pc'[p] = "write" /\ file' = EMPTY
      /\ UNCHANGED <<task, cl, size, db, lock>>
  BY DEF Truncate, Goto, TypeOK
<1>2. lock = p /\ p # NULL
  BY <1>1, SClusterAssumption DEF LockInv, DbPc
<1>3. Committed' = db[p]
  BY <1>1, <1>2 DEF Committed, EMPTY
<1>4. file # EMPTY => Committed = file
  BY DEF Committed
<1>5. CASE task[p] = "init" /\ file = EMPTY /\ db[p] = NoAllocs
  <2>1. Committed = NoAllocs
    BY <1>1, <1>2, <1>5 DEF Committed
  <2>. QED
    BY <1>3, <1>5, <2>1
<1>6. CASE file # EMPTY /\ db[p] = [file EXCEPT ![cl[p]] = NoEntry]
  <2>1. Committed' = [Committed EXCEPT ![cl[p]] = NoEntry] /\ cl[p] \in Cluster
    BY <1>3, <1>4, <1>6 DEF TypeOK
  <2>2. Pool!Free(cl[p])
    BY <2>1 DEF Pool!Free, Pool!Nothing, NoEntry
  <2>. QED
    BY <2>1, <2>2 DEF Pool!Next
<1>7. ASSUME file # EMPTY, ~file[cl[p]].entry, NEW S \in SUBSET Addr,
             FirstFree(size[p], S), db[p] = [file EXCEPT ![cl[p]] = AnEntry(S)]
      PROVE  Pool!Next
  <2>1. /\ Committed' = [Committed EXCEPT ![cl[p]] = AnEntry(S)] /\ cl[p] \in Cluster
        /\ ~Committed[cl[p]].entry /\ size[p] \in 1 .. MaxNodes
    BY <1>3, <1>4, <1>7 DEF TypeOK
  <2>2. Pool!Unused = Addr \ Taken
    BY <1>4, <1>7 DEF Pool!Unused, Taken
  <2>3. /\ S \in SUBSET Pool!Unused /\ Cardinality(S) = size[p]
        /\ \A x \in S, y \in Pool!Unused \ S : x < y
    BY <1>7, <2>2 DEF FirstFree
  <2>4. Committed' = [Committed EXCEPT ![cl[p]] = [entry |-> TRUE, addrs |-> S]]
    BY <2>1 DEF AnEntry
  <2>5. Pool!Cardinality(S) = Cardinality(S)
    BY DEF Cardinality, Pool!Cardinality
  <2>6. Pool!Alloc(cl[p], size[p])
    BY <2>1, <2>3, <2>4, <2>5 DEF Pool!Alloc
  <2>. QED
    BY <2>1, <2>6 DEF Pool!Next
<1>8. \/ task[p] = "init" /\ file = EMPTY /\ db[p] = NoAllocs
      \/ file # EMPTY /\ db[p] = [file EXCEPT ![cl[p]] = NoEntry]
      \/ /\ file # EMPTY /\ ~file[cl[p]].entry
         /\ \E S \in SUBSET Addr :
               FirstFree(size[p], S) /\ db[p] = [file EXCEPT ![cl[p]] = AnEntry(S)]
  BY <1>1 DEF DbInv
<1>. QED
  BY <1>5, <1>6, <1>7, <1>8

\* write() makes the file what was committed.
LEMMA WriteKeeps ==
    ASSUME TypeOK, LockInv, DbInv, NEW p \in Proc, Write(p)
    PROVE  Committed' = Committed
<1>1. pc[p] = "write" /\ file' = db[p] /\ file = EMPTY
  BY DEF Write, DbInv
<1>2. lock = p /\ p # NULL
  BY <1>1, SClusterAssumption DEF LockInv, DbPc
<1>3. db[p] # EMPTY
  BY EmptyAssumption DEF TypeOK
<1>4. Committed = db[p]
  BY <1>1, <1>2 DEF Committed
<1>5. Committed' = db[p]
  BY <1>1, <1>3 DEF Committed, EMPTY
<1>. QED
  BY <1>4, <1>5

\* IPAddrDb implements the pool: if no process ends inside _write(), all the
\* processes together, sharing cluster names or not, make one table that
\* changes in single steps, and no update is lost between a read and the write
\* that follows it.
THEOREM ImplementsPoolAlways ==
    ASSUME ~Torn
    PROVE  Spec => ImplementsPool
<1>1. Init => Pool!Init
  <2>. SUFFICES ASSUME Init PROVE Pool!Init
    OBVIOUS
  <2>1. Committed = NoAllocs
    BY DEF Init, Committed
  <2>. QED
    BY <2>1 DEF Pool!Init, Pool!Nothing, NoAllocs, NoEntry
<1>2. /\ TypeOK /\ TypeOK' /\ LockInv /\ LockInv' /\ DbInv /\ [Next]_vars
      => [Pool!Next]_Committed
  <2>. SUFFICES ASSUME TypeOK, TypeOK', LockInv, LockInv', DbInv, [Next]_vars
                PROVE  Pool!Next \/ Committed' = Committed
    OBVIOUS
  <2>1. CASE UNCHANGED vars
    BY <2>1 DEF vars, procVars, Committed, EMPTY
  <2>2. ASSUME NEW p \in Proc, StepOf(p)
        PROVE  Pool!Next \/ Committed' = Committed
    <3>1. Others(p)
      BY <2>2, StepEffects
    <3>2. CASE FileAlone(p)
      <4>1. file' = file /\ pc[p] # "write" /\ pc'[p] # "write"
        BY <3>2 DEF FileAlone
      <4>. QED
        BY <3>1, <4>1, CommittedKept
    <3>3. CASE InitDb(p) \/ AllocNew(p) \/ FreeAddr(p)
      <4>1. file' = file /\ pc[p] # "write" /\ pc'[p] # "write"
        <5>1. CASE InitDb(p)
          BY <5>1 DEF InitDb, Goto, TypeOK
        <5>2. CASE AllocNew(p)
          BY <5>2 DEF AllocNew, Goto, TypeOK
        <5>3. CASE FreeAddr(p)
          BY <5>3 DEF FreeAddr, Goto, TypeOK
        <5>. QED
          BY <3>3, <5>1, <5>2, <5>3
      <4>. QED
        BY <3>1, <4>1, CommittedKept
    <3>4. CASE Truncate(p)
      BY <3>4, TruncateCommits
    <3>5. CASE Write(p)
      BY <3>5, WriteKeeps
    <3>. QED
      BY <2>2, <3>2, <3>3, <3>4, <3>5, StepEffects
  <2>. QED
    BY <2>1, <2>2, StepOfOne
<1>. QED
  BY <1>1, <1>2, TypeCorrect, DbInvariant, PTL DEF Spec, ImplementsPool, Pool!Spec

\* When remove() returns, no instance and no address of the cluster is left,
\* for any number of scripts and remove_cluster calls that end anywhere outside
\* _write(), if no two of them work on one cluster name at the same time.
THEOREM RemoveLeavesNothingAlways ==
    ASSUME Exclusive, ~Torn
    PROVE  Spec => RemoveLeavesNothing
<1>1. TypeOK /\ MineInv /\ DbInv /\ [Next]_vars =>
        [\A p \in Proc : pc[p] # "done" /\ pc'[p] = "done" =>
            /\ \A x \in running' : x.cluster # cl[p]
            /\ file'[cl[p]] = NoEntry]_vars
  <2>. SUFFICES ASSUME TypeOK, MineInv, DbInv, [Next]_vars, ~UNCHANGED vars,
                       NEW p \in Proc, pc[p] # "done", pc'[p] = "done"
                PROVE  (\A x \in running' : x.cluster # cl[p]) /\ file'[cl[p]] = NoEntry
    OBVIOUS
  <2>1. PICK q \in Proc : StepOf(q)
    BY StepOfOne
  <2>2. q = p
    BY <2>1, StepEffects DEF Others
  <2>3. Write(p)
    BY <2>1, <2>2, StepEffects
  <2>4. pc[p] = "write" /\ task[p] = "free" /\ file' = db[p] /\ running' = running
    BY <2>3 DEF Write, Goto, TypeOK
  <2>5. \A x \in running : x.cluster # cl[p]
    BY <2>4 DEF MineInv, Informed, DbPc
  <2>6. db[p][cl[p]] = NoEntry
    BY <2>4 DEF DbInv
  <2>. QED
    BY <2>4, <2>5, <2>6
<1>. QED
  BY <1>1, TypeCorrect, CoveringInvariant, DbInvariant, PTL DEF Spec, RemoveLeavesNothing

\* The addresses of a cluster are used one after the other.
LEMMA RankStep ==
    ASSUME TypeOK, ExclusiveInv, MineInv, RankInv, InstancesApart, ClustersApart',
           NEW p \in Proc, StepOf(p)
    PROVE  RankInv' /\ InstancesApart'
<1>0. Others(p)
  BY StepEffects
<1>1. CASE StartNode(p)
  <2>. DEFINE k == started[p] + 1
              n(a) == [host |-> hosts[p][k], cluster |-> cl[p], node |-> k,
                       addr |-> a, size |-> size[p]]
  <2>0. PICK a \in addrs[p] : /\ Cardinality({b \in addrs[p] : b < a}) = k - 1
                              /\ running' = running \cup {n(a)}
    BY <1>1, Zenon DEF StartNode
  <2>. DEFINE x == n(a)
  <2>1a. x.cluster = cl[p] /\ x.addr = a
    OBVIOUS
  <2>1b. running' = running \cup {x} /\ Cardinality({b \in addrs[p] : b < a}) = k - 1
    BY <2>0, Zenon
  <2>. HIDE DEF x, n
  <2>1. x.cluster = cl[p] /\ x.addr = a /\ running' = running \cup {x}
    BY <2>1a, <2>1b
  <2>2. /\ pc[p] = "start" /\ started' = [started EXCEPT ![p] = @ + 1]
        /\ UNCHANGED <<pc, cl, addrs>>
    BY <1>1 DEF StartNode
  <2>3. started[p] \in Int /\ started'[p] = started[p] + 1
    BY <2>2 DEF TypeOK
  <2>4. Cardinality({b \in addrs[p] : b < a}) = started[p]
    BY <2>1b, <2>3
  <2>. HIDE DEF k
  <2>5. \A y \in running : y.cluster = cl[p] => y.addr # x.addr
    <3>1. SUFFICES ASSUME NEW y \in running, y.cluster = cl[p], y.addr = a
                   PROVE  FALSE
      BY <2>1
    <3>2. Cardinality({b \in addrs[p] : b < a}) < started[p]
      BY <2>2, <3>1 DEF RankInv
    <3>. QED
      BY <2>3, <2>4, <3>2
  <2>6. \A y \in running : y.cluster # cl[p] => y.addr # x.addr
    BY <2>1 DEF ClustersApart
  <2>7. InstancesApart'
    BY <2>1, <2>5, <2>6 DEF InstancesApart
  <2>8. ASSUME NEW q \in Proc, pc'[q] = "start", NEW y \in running', y.cluster = cl'[q]
        PROVE  Cardinality({b \in addrs'[q] : b < y.addr}) < started'[q]
    <3>1. CASE q = p
      <4>1. addrs'[q] = addrs[p]
        BY <2>2, <3>1
      <4>2. CASE y \in running
        <5>1. Cardinality({b \in addrs[p] : b < y.addr}) < started[p]
          BY <2>2, <2>8, <3>1, <4>2 DEF RankInv
        <5>2. y.addr \in Nat /\ IsFiniteSet({b \in addrs[p] : b < y.addr})
          <6>1. y.addr \in Nat
            BY <4>2, SClusterAssumption DEF TypeOK, Instance
          <6>2. {b \in addrs[p] : b < y.addr} \in SUBSET (0 .. y.addr)
            <7>1. \A b \in addrs[p] : b \in Nat
              BY SClusterAssumption DEF TypeOK
            <7>. QED
              BY <6>1, <7>1
          <6>3. IsFiniteSet(0 .. y.addr)
            BY <6>1, FS_Interval
          <6>. QED
            BY <6>1, <6>2, <6>3, FS_Subset
        <5>3. Cardinality({b \in addrs[p] : b < y.addr}) \in Nat
          BY <5>2, FS_CardinalityType
        <5>. QED
          BY <2>3, <3>1, <4>1, <5>1, <5>3
      <4>3. CASE y = x
        <5>1. y.addr = a
          BY <2>1, <4>3
        <5>2. Cardinality({b \in addrs'[q] : b < y.addr}) = started[p]
          BY <2>4, <4>1, <5>1
        <5>. QED
          BY <2>3, <3>1, <5>2
      <4>. QED
        BY <2>1, <2>8, <4>2, <4>3
    <3>2. CASE q # p
      <4>1. /\ pc[q] = "start" /\ addrs'[q] = addrs[q] /\ cl'[q] = cl[q]
            /\ started'[q] = started[q]
        BY <1>0, <2>8, <3>2 DEF Others
      <4>2. cl[q] # cl[p]
        BY <2>2, <3>2, <4>1 DEF ExclusiveInv, Active
      <4>3. y \in running
        BY <2>1, <2>8, <4>1, <4>2
      <4>. QED
        BY <2>8, <4>1, <4>3 DEF RankInv
    <3>. QED
      BY <3>1, <3>2
  <2>9. RankInv'
    BY <2>8 DEF RankInv
  <2>. QED
    BY <2>7, <2>9
<1>2. CASE ~StartNode(p)
  <2>1. running' \subseteq running
    BY <1>2, StepEffects
  <2>2. InstancesApart'
    BY <2>1 DEF InstancesApart
  <2>3. ASSUME NEW q \in Proc, pc'[q] = "start", NEW y \in running', y.cluster = cl'[q]
        PROVE  Cardinality({b \in addrs'[q] : b < y.addr}) < started'[q]
    <3>1. CASE q # p
      <4>1. /\ pc[q] = "start" /\ addrs'[q] = addrs[q] /\ cl'[q] = cl[q]
            /\ started'[q] = started[q]
        BY <1>0, <2>3, <3>1 DEF Others
      <4>. QED
        BY <2>1, <2>3, <4>1 DEF RankInv
    <3>2. CASE q = p
      <4>1. AllocExisting(p) \/ Write(p)
        BY <1>2, <2>3, <3>2, StepEffects
      <4>2. cl' = cl /\ pc[p] \in {"read", "write"} /\ task[p] = "alloc"
        BY <2>3, <3>2, <4>1 DEF AllocExisting, Write, Goto, TypeOK
      <4>3. \A x \in running : x.cluster # cl[p]
        BY <4>2 DEF MineInv, Informed, DbPc
      <4>. QED
        BY <2>1, <2>3, <3>2, <4>2, <4>3
    <3>. QED
      BY <3>1, <3>2
  <2>4. RankInv'
    BY <2>3 DEF RankInv
  <2>. QED
    BY <2>2, <2>4
<1>. QED
  BY <1>1, <1>2

\* Under the same assumptions no two instances have the same address, also
\* within a cluster and with instances that a killed script left behind.
THEOREM InstancesApartAlways ==
    ASSUME Exclusive, ~Torn
    PROVE  Spec => []InstancesApart
<1>1. Init => RankInv /\ InstancesApart
  BY DEF Init, RankInv, InstancesApart
<1>2. /\ TypeOK /\ ExclusiveInv /\ MineInv /\ RankInv /\ InstancesApart
      /\ ClustersApart' /\ [Next]_vars
      => (RankInv /\ InstancesApart)'
  <2>. SUFFICES ASSUME TypeOK, ExclusiveInv, MineInv, RankInv, InstancesApart,
                       ClustersApart', [Next]_vars
                PROVE  RankInv' /\ InstancesApart'
    OBVIOUS
  <2>1. CASE UNCHANGED vars
    BY <2>1 DEF RankInv, InstancesApart, vars, procVars
  <2>2. CASE \E p \in Proc : StepOf(p)
    BY <2>2, RankStep
  <2>. QED
    BY <2>1, <2>2, StepOfOne
<1>. QED
  BY <1>1, <1>2, TypeCorrect, CoveringInvariant, ClustersApartAlways, PTL DEF Spec
=============================================================================
