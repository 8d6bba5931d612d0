# Verification of ldms-test

`ldms-test` is the test suite of LDMS. Test scripts build virtual clusters of
containers (on Docker or on Singularity), run daemons in them, and report
assertions to TADA, a small pipeline of client, daemon and database. This
directory models the parts of the suite that many scripts share, where a
mistake shows up only when scripts, commands and daemons run at the same time
or end halfway: TLA+ modules, TLC configurations, and proofs checked by TLAPS.

## The system

| Part | State | Operations | Talks to |
|---|---|---|---|
| TADA client, `class Test` in `TADA.py` | `test_id`, status of each declared assertion | `add_assertion`, `start`, `assert_test`, `finish` | one datagram per event to `tadad` |
| `tadad` | `results`: the events of each unfinished test, in memory | receive; `test_finish` writes a batch, one commit per event; SIGTERM; launch, `--db-purge` | database |
| TADA database, `SQLModel`, `TADA_DB` | tables `TADATest`, `TADAAssertion` | get-or-create, update, find, create and drop tables | shared by `tadad` and `tadaq` |
| `tadaq` | selected rows | query, `--purge-old-tests` | database |
| `IPAddrDb`, `HexRanges` in `runtime/singularity.py` | a file from cluster names to address ranges, a file lock | `init_db`, `alloc_addr`, `free_addr` | shared by all scripts |
| `SCluster` | Singularity instances on the hosts | `get`, `create`, `remove`; `remove_cluster` | `IPAddrDb`, Singularity |
| `DockerCluster` in `runtime/docker.py` | overlay network, containers on the hosts, cached container list | `get`, `create`, `remove`; `create_cluster`, `remove_cluster` | Docker |
| `class Spec` in `LDMS_Test.py` | a nested dictionary | expansion of templates, substitution of `%VAR%` | read by both runtimes |
| Daemons of a container, `LDMSDContainer`, `Munged` | processes, pid file, key file, the handle `munged` | `start_*`, `kill_*`, `start_daemons` | commands run in the container |
| Commands in an instance, `SContainer` | a bash per thread behind pipes | `shell`, `_exec_run`, `write_file`, `read_file` | Singularity |
| Commands in a container, `Container` of `runtime/docker.py` | cached attributes | `exec_run`, `pipe`, `write_file`, `wait_running` | Docker |
| Terminals `LDMSDContainerTTY`, `PtyPopen`, `ContainerTTY` | a byte stream | `icmd`: type, read with timeouts | interactive programs |
| Networks, `Network` of `runtime/docker.py` | subnets of the swarm | `create` chooses the next subnet | Docker |
| Scalability harness: `ldmsdutils.py`, `ldmsd_ctl.py`, `ldmsd_mon.py`, `cluster.py` | pid files on hosts, a monitor | start, stop, status, cleanup on all hosts | ssh, processes |
| Scalability scenario, `scalability/test.py` | the daemons it wants, verdicts | kill and resurrect the levels of a tree of `ldmsd` | the harness, TADA |
| Clients of the quota and rail tests, `python/ldms_qgroup_*.py`, `python/ldms_rail_send_recv_*.py` | a publishing thread, connections, counters per window, a blocked callback | typed at the interpreter, called back by LDMS | each other, through LDMS |
| Process handles `Proc`, `LDMSDProc`, `MungedProc`; `run_inside_cont_test.py`, `ContainerTest` | pid files, result files | | ssh, containers |
| C client and C tests, generated configuration, comparison helpers, the other programs under `python/`, the test scripts themselves | | | |

What is hard here: the events of a test are datagrams, kept in the memory of a
daemon that may be killed between two commits; readers read while it writes;
scripts share a file that is rewritten in place, and container names that
nobody but the container runtime guards; every script may be interrupted and
rolls nothing back; daemons start and end at their own pace, and pids are
reused; the replies of shells, terminals and sockets come in pieces and late,
and what ends them is a guess; callbacks of a library change what a thread of
the program is reading. `PROJECT.json` lists the hazards line by line with the
properties that would catch them.

## Modules

`Tada` is the pipeline: test scripts, network, `tadad`, database. A variable
per Python attribute (`test_id`, `assertions`, `results`) and per table. `finish()` is one step per
datagram it sends, `test_finish()` one step per commit, and `tadad` may be
killed between any two. `Ordered` chooses between an orderly
network (`got[r]` datagrams of run `r` have left it) and one on which any datagram
that was sent may arrive at any time, again, or never. The test-id is the pair
of the combination and the second of `start()`: the hash is taken to be
injective. `start()` reads the clock twice, for the id (`Start`) and for the
timestamp of its event (`SendStart`). A SIGTERM ends `tadad` wherever it is (`Sigterm`),
except in the `try` around `json.loads()`, whose bare `except` takes the `SystemExit`
for a message it cannot parse: `tadad` goes on without that datagram
(`SigtermSwallowed`). `lost[r]` records which datagrams of a run were lost under a running `tadad`, in this way
or by the network; no action reads it.

`TadaBoard` is what the pipeline promises a reader of the database: outcomes
are decided once, published as a whole, and stay until a purge; parts of an outcome may be
spoilt before it is published, never afterwards.

`TadaQuery` extends `Tada` with one `tadaq` process that selects rows in
several statements while `tadad` commits.

`AddrPool` is what `IPAddrDb` promises: an atomic table that gives the first
free addresses and takes back what it gave. `HexRanges` is the arithmetic on
sequences of ranges, with the loop of `alloc_addr()`, shown to implement
`AddrPool`; `SCluster`, where ranges are sets, shows that
the processes which lock, read, truncate and write the file implement it, too.

`SCluster` is the life of scripts and `remove_cluster` on Singularity: the
file protocol step by step, the assignment of hosts by load, the start of each
node, and `remove()`. `Exclusive` says that nobody works on a cluster name that another
process is working on, `Torn` that a process may end inside
`_write()`. `_create()` ends in `make_ssh_id()`, which raises (see below), so a
script gets a cluster object only for a cluster that exists.

`DockerAlloc` is the placement of containers on hosts as operators,
`DockerCluster` the life of scripts, `create_cluster` and `remove_cluster` on
Docker: network, containers, the list cached on first use, and `remove()` in
its three passes. The load that other users put on the hosts is chosen anew at
each placement. `shared` remembers the names that two processes worked on at a
time. Docker itself (names are unique per host, a network in use by a
running container is not removed, disconnecting what is not connected raises)
is modelled as far as the code depends on it.

`DockerNet` is the choice of subnets: the networks are listed, the subnet after
the highest one is taken for IPv6 and for IPv4, and only then is Docker asked;
`lst` is the default argument in which `attr_grep()` keeps what it ever found.
`DockerSwarm` composes the two: `DockerCluster` sees a network as a name,
`DockerNet` a cluster as its network.

`SpecDict` is the expansion and substitution of one object of a cluster spec
inside the top-level object; a string is a sequence of words and variables.
`MCCreate` puts it beside `HexRanges` and `DockerAlloc`: what `create()` computes before it
starts anything.

`Daemons` is one container, whose spec may list any daemons: a script that starts and kills daemons, the
processes with their pids, munged's pid file and key file. `lost` and `stale`
remember what ended during a call, and whether a crashed munged left its pid file.

`SShell` is what happens between `_exec_run()` and the bash that a thread keeps
in a Singularity instance: the login with its greeting, the marker at the end of
each reply, output of children in the background, here-documents as bash reads
them, an instance that stops. Output is a sequence of tokens. `Terminal` is `icmd()`:
it types, drops the echo, presses ENTER and reads until the output ends with
the prompt or several reads bring nothing. `DockerExec` is the same for Docker:
requests, sockets that are read once, attributes that are as old as their last
`reload()`. `ContExec` composes the three: `medium` says which one a behaviour uses,
as they share no state.

`ScaleCtl` is the process control of the scalability harness: `Control` sends a
command to all hosts in threads and may wait for its effect; on a host it
works on pid files, which it believes after a look at `/proc`. What a thread
still has to do is a set; `Turn` takes its members in the order of the hosts and, on a
host, of `get_daemons()`. Daemons boot, end
and crash on their own, pids go to other processes, also to some that pass for a monitor (`Lookalike`,
`Validates`), and the monitor is forked,
samples descriptors and caches pids. `ScaleTest` is the scenario on top of it: the
tree that `getConfig()` and `getPrdcr()` define, what each level is expected to show,
and each step of `test.py` with its waits and verdicts.

`StreamTally` is the counters of `ldms_qgroup_agg2.py`, one queue per window of
time, with `add_data()` in steps between which the script may read. `Publisher` is the
thread of `ldms_qgroup_app.py` with its lock and join; `PrdcrConn` the producers that one thread
connects and library callbacks disconnect, with the list of transports of their
peers; `RailBlocker` the callback of `ldms_rail_send_recv_*.py` that holds the sender's quota until the
script unblocks it. `Clients` composes them by `program`. The LDMS library is
external.

`MC*` modules give the constants their values; the `*Proofs` modules hold the
proofs. The inductive invariants (`IInv`, `PoolInv`, `ShellInv`, `TtyInv`, `DockerInv`, `FileInv`, `PublisherInv`,
`PrdcrInv`, `RailInv`, `TallyInv`) are stated at the end of the component's own module. Operators with a comment that begins with
"Mutant" are deliberately wrong variants of the definition that follows them;
no specification uses them. They are listed under `mutants` in `PROJECT.json`,
each with the property that rejects it.

## Runs

Run `tlc -workers 2 -config <name>.cfg <module>` in this directory. The longest
(`exec`, `scale_ctl` and `tada_board`) take two to three minutes, most of them less.

| Run | Shows |
|---|---|
| `tada_faulty` | two runs of one test, in the same or in different seconds, on a network that loses, repeats and reorders: `StoredWasSent`, `FinishAfterStart` (a finished row has a start time, not a later one if its run has an id of its own), `NoOrphanAssertion` |
| `tada_board` | two concurrent tests with repeated assertions on a network that keeps order, `tadad` killed, surviving a SIGTERM, relaunched and purged: the refinement of `TadaBoard` (`ImplementsBoard`), `FinishedRowComplete`, and `DoneIsStored` under `FairSpec` |
| `tadaq_shown` | `ShownIsFinal`: queries with all filters beside kills, a swallowed SIGTERM, relaunches and purges, with `TADA.DEBUG` |
| `scluster_safe` | three processes, two clusters, two hosts: `ClustersApart`, `InstancesApart`, `AssignmentsKept`, `RemoveLeavesNothing`, `ImplementsPool` |
| `scluster_shared` | without any exclusion, with torn writes and prefixed names: `TableDisjoint`, and `CommandsEnd` under `FairSpec` |
| `docker` | three processes that race on one name over three hosts and may be killed anywhere: `CreatedIsComplete`, `RemoveLeavesNothing`, `RemovesOnlyItsOwn`; two scripts that choose subnets beside networks of any size: `RefusedOnlyWhenStale` |
| `create` | for all small specs `ExpandedRight` (`LocalOverrides` and `SubstitutedInFull`, against reference definitions), and `ExpansionEnds` unless templates or variables form a circle; for all histories of three clusters in seven addresses `RefusedOnlyWhenFull` and `ImplementsPool`; for all loads of three hosts and up to eight nodes `PlacedEvenly` |
| `daemons` | `OneOfEach`, `KeyInUse`, `AllStarted` with failing attempts, kills, crashes, reused pids and new scripts, on a node with every daemon and on one without `ldmsd` and `slurmd` |
| `scale_ctl` | two hosts, a daemon each and a monitor, beside strangers and processes that pass for a monitor: `Findable`, `KillsOnlyOwn`, `MonReportsOwn`, and `StopEnds` without a timeout |
| `scale_test` | the whole scenario over ten daemons, one of which may die at any time: `NoFalseAlarm`, `PassMeansUp`, `ScriptEnds` |
| `exec` | commands over shells of two threads, a terminal and Docker: `OwnReplies`, `WrittenAsReported`, `WaitSeesUp`, `CallsEnd` |
| `clients` | `CountsTrue` (one publishing thread, one transport, one passage per unblock), `TallyWindow` (the counters are those of their windows) and `ClientsGoOn` (stop returns, producers reconnect, an unblock works) |

`CountsTrue`, `ClientsGoOn`, `OwnReplies`, `WrittenAsReported` and `CallsEnd` are
conjunctions with one conjunct per component, each stated and explained in the
component's module.

### Behaviour worth knowing

The models do what the code does, also in these places, which the conditions of
the properties above leave out or which no property mentions:

- `tadad:212`: an event of a test that started before this `tadad` raises
  `KeyError`, and the daemon ends (`RecvKeyError`).
- `tadad:199`: the bare `except` also catches the `SystemExit` of a SIGTERM that
  arrives while a datagram is parsed. `tadad` survives and drops the datagram; if it
  was a verdict, the row of that test becomes finished without it, and nothing
  in the database tells (`SigtermSwallowed`). This is why `FinishedRowComplete`,
  `ShownIsFinal` and the refinement except the assertions of which a verdict was lost
  (`LostOn`), and `DoneIsStored` a lost finish event.
- `TADA.py:112`: the test-id contains the second of `start()`, so that running a
  test again adds a row, where `README.md:1039` of the repository speaks of
  overwriting the earlier result. Two runs of one combination in the same second share
  a row; as `TADA.py:127` reads the clock again for the start event, that row may be
  finished before it was started, which is why `FinishAfterStart` compares times
  only for a test with an id of its own.
- `tadaq:133`: a query that meets a row without a finish time ends with
  `TypeError` (`Printable`); `TADA.py:648`: `--purge-old-tests` raises before it
  deletes, as `list.sort(cmp=...)` is not Python 3 (`PurgeOldTests`).
- `runtime/singularity.py:274`: `truncate()` comes before `write()`. A process that
  ends in between leaves an empty file, which `init_db()` takes for a new one, and
  addresses in use are given out again (`Torn`).
- `runtime/singularity.py:953`: `SCluster._create()` ends in `make_ssh_id()`,
  which calls `read_file()` with a parameter it does not have (`Created`).
- `runtime/singularity.py:294`: `alloc_addr()` returns the addresses a name still
  has, whatever number is asked for (`AllocExisting`), and `zip()` drops nodes.
- `runtime/singularity.py:964`: instances are found by prefix, so that removing
  `a` stops those of `a-b` (`Found`).
- `runtime/singularity.py:981`: addresses are freed by name after the instances
  were stopped; a script that creates the cluster anew in between loses them.
  This is why `AssignmentsKept` needs `Exclusive`.
- `runtime/docker.py:888`: `remove()` sees attached containers only; those that an
  interrupted create or remove left unattached stay. This is why
  `RemoveLeavesNothing` excludes clusters of killed processes.
- `runtime/docker.py:828`: `get()` hands out a cluster whose creation was
  interrupted, as soon as the network exists. `CreatedIsComplete` is therefore
  about the process that created the cluster.
- `LDMS_Test.py:2550`: the pid of a dead munged that belongs to another process
  passes for a running munged; `LDMS_Test.py:1334`: a daemon that was just told to
  end still counts as running. Both are exceptions in `AllStarted`.
- `LDMS_Test.py:1338`: `start_ldmsd()` of a container without `ldmsd` in its spec returns as
  if it had started one, an exception in `AllStarted`, too; `LDMS_Test.py:1580`: without `slurmd` in
  the spec, `start_slurmd()` ends in `StopIteration` (`SlurmNotInSpec`).
- `scalability/ldmsdutils.py:254`: any Python process with `ldmsd_mon.py` in its command
  line passes for the monitor, also a command of `ldmsd_mon.py` or the monitor of
  another harness, if it has the pid in an old pid file. Then `start` starts nothing,
  `cleanup` raises, and `stop` signals that process (`Validates`). This is why `KillsOnlyOwn`
  excepts a look-alike of a monitor that does not run. An `ldmsd` must have its host and port
  in its command line, which no other process called `ldmsd` of that host has.
- `LDMS_Test.py:1571`: `pkill slurmd slurmctld` kills nothing (`KillSlurm`);
  `LDMS_Test.py:1517`: a munged started on behalf of slurmd takes the first daemon
  of the spec for its own entry, and may lose the key (`StartMunged`).

- `LDMS_Test.py:728`: the limit of the substitution is compared with a counter that is
  never incremented, and `LDMS_Test.py:677` extends its list for ever when
  templates extend one another in a circle. `ExpansionEnds` excepts circles.
- `runtime/docker.py:264`: subnets of networks that are gone are still found, and
  `net4`, `net6` of a `Network` may come from another network (nobody reads
  them); after the last subnet of 172.0.0.0/8 comes one of 173.0.0.0/8.
- `runtime/docker.py:843`: `DockerCluster.wait_running()` never reloads, so that
  only what was up at the first look counts (`ClusterWait`).
- `runtime/docker.py:220`: one `recv()` is taken for the whole reply, so that a
  short one makes `write_file()` raise although the file was written;
  `pipe()` takes the number of the stream for the exit status.
- `runtime/singularity.py:713`: an empty content, or one that ends with a backslash,
  swallows the end of the here-document, and the shell waits for ever;
  backslashes and backquotes are changed on the way. `write_file()` there keeps
  its error in `G.write_file_err`, where that of Docker raises.
- `runtime/singularity.py:730`: `_exec_run()` reads on when the shell is gone, and when
  output of a background child follows the marker. `Excused` in `SShell` names
  these cases. The greeting of a new shell must arrive alone.
- `LDMS_Test.py:851`: after `icmd()` gave up, output of that command may be
  part of the next answer (`gaveUp`).
- `scalability/test.py:100`: without `DEBUG` the `else` of the `for` loop overwrites a
  failed verdict with a passed one; with it, the exception comes before `finish()`
  and `tadad` stores nothing. `PassMeansUp` is checked with `DEBUG`.
- `scalability/ldmsdutils.py:415`: samplers left over by the division belong to no
  aggregator, although `scalability/README.md:74` says that they are spread as evenly as
  possible; fewer than two aggregators on a level, or more than there are
  samplers, break the script.
- `python/ldms_qgroup_common.py:49`: an exception of one `connect()` ends the thread
  that connects all producers (`ConnectRaises`), and the message raised
  there names variables that do not exist.
- `python/ldms_qgroup_common.py:100`: counters are those of the time of the last message,
  not of the time they are read; `add_data()` relies on one delivering thread and on a clock
  that does not go back.
- `python/ldms_rail_send_recv_server.py:58`: an `unblock()` that comes before the callback
  blocks is lost; the test relies on a pause of one second.
- `Network.get(create=True)` would raise `TypeError`; it, `PtySSH`,
  `_exec_run_old` and `_exec_run(timeout=)` have no caller.

### Bounds

Bounds are constants: `MaxTime`, `MaxAsserts`, `MaxBatch`, `MaxLaunch`, `MaxLost`,
`MaxNodes`, `MaxOther`, `MaxLoad`, `MaxPlaced`,
`MaxMade`, `MaxChain`, `MaxLen`, `MaxCalls`, `MaxShellCalls`, `MaxTyped`, `MaxPolls`,
`MaxCrashes`, `MaxMsgs`, `MaxClock`, `MaxStarts`, `MaxPublished`, `MaxXprts`, `MaxDowns`, `MaxSent`,
`MaxUnblocks`. Two runs in two seconds are
enough for equal and different test-ids, and one relaunch puts an event on both
sides of a restart. `MaxAsserts` lets one run decide its assertion twice while the other skips it
(`OneTwice`); one datagram lost under a running `tadad` (`MaxLost = 1`) may be any of them. On the unreliable network a batch of two events before the
finish is cut by `MaxBatch` only where repeated datagrams would grow it without
end. Three processes on one cluster name allow one that was killed, one
that removes what it left, and one that creates meanwhile; three addresses with
clusters of up to two nodes let the pool run out. In `create`, loads of up to three on each of three hosts and up to eight nodes to place
let a placement end while it fills up the hosts, or go on with every quotient up to two and every remainder;
in `docker`, two nodes and `MaxOther = 1` place nodes of one cluster on one host or on several. Five pids leave one
for a process that is no daemon; of the two nodes one has all daemons and one has neither `ldmsd` nor `slurmd`. The three pids of `scale_ctl`, for
two daemons, a monitor and strangers (one at a time), are soon used again. Five samplers under two aggregators leave a remainder, and
two levels of two let one aggregator die while its twin goes on (a tree
of seven samplers, three and two aggregators is too large for TLC). One shell call of the first
thread and two of the second put a command behind one that left a child. Three messages and windows of one, two and four
seconds let a message pass through all windows while another follows, and six seconds let the
last one leave them. Two losses of a peer with three transports leave
always one for the next connection; a quota of two messages is used up by the
third. Deadlock checking is off where the system
really may stop: all scripts and commands have ended and the bounds are used up.

### Fairness

`tada_board`: `tadad` loops on `recvfrom()` and runs a batch it has begun to its
end (weak fairness of `Receive` and `Replay`), and a script in its atexit handler
goes on (`SendSkipped`, `SendFinish`). Nothing makes a script call `finish()`:
the property begins with `phase[r] = "done"`. The property
excepts a `tadad` that is down or was relaunched, and a finish event that was lost: then the event is
gone for good, which is the design.
`scluster_shared`: a process that can step does, and a free lock is
eventually granted; a crash is never required. `create`: the program runs on.
`scale_ctl`: the operator's process and its threads run on, and a daemon that got
SIGTERM ends (`Exit`). Nobody makes a daemon come up: instead, the next command is
given when the daemons of the last one are no longer booting (`Settled`), as
`test.py` waits for that. `scale_test`: the script and `ldmsd` run on; the waits of 10 and 60
seconds are long against intervals of one second, so that a wait ends unsuccessfully only
when nothing is under way (`Steady`).
`exec`: bash and the program behind a terminal work on what they were sent, and calls run on; that a command ends is part
of it. `clients`: threads run on, the library delivers its events
(weak fairness), and the interpreter in `stop()` gets the lock, which is free
during the whole wait of the publishing thread (strong fairness of `StopSet`).
A peer may stay down: `Reconnects` is about peers that are up.

## Proofs

Checked by `tlapm <module>`, for every value of the constants that satisfies the
named assumptions of the component's modules. TLC evaluates these
assumptions in each run, and has checked every invariant named here on
the run of its component before it was proved.

| Module | Theorems | of |
|---|---|---|
| `TadaProofs` | `TypeCorrect`, `StoredWasSentAlways`, `FinishAfterStartAlways`, `NoOrphanAlways`, `FinishedRowCompleteAlways`, `ImplementsBoardAlways`; `ShownIsFinalAlways` | `Tada`; `TadaQuery` |
| `SClusterProofs` | `TypeCorrect`, `TableDisjointAlways`, `ClustersApartAlways`, `AssignmentsKeptAlways`, `InstancesApartAlways`, `RemoveLeavesNothingAlways`, `ImplementsPoolAlways` | `SCluster` |
| `DockerProofs` | `RefusedOnlyWhenStaleAlways`; `AlwaysIInv`, `CreateReturnsComplete`, `RemoveLeavesNothingAlways`, `RemovesOnlyItsOwnAlways`, `SwarmRefusesOnlyWhenStale` | `DockerNet`, `DockerSwarm` |
| `DaemonsProofs` | `AlwaysIInv`, `NeverTwice`, `KeyFileInUse`, `ReturnsWhenStarted` | `Daemons` |
| `ScaleCtlProofs` | `AlwaysIInv`, `RunningIsFindable`, `MonitorReportsOwn`, `SignalsOnlyOwn` | `ScaleCtl` |
| `ScaleTestProofs` | `ScaleTestTypes`, `NoFalseAlarmAlways`, `PassMeansUpAlways` | `ScaleTest` |
| `ExecProofs` | `OwnRepliesAlways`, `WaitSeesUpAlways`, `WrittenAsReportedAlways` | `ContExec` |
| `ClientsProofs` | `CountsAreTrue`, `CountersOfWindows` | `Clients` |

`TadaProofs`: `TypeCorrect`, `StoredWasSentAlways`, `FinishAfterStartAlways`,
and, without purges, `NoOrphanAlways`. The network may lose, repeat and
reorder, and `tadad` may be killed anywhere. The invariant `IInv`
adds what the properties do not say of the daemon's memory: a batch contains
events that were sent, all with its own id, and begins with its only test-start
(`BatchInv`); what is still to be written of it ends with test-finish and keeps
its shape at each step of the daemon (`TodoInv`); a script sends its own test-id, and a
finish not earlier than its start (`ClockInv`); and a start time in a row was sent with that id, and
the row that a batch is written to has got one unless a
purge removed it (`StartedInv`). Purges are excluded from `NoOrphanAlways`
because a purge may drop the row of the test between two commits, after which
the next assertion row has no test.

`FinishedRowCompleteAlways` and `ShownIsFinalAlways` assume `Ordered`: datagrams of a test
arrive in the order they were sent. That is how UDP behaves on a quiet host, and the protocol has
neither numbers nor acknowledgements that would do without. Any of them may be lost, by the network or by a SIGTERM
that `tadad` survives, and kills, relaunches and purges remain, at any point; what
was lost while no `tadad` ran does no harm, and of what was lost under a running one only
the assertion suffers that it was a verdict on (without its test-start `tadad` ends at the next event, and
without its test-finish a test is not written). `CompleteInv` follows a
verdict on its way: what a script sends begins with test-start, and the last verdict sent on an
assertion is the one it keeps (`ScriptInv`); for an assertion of which none was lost, the batch of a test with
an id of its own ends with the last verdict that left the network (`MemoryInv`); while the batch is written,
the row or the rest of the batch has it (`WriteInv`);
before that the test has no rows, and with a finish time they are right (`RowsInv`). That
nothing is written for an id nobody has (`FreshInv`) makes the next test begin from nothing.
`QueryInv` adds that a row which `tadaq` read with a finish time is settled: whole, or
purged, and never written again. So reading the assertions later gives all of them or none.
`ImplementsBoardAlways` is the refinement of `TadaBoard` under the mapping `Decisions` and
`Published`. It also assumes `DistinctTests`, one run per combination: two runs of one
combination in the same second share a test-id, and the board has no name for the outcome.

`SClusterProofs`: `TypeCorrect`; `TableDisjointAlways`, with no exclusion at
all and with torn writes: the lock makes what is about to be written disjoint
(`WriteDisjoint`); and, from `Exclusive` and `~Torn`,
`ClustersApartAlways` and `AssignmentsKeptAlways`. These need that the table in
the file, or the one about to be written, covers every address that is in use or
was handed to a process that is starting nodes (`Covers`, `FileInv`,
`WriteInv`); that an unparsable file means that nobody has started
anything (`Fresh`); and that a process which frees addresses knows every
instance of its cluster (`MineInv`). Both assumptions are needed: the
empty file that a torn write leaves is the counterexample without the second, and the new
cluster that meets the last steps of a `remove()` the one without the first.

`InstancesApartAlways` needs that a cluster uses its addresses in order
(`RankInv`), `RemoveLeavesNothingAlways` that what is written is what was read
without the entry (`DbInv`). `ImplementsPoolAlways` is the refinement of `AddrPool`:
the file, or while it is empty what is about to be written, is the atomic table, and only the
truncation of an allocation or a release is a step of it. It needs `~Torn` but not
`Exclusive`.

`DockerProofs`: a step of a process touches at most one container, of the name
that it works on (`Touches`). What any other process relies on concerns another name, or a
name that two work on, of which nothing is claimed (`OthersKeep`); this leaves each
action with what it owes itself (`Keeps`). `ContInv` says that the creator of a
network comes to each node once, `NetInv` that a network has the name its creator works
on, `OwnInv` that what a `remove()` has disconnected was attached to the network it
removes; `AloneInv` is what a process may rely on while nobody else works on its name,
`AttachedInv` that a network outlives what is attached to it, and `KnownInv` that a container
without a network is known to the process at work, unless one was killed. Placement plays no part.
Of the network, subnets lie at multiples of their length and do not overlap, so
that the one after the highest is free (`SubnetInv`, `Apart`, `ChoiceInv`). This
needs `Limit` to be even: no subnet goes on behind the end of 172.0.0.0/8.

`DaemonsProofs`: a program runs once and a pid names one process (`ProcessInv`), the pid file
names the running munged, which has the key of the key file
(`MungedInv`), and what a call has passed is served (`CallInv`), for containers with any list of
daemons in their spec.

`ScaleCtlProofs`: threads have disjoint shares (`ShareInv`; that those of
`cluster.py` are disjoint for any number of hosts and threads is
`SharesApart`, about the arithmetic of quotient and remainder); what a thread saw at its check
holds as far as it relies on it (`SawInv`, `BootInv`); a process is named by its pid file or is
about to be (`KnownInv`); what a worker is about to signal is the process it named, none, or
a look-alike of a monitor that does not run, as none is started in the meantime (`SawInv`, `Signals`); a monitor that has a dead pid has not looked since
(`CacheInv`).

`ScaleTestProofs`: for trees of any size. The numbers of a level are cut by a quotient, so that
an aggregator's producers lie below it and no two aggregators of a level share one
(`PrdcrBelow`, `PrdcrApart`); hence what `dir_verify()` expects of a daemon is what the
configurations make it collect (`ExpectedMeans`), and when nothing is under way each
daemon lists what is up among it (`SteadyView`). The rest is the script, of 62 steps: `Down`, `Gone` and
`Calm` say for each step which daemons the script wants down, whether these have
ended, and whether it has waited for all that it asked for (`DirsInv`, `ScriptInv`). As
long as no daemon died on its own the daemons do as they were told (`ObeyInv`), so that every
condition the script waits for comes true and every verdict passes. `PassMeansUp` goes the other
way: a wanted daemon that is down in the steady state stays missing until the verdict (`MissInv`), and
some directory that is compared shows it. This theorem assumes `Debug`, which is how the script is
meant to be run: otherwise the `else` of the loop overwrites the failed verdict.

`ExecProofs`: all that a thread has not yet answered, read or unread, is its current
command's or a child's, and the end marker comes after the text
(`WaitInv`, `ThreadInv`); the command in turn goes from the keys of a terminal to
its screen, and its prompt comes last (`TurnInv`); a container that runs without the handle's
knowledge came up after the last look (`SeenInv`); the answer "true" means that the
content is there (`WriteInv`). A file of a Singularity instance holds what bash makes of the escaped content of the
command that wrote it (`FileInv`). That this is the content itself, if it has neither
backslash nor backquote, is `EscapeUndone`, by induction over the positions: the
escaped form of the characters from `i` on, read by bash, is those characters again.

`ClientsProofs`: one invariant per program: a thread that has not ended is
`self.thr` (`PublisherInv`), the only transport that can be open is `self.x`
(`PrdcrInv`), what is spent of the quota is under way, kept or in the callback (`RailInv`).
For the counters, `TallyInv`: the queues, the one of the longest window first, make up the end
of the sequence of messages that came, a counter is the sum from the first message of its queue on, and
what `add_data()` has not yet added or pruned is known from where it is. That sums add up over
parts of a sequence is proved by induction over a set of numbers, with the least
number that `WellFoundedInduction` gives (`SetInduction`, `SumDiffers`).

Only model-checked, and why:

- liveness (`DoneIsStored`, `CommandsEnd`, `ExpansionEnds`, `StopEnds`, `ScriptEnds`, `CallsEnd`,
  `ClientsGoOn`): fairness and ENABLED are out of this prover's reach;
- `ExpandedRight`, `RefusedOnlyWhenFull`, the refinement of `AddrPool` by `HexRanges`, and
  `PlacedEvenly`: they are about sorting, flattening and folds of the library, which take an
  operator as a parameter, and no installed prover can do induction over these.

## Not modelled

- `Proc`, `LDMSDProc`, `MungedProc` of `LDMS_Test.py`, which have the shape of the
  handles that `ScaleCtl` models; tests inside containers (`ContainerTest`).
- The wait for `store_sos` and the assertions 10 and 11 of the scalability test,
  which look into a store that other programs write.
- IPv6 subnets (the same computation), port bindings, volumes and labels.
- Spec objects nested more deeply, lists, and the `%%` escape; `etcd`,
  `slurmctld` and munge domains, which repeat what is modelled.
- Configuration text for `ldmsd`, parsing and comparison of its output, and the
  programs under `python/` that define sets and compare them: no state.
- `_inst_list()` waits for `ssh` before it reads a pipe (`runtime/singularity.py:480`);
  the pipe's capacity is not modelled.
- The C client, which sends the same events as `class Test`; the C tests and test
  scripts, which exercise programs that are not in this repository.
- SQL engines, Docker, Singularity and the LDMS library beyond what the code
  relies on.

## Plan

`ContainerTest` and `run_inside_cont_test.py`: results that cross the container
boundary into TADA.
