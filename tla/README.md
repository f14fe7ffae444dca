# A TLA+ verification of netmon

netmon is a Linux network monitor: it captures packets on an interface,
attributes them to processes, shows per-process bandwidth and lets the user
block or rate-limit a process through nftables.  This directory holds TLA+
models of its components, TLC configurations that check them on small
instances, abstract specifications that the detailed ones are shown to
implement, and TLAPS proofs, for every instance, of all safety properties and
of both refinements.

## The system

| Part | Source | State | Operations | Talks to |
|---|---|---|---|---|
| controller | `crates/controller` | the nftables chain `inet filter output` (kernel, survives the program), `RULES_BY_PID` (memory) | set up, block, unblock, rate limit, flush | `nft` (a process per command), `/proc/<pid>/net` |
| GUI, control actions | `crates/gui` | `blocked_pids` | `block_pid`, `block_user`, `unblock_pid`, `limit_bandwidth`, `Drop` | calls the controller on the GUI thread |
| GUI, capture session | `crates/gui` | `is_capturing`, `capture_control`, `capture_running`, `active_filter` | start, stop, interface change, filter, status drain, shutdown | one capture thread after the other: flag, command channel, status channel |
| capture | `crates/capture` | pcap handle and its filter, recording | read, parse, classify direction, send | flow channel (1024 records) to the aggregator |
| aggregator | `crates/aggregator` | per-thread, per-connection and interface counters, 300-slot histories, connection copy, CSV history | drain, attribute, evict, prune, rotate, publish | resolver (calls), GUI (two snapshots, a lock each) |
| resolver | `crates/resolver` | cache of sockets and their owners | refresh (Netlink, else `/proc/net`, then a scan of all fds), flow lookup | the kernel |
| files | `crates/capture`, `crates/aggregator`, `crates/gui` | a recording for each capture, `session_history`, `capture_recording_path` | write, flush, append, export CSV, export PCAP | the clock (names and time stamps), stdio |
| rendering, privilege check | `crates/gui` | none of their own | tables, chart | snapshots |

What is hard about it:

- **Failure half way.** A control action is a sequence of `nft` commands; each
  can fail, some results are ignored, and the kernel keeps what was done.
- **Crash and restart.** Rules outlive a crash; the next session starts with
  empty memory.  Rules are found again by their comment.
- **Stale handles.** Rules are deleted by remembered handles.
- **Threads that outlive their session.** A join is limited to two seconds; an
  old capture thread can run beside its successor, and all of them report on
  one status channel.
- **Bounded channel and joins.** A capture thread can wait for room in the flow
  channel while the GUI waits for the thread.
- **Reads that are not atomic.** A refresh reads four tables, each in several
  pieces, and then one fd after the other, while sockets come and go; parts of
  it fail silently; the GUI reads two snapshots under two locks.
- **Input that announces its own length.** Packets and Netlink messages say
  where their next part begins; a dump comes in any number of datagrams.
- **Files named by the second**, written through a buffer by threads that may
  outlive their capture, and copied while they are written.
- **Counters** that saturate one by one, histories that are rotated apart, and
  entries that are evicted and come back.

`PROJECT.json` lists these hazards at their lines, with the properties aimed
at each.

## The modules

### Controller (controller, GUI control actions)

`chain` is the kernel's chain, a set of rules with a handle, the pid and kind of
the comment (`netmon-pid-<pid>-...`), and the ports matched; `nextHandle` is the
kernel's counter.  `blockRefs` and `rateRefs` are `RULES_BY_PID` under its two
keys, `blocked` is the GUI's set.  `alive` and `bound` say which processes exist
and who has which local port.

Each handler of the GUI runs to completion on the GUI thread and is one action:
`BlockPid`, `UnblockPid`, `LimitPid`, `CleanExit` (`Drop` and `unblock_all`) and
`Start` (`main`).  The controller's functions are sets of outcomes
`[ok, chain, refs]`, one for each command that can fail first, composed as the
code composes them: `block_pid` ignores the results of the set-up and of the
preceding unblock, `rate_limit_process` returns when the removal fails.  The
environment crashes the program, spawns and ends processes, binds and closes
ports, and reloads the firewall (`AdminReset`, which deletes the table and lets
its handles start over).  `Faults` says which of these can happen.

Abstractions: `nft` accepts the text that is generated for it; one network
namespace; `block_user` is several `BlockPid` steps (nothing runs between them,
so the model has more behaviours); an insertion advances the counter by two,
since what matters is that handles grow; `list_rules` has no caller; a zero
rate, which is refused before any command is issued, is left out.

### CaptureSession (capture session, capture thread, flow channel)

The GUI thread drains the status channel and handles at most one click in a
frame.  A join is a state of the GUI in which the other threads go on; it
returns when the thread has ended or, with `JoinTimeouts`, at any time.  A
capture thread (`pc[t]`) checks its flag, handles its commands, reads, and sends.
It ends on a cleared flag, a Stop command, a disconnected command channel, a read
error (the only one it reports) or a disconnected flow channel.  What it does and
what it reports are separate steps, between which the GUI may run: `HandleFilter`
sets the filter of the handle and `ReportFilter` tells the GUI; `ReadError` clears
the flag and `ReportFailure` tells the GUI.  The aggregator
is here the consumer of the flow channel, which may end at its start when the
resolver cannot be created.

`Session` is the specification of a session as its user may rely on it: at most
one thread captures, a dismissed thread never captures again and ends, nothing
is started once the window is closed.  `ImplementsSession` maps `life` of a
thread to its `pc` and its flag, and `open` to `app_running`;
`DismissedThreadsEnd` is the liveness part.

Abstractions: status texts without effect are left out; a packet is not more
than a record in the channel, and of a record only its place there counts; the
recording is the subject of `SessionFiles`.

### SessionFiles (recordings, exports, CSV history)

Capture threads live as `Session` says.  The module adds a clock, the savefile
of each thread with its buffer, the files by name, the path the GUI exports, and
the loop of the aggregator as far as it appends to `session_history`.  A file is
a sequence of cells `<<thread, position>>`, two to a packet, after a header cell:
`Spill` lets the oldest cell leave the buffer at any time, so that the disk can
hold half a packet.  `Write` and `Flush` are separate steps: a crash or an export
between them finds the packets of a whole flush in the buffer.  `start_capture` truncates the file of its second
(`spawn_capture_thread`), or cannot create it and keeps the path all the same.
`WriteAt` writes at the descriptor's offset, as stdio does: a thread that was
truncated by another would leave a hole.

Abstractions: monotonic and system clock are one; a full disk (errors of flush
and write are ignored by the code), the averages and the text of rows are left
out; `Sorting` stands for the sort of `export_csv`, of which only the
order of the stamps matters; `history` has a time stamp for each batch of rows; a history file that
cannot be opened is an aggregator without a history (then nothing can be
exported either).

### Aggregator (counters, histories, snapshots)

One action for each stage of the loop: `Receive` (a record, attributed to any
thread), `DrainDone`, `Maintain` (evict, prune and rotate, in the order of the
code), `PublishRows`, `PublishInterface`; the GUI's `render_top_panel` and
`render_main_panel` read the two snapshots.  Counters saturate at `U64Max`; the
sum of the two directions that feeds the peak is a plain addition and wraps, as
in a release build.  A packet is of any flow between two addresses, also one
between two other hosts, which a promiscuous capture sees.  `local_ips` is the
list that capture was given, one of `AddressLists`: the GUI passes the empty one,
the API takes any.  `wire` is a history variable: the packets that passed, by
thread and flow.

Abstractions: a packet has one byte; time is a `Tick` that makes the rotation
due and ages the entries, and an entry at the eviction limit may be on either
side of it; a snapshot is the number of records it reflects; `connection_row` is
what `publish_snapshots` shows for a connection, under its key or else under the
reverse one; `mark_exited_threads` (which changes a displayed name) is left out.

### Resolver (cache, refresh, attribution)

A refresh takes the steps of the code: four Netlink dumps, a row at a time
(`query_family_protocol`, `DumpDone`), on an error the four files of `/proc/net`
from nothing (`read_proc_file`, `FileEnds`), the scan, an fd at a time
(`scan_fd_dir`), and `Commit`, which replaces the cache.  A failure of both
sources leaves cache and `last_refresh` alone.  A failure of the scan is not
noticed by the code: a process or fd that cannot be read is passed over
(`SkipFd`), and when `/proc` cannot be listed the map of owners is empty
(`ScanFails`); the refresh goes on and commits sockets without an owner.
The aggregator's calls (`resolve_flow_owner`,
`refresh_connection_cache_if_due` with the second attempt of `list_connections`,
`process_by_pid`) begin refreshes; `AnswerFlow` looks in the cache and then in
the aggregator's older copy.  Between any two steps sockets are opened,
inherited and closed.

`SocketSnapshot` is what a refresh promises, whatever it reads in which order:
the cache is replaced at once by a regular snapshot, which has every socket whose
fds did not change since the refresh began, with a true owner unless an fd of it
could not be read, and nothing that nobody held in that time; a refresh that
fails leaves the cache alone.
`RefreshIsRegular` is the refinement.

Endpoints have an address family (`FamilyOf`): the IPv4 tables list IPv4
addresses and the IPv6 tables IPv6 ones (`socket_addr_from_diag`).  Without
that, a TCP and a TCP6 socket with the same endpoints would compete for a flow,
and `StableFlowAnswered` could not be proved.

Of the kernel it is assumed that a dump lists every socket that is there from its
beginning to its end; one that is opened or closed meanwhile may be listed or
not, so a socket and its successor can meet in one cache.  Of two open TCP
sockets of a table the endpoints differ (but for listening ones, whose rows
match no packet); UDP sockets may share theirs (`SO_REUSEPORT`), and then
`StableFlowAnswered` promises nothing: the order of a hash map decides.

Abstractions: an inode is not reused; the fds come in any order and more than
once, which covers the order of directories and the threads of a process;
threads, names and users are left out.  A closed TCP
socket may linger in TIME_WAIT; of those a dump lists, one is kept, under inode
0, and it has no owner.  A matched socket always has an entry in
`inode_to_process`, be it `Unknown`, so the first match decides.

### SocketSources (Netlink and /proc parsers)

One query of the socket tables, below the level of `Resolver`: `Send` and `Recv`
of `query_family_protocol`, the loop of `parse_response_messages` (`ReadHeader`,
`BadLength`, `DumpDone`, `MessageFails`, `DiagRow`, `SkipMessage`,
`DatagramEnds`), the fallback to `/proc/net` (`ReadFile`, `ParseRow`, `FileEnds`,
`FallbackFails`).  A datagram is a number of bytes; the length and type of a
message are chosen when its header is read, so every split of a dump and every
length, 0 and too short included, occurs.  Of the kernel it is assumed that a
dump ends after its last row and has a bounded number of datagrams.

Abstractions: what an address or state decodes to; sockets do not change while
one source is read (that is the subject of `Resolver`).

### PacketParser (packet parser)

The checks of `parse_packet`, `parse_ipv4` and `parse_ipv6`, one step for each
with the reads it protects.  A frame is its length and the fields that steer the
parser; `touched` is how far it was read.  `WellFormed` and `HeadersOf` are the
reference: which frames should become records, and where their ports are.  The
frames are unbounded, so there is no run; the properties are proved.

Abstractions: values of addresses and ports; direction (see `Aggregator`).  What
the code does not look at, the model does not either: fragments of IPv4 are read
as if they had ports, a second VLAN tag and IPv6 extension headers are skipped.

### MC modules

`MCController`, `MCCaptureSession`, `MCAggregator`, `MCResolver`,
`MCSessionFiles` and `MCSocketSources` add the symmetry sets and the sets of
sockets.  The configurations are named `<module>_<run>.cfg`.

## The runs

| Run | Instance | Shows |
|---|---|---|
| `controller_safety` | 2 processes, a TCP and a UDP port, a foreign rule, 3 insertions; nft failures and crashes | `TypeOK`; `TrackedAreOwn`, `TrackedAreAll`: the tracked handles are all block rules of their process and no other's; `UnblockOkClears`: an unblock that reports success leaves nothing; `RemovalsOfOneProcess`; `LimitKeepsBlockRules` |
| `controller_exit` | 2 processes, a TCP port, a foreign rule, 4 insertions between reloads; crashes and reloads | `CleanExitRemovesRules`: nothing is left by a clean exit, also of a crashed session; `OnlyCrashHidesRules`: only a crash leaves a block rule the GUI does not show |
| `session_safety` | 2 threads, 2 filters, 1 pending command, joins may time out, the resolver may fail | `TypeOK`; `ImplementsSession`: one thread captures at a time, a dismissed one never again; `CapturingHasControl`; `FilterLabelAccurate` |
| `session_shutdown` | 2 threads, no filters, joins may time out, the resolver may fail, fairness | `GuiNeverFreezes`; `ShutdownCompletes`: closing the window ends with no worker left; `DeathIsShown`; `DismissedThreadsEnd`: also a thread that outlives its join ends |
| `session_files` | 2 captures of 2 packets, 3 seconds of 2 ticks, joins of 2 seconds, a flush after every packet | `TypeOK`; `ExportIsOwn`: an exported PCAP is an unbroken part of one capture, and all of it once the capture has ended; `RecordingsKept`: a recording that no later capture of its second has overwritten loses at most `FlushEvery` packets in a crash, and none at its end; `BatchesSpread`: at most two batches of history rows to a second |
| `aggregator_counters` | 2 threads, 2 addresses, with the empty and the true address list, 2 slots, 3 packets, counters up to 2 | `TypeOK`; `ThreadsWithinInterface`, `HistoriesAligned`, `ConnectionsWithinThread`: parts never exceed the whole; `RowsTrueToWire`: a connection row shows nothing that did not pass, and nothing under the wrong direction; `PeakCoversHistory`; `FrameRowsNotOlder` |
| `resolver_refresh` | 2 TCP sockets that may succeed one another and linger, 2 processes, both sources and the scan may fail | `TypeOK`; `RefreshIsRegular`; `StableFlowAnswered`: a flow of a stable socket whose fds could be read is given to a holder; `AnswerExplained`; `RefreshAtMostOncePerPeriod` |
| `netlink_sources` | a TCP and a UDP6 socket and TIME_WAIT sockets of both families, datagrams of up to 10 units, 2 to a dump, fairness | `TypeOK`; `SliceInBounds`; `SuccessIsWhole`; `QueryEnds` |

Why the bounds are enough.  What goes wrong in the controller goes wrong between
two processes, or between an old rule, a new one and a renewed limit: two
processes and three insertions.  A capture meets at most its successor; a
second filter distinguishes an applied from a rejected one; capacity 1 makes the
channel full as soon as anybody sends.  Three packets saturate a counter of
width 2, and two slots show a shift and a loss.  Two sockets are what can be
confused with one another.  Two ticks to a second put two events into one second
or on both sides of its end; with a flush after every packet, a packet is in the
buffer between write and flush, and a second one shows a flush that comes late.
With a header of 2, a payload of 1 and an alignment of 2 units, a message can be
empty, shorter than its header, padded, or too long, and a datagram holds several.
The bounds that only keep an instance finite are named: `MaxHandle`,
`MaxThreads`, `MaxCommands`, `MaxPackets`, `MaxTicks`, `MaxReceived`,
`MaxDatagrams`.

The aggregator run has two addresses.  With the empty list every packet is
classified as one between two other hosts is with any list (Tx, by the last line
of `classify_direction`), so that case is covered; the theorems are for any
addresses and lists.

Fairness (`session_shutdown`).  Weak fairness of each capture thread, of the
aggregator and of the GUI: the operating system runs them, eframe repaints at
least every `UI_REPAINT_INTERVAL_MS`, `next_packet` returns within
`PCAP_READ_TIMEOUT_MS` and `recv_timeout` returns.  Strong fairness of a send:
when an old thread and its successor both wait for room in the flow channel,
neither is passed over for ever.  The channel wakes its waiting senders in the
order in which they came but does not keep the free place for them, so this is an
assumption about scheduling; it is needed only while two capture threads run,
which takes a join that timed out.  Nothing is assumed of the user.  A join may time
out, but the GUI's fairness is that of `~Waiting /\ GuiStep`: a behaviour in
which it waits for ever for a thread that does not end is fair, so what is shown
does not rest on the two-second limit.

Fairness (`netlink_sources`).  Weak fairness of the steps of a query: the code
runs on and the kernel answers each call (`recv` has no timeout).  That a query
is made is not assumed.

`session_files` disables the deadlock check, because its clock and its captures
are used up; no other run does.

### Disagreements between code and documentation

Runs that are expected to end in a violation:

| Run | Says | Does |
|---|---|---|
| `controller_ports` | docs/controller.md: "source ports currently used by that process" | the files of `/proc/<pid>/net` list the whole network namespace |
| `controller_stale` | "Removes all tracked nftables rules associated with one process ID." | block p while it has a limit, renew the limit, unblock: the adopted handle of the old limit is gone, its deletion fails, the block rules stay |
| `session_stale` | "transition UI state to stopped when capture thread reports failure" | the late report of an old thread stops the new capture |
| `aggregator_direction` | docs/capture.md: "If the destination matches local IP, it is treated as Rx." | the GUI passes no local address, and everything is Tx; the two directions of a connection are then counted under two keys and its row shows one of them, so what was received is left out once something was sent |

Smaller ones, met while modelling and without a run: the repository's README says
of the table `inet filter` that "Existing rules in that table are left
untouched.", but the exit flushes its output chain (`unblock_all`); a process whose name starts
with `rate-limit` has its block rules deleted with its limit (`RateNamed` in the
model; the runs leave it empty); after a firewall reload a remembered handle can
name a rule of another process; a renewed block of a process that has exited
removes its rule and leaves the row red; a restart keeps the label of a filter
the new handle does not have; the drain loop has no bound, so rotation can wait
as long as records keep coming; a refresh in which both sources fail is retried
by every packet; a capture thread whose channel is disconnected, because the
resolver could not be created, ends without a report and stays on the screen; a
failed scan of `/proc` empties the owners of the cache without an error; the four dumps of a "queried atomically" snapshot are separate;
a stop and a start within one second overwrite the first recording; when a
savefile cannot be created, an export can copy an earlier recording of the same
second; without the CSV history file there is no session history to export; a
socket bound to an IPv4-mapped IPv6 address never matches an IPv4 flow; a flow
between two processes of the host matches the sockets of both, and the order of a
hash map decides.

## The proofs

Every invariant, every action property and both refinements that the runs check
are also proved, for all values of the constants that satisfy the named
assumptions of the modules; where a theorem has a hypothesis of its own, its table
says so.  Each proof module has an inductive invariant (`IInv`
where it is not said otherwise), a lemma for each action or group of actions, and
the theorems.

### The controller

`ControllerProofs` proves, for all sets of processes, ports and faults and all
bounds:

| Theorem | Property | Assumes |
|---|---|---|
| `TypeCorrect` | `TypeOK` | nothing |
| `TrackedOwn` | `TrackedAreOwn` | the table is not deleted |
| `OneProcessAtATime` | `RemovalsOfOneProcess` | the table is not deleted |
| `LimitSparesBlockRules` | `LimitKeepsBlockRules` | the table is not deleted, no process named `rate-limit...` |
| `TrackedAll` | `TrackedAreAll` | nothing |
| `UnblockClears` | `UnblockOkClears` | nothing |
| `CleanExitClears` | `CleanExitRemovesRules` | nft works |
| `RulesAreShown` | `OnlyCrashHidesRules` | nft works |

The argument.  Lemmas say what the sets of outcomes can be (`DeleteFacts`,
`RemoveFacts`, `InsertFacts`, ...), then what a handler does to the chain
(`BlockStep`, `UnblockStep`, `LimitStep`): it keeps every rule that is not
targeted and adds only rules of its process with fresh handles.

`TrackedAreOwn` is not inductive: a tracked handle that is in no rule could be
given to a new rule of another process.  `OwnInv` adds that no rule and no
tracked handle is as large as the counter (`HandlesFresh`), that a handle
determines process and kind (`HandlesUnique`), and that what is tracked as a
limit is one (`RateTrackedAreRate`).  A firewall reload breaks `HandlesFresh`,
hence the assumption.  `TrackedAreAll` is inductive as it stands, because a
successful block tracks every rule that carries the mark and every other outcome
tracks none; it gives `UnblockClears`.  The two theorems with a working nft need
that there are no rules without a table (`NoTableNoRules`): otherwise the flush
at exit could fail and leave some.

The constants are restricted only by the named assumptions of `Controller`:
`None` is no process, foreign handles are older than netmon's, `Faults` names
known faults.

### The capture session

`CaptureSessionProofs`, for every number of threads, every capacity of the flow
channel and every set of filters, with joins that may time out and a resolver
that may fail:

| Theorem | Property |
|---|---|
| `TypeCorrect` | `TypeOK` |
| `CapturingHoldsControl` | `CapturingHasControl` |
| `LabelAccurate` | `FilterLabelAccurate` |
| `SessionImplemented` | `ImplementsSession`, the refinement of `Session` |

`ThreadInv` says that only the thread whose control the GUI holds can have its
flag set: that is why a start makes no second capturing thread, even when the
join of the first one timed out.  `GuiInv` says what holds in the middle of a
handler that joins.  The label is right when the channel is empty because, at any
time but between a filter and its report, the last filter in the channel, or the
label if there is none, is the one on the handle (`Shows`, in `LabelInv`); the lemmas `AppendFilter`,
`AppendStopped` and `TakeMessage` are about the channel alone.  For the
refinement, each action changes the life of at most one thread as `Session`
allows (`ThreadLife`, `ClearFlagLife`, `StartLife`).

### Recordings and exports

`SessionFilesProofs`, for every number of captures and packets and every setting
of clock, join and flush:

| Theorem | Property |
|---|---|
| `TypeCorrect` | `TypeOK` |
| `RecordingsAreKept` | `RecordingsKept` |
| `ExportsOwn` | `ExportIsOwn` |
| `BatchesStaySpread` | `BatchesSpread` |

The heart is `ActiveOwns`: a thread that may still write owns its file.  A new
capture could truncate it only under the same second, but the GUI has waited for
the old thread to end, or for `JoinSeconds` since its dismissal, and the second
of the file is no later than that dismissal (`TimeInv`).  Two seconds are more
than is needed: the proof asks for `JoinSeconds` of at least one.  From there,
the file of an owner is exactly what has left its buffer (`FileInv`), which lags
behind by at most a flush, and by a whole one only until `Flush` (`FlushInv`), and the exported path is that of the
latest thread (`PathInv`).  For the history, neighbouring batches may have one
stamp and others may not (`HistoryInv`); sorting permutes them, and three equal
stamps would be three batches of which two are not neighbours (`SortedSpread`).

### The aggregator

`AggregatorProofs`, for every set of threads and addresses, every width of the
counters and every number of slots:

| Theorem | Property |
|---|---|
| `TypeCorrect` | `TypeOK` |
| `NoByteCountedTwice` | `ThreadsWithinInterface` |
| `HistoriesStayAligned` | `HistoriesAligned` |
| `ConnectionsStayWithinThread` | `ConnectionsWithinThread` |
| `PeakStaysAbove` | `PeakCoversHistory` |
| `RowsFollowTotals` | `FrameRowsNotOlder` |
| `RowsStayTrue` | `RowsTrueToWire` |

The properties that compare a sum with a whole are inductive only together with
`ZeroInv`: an evicted entry leaves nothing behind, the histories and the
connections of its thread included.  Otherwise an entry that returns would bring
old bytes into slots in which the interface has none.  `CountWithin`,
`PartWithin` and `NoneWithin` say how a record, a loss and an empty slot keep
parts within their whole; saturation is covered because the whole may stand
still only at its limit, where `Within` holds of any parts.

`RowsStayTrue` rests on `WireInv`: what is counted as sent for a pair of ends
went from the first to the second, and what is counted as received came back.  A
record is counted under its flow when it is classified as sent and under the
reverse one when it is classified as received, so this does not depend on the
address list; a row that falls back to the reverse key exchanges the directions.
That rows are complete cannot be proved: without the addresses they are not.

`TotalProofs` has what is needed about sums over a finite set of any size.  The
library defines them by a recursive function on subsets.  That this function
exists, that it is a number, that it grows with its terms and does not depend on
the order of summation is shown without an induction rule, by considering a
smallest set for which it would fail (proper inclusion is well-founded on the
subsets of a finite set).

### The resolver

`ResolverProofs`, for all sets of sockets, processes, endpoints and faults:

| Theorem | Property |
|---|---|
| `TypeCorrect` | `TypeOK` |
| `AnswersExplained` | `AnswerExplained` |
| `StableFlowsAnswered` | `StableFlowAnswered` |
| `OneRefreshPerPeriod` | `RefreshAtMostOncePerPeriod` |
| `RefreshRegular` | `RefreshIsRegular`, the refinement of `SocketSnapshot` |

The invariant follows a refresh.  `KernelInv`: open TCP sockets of a table
differ in their endpoints, also from the lingering ones.  `DumpInv`: what was
read has been held since the refresh began, and an unchanged socket is there
once its table has been read, or is still in `todo`; no other row has the
endpoints of an unchanged TCP socket (`Alone`).  `ScanInv`: the owner of an unchanged
socket has been found, or all its fds are still to be seen, or one of them was
passed over (`hidden`); so it is known when the scan ends
(`ScanComplete`), unless it is hidden.
`CacheInv` is what `Commit` makes of these.  `CallInv` ties calls to refreshes.  The refinement maps each
read to a stutter and only `Commit` to a change of the cache.

### Netlink and `/proc`

`SocketSourcesProofs`, for all sets of sockets, structure sizes, datagram sizes
and numbers of datagrams:

| Theorem | Property |
|---|---|
| `TypeCorrect` | `TypeOK` |
| `SlicesStayInBounds` | `SliceInBounds` |
| `QueriesAreWhole` | `SuccessIsWhole` |

The invariant says what the map holds at every point of a query: the inodes of
the rows delivered so far, each with an entry among them (`MapWhole`).
`Delivered` is made of the tables that are finished and the part of the current
one that is no longer in `todo`; that the last table finished means all tables is
the lemma `OrderCovers`, and that no table is listed twice makes the step from
one table to the next.  `InDump` adds that a header was read inside the datagram
and that the end of a dump comes after its last row, which is what is assumed of
the kernel.  `TypeCorrect` includes the bound on the parser's offset, which can
leave the datagram by less than an alignment.  `SourcesAssumption` asks for
positive sizes and inodes other than 0.

### The packet parser

`PacketParserProofs`, for frames of every length and with every header:

| Theorem | Property |
|---|---|
| `ParserTypeCorrect` | `TypeOK` |
| `ParserInBounds` | `ReadsInBounds`: no read past the captured bytes |
| `ParserExact` | `RecordsWellFormed`: a frame becomes a record exactly if it is well formed, with its ports where its headers end |

`Known` is what the checks passed so far have established; the three properties
are inductive together with it.  No assumption is made.

### Model-checked only

The liveness properties `GuiNeverFreezes`, `ShutdownCompletes`, `DeathIsShown`,
`DismissedThreadsEnd` and `QueryEnds`: fairness and `ENABLED` are out of the
prover's reach.  So are the induction theorems of its library, whose parameter is
an operator; the proofs do without them (see `TotalProofs`).

## Not modelled

What addresses, ports and states decode to; the text of CSV rows and of nft
rules; a full disk and a system clock that is set back; `mark_exited_threads`,
names and users (displayed text); rendering, sorting and formatting, which keep
no state that others read; the privilege and VirtualBox checks, which run once
at the start.  That the right thread of a process is charged cannot hold: its
threads share their fds, and the last one scanned takes every socket.

## Plan

1. `Aggregator` and `Resolver` composed: how long a connection can be charged to
   a process that has closed it, and what `mark_exited_threads` then shows.
2. That `SessionFiles` implements `Session`, as `CaptureSession` does, so that
   its threads are those of the capture session by proof and not by construction.
