------------------------------ MODULE Resolver ------------------------------
(***************************************************************************)
(* The resolver cache and the aggregator that asks it who owns a flow.     *)
(*                                                                         *)
(* A refresh reads the kernel piecemeal: one dump for each table of        *)
(* sockets, row by row, by Netlink or, when a Netlink request fails, from  *)
(* /proc/net from the start; then the fds of all processes, one by one.    *)
(* Meanwhile sockets are opened, inherited and closed.  What was read      *)
(* replaces the cache at once.  A source of sockets that fails leaves the  *)
(* old cache, which stays due for a refresh; a scan of the fds that fails  *)
(* leaves sockets without an owner.                                        *)
(*                                                                         *)
(* Of the kernel it is assumed that a dump lists every socket that is      *)
(* there from its beginning to its end; others it may list or not.         *)
(*                                                                         *)
(* An inode stands for one socket: the kernel does not reuse inodes within *)
(* the time of interest, so the endpoints of an inode are fixed.  A closed *)
(* TCP socket may linger in TIME_WAIT, listed with inode 0 as all of them  *)
(* are.  A process is resolved as a whole; its threads share its fds, and  *)
(* names, users and socket states are left out.                            *)
(***************************************************************************)
EXTENDS Naturals, Sequences, FiniteSets

CONSTANTS
    Inodes,    \* sockets that may exist
    TableOf,   \* the kernel's table a socket is listed in
    Pids,      \* processes
    Unknown,   \* the answer for a flow without an owner (pid 0)
    Ends,      \* pairs of local and remote address sockets may have
    FamilyOf,  \* the address family of such a pair
    NoEnds,    \* the endpoints of a socket that was never opened
    NoFlow,    \* no flow
    NoSocket,  \* no socket
    Faults     \* which of "netlink", "proc" and "scan" may fail

NetlinkOrder == <<"tcp4", "udp4", "tcp6", "udp6">>
ProcOrder == <<"tcp4", "tcp6", "udp4", "udp6">>
Tables == {"tcp4", "udp4", "tcp6", "udp6"}
NumTables == 4

ASSUME TableAssumption == TableOf \in [Inodes -> Tables]
ASSUME UnknownAssumption == Unknown \notin Pids
ASSUME EndsAssumption == NoEnds \notin Ends /\ \A e \in Ends : e = <<e[1], e[2]>>
ASSUME FamilyAssumption == FamilyOf \in [Ends -> {"v4", "v6"}]
ASSUME SocketAssumption == NoSocket \notin Inodes
ASSUME SourcesAssumption == Faults \subseteq {"netlink", "proc", "scan"}

Protocol(i) == IF TableOf[i] \in {"tcp4", "tcp6"} THEN "tcp" ELSE "udp"
Family(i) == IF TableOf[i] \in {"tcp4", "udp4"} THEN "v4" ELSE "v6"
Reversed(e) == <<e[2], e[1]>>

\* The packets of both directions and protocols between the endpoints.
Flows == [ends: Ends \cup {Reversed(e) : e \in Ends}, protocol: {"tcp", "udp"}]
Owners == Pids \cup {Unknown}

VARIABLES
    \* the kernel
    ends,              \* the endpoints of each socket
    holders,           \* the processes with an fd of each socket; open if any
    waiting,           \* the closed sockets that linger in TIME_WAIT
    \* the cache
    socket_entries,    \* the sockets of the last successful refresh
    inode_to_process,  \* their owners
    zero_entry,        \* the socket whose row is kept under inode 0
    stale,             \* RESOLVER_REFRESH_PERIOD has passed since then
    \* the aggregator
    connection_cache,  \* its copy of the connections
    scan_due,          \* RESOLVER_SCAN_INTERVAL has passed since the copy
    call,              \* what it asks the resolver for
    pc,                \* where the call is
    answer,            \* the flow just resolved and its owner, until the next call
    \* a refresh
    tables_read,       \* number of tables read from the current source
    found,             \* the sockets read so far
    found_zero,        \* the row read last under inode 0
    todo,              \* the open sockets that the current dump has yet to list
    unscanned,         \* the fds that the scan has yet to see, as <<process, socket>>
    inode_pid_map,     \* the owners found so far
    \* history
    ever_held,         \* all processes that ever had an fd of the socket
    window,            \* those that had one since the refresh began
    unchanged,         \* sockets open with the same fds since the refresh began
    hidden,            \* sockets with an fd that the scan could not read
    stable,            \* those unchanged and not hidden in the last successful refresh
    begun              \* a refresh that has not failed has begun in this period

kernel == <<ends, holders, waiting>>
cache == <<socket_entries, inode_to_process, zero_entry, stale>>
client == <<connection_cache, scan_due, call, answer>>
dumped == <<tables_read, found, found_zero, inode_pid_map>>
reading == <<dumped, todo, unscanned>>
history == <<ever_held, window, unchanged, hidden, stable, begun>>
vars == <<kernel, cache, client, pc, reading, history>>

Open == {i \in Inodes : holders[i] # {}}
Fds == {x \in Pids \X Inodes : x[1] \in holders[x[2]]}
Nobody == [i \in Inodes |-> Unknown]
Nowhere == [i \in Inodes |-> {}]
Refreshing == pc \in {"netlink", "proc", "scan"}
NoAnswer == [flow |-> NoFlow, owner |-> Unknown]

TypeOK ==
    /\ ends \in [Inodes -> Ends \cup {NoEnds}]
    /\ holders \in [Inodes -> SUBSET Pids]
    /\ waiting \subseteq Inodes \ Open
    /\ socket_entries \subseteq Inodes
    /\ inode_to_process \in [Inodes -> Owners]
    /\ zero_entry \in Inodes \cup {NoSocket}
    /\ stale \in BOOLEAN
    /\ connection_cache \in [inodes: SUBSET Inodes, owner: [Inodes -> Owners],
                             zero: Inodes \cup {NoSocket}]
    /\ scan_due \in BOOLEAN
    /\ call \in [op: {"none", "flow", "refresh", "list", "pid"}, flow: Flows \cup {NoFlow}]
    /\ pc \in {"idle", "netlink", "proc", "scan", "answer"}
    /\ answer \in [flow: Flows \cup {NoFlow}, owner: Owners]
    /\ tables_read \in 0 .. NumTables - 1
    /\ found \subseteq Inodes
    /\ found_zero \in Inodes \cup {NoSocket}
    /\ todo \subseteq Open
    /\ unscanned \subseteq Fds
    /\ inode_pid_map \in [Inodes -> Owners]
    /\ ever_held \in [Inodes -> SUBSET Pids]
    /\ window \in [Inodes -> SUBSET Pids]
    /\ unchanged \subseteq Open /\ stable \subseteq Open
    /\ hidden \subseteq Inodes
    /\ begun \in BOOLEAN

Init ==
    /\ ends = [i \in Inodes |-> NoEnds]
    /\ holders = Nowhere
    /\ waiting = {}
    /\ socket_entries = {}
    /\ inode_to_process = Nobody
    /\ zero_entry = NoSocket
    /\ stale = TRUE
    /\ connection_cache = [inodes |-> {}, owner |-> Nobody, zero |-> NoSocket]
    /\ scan_due = TRUE
    /\ call = [op |-> "none", flow |-> NoFlow]
    /\ pc = "idle"
    /\ answer = NoAnswer
    /\ tables_read = 0 /\ found = {} /\ found_zero = NoSocket
    /\ todo = {} /\ unscanned = {} /\ inode_pid_map = Nobody
    /\ ever_held = Nowhere /\ window = Nowhere
    /\ unchanged = {} /\ hidden = {} /\ stable = {}
    /\ begun = FALSE

-----------------------------------------------------------------------------
(* A refresh.                                                              *)

\* The sockets of these in a table.
Listed(sockets, table) == {i \in sockets : TableOf[i] = table}

\* A source is read from its first table.
FromStart(order) ==
    /\ tables_read' = 0
    /\ found' = {}
    /\ found_zero' = NoSocket
    /\ todo' = Listed(Open, order[1])

\* refresh_if_needed, on behalf of call c.
refresh_if_needed(c) ==
    /\ call' = c
    /\ answer' = NoAnswer
    /\ IF stale
       THEN /\ pc' = "netlink"
            /\ FromStart(NetlinkOrder)
            /\ window' = holders
            /\ unchanged' = Open
            /\ begun' = TRUE
       ELSE /\ pc' = "answer"
            /\ UNCHANGED <<tables_read, found, found_zero, todo, window, unchanged, begun>>
    /\ UNCHANGED <<unscanned, inode_pid_map, ever_held, hidden, stable>>

\* A row of the current table is read: an open socket by its inode, one in
\* TIME_WAIT under inode 0, where the last one is kept.
ReadRow(i, order) ==
    /\ i \in Listed(Open \cup waiting, order[tables_read + 1])
    /\ IF i \in Open THEN found' = found \cup {i} /\ UNCHANGED found_zero
                     ELSE found_zero' = i /\ UNCHANGED found
    /\ todo' = todo \ {i}
    /\ UNCHANGED <<pc, tables_read, unscanned, inode_pid_map, kernel, cache, client, history>>

\* The current table has been read; the next one follows, and after the last
\* one the scan of the fds.
TableEnds(order) ==
    /\ todo = {}
    /\ IF tables_read + 1 < NumTables
       THEN /\ tables_read' = tables_read + 1
            /\ todo' = Listed(Open, order[tables_read + 2])
            /\ UNCHANGED <<pc, unscanned, inode_pid_map>>
       ELSE /\ tables_read' = 0
            /\ todo' = {}
            /\ pc' = "scan"
            /\ unscanned' = Fds
            /\ inode_pid_map' = Nobody
    /\ UNCHANGED <<found, found_zero, kernel, cache, client, history>>

query_family_protocol(i) == pc = "netlink" /\ ReadRow(i, NetlinkOrder)

DumpDone == pc = "netlink" /\ TableEnds(NetlinkOrder)

\* Mutated form: what Netlink has delivered is taken for everything.
NetlinkErrorTakesPart ==
    /\ pc = "netlink"
    /\ "netlink" \in Faults
    /\ pc' = "scan"
    /\ tables_read' = 0
    /\ todo' = {}
    /\ unscanned' = Fds
    /\ inode_pid_map' = Nobody
    /\ UNCHANGED <<found, found_zero, kernel, cache, client, history>>

\* Any of the four requests fails: the fallback starts from nothing.
NetlinkError ==
    /\ pc = "netlink"
    /\ "netlink" \in Faults
    /\ pc' = "proc"
    /\ FromStart(ProcOrder)
    /\ UNCHANGED <<unscanned, inode_pid_map, kernel, cache, client, history>>

read_proc_file(i) == pc = "proc" /\ ReadRow(i, ProcOrder)

FileEnds == pc = "proc" /\ TableEnds(ProcOrder)

\* Mutated form: the cache is emptied before the fallback is read.
ProcErrorEmptiesCache ==
    /\ pc = "proc"
    /\ "proc" \in Faults
    /\ pc' = "answer"
    /\ tables_read' = 0
    /\ found' = {} /\ found_zero' = NoSocket /\ todo' = {}
    /\ socket_entries' = {} /\ inode_to_process' = Nobody /\ zero_entry' = NoSocket
    /\ unchanged' = {} /\ window' = Nowhere /\ begun' = FALSE /\ stable' = {}
    /\ UNCHANGED <<stale, unscanned, inode_pid_map, kernel, client, ever_held, hidden>>

\* The fallback fails too: refresh returns the error before it touches the
\* cache or last_refresh, and every caller ignores the error.
ProcError ==
    /\ pc = "proc"
    /\ "proc" \in Faults
    /\ pc' = "answer"
    /\ tables_read' = 0
    /\ found' = {} /\ found_zero' = NoSocket /\ todo' = {}
    /\ unchanged' = {} /\ window' = Nowhere /\ begun' = FALSE
    /\ UNCHANGED <<unscanned, inode_pid_map, kernel, cache, client, ever_held, hidden, stable>>

\* An fd is seen: a later process that has the same socket takes it over.  The
\* fds come in any order here, which includes that of the directories, and more
\* than once, as each thread lists those of its process.
scan_fd_dir(p, i) ==
    /\ pc = "scan"
    /\ p \in holders[i]
    /\ unscanned' = unscanned \ {<<p, i>>}
    /\ inode_pid_map' = [inode_pid_map EXCEPT ![i] = p]
    /\ UNCHANGED <<pc, tables_read, found, found_zero, todo, kernel, cache, client, history>>

\* The link of the fd, its directory, or the name or user of its process cannot
\* be read: build_inode_pid_map passes over it.
SkipFd(p, i) ==
    /\ pc = "scan"
    /\ "scan" \in Faults
    /\ <<p, i>> \in unscanned
    /\ unscanned' = unscanned \ {<<p, i>>}
    /\ hidden' = hidden \cup {i}
    /\ UNCHANGED <<pc, tables_read, found, found_zero, todo, inode_pid_map, kernel, cache, client,
                   ever_held, window, unchanged, stable, begun>>

\* /proc itself cannot be listed: build_inode_pid_map returns an empty map,
\* and the refresh goes on with it.
ScanFails ==
    /\ pc = "scan"
    /\ "scan" \in Faults
    /\ inode_pid_map = Nobody
    /\ unscanned' = {}
    /\ hidden' = Inodes
    /\ UNCHANGED <<pc, tables_read, found, found_zero, todo, inode_pid_map, kernel, cache, client,
                   ever_held, window, unchanged, stable, begun>>

\* Mutated form: a socket without an owner is left out.
map_owned_only ==
    [i \in {j \in found : inode_pid_map[j] # Unknown} |-> inode_pid_map[i]]

\* The sockets joined with the owners found; a socket without one is Unknown's.
\* build_connections joins them in the same way.
build_inode_process_map ==
    [i \in Inodes |-> IF i \in found THEN inode_pid_map[i] ELSE Unknown]

\* Mutated form: last_refresh is not set.
CommitStaysStale ==
    /\ pc = "scan"
    /\ unscanned = {}
    /\ socket_entries' = found
    /\ inode_to_process' = build_inode_process_map
    /\ zero_entry' = found_zero
    /\ stable' = unchanged \ hidden
    /\ unchanged' = {} /\ hidden' = {} /\ window' = Nowhere
    /\ pc' = "answer"
    /\ found' = {} /\ found_zero' = NoSocket
    /\ inode_pid_map' = Nobody
    /\ UNCHANGED <<tables_read, todo, unscanned, kernel, stale, client, ever_held, begun>>

\* The end of refresh: what was read replaces the cache.
Commit ==
    /\ pc = "scan"
    /\ unscanned = {}
    /\ socket_entries' = found
    /\ inode_to_process' = build_inode_process_map
    /\ zero_entry' = found_zero
    /\ stale' = FALSE
    /\ stable' = unchanged \ hidden
    /\ unchanged' = {} /\ hidden' = {} /\ window' = Nowhere
    /\ pc' = "answer"
    /\ found' = {} /\ found_zero' = NoSocket
    /\ inode_pid_map' = Nobody
    /\ UNCHANGED <<tables_read, todo, unscanned, kernel, client, ever_held, begun>>

-----------------------------------------------------------------------------
(* The aggregator's calls.                                                 *)

resolve_flow_owner(f) ==
    /\ pc = "idle"
    /\ refresh_if_needed([op |-> "flow", flow |-> f])
    /\ UNCHANGED <<kernel, cache, connection_cache, scan_due>>

\* mark_exited_threads asks for a pid; only the refresh matters here.
process_by_pid ==
    /\ pc = "idle"
    /\ refresh_if_needed([op |-> "pid", flow |-> NoFlow])
    /\ UNCHANGED <<kernel, cache, connection_cache, scan_due>>

refresh_connection_cache_if_due ==
    /\ pc = "idle"
    /\ scan_due
    /\ refresh_if_needed([op |-> "refresh", flow |-> NoFlow])
    /\ UNCHANGED <<kernel, cache, connection_cache, scan_due>>

\* list_connections tries again if the refresh before it has failed.
list_connections ==
    /\ pc = "answer"
    /\ call.op = "refresh"
    /\ refresh_if_needed([op |-> "list", flow |-> NoFlow])
    /\ UNCHANGED <<kernel, cache, connection_cache, scan_due>>

Returned == pc' = "idle" /\ call' = [op |-> "none", flow |-> NoFlow]

CopyConnections ==
    /\ pc = "answer"
    /\ call.op = "list"
    /\ connection_cache' = [inodes |-> socket_entries, owner |-> inode_to_process,
                             zero |-> zero_entry]
    /\ scan_due' = FALSE
    /\ Returned
    /\ UNCHANGED <<kernel, cache, answer, reading, history>>

AnswerPid ==
    /\ pc = "answer"
    /\ call.op = "pid"
    /\ Returned
    /\ UNCHANGED <<kernel, cache, connection_cache, scan_due, answer, reading, history>>

\* Mutated form: the protocol is not compared.
matches_any_protocol(i, f) == ends[i] \in {f.ends, Reversed(f.ends)}

\* forward_match or reverse_match.
matches(i, f) == Protocol(i) = f.protocol /\ ends[i] \in {f.ends, Reversed(f.ends)}

\* The owners of the rows that match the flow; the row of inode 0 has none.
Matching(f, inodes, owner, zero) ==
    {owner[i] : i \in {j \in inodes : matches(j, f)}}
      \cup (IF zero # NoSocket /\ matches(zero, f) THEN {Unknown} ELSE {})

\* process_record: the first match in the order of a hash map, in the cache or
\* else in the aggregator's older copy.
AnswerFlow ==
    LET f == call.flow
        cached == Matching(f, socket_entries, inode_to_process, zero_entry)
        copied == Matching(f, connection_cache.inodes, connection_cache.owner,
                           connection_cache.zero)
    IN  /\ pc = "answer"
        /\ call.op = "flow"
        /\ \E o \in IF cached # {} THEN cached ELSE IF copied # {} THEN copied ELSE {Unknown} :
              answer' = [flow |-> f, owner |-> o]
        /\ Returned
        /\ UNCHANGED <<kernel, cache, connection_cache, scan_due, reading, history>>

-----------------------------------------------------------------------------
(* The environment.                                                        *)

\* A new set of holders of socket i.  A refresh under way need not see an fd
\* that is gone, nor one that is new.
Hold(i, ps) ==
    /\ holders' = [holders EXCEPT ![i] = ps]
    /\ todo' = IF ps = {} THEN todo \ {i} ELSE todo
    /\ unscanned' = {x \in unscanned : x[2] = i => x[1] \in ps}
    /\ ever_held' = [ever_held EXCEPT ![i] = @ \cup ps]
    /\ window' = IF Refreshing THEN [window EXCEPT ![i] = @ \cup ps] ELSE window
    /\ unchanged' = unchanged \ {i}
    /\ stable' = stable \ {i}

\* A socket is opened; its table holds addresses of one family.  No two open
\* TCP sockets have the same endpoints (but for listening ones, whose rows match
\* no packet), and one in TIME_WAIT gives way to its successor; UDP sockets may
\* share theirs (SO_REUSEPORT).
OpenSocket(p, i, e) ==
    /\ ends[i] = NoEnds
    /\ FamilyOf[e] = Family(i)
    /\ Protocol(i) = "tcp" => \A j \in Open : TableOf[j] = TableOf[i] => ends[j] # e
    /\ ends' = [ends EXCEPT ![i] = e]
    /\ waiting' = {j \in waiting : TableOf[j] # TableOf[i] \/ ends[j] # e}
    /\ Hold(i, {p})
    /\ UNCHANGED <<cache, client, pc, dumped, hidden, begun>>

\* A child inherits the socket, or receives it in a message.
Inherit(p, i) ==
    /\ i \in Open
    /\ p \notin holders[i]
    /\ Hold(i, holders[i] \cup {p})
    /\ UNCHANGED <<ends, waiting, cache, client, pc, dumped, hidden, begun>>

\* After the last close a TCP socket may linger.
CloseFd(p, i) ==
    /\ p \in holders[i]
    /\ Hold(i, holders[i] \ {p})
    /\ \/ UNCHANGED waiting
       \/ holders[i] = {p} /\ Protocol(i) = "tcp" /\ waiting' = waiting \cup {i}
    /\ UNCHANGED <<ends, cache, client, pc, dumped, hidden, begun>>

TimeWaitEnds(i) ==
    /\ i \in waiting
    /\ waiting' = waiting \ {i}
    /\ UNCHANGED <<ends, holders, cache, client, pc, reading, history>>

RefreshPeriodPasses ==
    /\ ~stale
    /\ stale' = TRUE
    /\ begun' = FALSE
    /\ UNCHANGED <<kernel, socket_entries, inode_to_process, zero_entry, client, pc, reading,
                   ever_held, window, unchanged, hidden, stable>>

ScanIntervalPasses ==
    /\ ~scan_due
    /\ scan_due' = TRUE
    /\ UNCHANGED <<kernel, cache, connection_cache, call, answer, pc, reading, history>>

-----------------------------------------------------------------------------

Next ==
    \/ \E f \in Flows : resolve_flow_owner(f)
    \/ process_by_pid \/ refresh_connection_cache_if_due \/ list_connections
    \/ CopyConnections \/ AnswerPid \/ AnswerFlow
    \/ \E i \in Inodes : query_family_protocol(i) \/ read_proc_file(i)
    \/ DumpDone \/ NetlinkError \/ FileEnds \/ ProcError
    \/ \E p \in Pids, i \in Inodes : scan_fd_dir(p, i) \/ SkipFd(p, i)
    \/ ScanFails \/ Commit
    \/ \E p \in Pids, i \in Inodes, e \in Ends : OpenSocket(p, i, e)
    \/ \E p \in Pids, i \in Inodes : Inherit(p, i) \/ CloseFd(p, i)
    \/ \E i \in Inodes : TimeWaitEnds(i)
    \/ RefreshPeriodPasses \/ ScanIntervalPasses

Spec == Init /\ [][Next]_vars

-----------------------------------------------------------------------------
(* Properties.                                                             *)

\* A flow is only attributed to a process that had an fd of a socket with the
\* flow's protocol and endpoints, in one direction or the other, however old
\* the cache or the aggregator's copy is (resolve_flow_owner, process_record).
AnswerExplained ==
    answer.owner # Unknown =>
        \E i \in Inodes : /\ answer.owner \in ever_held[i]
                          /\ Protocol(i) = answer.flow.protocol
                          /\ answer.flow.ends \in {ends[i], Reversed(ends[i])}

\* The rows that can be taken for socket i: those of its peer, if that is on
\* this host too, and of UDP sockets with the same endpoints.
Rivals(i) ==
    {j \in socket_entries \cup ({zero_entry} \ {NoSocket}) :
        /\ Protocol(j) = Protocol(i)
        /\ \/ ends[j] = Reversed(ends[i])
           \/ Protocol(i) = "udp" /\ j # i /\ ends[j] = ends[i]}

\* Whatever changed during a dump or between two of them, whichever source
\* failed half way, whichever predecessors and leftovers were listed: a flow
\* of a socket that has had the same fds since the last successful refresh
\* began, and whose fds that refresh could read, is given to a process that
\* has it, unless its peer or a twin has a row too (refresh, resolve_flow_owner).
StableFlowAnswered ==
    \A i \in stable :
        answer.flow # NoFlow /\ matches(i, answer.flow) /\ Rivals(i) = {}
            => answer.owner \in holders[i]

\* "Refresh interval cap for expensive resolver scans": a refresh begins at
\* most once in a period, as long as it does not fail (refresh_if_needed,
\* docs/architecture.md).
RefreshAtMostOncePerPeriod == [][pc # "netlink" /\ pc' = "netlink" => ~begun]_vars

-----------------------------------------------------------------------------
(* The promise of a refresh.                                               *)

Snapshot == INSTANCE SocketSnapshot WITH
    reading <- Refreshing,
    steady <- unchanged,
    entries <- socket_entries,
    owner <- inode_to_process

\* A refresh, with its four dumps, the fallback and the scan of the fds, all of
\* them piecemeal, replaces the cache at once by a regular snapshot of the
\* sockets and of the owners it could read or, when its sources fail, leaves
\* the cache alone (refresh; specified by SocketSnapshot).
RefreshIsRegular == Snapshot!Spec

=============================================================================
