--------------------------- MODULE ResolverProofs ---------------------------
(***************************************************************************)
(* Proofs about Resolver, for every set of sockets, processes, endpoints   *)
(* and faults.                                                             *)
(***************************************************************************)
EXTENDS Resolver, TLAPS

Order == IF pc = "proc" THEN ProcOrder ELSE NetlinkOrder

\* The tables that this refresh has read from its current source, and the one
\* it reads.
TablesDone == IF pc = "scan" THEN Tables ELSE {Order[k] : k \in 1 .. tables_read}
CurrentTable == Order[tables_read + 1]

\* A TCP socket is the only one among these rows with its endpoints.
Alone(i, rows, zero) ==
    Protocol(i) = "tcp" =>
        /\ \A j \in rows : Protocol(j) = "tcp" /\ ends[j] = ends[i] => j = i
        /\ zero # NoSocket => ends[zero] # ends[i]

\* The kernel: a socket that was ever held has endpoints of its family, and the
\* open ones of TCP differ among themselves and from the lingering ones.
KernelInv ==
    /\ \A i \in Inodes : holders[i] \subseteq ever_held[i]
    /\ \A i \in Inodes : ever_held[i] # {} => ends[i] # NoEnds
    /\ \A i \in Inodes : ends[i] # NoEnds => FamilyOf[ends[i]] = Family(i)
    /\ \A i \in waiting : ends[i] # NoEnds /\ Protocol(i) = "tcp"
    /\ \A i, j \in Open :
           Protocol(i) = "tcp" /\ Protocol(j) = "tcp" /\ ends[i] = ends[j] => i = j
    /\ \A i \in waiting, j \in Open : Protocol(j) = "tcp" => ends[i] # ends[j]

\* The dumps: what has been read was held in the window of the refresh, and
\* what did not change is there once its table has been read, and there or still
\* to be listed while it is read.
DumpInv ==
    Refreshing =>
        /\ \A i \in Inodes : holders[i] \subseteq window[i] /\ window[i] \subseteq ever_held[i]
        /\ \A i \in found : window[i] # {}
        /\ found_zero # NoSocket => ends[found_zero] # NoEnds /\ Protocol(found_zero) = "tcp"
        /\ \A i \in unchanged : TableOf[i] \in TablesDone => i \in found
        /\ pc # "scan" => \A i \in unchanged : TableOf[i] = CurrentTable => i \in found \cup todo
        /\ \A i \in unchanged : Alone(i, found, found_zero)

\* The scan: the owner of a socket that did not change and has no unreadable fd
\* has been found, or all its fds are still to be seen.
ScanInv ==
    /\ pc # "scan" => hidden = {}
    /\ pc = "scan" =>
        /\ \A i \in Inodes : inode_pid_map[i] \in window[i] \cup {Unknown}
        /\ \A i \in unchanged \ hidden :
               \/ inode_pid_map[i] \in holders[i]
               \/ \A p \in holders[i] : <<p, i>> \in unscanned

\* The cache and the aggregator's copy name true owners, and the cache has
\* every stable socket with an owner and, if it is of TCP, without a double.
CacheInv ==
    /\ \A i \in Inodes : inode_to_process[i] \in ever_held[i] \cup {Unknown}
    /\ \A i \in Inodes : connection_cache.owner[i] \in ever_held[i] \cup {Unknown}
    /\ \A i \in socket_entries : ends[i] # NoEnds
    /\ zero_entry # NoSocket => ends[zero_entry] # NoEnds /\ Protocol(zero_entry) = "tcp"
    /\ \A i \in stable : /\ i \in socket_entries
                         /\ inode_to_process[i] \in holders[i]
                         /\ Alone(i, socket_entries, zero_entry)

\* The calls: a flow is asked for, answers do not outlive the next call, and a
\* refresh that has succeeded in this period leaves the cache fresh.
CallInv ==
    /\ call.op = "flow" => call.flow \in Flows
    /\ pc # "idle" => answer = NoAnswer
    /\ begun /\ ~Refreshing => ~stale

\* The inductive invariant.
IInv ==
    /\ TypeOK /\ KernelInv /\ DumpInv /\ ScanInv /\ CacheInv /\ CallInv
    /\ AnswerExplained /\ StableFlowAnswered

-----------------------------------------------------------------------------
(* The operators.                                                          *)

LEMMA OrderFacts ==
    ASSUME NEW order \in {NetlinkOrder, ProcOrder}, NEW n \in 0 .. 3
    PROVE  /\ order[n + 1] \in Tables
           /\ order[n + 1] \notin {order[k] : k \in 1 .. n}
           /\ {order[k] : k \in 1 .. n + 1} = {order[k] : k \in 1 .. n} \cup {order[n + 1]}
           /\ n + 1 = 4 => {order[k] : k \in 1 .. n + 1} = Tables
<1>1. order[n + 1] \in Tables
  BY DEF NetlinkOrder, ProcOrder, Tables
<1>2. \A k \in 1 .. n : order[n + 1] # order[k]
  BY DEF NetlinkOrder, ProcOrder
<1>3. {order[k] : k \in 1 .. n + 1} = {order[k] : k \in 1 .. n} \cup {order[n + 1]}
  <2>1. 1 .. n + 1 = (1 .. n) \cup {n + 1}
    OBVIOUS
  <2> QED
    BY <2>1
<1>4. ASSUME n + 1 = 4
      PROVE  {order[k] : k \in 1 .. n + 1} = Tables
  <2>1. \A k \in 1 .. 4 : order[k] \in Tables
    BY DEF NetlinkOrder, ProcOrder, Tables
  <2>2. \A t \in Tables : \E k \in 1 .. 4 : order[k] = t
    <3>1. ASSUME order = NetlinkOrder, NEW t \in Tables
          PROVE  t \in {order[1], order[2], order[3], order[4]}
      BY <3>1 DEF NetlinkOrder, Tables
    <3>2. ASSUME order = ProcOrder, NEW t \in Tables
          PROVE  t \in {order[1], order[2], order[3], order[4]}
      BY <3>2 DEF ProcOrder, Tables
    <3> QED
      BY <3>1, <3>2
  <2> QED
    BY <1>4, <2>1, <2>2
<1> QED
  BY <1>1, <1>2, <1>3, <1>4

LEMMA ReversedTwice ==
    ASSUME NEW f \in Flows
    PROVE  Reversed(Reversed(f.ends)) = f.ends
BY EndsAssumption DEF Flows, Reversed

\* Sockets of one protocol with the same endpoints are in the same table.
LEMMA SameTable ==
    ASSUME NEW i \in Inodes, NEW j \in Inodes, Protocol(i) = Protocol(j), Family(i) = Family(j)
    PROVE  TableOf[i] = TableOf[j]
BY TableAssumption DEF Protocol, Family, Tables

-----------------------------------------------------------------------------
(* The inductive invariant.                                                *)

LEMMA IInvInit == Init => IInv
<1> SUFFICES ASSUME Init PROVE IInv
  OBVIOUS
<1> USE DEF Init, Nowhere, Nobody, NoAnswer
<1>1. TypeOK
  <2>1. Nobody \in [Inodes -> Owners] /\ Nowhere \in [Inodes -> SUBSET Pids] /\ Unknown \in Owners
    BY DEF Owners
  <2>2. connection_cache \in [inodes: SUBSET Inodes, owner: [Inodes -> Owners],
                              zero: Inodes \cup {NoSocket}]
    BY <2>1
  <2>3. /\ call \in [op: {"none", "flow", "refresh", "list", "pid"}, flow: Flows \cup {NoFlow}]
        /\ answer \in [flow: Flows \cup {NoFlow}, owner: Owners]
    BY <2>1
  <2>4. 0 \in 0 .. NumTables - 1
    BY DEF NumTables
  <2> HIDE DEF Nobody, Nowhere, NoAnswer
  <2> QED
    BY <2>1, <2>2, <2>3, <2>4 DEF TypeOK
<1>2. KernelInv
  BY DEF KernelInv, Open
<1>3. DumpInv /\ ScanInv
  BY DEF DumpInv, ScanInv, Refreshing
<1>4. CacheInv
  BY DEF CacheInv
<1>5. CallInv
  BY DEF CallInv
<1>6. AnswerExplained /\ StableFlowAnswered
  BY DEF AnswerExplained, StableFlowAnswered
<1> QED
  BY <1>1, <1>2, <1>3, <1>4, <1>5, <1>6 DEF IInv

CallForms ==
    {c \in [op: {"flow", "refresh", "list", "pid"}, flow: Flows \cup {NoFlow}] :
        c.op = "flow" => c.flow \in Flows}

\* A call of the aggregator that comes to refresh_if_needed.
Asks(c) ==
    /\ pc \in {"idle", "answer"}
    /\ refresh_if_needed(c)
    /\ UNCHANGED <<kernel, cache, connection_cache, scan_due>>

LEMMA AskStep ==
    ASSUME IInv, NEW c \in CallForms, Asks(c)
    PROVE  IInv'
<1> USE DEF IInv, Asks, refresh_if_needed, FromStart, Listed, kernel, cache, Open
<1>1. TypeOK'
  <2>1. /\ call' \in [op: {"none", "flow", "refresh", "list", "pid"}, flow: Flows \cup {NoFlow}]
        /\ answer' \in [flow: Flows \cup {NoFlow}, owner: Owners]
    BY DEF CallForms, NoAnswer, Owners
  <2>2. CASE stale
    BY <2>1, <2>2 DEF TypeOK, NumTables, Fds
  <2>3. CASE ~stale
    BY <2>1, <2>3 DEF TypeOK, NumTables, Fds
  <2> QED
    BY <2>2, <2>3
<1>2. KernelInv'
  BY DEF KernelInv
<1>3. DumpInv'
  <2>1. CASE stale
    <3>1. TablesDone' = {} /\ CurrentTable' = NetlinkOrder[1]
      BY <2>1 DEF TablesDone, CurrentTable, Order
    <3> QED
      BY <2>1, <3>1 DEF DumpInv, Refreshing, KernelInv, TypeOK, Alone
  <2>2. CASE ~stale
    BY <2>2 DEF DumpInv, Refreshing
  <2> QED
    BY <2>1, <2>2
<1>4. ScanInv'
  BY DEF ScanInv
<1>5. CacheInv'
  BY DEF CacheInv, Alone
<1>6. CallInv'
  BY DEF CallInv, CallForms, Refreshing
<1>7. AnswerExplained' /\ StableFlowAnswered'
  BY DEF AnswerExplained, StableFlowAnswered, NoAnswer
<1> QED
  BY <1>1, <1>2, <1>3, <1>4, <1>5, <1>6, <1>7

\* A row is read, by Netlink or from /proc/net.
Reads(i) == pc \in {"netlink", "proc"} /\ ReadRow(i, Order)

LEMMA ReadStep ==
    ASSUME IInv, NEW i \in Inodes, Reads(i)
    PROVE  IInv'
<1> USE DEF IInv, Reads, ReadRow, Listed, kernel, cache, client, history
<1>1. \/ i \in Open /\ found' = found \cup {i} /\ found_zero' = found_zero
      \/ i \in waiting /\ found' = found /\ found_zero' = i
  OBVIOUS
<1>2. Refreshing /\ Refreshing' /\ TablesDone' = TablesDone /\ CurrentTable' = CurrentTable
  BY DEF Refreshing, TablesDone, CurrentTable, Order
<1>3. TypeOK'
  BY <1>1 DEF TypeOK, Open, Fds
<1>4. KernelInv'
  BY DEF KernelInv, Open
<1>5. DumpInv'
  <2>1. \A j \in found' : window[j] # {}
    BY <1>1, <1>2 DEF DumpInv, Open
  <2>2. found_zero' # NoSocket => ends[found_zero'] # NoEnds /\ Protocol(found_zero') = "tcp"
    BY <1>1, <1>2 DEF DumpInv, KernelInv
  <2>3. \A j \in unchanged : j \in found \cup todo => j \in found' \cup todo'
    BY <1>1 DEF TypeOK
  <2>4. \A j \in unchanged : Alone(j, found', found_zero')
    BY <1>1, <1>2, SocketAssumption DEF DumpInv, KernelInv, TypeOK, Alone
  <2>5. found \subseteq found'
    BY <1>1
  <2> QED
    BY <1>2, <2>1, <2>2, <2>3, <2>4, <2>5 DEF DumpInv, Alone
<1>6. ScanInv' /\ CallInv'
  BY <1>2 DEF ScanInv, CallInv
<1>7. CacheInv'
  BY DEF CacheInv, Alone
<1>8. AnswerExplained' /\ StableFlowAnswered'
  BY DEF AnswerExplained, StableFlowAnswered, Rivals, matches
<1> QED
  BY <1>3, <1>4, <1>5, <1>6, <1>7, <1>8

\* A table ends, in either source.
EndsTable == pc \in {"netlink", "proc"} /\ TableEnds(Order)

LEMMA TableEndsStep ==
    ASSUME IInv, EndsTable
    PROVE  IInv'
<1> USE DEF IInv, EndsTable, TableEnds, kernel, cache, client, history
<1>t. tables_read \in 0 .. 3
  BY DEF TypeOK, NumTables
<1>o. Order \in {NetlinkOrder, ProcOrder}
  BY DEF Order
<1>1. CurrentTable \in Tables /\ TablesDone' = TablesDone \cup {CurrentTable}
  <2>1. TablesDone = {Order[k] : k \in 1 .. tables_read} /\ CurrentTable = Order[tables_read + 1]
    BY DEF TablesDone, CurrentTable
  <2>2. CASE tables_read + 1 < NumTables
    <3>1. TablesDone' = {Order[k] : k \in 1 .. tables_read + 1}
      BY <2>2 DEF TablesDone, Order
    <3> QED
      BY <1>t, <1>o, <2>1, <3>1, OrderFacts
  <2>3. CASE ~(tables_read + 1 < NumTables)
    <3>1. TablesDone' = Tables /\ tables_read + 1 = 4
      BY <2>3, <1>t DEF TablesDone, NumTables
    <3> QED
      BY <1>t, <1>o, <2>1, <3>1, OrderFacts
  <2> QED
    BY <2>2, <2>3
<1>2. Refreshing /\ Refreshing' /\ pc # "scan"
  BY DEF Refreshing
<1>3. pc' # "scan" => todo' = {i \in Open : TableOf[i] = CurrentTable'}
  <2> SUFFICES ASSUME pc' # "scan" PROVE todo' = {i \in Open : TableOf[i] = CurrentTable'}
    OBVIOUS
  <2>1. /\ tables_read + 1 < NumTables /\ pc' = pc /\ tables_read' = tables_read + 1
        /\ todo' = {i \in Open : TableOf[i] = Order[tables_read + 2]}
    BY DEF Listed
  <2>2. CurrentTable' = Order[tables_read + 2]
    BY <1>t, <2>1 DEF CurrentTable, Order
  <2> QED
    BY <2>1, <2>2
<1>4. TypeOK'
  BY <1>t DEF TypeOK, Nobody, Owners, NumTables, Open, Fds, Listed
<1>5. KernelInv'
  BY DEF KernelInv, Open
<1>6. DumpInv'
  <2>1. \A i \in unchanged : TableOf[i] \in TablesDone' => i \in found
    BY <1>1, <1>2 DEF DumpInv
  <2>2. pc' # "scan" => \A i \in unchanged : TableOf[i] = CurrentTable' => i \in todo'
    BY <1>3 DEF TypeOK
  <2> QED
    BY <1>2, <2>1, <2>2 DEF DumpInv, Alone
<1>7. ScanInv'
  <2> SUFFICES ASSUME pc' = "scan" PROVE ScanInv'
    BY <1>2 DEF ScanInv
  <2>1. inode_pid_map' = Nobody /\ unscanned' = Fds
    OBVIOUS
  <2>2. \A i \in unchanged : \A p \in holders[i] : <<p, i>> \in Fds
    BY DEF TypeOK, Open, Fds
  <2> QED
    BY <2>1, <2>2 DEF ScanInv, Nobody
<1>8. CacheInv'
  BY DEF CacheInv, Alone
<1>9. CallInv'
  BY <1>2 DEF CallInv
<1>10. AnswerExplained' /\ StableFlowAnswered'
  BY DEF AnswerExplained, StableFlowAnswered, Rivals, matches
<1> QED
  BY <1>4, <1>5, <1>6, <1>7, <1>8, <1>9, <1>10

LEMMA NetlinkErrorStep ==
    ASSUME IInv, NetlinkError
    PROVE  IInv'
<1> USE DEF IInv, NetlinkError, FromStart, Listed, kernel, cache, client, history, Open
<1>1. TypeOK'
  BY DEF TypeOK, NumTables, Fds
<1>2. KernelInv'
  BY DEF KernelInv
<1>3. DumpInv'
  <2>1. TablesDone' = {} /\ CurrentTable' = ProcOrder[1]
    BY DEF TablesDone, CurrentTable, Order
  <2> QED
    BY <2>1 DEF DumpInv, Refreshing, Alone, TypeOK
<1>4. ScanInv' /\ CallInv'
  BY DEF ScanInv, CallInv, Refreshing
<1>5. CacheInv'
  BY DEF CacheInv, Alone
<1>6. AnswerExplained' /\ StableFlowAnswered'
  BY DEF AnswerExplained, StableFlowAnswered, Rivals, matches
<1> QED
  BY <1>1, <1>2, <1>3, <1>4, <1>5, <1>6

LEMMA ProcErrorStep ==
    ASSUME IInv, ProcError
    PROVE  IInv'
<1> USE DEF IInv, ProcError, kernel, cache, client
<1>1. TypeOK'
  <2>1. window' \in [Inodes -> SUBSET Pids]
    BY DEF Nowhere
  <2>2. Open' = Open
    BY DEF Open
  <2>3. tables_read' \in 0 .. NumTables - 1
    BY DEF NumTables
  <2>4. begun' \in BOOLEAN
    BY Zenon
  <2> QED
    BY <2>1, <2>2, <2>3, <2>4 DEF TypeOK, Fds
<1>2. KernelInv'
  BY DEF KernelInv, Open
<1>3. DumpInv' /\ ScanInv' /\ CallInv'
  BY DEF DumpInv, ScanInv, CallInv, Refreshing
<1>4. CacheInv'
  BY DEF CacheInv, Alone
<1>5. AnswerExplained' /\ StableFlowAnswered'
  BY DEF AnswerExplained, StableFlowAnswered, Rivals, matches
<1> QED
  BY <1>1, <1>2, <1>3, <1>4, <1>5

LEMMA ScanStep ==
    ASSUME IInv, NEW p \in Pids, NEW i \in Inodes, scan_fd_dir(p, i)
    PROVE  IInv'
<1> USE DEF IInv, scan_fd_dir, kernel, cache, client, history, Open
<1>1. TypeOK'
  BY DEF TypeOK, Owners, Fds
<1>2. KernelInv'
  BY DEF KernelInv
<1>3. DumpInv'
  BY DEF DumpInv, Refreshing, TablesDone, Alone
<1>4. ScanInv'
  <2>1. \A j \in Inodes : inode_pid_map'[j] = IF j = i THEN p ELSE inode_pid_map[j]
    BY DEF TypeOK
  <2>2. p \in window[i]
    BY DEF DumpInv, Refreshing
  <2>3. \A j \in Inodes : inode_pid_map'[j] \in window[j] \cup {Unknown}
    BY <2>1, <2>2 DEF ScanInv
  <2>4. ASSUME NEW j \in unchanged \ hidden
        PROVE  inode_pid_map'[j] \in holders[j] \/ \A q \in holders[j] : <<q, j>> \in unscanned'
    BY <2>1 DEF ScanInv, TypeOK
  <2> QED
    BY <2>3, <2>4 DEF ScanInv
<1>5. CallInv'
  BY DEF CallInv, Refreshing
<1>6. CacheInv'
  BY DEF CacheInv, Alone
<1>7. AnswerExplained' /\ StableFlowAnswered'
  BY DEF AnswerExplained, StableFlowAnswered, Rivals, matches
<1> QED
  BY <1>1, <1>2, <1>3, <1>4, <1>5, <1>6, <1>7

\* Some fds of these sockets cannot be read.
Misses(sockets) ==
    /\ pc = "scan"
    /\ sockets \subseteq Inodes
    /\ hidden' = hidden \cup sockets
    /\ unscanned' \subseteq unscanned
    /\ \A x \in unscanned \ unscanned' : x[2] \in sockets
    /\ UNCHANGED <<pc, dumped, todo, kernel, cache, client, ever_held, window, unchanged, stable,
                   begun>>

LEMMA MissCases ==
    ASSUME IInv, ScanFails \/ \E p \in Pids, i \in Inodes : SkipFd(p, i)
    PROVE  \E sockets \in SUBSET Inodes : Misses(sockets)
<1>1. ASSUME ScanFails
      PROVE  Misses(Inodes)
  <2>1. hidden' = hidden \cup Inodes /\ unscanned' = {}
    BY <1>1 DEF ScanFails, IInv, TypeOK
  <2>2. \A x \in unscanned : x[2] \in Inodes
    BY DEF IInv, TypeOK, Fds
  <2> QED
    BY <1>1, <2>1, <2>2 DEF ScanFails, Misses, dumped
<1>2. ASSUME NEW p \in Pids, NEW i \in Inodes, SkipFd(p, i)
      PROVE  Misses({i})
  BY <1>2 DEF SkipFd, Misses, dumped
<1>3. Inodes \in SUBSET Inodes /\ \A i \in Inodes : {i} \in SUBSET Inodes
  OBVIOUS
<1> QED
  BY <1>1, <1>2, <1>3

LEMMA MissStep ==
    ASSUME IInv, NEW sockets \in SUBSET Inodes, Misses(sockets)
    PROVE  IInv'
<1> USE DEF IInv, Misses, dumped, kernel, cache, client, Open
<1>1. TypeOK'
  BY DEF TypeOK, Fds
<1>2. KernelInv'
  BY DEF KernelInv
<1>3. DumpInv'
  BY DEF DumpInv, Refreshing, TablesDone, Alone
<1>4. ScanInv'
  <2>1. ASSUME NEW j \in unchanged \ hidden'
        PROVE  inode_pid_map[j] \in holders[j] \/ \A q \in holders[j] : <<q, j>> \in unscanned'
    <3>1. j \notin sockets /\ j \in unchanged \ hidden
      OBVIOUS
    <3>2. ASSUME NEW q, <<q, j>> \in unscanned
          PROVE  <<q, j>> \in unscanned'
      BY <3>1, <3>2
    <3> QED
      BY <3>1, <3>2 DEF ScanInv
  <2> QED
    BY <2>1 DEF ScanInv
<1>5. CallInv'
  BY DEF CallInv, Refreshing
<1>6. CacheInv'
  BY DEF CacheInv, Alone
<1>7. AnswerExplained' /\ StableFlowAnswered'
  BY DEF AnswerExplained, StableFlowAnswered, Rivals, matches
<1> QED
  BY <1>1, <1>2, <1>3, <1>4, <1>5, <1>6, <1>7

\* What a complete refresh has read.
LEMMA ScanComplete ==
    ASSUME IInv, pc = "scan", unscanned = {}
    PROVE  /\ found \subseteq {i \in Inodes : window[i] # {}}
           /\ build_inode_process_map \in [Inodes -> Owners]
           /\ \A i \in Inodes : build_inode_process_map[i] \in window[i] \cup {Unknown}
           /\ \A i \in Inodes \ found : build_inode_process_map[i] = Unknown
           /\ unchanged \subseteq found
           /\ \A i \in unchanged \ hidden : build_inode_process_map[i] \in holders[i]
<1> USE DEF IInv
<1>1. found \subseteq {i \in Inodes : window[i] # {}}
  BY DEF DumpInv, Refreshing, TypeOK
<1>2. \A i \in unchanged : i \in found
  BY TableAssumption DEF DumpInv, Refreshing, TablesDone, TypeOK, Open
<1>3. \A i \in unchanged \ hidden : inode_pid_map[i] \in holders[i]
  BY DEF ScanInv, TypeOK, Open
<1> QED
  BY <1>1, <1>2, <1>3 DEF build_inode_process_map, ScanInv, TypeOK, Owners, Open

LEMMA CommitStep ==
    ASSUME IInv, Commit
    PROVE  IInv'
<1> USE DEF IInv, Commit, kernel, client
<1>1. TypeOK'
  <2>1. window' \in [Inodes -> SUBSET Pids] /\ inode_pid_map' \in [Inodes -> Owners]
    BY DEF Nowhere, Nobody, Owners
  <2> QED
    BY <2>1, ScanComplete DEF TypeOK, NumTables, Open, Fds
<1>2. KernelInv'
  BY DEF KernelInv, Open
<1>3. DumpInv' /\ ScanInv' /\ CallInv'
  BY DEF DumpInv, ScanInv, CallInv, Refreshing
<1>4. CacheInv'
  <2>1. Refreshing
    BY DEF Refreshing
  <2>2. \A i \in Inodes : inode_to_process'[i] \in ever_held[i] \cup {Unknown}
    BY <2>1, ScanComplete DEF DumpInv
  <2>3. /\ \A i \in found : ends[i] # NoEnds
        /\ found_zero # NoSocket => ends[found_zero] # NoEnds /\ Protocol(found_zero) = "tcp"
    BY <2>1 DEF DumpInv, KernelInv, TypeOK
  <2>5. \A i \in unchanged : Alone(i, found, found_zero)
    BY <2>1 DEF DumpInv
  <2>6. \A i \in unchanged \ hidden : i \in found /\ inode_to_process'[i] \in holders[i]
    BY ScanComplete
  <2> QED
    BY <2>2, <2>3, <2>5, <2>6 DEF CacheInv, Alone
<1>5. AnswerExplained' /\ StableFlowAnswered'
  BY DEF AnswerExplained, StableFlowAnswered, CallInv, NoAnswer
<1> QED
  BY <1>1, <1>2, <1>3, <1>4, <1>5

LEMMA CopyStep ==
    ASSUME IInv, CopyConnections
    PROVE  IInv'
<1> USE DEF IInv, CopyConnections, Returned, kernel, cache, reading, dumped, history, Open, Fds
<1>1. TypeOK'
  <2>1. connection_cache' \in [inodes: SUBSET Inodes, owner: [Inodes -> Owners],
                               zero: Inodes \cup {NoSocket}]
    BY DEF TypeOK
  <2> QED
    BY <2>1 DEF TypeOK
<1>2. KernelInv'
  BY DEF KernelInv
<1>3. DumpInv' /\ ScanInv' /\ CallInv'
  BY DEF DumpInv, ScanInv, CallInv, Refreshing
<1>4. CacheInv'
  BY DEF CacheInv, Alone
<1>5. AnswerExplained' /\ StableFlowAnswered'
  BY DEF AnswerExplained, StableFlowAnswered, Rivals, matches
<1> QED
  BY <1>1, <1>2, <1>3, <1>4, <1>5

LEMMA AnswerPidStep ==
    ASSUME IInv, AnswerPid
    PROVE  IInv'
<1> USE DEF IInv, AnswerPid, Returned, kernel, cache, reading, dumped, history, Open, Fds
<1>1. TypeOK' /\ KernelInv'
  BY DEF TypeOK, KernelInv
<1>2. DumpInv' /\ ScanInv' /\ CallInv'
  BY DEF DumpInv, ScanInv, CallInv, Refreshing
<1>3. CacheInv'
  BY DEF CacheInv, Alone
<1>4. AnswerExplained' /\ StableFlowAnswered'
  BY DEF AnswerExplained, StableFlowAnswered, Rivals, matches
<1> QED
  BY <1>1, <1>2, <1>3, <1>4

\* The owners among the rows that match a flow.
LEMMA MatchingFacts ==
    ASSUME NEW f \in Flows, NEW inodes, NEW owner, NEW zero,
           NEW o \in Matching(f, inodes, owner, zero)
    PROVE  \/ \E i \in inodes : matches(i, f) /\ o = owner[i]
           \/ zero # NoSocket /\ matches(zero, f) /\ o = Unknown
BY DEF Matching

LEMMA AnswerFlowStep ==
    ASSUME IInv, AnswerFlow
    PROVE  IInv'
<1> USE DEF IInv
<1> DEFINE f == call.flow
           cached == Matching(f, socket_entries, inode_to_process, zero_entry)
           copied == Matching(f, connection_cache.inodes, connection_cache.owner,
                              connection_cache.zero)
<1>f. f \in Flows
  BY DEF AnswerFlow, CallInv
<1>o. PICK o \in IF cached # {} THEN cached ELSE IF copied # {} THEN copied ELSE {Unknown} :
        answer' = [flow |-> f, owner |-> o]
  BY DEF AnswerFlow
<1>u. /\ pc = "answer" /\ pc' = "idle" /\ call' = [op |-> "none", flow |-> NoFlow]
      /\ UNCHANGED <<kernel, cache, connection_cache, scan_due, reading, history>>
  BY DEF AnswerFlow, Returned
<1>1. ASSUME o # Unknown
      PROVE  \E i \in Inodes : matches(i, f) /\ o \in ever_held[i]
  <2>1. CASE cached # {}
    <3>1. PICK i \in socket_entries : matches(i, f) /\ o = inode_to_process[i]
      BY <1>1, <1>f, <1>o, <2>1, MatchingFacts
    <3> QED
      BY <3>1, <1>1 DEF TypeOK, CacheInv
  <2>2. CASE cached = {} /\ copied # {}
    <3>1. PICK i \in connection_cache.inodes : matches(i, f) /\ o = connection_cache.owner[i]
      BY <1>1, <1>f, <1>o, <2>2, MatchingFacts
    <3> QED
      BY <3>1, <1>1 DEF TypeOK, CacheInv
  <2> QED
    BY <1>1, <1>o, <2>1, <2>2
<1>2. ASSUME NEW i \in stable, matches(i, f), Rivals(i) = {}
      PROVE  o \in holders[i]
  <2>1. i \in socket_entries /\ Alone(i, socket_entries, zero_entry)
    BY DEF CacheInv
  <2>2. cached # {}
    BY <1>2, <2>1 DEF Matching
  <2>3. ASSUME NEW j \in socket_entries \cup ({zero_entry} \ {NoSocket}), matches(j, f)
        PROVE  Protocol(j) = Protocol(i) /\ ends[j] = ends[i]
    BY <1>2, <2>3, <1>f, ReversedTwice DEF matches, Rivals
  <2>4. \A j \in socket_entries : matches(j, f) => j = i
    <3> SUFFICES ASSUME NEW j \in socket_entries, matches(j, f), j # i PROVE FALSE
      OBVIOUS
    <3>1. Protocol(i) # "tcp"
      BY <2>1, <2>3 DEF Alone
    <3>2. Protocol(i) = "udp"
      BY <3>1 DEF Protocol
    <3> QED
      BY <1>2, <2>3, <3>2 DEF Rivals
  <2>5. ~(zero_entry # NoSocket /\ matches(zero_entry, f))
    BY <2>1, <2>3 DEF Alone, CacheInv
  <2>6. o = inode_to_process[i]
    BY <1>f, <1>o, <2>2, <2>4, <2>5, MatchingFacts
  <2> QED
    BY <2>6 DEF CacheInv
<1>3. o \in Owners
  BY <1>1 DEF TypeOK, KernelInv, Owners
<1> HIDE DEF f, cached, copied
<1> USE <1>u DEF kernel, cache, reading, dumped, history, Open, Fds
<1>4. TypeOK'
  <2>1. answer' \in [flow: Flows \cup {NoFlow}, owner: Owners]
    BY <1>f, <1>o, <1>3
  <2> QED
    BY <2>1 DEF TypeOK
<1>5. KernelInv'
  BY DEF KernelInv
<1>6. DumpInv' /\ ScanInv' /\ CallInv'
  BY DEF DumpInv, ScanInv, CallInv, Refreshing
<1>7. CacheInv'
  BY DEF CacheInv, Alone
<1>8. AnswerExplained'
  <2> SUFFICES ASSUME o # Unknown
               PROVE  \E i \in Inodes : /\ o \in ever_held[i]
                                        /\ Protocol(i) = f.protocol
                                        /\ f.ends \in {ends[i], Reversed(ends[i])}
    BY <1>o DEF AnswerExplained
  <2> QED
    BY <1>1, <1>f, ReversedTwice DEF matches
<1>9. StableFlowAnswered'
  BY <1>2, <1>o DEF StableFlowAnswered, Rivals, matches
<1> QED
  BY <1>4, <1>5, <1>6, <1>7, <1>8, <1>9

-----------------------------------------------------------------------------
(* The environment.                                                        *)

\* A socket gets new holders, and perhaps its endpoints.
Holds(i, ps) ==
    /\ Hold(i, ps)
    /\ \A j \in Inodes : ends[j] # NoEnds => ends'[j] = ends[j]
    /\ UNCHANGED <<cache, client, pc, dumped, hidden, begun>>

LEMMA HoldTypes ==
    ASSUME IInv, NEW i \in Inodes, NEW ps \in SUBSET Pids, Holds(i, ps)
    PROVE  /\ \A j \in Inodes : holders'[j] = IF j = i THEN ps ELSE holders[j]
           /\ \A j \in Inodes : ever_held'[j] = IF j = i THEN ever_held[j] \cup ps ELSE ever_held[j]
           /\ Refreshing => \A j \in Inodes :
                  window'[j] = IF j = i THEN window[j] \cup ps ELSE window[j]
           /\ holders' \in [Inodes -> SUBSET Pids]
           /\ ever_held' \in [Inodes -> SUBSET Pids]
           /\ window' \in [Inodes -> SUBSET Pids]
           /\ unchanged' \subseteq Open' /\ stable' \subseteq Open'
           /\ todo' \subseteq Open' /\ unscanned' \subseteq Fds'
           /\ Open' = IF ps = {} THEN Open \ {i} ELSE Open \cup {i}
<1>1. \A j \in Inodes : holders'[j] = IF j = i THEN ps ELSE holders[j]
  BY DEF IInv, TypeOK, Holds, Hold
<1>2. \A j \in Inodes : ever_held'[j] = IF j = i THEN ever_held[j] \cup ps ELSE ever_held[j]
  BY DEF IInv, TypeOK, Holds, Hold
<1>3. Refreshing => \A j \in Inodes : window'[j] = IF j = i THEN window[j] \cup ps ELSE window[j]
  BY DEF IInv, TypeOK, Holds, Hold
<1>4. /\ holders' \in [Inodes -> SUBSET Pids]
      /\ ever_held' \in [Inodes -> SUBSET Pids]
      /\ window' \in [Inodes -> SUBSET Pids]
  BY DEF IInv, TypeOK, Holds, Hold
<1>5. Open' = IF ps = {} THEN Open \ {i} ELSE Open \cup {i}
  BY <1>1 DEF Open
<1>6. unchanged' \subseteq Open' /\ stable' \subseteq Open' /\ todo' \subseteq Open'
  BY <1>5 DEF IInv, TypeOK, Holds, Hold
<1>7. unscanned' \subseteq Fds'
  <2> SUFFICES ASSUME NEW x \in unscanned' PROVE x \in Fds'
    OBVIOUS
  <2>1. x \in unscanned /\ (x[2] = i => x[1] \in ps)
    BY DEF Holds, Hold
  <2>2. x \in Pids \X Inodes /\ x[1] \in holders[x[2]] /\ x[2] \in Inodes
    BY <2>1 DEF IInv, TypeOK, Fds
  <2>3. x[1] \in holders'[x[2]]
    BY <1>1, <2>1, <2>2
  <2> QED
    BY <2>2, <2>3 DEF Fds
<1> QED
  BY <1>1, <1>2, <1>3, <1>4, <1>5, <1>6, <1>7

LEMMA HoldStep ==
    ASSUME IInv, NEW i \in Inodes, NEW ps \in SUBSET Pids, Holds(i, ps)
    PROVE  DumpInv' /\ ScanInv' /\ CacheInv' /\ CallInv' /\ AnswerExplained' /\ StableFlowAnswered'
<1> USE DEF IInv
<1>u. /\ \A j \in Inodes : ends[j] # NoEnds => ends'[j] = ends[j]
      /\ UNCHANGED <<cache, client, pc, dumped, hidden, begun>>
      /\ unchanged' = unchanged \ {i} /\ stable' = stable \ {i}
      /\ todo \ {i} \subseteq todo'
      /\ unscanned' = {x \in unscanned : x[2] = i => x[1] \in ps}
  BY DEF Holds, Hold
<1>h. /\ \A j \in Inodes : holders'[j] = IF j = i THEN ps ELSE holders[j]
      /\ \A j \in Inodes : ever_held'[j] = IF j = i THEN ever_held[j] \cup ps ELSE ever_held[j]
      /\ Refreshing => \A j \in Inodes :
             window'[j] = IF j = i THEN window[j] \cup ps ELSE window[j]
  BY HoldTypes
<1>t. /\ unchanged \subseteq Inodes /\ stable \subseteq Inodes
      /\ found \subseteq Inodes /\ socket_entries \subseteq Inodes
      /\ found_zero \in Inodes \cup {NoSocket} /\ zero_entry \in Inodes \cup {NoSocket}
  BY DEF TypeOK, Open
<1>e. \A j \in Inodes : ever_held[j] # {} => ends'[j] = ends[j] /\ ends[j] # NoEnds
  BY <1>u DEF KernelInv
<1>n. \A j \in unchanged \cup stable : ends'[j] = ends[j]
  BY <1>e DEF KernelInv, TypeOK, Open
<1>1. DumpInv'
  <2> SUFFICES ASSUME Refreshing' PROVE DumpInv'
    BY DEF DumpInv
  <2>1. Refreshing /\ TablesDone' = TablesDone /\ CurrentTable' = CurrentTable
    BY <1>u DEF Refreshing, TablesDone, CurrentTable, Order, dumped
  <2>2. UNCHANGED <<found, found_zero>>
    BY <1>u DEF dumped
  <2>3. \A j \in found : ends'[j] = ends[j] /\ window[j] # {}
    BY <1>e, <1>t, <2>1 DEF DumpInv
  <2>4. found_zero # NoSocket => ends'[found_zero] = ends[found_zero]
    BY <1>u, <1>t, <2>1 DEF DumpInv
  <2>5. \A j \in Inodes : holders'[j] \subseteq window'[j] /\ window'[j] \subseteq ever_held'[j]
    BY <1>h, <2>1 DEF DumpInv
  <2>6. \A j \in found : window'[j] # {}
    BY <1>h, <1>t, <2>1, <2>3
  <2>7. \A j \in unchanged' : Alone(j, found, found_zero)'
    BY <1>n, <1>u, <2>1, <2>2, <2>3, <2>4 DEF DumpInv, Alone
  <2>8. /\ found_zero # NoSocket => ends[found_zero] # NoEnds /\ Protocol(found_zero) = "tcp"
        /\ \A j \in unchanged : TableOf[j] \in TablesDone => j \in found
        /\ pc # "scan" => \A j \in unchanged : TableOf[j] = CurrentTable => j \in found \cup todo
    BY <2>1 DEF DumpInv
  <2> QED
    BY <1>u, <2>1, <2>2, <2>3, <2>4, <2>5, <2>6, <2>7, <2>8 DEF DumpInv
<1>2. ScanInv'
  <2>1. pc' # "scan" => hidden' = {}
    BY <1>u DEF ScanInv
  <2> SUFFICES ASSUME pc = "scan" PROVE ScanInv'
    BY <1>u, <2>1 DEF ScanInv
  <2>2. inode_pid_map' = inode_pid_map /\ hidden' = hidden /\ Refreshing
    BY <1>u DEF dumped, Refreshing
  <2>3. \A j \in Inodes : inode_pid_map[j] \in window'[j] \cup {Unknown}
    BY <1>h, <2>2 DEF ScanInv
  <2>4. ASSUME NEW j \in unchanged' \ hidden
        PROVE  inode_pid_map[j] \in holders'[j] \/ \A p \in holders'[j] : <<p, j>> \in unscanned'
    <3>1. j \in unchanged \ hidden /\ j # i /\ holders'[j] = holders[j]
      BY <1>u, <1>h, <1>t
    <3>2. ASSUME NEW p, <<p, j>> \in unscanned
          PROVE  <<p, j>> \in unscanned'
      BY <1>u, <3>1, <3>2
    <3> QED
      BY <3>1, <3>2 DEF ScanInv
  <2> QED
    BY <2>1, <2>2, <2>3, <2>4 DEF ScanInv
<1>r. /\ UNCHANGED <<socket_entries, inode_to_process, zero_entry, connection_cache, answer>>
      /\ \A j \in socket_entries : ends'[j] = ends[j]
      /\ zero_entry # NoSocket => ends'[zero_entry] = ends[zero_entry]
  BY <1>u, <1>t DEF CacheInv, cache, client
<1>3. CacheInv'
  <2>1. \A j \in stable' : Alone(j, socket_entries, zero_entry)'
    BY <1>n, <1>r, <1>u DEF CacheInv, Alone
  <2> QED
    BY <1>h, <1>r, <1>t, <1>u, <2>1 DEF CacheInv
<1>4. CallInv'
  BY <1>u DEF CallInv, cache, client, Refreshing
<1>5. AnswerExplained'
  <2> SUFFICES ASSUME answer.owner # Unknown PROVE AnswerExplained'
    BY <1>r DEF AnswerExplained
  <2>1. PICK j \in Inodes : /\ answer.owner \in ever_held[j]
                            /\ Protocol(j) = answer.flow.protocol
                            /\ answer.flow.ends \in {ends[j], Reversed(ends[j])}
    BY DEF AnswerExplained
  <2>2. answer.owner \in ever_held'[j] /\ ends'[j] = ends[j]
    BY <1>e, <1>h, <2>1
  <2> QED
    BY <1>r, <2>1, <2>2 DEF AnswerExplained
<1>6. StableFlowAnswered'
  <2> SUFFICES ASSUME NEW j \in stable', answer.flow # NoFlow, matches(j, answer.flow)',
                      Rivals(j)' = {}
               PROVE  answer.owner \in holders'[j]
    BY <1>r DEF StableFlowAnswered
  <2>1. j \in stable /\ j # i /\ j \in Inodes /\ ends'[j] = ends[j]
    BY <1>n, <1>t, <1>u
  <2>2. matches(j, answer.flow)
    BY <1>r, <2>1 DEF matches
  <2>3. Rivals(j) = {}
    BY <1>r, <2>1 DEF Rivals
  <2> QED
    BY <1>h, <2>1, <2>2, <2>3 DEF StableFlowAnswered
<1> QED
  BY <1>1, <1>2, <1>3, <1>4, <1>5, <1>6

LEMMA OpenStep ==
    ASSUME IInv, NEW p \in Pids, NEW i \in Inodes, NEW e \in Ends, OpenSocket(p, i, e)
    PROVE  IInv'
<1>1. Holds(i, {p})
  BY DEF OpenSocket, Holds, IInv, TypeOK
<1>h. /\ Open' = Open \cup {i}
      /\ \A j \in Inodes : holders'[j] = IF j = i THEN {p} ELSE holders[j]
      /\ \A j \in Inodes : ever_held'[j] = IF j = i THEN ever_held[j] \cup {p} ELSE ever_held[j]
  <2> DEFINE ps == {p}
  <2>1. ps \in SUBSET Pids /\ ps # {} /\ Holds(i, ps)
    BY <1>1
  <2> HIDE DEF ps
  <2>2. /\ Open' = Open \cup {i}
        /\ \A j \in Inodes : holders'[j] = IF j = i THEN ps ELSE holders[j]
        /\ \A j \in Inodes : ever_held'[j] = IF j = i THEN ever_held[j] \cup ps ELSE ever_held[j]
    BY <2>1, HoldTypes
  <2> QED
    BY <2>2 DEF ps
<1> USE DEF IInv
<1>2. ends' \in [Inodes -> Ends \cup {NoEnds}] /\ \A j \in Inodes : ends'[j] = IF j = i THEN e ELSE ends[j]
  BY DEF OpenSocket, TypeOK
<1>3. /\ holders[i] = {} /\ ever_held[i] = {} /\ i \notin waiting
      /\ Open' = Open \cup {i}
      /\ \A j \in Inodes : holders'[j] = IF j = i THEN {p} ELSE holders[j]
      /\ \A j \in Inodes : ever_held'[j] = IF j = i THEN ever_held[j] \cup {p} ELSE ever_held[j]
  BY <1>h DEF OpenSocket, KernelInv
<1>4. waiting' \subseteq waiting /\ waiting \subseteq Inodes /\ i \notin Open
  BY <1>3 DEF OpenSocket, TypeOK, Open
<1>5. TypeOK'
  <2>1. waiting' \subseteq Inodes \ Open'
    BY <1>3, <1>4 DEF TypeOK
  <2> QED
    BY <1>1, <1>2, <2>1, HoldTypes DEF Holds, TypeOK, cache, client, dumped
<1>6. KernelInv'
  <2>1. \A j \in Inodes : ends[j] = e /\ Protocol(j) = Protocol(i) => TableOf[j] = TableOf[i]
    BY EndsAssumption, SameTable DEF KernelInv, OpenSocket
  <2>2. \A j \in Open : Protocol(j) = "tcp" /\ Protocol(i) = "tcp" => ends[j] # e
    BY <2>1 DEF OpenSocket, Open
  <2>3. \A j \in waiting' : Protocol(i) = "tcp" => ends[j] # e
    BY <2>1, <1>4 DEF OpenSocket, KernelInv
  <2>4. \A j \in Inodes : holders'[j] \subseteq ever_held'[j]
    BY <1>3 DEF KernelInv
  <2>5. \A j \in Inodes : ever_held'[j] # {} => ends'[j] # NoEnds
    BY <1>2, <1>3, EndsAssumption DEF KernelInv
  <2>6. \A j \in Inodes : ends'[j] # NoEnds => FamilyOf[ends'[j]] = Family(j)
    BY <1>2 DEF KernelInv, OpenSocket
  <2>7. \A j \in waiting' : ends'[j] # NoEnds /\ Protocol(j) = "tcp"
    BY <1>2, <1>3, <1>4 DEF KernelInv
  <2>8. \A j, k \in Open' :
            Protocol(j) = "tcp" /\ Protocol(k) = "tcp" /\ ends'[j] = ends'[k] => j = k
    BY <1>2, <1>3, <1>4, <2>2 DEF KernelInv, Open
  <2>9. \A j \in waiting', k \in Open' : Protocol(k) = "tcp" => ends'[j] # ends'[k]
    BY <1>2, <1>3, <1>4, <2>3 DEF KernelInv, Open
  <2> QED
    BY <2>4, <2>5, <2>6, <2>7, <2>8, <2>9 DEF KernelInv
<1> QED
  BY <1>1, <1>5, <1>6, HoldStep

LEMMA InheritStep ==
    ASSUME IInv, NEW p \in Pids, NEW i \in Inodes, Inherit(p, i)
    PROVE  IInv'
<1> DEFINE ps == holders[i] \cup {p}
<1>1. Holds(i, ps) /\ ps \in SUBSET Pids /\ ps # {}
  BY DEF Inherit, Holds, IInv, TypeOK
<1>2. UNCHANGED <<ends, waiting>> /\ i \in Open
  BY DEF Inherit
<1> HIDE DEF ps
<1>3. /\ Open' = Open \cup {i}
      /\ \A j \in Inodes : holders'[j] = IF j = i THEN ps ELSE holders[j]
      /\ \A j \in Inodes : ever_held'[j] = IF j = i THEN ever_held[j] \cup ps ELSE ever_held[j]
  BY <1>1, HoldTypes
<1>o. Open' = Open
  BY <1>2, <1>3
<1> USE DEF IInv
<1>4. TypeOK'
  BY <1>1, <1>2, <1>o, HoldTypes DEF Holds, TypeOK, cache, client, dumped
<1>5. KernelInv'
  BY <1>2, <1>3, <1>o DEF KernelInv, Open, ps
<1> QED
  BY <1>1, <1>4, <1>5, HoldStep

LEMMA CloseStep ==
    ASSUME IInv, NEW p \in Pids, NEW i \in Inodes, CloseFd(p, i)
    PROVE  IInv'
<1> DEFINE ps == holders[i] \ {p}
<1>1. Holds(i, ps) /\ ps \in SUBSET Pids
  BY DEF CloseFd, Holds, IInv, TypeOK
<1>2. ends' = ends /\ p \in holders[i] /\ i \in Open
  BY DEF CloseFd, Open
<1>4. \/ waiting' = waiting
      \/ ps = {} /\ Protocol(i) = "tcp" /\ waiting' = waiting \cup {i}
  BY DEF CloseFd
<1> HIDE DEF ps
<1>3. /\ Open' = IF ps = {} THEN Open \ {i} ELSE Open \cup {i}
      /\ \A j \in Inodes : holders'[j] = IF j = i THEN ps ELSE holders[j]
      /\ \A j \in Inodes : ever_held'[j] = IF j = i THEN ever_held[j] \cup ps ELSE ever_held[j]
  BY <1>1, HoldTypes
<1> USE DEF IInv
<1>5. Open' \subseteq Open /\ (ps = {} => i \notin Open')
  BY <1>2, <1>3
<1>6. TypeOK'
  <2>1. waiting' \subseteq Inodes \ Open'
    BY <1>4, <1>5 DEF TypeOK
  <2> QED
    BY <1>1, <1>2, <2>1, HoldTypes DEF Holds, TypeOK, cache, client, dumped
<1>7. KernelInv'
  <2>1. ever_held[i] # {} /\ ends[i] # NoEnds
    BY <1>2 DEF KernelInv, Open
  <2>2. \A j \in Inodes : holders'[j] \subseteq ever_held'[j]
    BY <1>3 DEF KernelInv, ps
  <2>3. \A j \in Inodes : ever_held'[j] # {} => ends'[j] # NoEnds
    BY <1>2, <1>3, <2>1 DEF KernelInv
  <2>4. \A j \in waiting' : ends'[j] # NoEnds /\ Protocol(j) = "tcp"
    BY <1>2, <1>4, <2>1 DEF KernelInv
  <2>5. \A j \in waiting', k \in Open' : Protocol(k) = "tcp" => ends'[j] # ends'[k]
    BY <1>2, <1>4, <1>5 DEF KernelInv
  <2> QED
    BY <1>2, <1>5, <2>2, <2>3, <2>4, <2>5 DEF KernelInv
<1> QED
  BY <1>1, <1>6, <1>7, HoldStep

\* The steps of the environment that leave the sockets and the cache alone.
Passes == RefreshPeriodPasses \/ ScanIntervalPasses \/ \E i \in Inodes : TimeWaitEnds(i)

LEMMA PassStep ==
    ASSUME IInv, Passes \/ UNCHANGED vars
    PROVE  IInv'
<1>1. /\ UNCHANGED <<ends, holders, socket_entries, inode_to_process, zero_entry,
                     connection_cache, call, answer, pc, reading, ever_held, window, unchanged, hidden, stable>>
      /\ waiting' \subseteq waiting
      /\ (stale' = stale /\ begun' = begun) \/ (stale' = TRUE /\ begun' = FALSE)
      /\ scan_due' = scan_due \/ scan_due' = TRUE
  BY DEF Passes, RefreshPeriodPasses, ScanIntervalPasses, TimeWaitEnds, vars, kernel, cache,
         client, history
<1> USE <1>1 DEF IInv, Open, Fds, reading, dumped
<1>2. TypeOK' /\ KernelInv'
  <2>1. stale' \in BOOLEAN /\ begun' \in BOOLEAN /\ scan_due' \in BOOLEAN
    BY DEF TypeOK
  <2> QED
    BY <2>1 DEF TypeOK, KernelInv
<1>3. DumpInv' /\ ScanInv' /\ CallInv'
  BY DEF DumpInv, ScanInv, CallInv, Refreshing, TablesDone, CurrentTable, Order, Alone
<1>4. CacheInv'
  BY DEF CacheInv, Alone
<1>5. AnswerExplained' /\ StableFlowAnswered'
  BY DEF AnswerExplained, StableFlowAnswered, Rivals, matches
<1> QED
  BY <1>2, <1>3, <1>4, <1>5

-----------------------------------------------------------------------------
(* The theorems.                                                           *)

LEMMA NextCases ==
    ASSUME IInv, [Next]_vars
    PROVE  \/ \E c \in CallForms : Asks(c)
           \/ \E i \in Inodes : Reads(i)
           \/ EndsTable \/ NetlinkError \/ ProcError \/ Commit
           \/ \E p \in Pids, i \in Inodes : scan_fd_dir(p, i)
           \/ \E sockets \in SUBSET Inodes : Misses(sockets)
           \/ CopyConnections \/ AnswerPid \/ AnswerFlow
           \/ \E p \in Pids, i \in Inodes, e \in Ends : OpenSocket(p, i, e)
           \/ \E p \in Pids, i \in Inodes : Inherit(p, i) \/ CloseFd(p, i)
           \/ Passes \/ UNCHANGED vars
<1>1. ASSUME NEW f \in Flows, resolve_flow_owner(f)
      PROVE  \E c \in CallForms : Asks(c)
  <2>1. [op |-> "flow", flow |-> f] \in CallForms
    BY DEF CallForms
  <2> QED
    BY <1>1, <2>1 DEF resolve_flow_owner, Asks
<1>2. ASSUME process_by_pid \/ refresh_connection_cache_if_due \/ list_connections
      PROVE  \E c \in CallForms : Asks(c)
  <2>1. \A o \in {"refresh", "list", "pid"} : [op |-> o, flow |-> NoFlow] \in CallForms
    BY DEF CallForms
  <2> QED
    BY <1>2, <2>1 DEF process_by_pid, refresh_connection_cache_if_due, list_connections, Asks
<1>3. ASSUME NEW i \in Inodes, query_family_protocol(i) \/ read_proc_file(i)
      PROVE  Reads(i)
  BY <1>3 DEF query_family_protocol, read_proc_file, Reads, Order
<1>4. ASSUME DumpDone \/ FileEnds
      PROVE  EndsTable
  BY <1>4 DEF DumpDone, FileEnds, EndsTable, Order
<1> QED
  BY <1>1, <1>2, <1>3, <1>4, MissCases, Zenon DEF Next, Passes

LEMMA IInvStep ==
    ASSUME IInv, [Next]_vars
    PROVE  IInv'
BY NextCases, AskStep, ReadStep, TableEndsStep, NetlinkErrorStep, ProcErrorStep, CommitStep,
   ScanStep, MissStep, CopyStep,
   AnswerPidStep, AnswerFlowStep, OpenStep, InheritStep, CloseStep, PassStep, Zenon

\* The inductive invariant holds in every reachable state: of the kernel, of a
\* refresh half way, of the cache and of the aggregator's copy.
THEOREM Invariant == Spec => []IInv
BY IInvInit, IInvStep, PTL DEF Spec

\* Every variable of the resolver and its client keeps its type, whichever
\* source fails half way (refresh, list_connections).
THEOREM TypeCorrect == Spec => []TypeOK
<1>1. IInv => TypeOK
  BY DEF IInv
<1> QED
  BY <1>1, Invariant, PTL

\* Each owner that resolve_flow_owner or the aggregator's copy names had an fd
\* of a socket of the flow, for any number of sockets, processes and refreshes.
THEOREM AnswersExplained == Spec => []AnswerExplained
<1>1. IInv => AnswerExplained
  BY DEF IInv
<1> QED
  BY <1>1, Invariant, PTL

\* A flow of a socket that did not change since the last successful refresh
\* began, and whose fds that refresh could read, is given to a process that has
\* it, however rows, fallback and fds interleave with other sockets' changes.
THEOREM StableFlowsAnswered == Spec => []StableFlowAnswered
<1>1. IInv => StableFlowAnswered
  BY DEF IInv
<1> QED
  BY <1>1, Invariant, PTL

\* refresh_if_needed begins no second refresh in a period in which one has
\* begun and did not fail.
THEOREM OneRefreshPerPeriod == Spec => RefreshAtMostOncePerPeriod
<1>1. ASSUME IInv, [Next]_vars
      PROVE  [pc # "netlink" /\ pc' = "netlink" => ~begun]_vars
  <2> SUFFICES ASSUME pc # "netlink", pc' = "netlink" PROVE ~begun
    OBVIOUS
  <2>1. CASE \E c \in CallForms : Asks(c)
    BY <1>1, <2>1 DEF Asks, refresh_if_needed, IInv, CallInv, Refreshing
  <2>2. CASE EndsTable \/ \E i \in Inodes : Reads(i)
    BY <2>2 DEF EndsTable, TableEnds, Reads, ReadRow
  <2>3. CASE NetlinkError \/ ProcError \/ Commit
    BY <2>3 DEF NetlinkError, ProcError, Commit
  <2>9. CASE \/ \E p \in Pids, i \in Inodes : scan_fd_dir(p, i)
             \/ \E sockets \in SUBSET Inodes : Misses(sockets)
    BY <2>9 DEF scan_fd_dir, Misses
  <2>4. CASE CopyConnections \/ AnswerPid \/ AnswerFlow
    BY <2>4 DEF CopyConnections, AnswerPid, AnswerFlow, Returned
  <2>5. CASE \E p \in Pids, i \in Inodes, e \in Ends : OpenSocket(p, i, e)
    BY <2>5 DEF OpenSocket
  <2>6. CASE \E p \in Pids, i \in Inodes : Inherit(p, i) \/ CloseFd(p, i)
    BY <2>6 DEF Inherit, CloseFd
  <2>7. CASE Passes
    BY <2>7 DEF Passes, RefreshPeriodPasses, ScanIntervalPasses, TimeWaitEnds
  <2>8. CASE UNCHANGED vars
    BY <2>8 DEF vars
  <2> QED
    BY <1>1, <2>1, <2>2, <2>3, <2>4, <2>5, <2>6, <2>7, <2>8, <2>9, NextCases
<1> QED
  BY <1>1, Invariant, PTL DEF Spec, RefreshAtMostOncePerPeriod

-----------------------------------------------------------------------------
(* The refinement.                                                         *)

LEMMA SnapshotInit == Init => Snapshot!Init
BY DEF Init, Snapshot!Init, Refreshing, Nowhere, Nobody, Snapshot!Nowhere

\* Every step of a refresh is a step of the snapshot or none.
LEMMA SnapshotStep ==
    ASSUME IInv, [Next]_vars
    PROVE  [Snapshot!Next]_(Snapshot!vars)
<1> USE DEF Snapshot!vars
<1>1. ASSUME NEW c \in CallForms, Asks(c)
      PROVE  Snapshot!Begin \/ UNCHANGED Snapshot!vars
  <2>1. CASE stale
    BY <1>1, <2>1 DEF Asks, refresh_if_needed, kernel, cache, Snapshot!Begin, Snapshot!Held, Open,
           Refreshing
  <2>2. CASE ~stale
    BY <1>1, <2>2 DEF Asks, refresh_if_needed, kernel, cache, Refreshing
  <2> QED
    BY <2>1, <2>2
<1>2. ASSUME \/ EndsTable \/ NetlinkError
             \/ \E i \in Inodes : Reads(i)
             \/ \E p \in Pids, i \in Inodes : scan_fd_dir(p, i)
      PROVE  UNCHANGED Snapshot!vars
  BY <1>2 DEF Reads, ReadRow, EndsTable, TableEnds, NetlinkError, scan_fd_dir, Refreshing, kernel,
         cache, history
<1>9. ASSUME NEW sockets \in SUBSET Inodes, Misses(sockets)
      PROVE  Snapshot!Hide(sockets)
  BY <1>9 DEF Misses, Snapshot!Hide, Refreshing, kernel, cache
<1>3. ASSUME ProcError
      PROVE  Snapshot!Fail
  BY <1>3 DEF IInv, ScanInv, ProcError, Refreshing, Snapshot!Fail, Snapshot!Over, Snapshot!Nowhere, Nowhere,
         kernel, cache
<1>4. ASSUME Commit
      PROVE  Snapshot!Replace
  <2>1. Refreshing /\ Snapshot!Over /\ UNCHANGED holders
    BY <1>4 DEF Commit, Refreshing, Snapshot!Over, Snapshot!Nowhere, Nowhere, kernel
  <2>2. socket_entries' = found /\ inode_to_process' = build_inode_process_map
    BY <1>4 DEF Commit
  <2> QED
    BY <1>4, <2>1, <2>2, ScanComplete DEF Commit, Snapshot!Replace, Snapshot!Held, Owners
<1>5. ASSUME NEW i \in Inodes, NEW ps \in SUBSET Pids, Holds(i, ps)
      PROVE  Snapshot!Next
  BY <1>5 DEF Holds, Hold, Snapshot!Next, Snapshot!Change, Refreshing, cache
<1>6. ASSUME NEW p \in Pids, NEW i \in Inodes, NEW e \in Ends, OpenSocket(p, i, e)
      PROVE  \E ps \in SUBSET Pids : Holds(i, ps)
  <2>1. Holds(i, {p}) /\ {p} \in SUBSET Pids
    BY <1>6 DEF OpenSocket, Holds, IInv, TypeOK
  <2> QED
    BY <2>1
<1>7. ASSUME NEW p \in Pids, NEW i \in Inodes, Inherit(p, i) \/ CloseFd(p, i)
      PROVE  \E ps \in SUBSET Pids : Holds(i, ps)
  <2>1. CASE Inherit(p, i)
    <3>1. Holds(i, holders[i] \cup {p}) /\ (holders[i] \cup {p}) \in SUBSET Pids
      BY <2>1 DEF Inherit, Holds, IInv, TypeOK
    <3> QED
      BY <3>1
  <2>2. CASE CloseFd(p, i)
    <3>1. Holds(i, holders[i] \ {p}) /\ (holders[i] \ {p}) \in SUBSET Pids
      BY <2>2 DEF CloseFd, Holds, IInv, TypeOK
    <3> QED
      BY <3>1
  <2> QED
    BY <1>7, <2>1, <2>2
<1>8. ASSUME CopyConnections \/ AnswerPid \/ AnswerFlow \/ Passes \/ UNCHANGED vars
      PROVE  UNCHANGED Snapshot!vars
  <2>1. UNCHANGED <<holders, socket_entries, inode_to_process, window, unchanged, hidden>>
    BY <1>8 DEF CopyConnections, AnswerPid, AnswerFlow, Passes, RefreshPeriodPasses,
           ScanIntervalPasses, TimeWaitEnds, vars, kernel, cache, history
  <2>2. Refreshing' = Refreshing
    BY <1>8 DEF CopyConnections, AnswerPid, AnswerFlow, Returned, Passes, RefreshPeriodPasses,
           ScanIntervalPasses, TimeWaitEnds, vars, Refreshing
  <2> QED
    BY <2>1, <2>2
<1> QED
  BY <1>1, <1>2, <1>3, <1>4, <1>5, <1>6, <1>7, <1>8, <1>9, NextCases, Zenon DEF Snapshot!Next

\* The four dumps, the fallback after a failed request and the scan of the fds,
\* read piecemeal and perhaps in part, together implement the regular snapshot
\* that SocketSnapshot specifies: a cache replaced at once, or left alone
\* (refresh).
THEOREM RefreshRegular == Spec => RefreshIsRegular
BY SnapshotInit, SnapshotStep, Invariant, PTL DEF Spec, RefreshIsRegular, Snapshot!Spec

=============================================================================
