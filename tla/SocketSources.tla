--------------------------- MODULE SocketSources ---------------------------
(***************************************************************************)
(* One query of the kernel's socket tables: the Netlink dump of each table *)
(* and the /proc/net files when a dump fails.  Resolver takes the result   *)
(* for granted; this module goes down to datagrams, messages and rows.     *)
(*                                                                         *)
(* A datagram is a number of bytes, and a message is the length and type   *)
(* in its header, which are chosen when the header is read: every way to   *)
(* split a dump into datagrams and every length is tried.  Of the kernel   *)
(* (external) it is only assumed that it ends a dump after the last socket *)
(* of the table, and that it sends a bounded number of datagrams.  Sockets *)
(* that come and go while a table is read are the subject of Resolver.     *)
(***************************************************************************)
EXTENDS Integers, FiniteSets, Sequences

CONSTANTS
    Inodes,        \* sockets that have an inode
    TableOf,       \* the table that lists each of them
    HeaderSize,    \* size_of RawNlmsghdr
    DiagSize,      \* size_of InetDiagMsgRaw
    AlignTo,       \* NLMSG_ALIGNTO
    MaxReceived,   \* bound on the bytes of a datagram
    MaxDatagrams   \* bound on the datagrams of a dump

Tables == {"tcp", "udp", "tcp6", "udp6"}

ASSUME SourcesAssumption ==
    /\ Inodes \subseteq Nat \ {0}
    /\ TableOf \in [Inodes -> Tables]
    /\ HeaderSize \in Nat \ {0}
    /\ DiagSize \in Nat \ {0}
    /\ AlignTo \in Nat \ {0}
    /\ MaxReceived \in Nat
    /\ MaxDatagrams \in Nat

\* Sockets in TIME_WAIT have no inode: they are listed with inode 0.
NoInode == 0
Rows == {[inode |-> i, table |-> TableOf[i]] : i \in Inodes}
            \cup [inode : {NoInode}, table : {"tcp", "tcp6"}]

\* The order in which query_sockets and read_proc_net go through the tables.
Order ==
    [netlink |-> <<"tcp", "udp", "tcp6", "udp6">>,
     proc    |-> <<"tcp", "tcp6", "udp", "udp6">>]

VARIABLES
    pc,                 \* where the query is
    sockets,            \* the kernel's sockets while one source is read
    source,             \* "netlink" or "proc"
    table,              \* position in Order[source]
    todo,               \* rows of this table that the source has not given yet
    datagrams,          \* datagrams of this dump
    received,           \* bytes of the datagram in recv_buffer
    offset,
    header,             \* the header of the message at offset, once it is read
    sockets_by_inode    \* the map built: inode to table of the entry

bufferVars == <<received, offset, header>>
vars == <<pc, sockets, source, table, todo, datagrams, bufferVars, sockets_by_inode>>

Types == {"done", "error", "diag", "other"}
NoHeader == [len |-> 0, type |-> "other"]
EmptyMap == [i \in {} |-> "tcp"]

CurrentTable == Order[source][table]
RowsOf(name) == {r \in sockets : r.table = name}

TypeOK ==
    /\ pc \in {"idle", "send", "recv", "header", "message", "file", "row", "ok", "failed"}
    /\ sockets \subseteq Rows
    /\ source \in {"netlink", "proc"}
    /\ table \in 1 .. 4
    /\ todo \subseteq sockets
    /\ datagrams \in 0 .. MaxDatagrams
    /\ received \in 0 .. MaxReceived
    /\ offset \in 0 .. (MaxReceived + AlignTo - 1)
    /\ header \in [len : 0 .. MaxReceived + 1, type : Types]
    /\ DOMAIN sockets_by_inode \subseteq Inodes \cup {NoInode}
    /\ \A i \in DOMAIN sockets_by_inode : sockets_by_inode[i] \in Tables

Init ==
    /\ pc = "idle"
    /\ sockets = {}
    /\ source = "netlink"
    /\ table = 1
    /\ todo = {}
    /\ datagrams = 0 /\ received = 0 /\ offset = 0
    /\ header = NoHeader
    /\ sockets_by_inode = EmptyMap

\* parse_response_messages returns: its buffer and offset are gone.
ParserReturns ==
    /\ received' = 0
    /\ offset' = 0
    /\ header' = NoHeader

\* HashMap::insert: rows of the same inode replace each other.
Insert(row) ==
    [i \in DOMAIN sockets_by_inode \cup {row.inode} |->
        IF i = row.inode THEN row.table ELSE sockets_by_inode[i]]

Begin(src) ==
    /\ source' = src
    /\ table' = 1
    /\ sockets_by_inode' = EmptyMap

\* refresh calls query_sockets.
Query ==
    /\ pc \in {"idle", "ok", "failed"}
    /\ pc' = "send"
    /\ sockets' \in SUBSET Rows
    /\ Begin("netlink")
    /\ todo' = {}
    /\ UNCHANGED <<datagrams, bufferVars>>

-----------------------------------------------------------------------------
(* Netlink.                                                                *)

\* Every NetlinkError ends query_sockets, and refresh turns to read_proc_net,
\* which starts from an empty map.  Sockets may have come and gone meanwhile.
fall_back ==
    /\ pc' = "file"
    /\ Begin("proc")
    /\ todo' = {}
    /\ datagrams' = 0
    /\ ParserReturns
    /\ sockets' \in SUBSET Rows

\* The socket cannot be opened, or a send or recv fails, or recv returns 0.
CallFails ==
    /\ pc \in {"send", "recv"}
    /\ fall_back

\* query_family_protocol sends the request of one table.
Send ==
    /\ pc = "send"
    /\ pc' = "recv"
    /\ todo' = RowsOf(CurrentTable)
    /\ datagrams' = 0
    /\ UNCHANGED <<sockets, source, table, bufferVars, sockets_by_inode>>

Recv ==
    /\ pc = "recv"
    /\ datagrams < MaxDatagrams
    /\ datagrams' = datagrams + 1
    /\ received' \in 1 .. MaxReceived
    /\ offset' = 0
    /\ pc' = "header"
    /\ UNCHANGED <<sockets, source, table, todo, header, sockets_by_inode>>

\* The loop of parse_response_messages reads the next header.
ReadHeader ==
    /\ pc = "header"
    /\ offset + HeaderSize <= received
    /\ pc' = "message"
    /\ header' \in [len : 0 .. received + 1, type : Types]
    \* The kernel ends a dump after its last row, and lists no row twice.
    /\ header'.type = "done" => todo = {}
    /\ header'.type = "diag" => todo # {}
    /\ UNCHANGED <<sockets, source, table, todo, datagrams, received, offset, sockets_by_inode>>

\* The dump of a table has ended: the next table, or the end of the query.
DumpOver ==
    /\ datagrams' = 0
    /\ IF table < 4 THEN pc' = "send" /\ table' = table + 1
                    ELSE pc' = "ok" /\ UNCHANGED table

\* Mutated form: the end of a datagram is taken for the end of the dump.
DatagramEndsDump ==
    /\ pc = "header"
    /\ offset + HeaderSize > received
    /\ DumpOver
    /\ ParserReturns
    /\ UNCHANGED <<sockets, source, todo, sockets_by_inode>>

\* No room for another header: the rest is ignored, the dump goes on.
DatagramEnds ==
    /\ pc = "header"
    /\ offset + HeaderSize > received
    /\ pc' = "recv"
    /\ ParserReturns
    /\ UNCHANGED <<sockets, source, table, todo, datagrams, sockets_by_inode>>

\* Mutated form: only a length beyond the datagram is refused.
length_beyond_datagram(len) == offset + len > received

\* Mutated form: only an empty message is refused.
length_zero(len) == len = 0

length_invalid(len) == len = 0 \/ offset + len > received

\* Mutated form: an aligned length is moved on to the next boundary.
nlmsg_align_next(len) == ((len + AlignTo) \div AlignTo) * AlignTo

nlmsg_align(len) == ((len + AlignTo - 1) \div AlignTo) * AlignTo

\* The slice of the buffer that is taken for the payload; a message that is
\* shorter than its header has an empty one.
payload_len(len) == IF len > HeaderSize THEN len - HeaderSize ELSE 0
payload_offset == offset + HeaderSize
payload_end == payload_offset + payload_len(header.len)

BadLength ==
    /\ pc = "message"
    /\ length_invalid(header.len)
    /\ fall_back

\* NLMSG_DONE ends the dump of a table, wherever it stands in a datagram.
DumpDone ==
    /\ pc = "message"
    /\ ~length_invalid(header.len)
    /\ header.type = "done"
    /\ DumpOver
    /\ ParserReturns
    /\ UNCHANGED <<sockets, source, todo, sockets_by_inode>>

\* NLMSG_ERROR, a diag message that is too short, or one of another family.
MessageFails ==
    /\ pc = "message"
    /\ ~length_invalid(header.len)
    /\ header.type \in {"error", "diag"}
    /\ fall_back

\* parse_inet_diag_message and the insert.
DiagRow ==
    /\ pc = "message"
    /\ ~length_invalid(header.len)
    /\ header.type = "diag"
    /\ payload_len(header.len) >= DiagSize
    /\ \E row \in todo :
        /\ sockets_by_inode' = Insert(row)
        /\ todo' = todo \ {row}
    /\ offset' = offset + nlmsg_align(header.len)
    /\ header' = NoHeader
    /\ pc' = "header"
    /\ UNCHANGED <<sockets, source, table, datagrams, received>>

\* A message of another type is skipped.
SkipMessage ==
    /\ pc = "message"
    /\ ~length_invalid(header.len)
    /\ header.type = "other"
    /\ offset' = offset + nlmsg_align(header.len)
    /\ header' = NoHeader
    /\ pc' = "header"
    /\ UNCHANGED <<sockets, source, table, todo, datagrams, received, sockets_by_inode>>

-----------------------------------------------------------------------------
(* /proc/net.                                                              *)

\* read_proc_file opens and reads one file.
ReadFile ==
    /\ pc = "file"
    /\ pc' = "row"
    /\ todo' = RowsOf(CurrentTable)
    /\ UNCHANGED <<sockets, source, table, datagrams, bufferVars, sockets_by_inode>>

ParseRow ==
    /\ pc = "row"
    /\ \E row \in todo :
        /\ sockets_by_inode' = Insert(row)
        /\ todo' = todo \ {row}
    /\ UNCHANGED <<pc, sockets, source, table, datagrams, bufferVars>>

FileEnds ==
    /\ pc = "row"
    /\ todo = {}
    /\ IF table < 4 THEN pc' = "file" /\ table' = table + 1
                    ELSE pc' = "ok" /\ UNCHANGED table
    /\ UNCHANGED <<sockets, source, todo, datagrams, bufferVars, sockets_by_inode>>

\* A file that cannot be opened, or one row that does not parse, fails the
\* fallback, and the refresh with it.
FallbackFails ==
    /\ \/ pc = "file"
       \/ pc = "row" /\ todo # {}
    /\ pc' = "failed"
    /\ UNCHANGED <<sockets, source, table, todo, datagrams, bufferVars, sockets_by_inode>>

-----------------------------------------------------------------------------
Netlink ==
    \/ CallFails \/ Send \/ Recv \/ ReadHeader \/ DatagramEnds
    \/ BadLength \/ DumpDone \/ MessageFails \/ DiagRow \/ SkipMessage

Proc == ReadFile \/ ParseRow \/ FileEnds \/ FallbackFails

Next == Query \/ Netlink \/ Proc

Spec == Init /\ [][Next]_vars

\* The query runs on, and the kernel answers each call; that another query
\* is made is not assumed.
FairSpec == Spec /\ WF_vars(Netlink \/ Proc)

-----------------------------------------------------------------------------
(* Properties.                                                             *)

\* A slice of the receive buffer never runs backwards or past the bytes of
\* the datagram, whatever lengths the messages announce: an index out of
\* bounds would end the aggregator thread (parse_response_messages).
SliceInBounds ==
    pc = "message" /\ ~length_invalid(header.len) =>
        payload_offset <= payload_end /\ payload_end <= received

\* A query that succeeds has found every socket that the kernel lists, in
\* whatever datagrams and whichever source answered, and nothing that a
\* failed source left behind.  Of the sockets without an inode one is kept
\* (query_sockets, read_proc_net, refresh).
SuccessIsWhole ==
    pc = "ok" =>
        /\ DOMAIN sockets_by_inode = {r.inode : r \in sockets}
        /\ \A i \in DOMAIN sockets_by_inode :
            [inode |-> i, table |-> sockets_by_inode[i]] \in sockets

\* A query ends, with a map or an error: no message makes the parser stand
\* still (parse_response_messages, read_proc_file).
QueryEnds == pc = "send" ~> pc \in {"ok", "failed"}

=============================================================================
