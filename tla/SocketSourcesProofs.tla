------------------------ MODULE SocketSourcesProofs ------------------------
(***************************************************************************)
(* Proofs about SocketSources, for every set of sockets, every size of the *)
(* structures and every number and size of datagrams.                      *)
(***************************************************************************)
EXTENDS SocketSources, TLAPS

Midway == {"recv", "header", "message", "row"}

\* Rows of the tables that this source has given completely.
Earlier == {r \in sockets : \E i \in 1 .. 4 : i < table /\ Order[source][i] = r.table}

\* Rows that this source has given so far.
Delivered ==
    IF pc = "ok" THEN sockets
    ELSE IF pc \in Midway THEN Earlier \cup (RowsOf(CurrentTable) \ todo)
    ELSE Earlier

\* The part of the types that the proofs need.
Typed ==
    /\ pc \in {"idle", "send", "recv", "header", "message", "file", "row", "ok", "failed"}
    /\ sockets \subseteq Rows
    /\ source \in {"netlink", "proc"}
    /\ table \in 1 .. 4
    /\ received \in Nat
    /\ offset \in Nat
    /\ header.len \in Nat

\* The bounds that the loop of parse_response_messages keeps, and what the end
\* of a dump means.
InDump ==
    /\ pc = "message" => offset + HeaderSize <= received
    /\ pc = "message" /\ header.type = "done" => todo = {}
    /\ pc \in Midway => todo \subseteq RowsOf(CurrentTable)

\* The map holds the inodes of rows D, each with an entry of D.
Holds(map, D) ==
    /\ DOMAIN map = {r.inode : r \in D}
    /\ \A i \in DOMAIN map : [inode |-> i, table |-> map[i]] \in D

\* The map holds what the source has given, unless the query has failed.
MapWhole == pc \notin {"idle", "failed"} => Holds(sockets_by_inode, Delivered)

\* The inductive invariant.
IInv == Typed /\ InDump /\ MapWhole

LEMMA RowForm ==
    \A r \in Rows : r = [inode |-> r.inode, table |-> r.table] /\ r.table \in Tables
BY SourcesAssumption DEF Rows, Tables

LEMMA OrderCovers ==
    ASSUME NEW s \in {"netlink", "proc"}, NEW name \in Tables
    PROVE  \E i \in 1 .. 4 : Order[s][i] = name
<1>1. CASE name = "tcp"
  BY <1>1 DEF Order
<1>2. CASE name = "udp"
  BY <1>2 DEF Order
<1>3. CASE name = "tcp6"
  BY <1>3 DEF Order
<1>4. CASE name = "udp6"
  BY <1>4 DEF Order
<1> QED
  BY <1>1, <1>2, <1>3, <1>4 DEF Tables

\* Inserting a row of a socket keeps a map whole.
LEMMA InsertHolds ==
    ASSUME NEW D, NEW row, Holds(sockets_by_inode, D),
           row = [inode |-> row.inode, table |-> row.table]
    PROVE  Holds(Insert(row), D \cup {row})
BY DEF Holds, Insert

LEMMA EmptyHolds == Holds(EmptyMap, {})
BY DEF Holds, EmptyMap

LEMMA AlignNat == ASSUME NEW n \in Nat PROVE nlmsg_align(n) \in Nat
BY SourcesAssumption DEF nlmsg_align

LEMMA InitInv == Init => IInv
BY DEF Init, IInv, Typed, InDump, MapWhole, NoHeader, Midway

\* A source starts with an empty map and nothing delivered.
LEMMA BeginInv ==
    ASSUME NEW src \in {"netlink", "proc"}, Begin(src), sockets' \in SUBSET Rows,
           pc' \in {"send", "file"}
    PROVE  MapWhole'
<1>1. Earlier' = {}
  BY DEF Begin, Earlier
<1>2. Delivered' = {}
  BY <1>1 DEF Delivered, Midway
<1> QED
  BY <1>2, EmptyHolds DEF Begin, MapWhole

LEMMA FallBackInv == IInv /\ fall_back => IInv'
<1> SUFFICES ASSUME IInv, fall_back PROVE IInv'
  OBVIOUS
<1>1. MapWhole'
  BY BeginInv DEF fall_back
<1>2. Typed' /\ InDump'
  BY DEF fall_back, Begin, ParserReturns, NoHeader, IInv, Typed, InDump, Midway
<1> QED
  BY <1>1, <1>2 DEF IInv

\* When the last row of a table is in, the next table or the end follows.
LEMMA TableOver ==
    ASSUME IInv, pc \in Midway, todo = {},
           IF table < 4 THEN pc' \in {"send", "file"} /\ table' = table + 1
                        ELSE pc' = "ok" /\ table' = table,
           UNCHANGED <<sockets, source, sockets_by_inode>>
    PROVE  MapWhole'
<1>1. Holds(sockets_by_inode, Earlier \cup RowsOf(CurrentTable))
  BY DEF IInv, MapWhole, Delivered, Midway
<1>2. CASE table < 4
  <2>1. Earlier' = Earlier \cup RowsOf(CurrentTable)
    BY <1>2 DEF Earlier, RowsOf, CurrentTable, IInv, Typed
  <2>2. Delivered' = Earlier'
    BY <1>2 DEF Delivered, Midway
  <2> QED
    BY <1>1, <2>1, <2>2 DEF MapWhole
<1>3. CASE ~(table < 4)
  <2>1. table = 4
    BY <1>3 DEF IInv, Typed
  <2>2. Earlier \cup RowsOf(CurrentTable) = sockets
    <3>1. SUFFICES ASSUME NEW r \in sockets PROVE r \in Earlier \cup RowsOf(CurrentTable)
      BY DEF Earlier, RowsOf
    <3>2. PICK i \in 1 .. 4 : Order[source][i] = r.table
      BY OrderCovers, RowForm DEF IInv, Typed
    <3> QED
      BY <2>1, <3>2 DEF Earlier, RowsOf, CurrentTable
  <2>3. Delivered' = sockets
    BY <1>3 DEF Delivered
  <2> QED
    BY <1>1, <2>2, <2>3 DEF MapWhole
<1> QED
  BY <1>2, <1>3

\* A row that is taken from the source goes into the map.
LEMMA RowTaken ==
    ASSUME IInv, pc \in Midway, pc' \in Midway,
           \E row \in todo : sockets_by_inode' = Insert(row) /\ todo' = todo \ {row},
           UNCHANGED <<sockets, source, table>>
    PROVE  MapWhole' /\ todo' \subseteq RowsOf(CurrentTable)'
<1>1. PICK row \in todo : sockets_by_inode' = Insert(row) /\ todo' = todo \ {row}
  OBVIOUS
<1>2. row \in RowsOf(CurrentTable) /\ row \in sockets /\ todo \subseteq RowsOf(CurrentTable)
  BY DEF IInv, InDump, RowsOf
<1>3. row = [inode |-> row.inode, table |-> row.table]
  BY <1>2, RowForm DEF IInv, Typed
<1>4. Holds(sockets_by_inode, Delivered)
  BY DEF IInv, MapWhole, Midway
<1>5. Delivered' = Delivered \cup {row}
  <2>1. Earlier' = Earlier /\ RowsOf(CurrentTable)' = RowsOf(CurrentTable)
    BY DEF Earlier, RowsOf, CurrentTable
  <2> QED
    BY <1>1, <1>2, <2>1 DEF Delivered, Midway
<1>6. Holds(Insert(row), Delivered \cup {row})
  BY <1>3, <1>4, InsertHolds
<1> QED
  BY <1>1, <1>2, <1>5, <1>6 DEF MapWhole, RowsOf, CurrentTable

\* Steps inside a dump that take no row leave the map and the rows alone.
LEMMA NoRow ==
    ASSUME IInv, pc \in Midway, pc' \in Midway,
           UNCHANGED <<sockets, source, table, todo, sockets_by_inode>>
    PROVE  MapWhole' /\ todo' \subseteq RowsOf(CurrentTable)'
<1>1. Delivered' = Delivered /\ RowsOf(CurrentTable)' = RowsOf(CurrentTable)
  BY DEF Delivered, Earlier, RowsOf, CurrentTable, Midway
<1> QED
  BY <1>1 DEF IInv, InDump, MapWhole, Midway

\* A source begins a table.
LEMMA TableBegun ==
    ASSUME IInv, pc \in {"send", "file"}, pc' \in {"recv", "row"},
           todo' = RowsOf(CurrentTable),
           UNCHANGED <<sockets, source, table, sockets_by_inode>>
    PROVE  MapWhole' /\ todo' \subseteq RowsOf(CurrentTable)'
<1>1. Earlier' = Earlier /\ RowsOf(CurrentTable)' = RowsOf(CurrentTable)
  BY DEF Earlier, RowsOf, CurrentTable
<1>2. Delivered' = Delivered
  BY <1>1 DEF Delivered, Midway
<1> QED
  BY <1>1, <1>2 DEF IInv, MapWhole

LEMMA NextInv == IInv /\ [Next]_vars => IInv'
<1> SUFFICES ASSUME IInv, [Next]_vars PROVE IInv'
  OBVIOUS
<1> USE SourcesAssumption
<1>1. CASE Query
  <2>1. MapWhole'
    BY <1>1, BeginInv DEF Query
  <2>2. Typed' /\ InDump'
    BY <1>1 DEF Query, Begin, IInv, Typed, InDump, bufferVars, Midway
  <2> QED
    BY <2>1, <2>2 DEF IInv
<1>2. CASE CallFails
  BY <1>2, FallBackInv DEF CallFails
<1>3. CASE Send
  <2>1. MapWhole' /\ todo' \subseteq RowsOf(CurrentTable)'
    BY <1>3, TableBegun DEF Send
  <2>2. Typed' /\ InDump'
    BY <1>3, <2>1 DEF Send, IInv, Typed, InDump, bufferVars
  <2> QED
    BY <2>1, <2>2 DEF IInv
<1>4. CASE Recv
  <2>1. MapWhole' /\ todo' \subseteq RowsOf(CurrentTable)'
    BY <1>4, NoRow DEF Recv, Midway
  <2>2. Typed' /\ InDump'
    BY <1>4, <2>1 DEF Recv, IInv, Typed, InDump
  <2> QED
    BY <2>1, <2>2 DEF IInv
<1>5. CASE ReadHeader
  <2>1. MapWhole' /\ todo' \subseteq RowsOf(CurrentTable)'
    BY <1>5, NoRow DEF ReadHeader, Midway
  <2>2. Typed'
    BY <1>5 DEF ReadHeader, IInv, Typed
  <2>3. InDump'
    BY <1>5, <2>1 DEF ReadHeader, InDump
  <2> QED
    BY <2>1, <2>2, <2>3 DEF IInv
<1>6. CASE DatagramEnds
  <2>1. MapWhole' /\ todo' \subseteq RowsOf(CurrentTable)'
    BY <1>6, NoRow DEF DatagramEnds, Midway
  <2>2. Typed' /\ InDump'
    BY <1>6, <2>1 DEF DatagramEnds, ParserReturns, NoHeader, IInv, Typed, InDump
  <2> QED
    BY <2>1, <2>2 DEF IInv
<1>7. CASE BadLength \/ MessageFails
  BY <1>7, FallBackInv DEF BadLength, MessageFails
<1>8. CASE DumpDone
  <2>1. MapWhole'
    <3>1. todo = {}
      BY <1>8 DEF DumpDone, IInv, InDump
    <3> QED
      BY <1>8, <3>1, TableOver DEF DumpDone, DumpOver, Midway
  <2>2. Typed' /\ InDump'
    BY <1>8 DEF DumpDone, DumpOver, ParserReturns, NoHeader, IInv, Typed, InDump, Midway
  <2> QED
    BY <2>1, <2>2 DEF IInv
<1>9. CASE DiagRow
  <2>1. MapWhole' /\ todo' \subseteq RowsOf(CurrentTable)'
    BY <1>9, RowTaken DEF DiagRow, Midway
  <2>2. Typed'
    BY <1>9, AlignNat DEF DiagRow, NoHeader, IInv, Typed
  <2>3. InDump'
    BY <1>9, <2>1 DEF DiagRow, InDump
  <2> QED
    BY <2>1, <2>2, <2>3 DEF IInv
<1>10. CASE SkipMessage
  <2>1. MapWhole' /\ todo' \subseteq RowsOf(CurrentTable)'
    BY <1>10, NoRow DEF SkipMessage, Midway
  <2>2. Typed'
    BY <1>10, AlignNat DEF SkipMessage, NoHeader, IInv, Typed
  <2>3. InDump'
    BY <1>10, <2>1 DEF SkipMessage, InDump
  <2> QED
    BY <2>1, <2>2, <2>3 DEF IInv
<1>11. CASE ReadFile
  <2>1. MapWhole' /\ todo' \subseteq RowsOf(CurrentTable)'
    BY <1>11, TableBegun DEF ReadFile
  <2>2. Typed' /\ InDump'
    BY <1>11, <2>1 DEF ReadFile, IInv, Typed, InDump, bufferVars
  <2> QED
    BY <2>1, <2>2 DEF IInv
<1>12. CASE ParseRow
  <2>1. MapWhole' /\ todo' \subseteq RowsOf(CurrentTable)'
    BY <1>12, RowTaken DEF ParseRow, Midway
  <2>2. Typed' /\ InDump'
    BY <1>12, <2>1 DEF ParseRow, IInv, Typed, InDump, bufferVars
  <2> QED
    BY <2>1, <2>2 DEF IInv
<1>13. CASE FileEnds
  <2>1. MapWhole'
    BY <1>13, TableOver DEF FileEnds, Midway
  <2>2. Typed' /\ InDump'
    BY <1>13 DEF FileEnds, IInv, Typed, InDump, bufferVars, Midway
  <2> QED
    BY <2>1, <2>2 DEF IInv
<1>14. CASE FallbackFails
  BY <1>14 DEF FallbackFails, IInv, Typed, InDump, MapWhole, bufferVars, Midway
<1>15. CASE UNCHANGED vars
  BY <1>15 DEF vars, bufferVars, IInv, Typed, InDump, MapWhole, Delivered, Earlier, RowsOf,
               CurrentTable
<1> QED
  BY <1>1, <1>2, <1>3, <1>4, <1>5, <1>6, <1>7, <1>8, <1>9, <1>10, <1>11, <1>12, <1>13, <1>14,
     <1>15 DEF Next, Netlink, Proc

LEMMA Invariance == Spec => []IInv
BY InitInv, NextInv, PTL DEF Spec

\* A slice of the receive buffer stays within the datagram, for every size of
\* header and every length a message announces (parse_response_messages).
THEOREM SlicesStayInBounds == Spec => []SliceInBounds
<1>1. IInv => SliceInBounds
  BY SourcesAssumption DEF IInv, Typed, InDump, SliceInBounds, length_invalid, payload_offset,
                           payload_end, payload_len
<1> QED
  BY Invariance, <1>1, PTL

\* A query that succeeds has every socket that the kernel lists, for every set
\* of sockets, every split into datagrams and every failure before the
\* fallback (query_sockets, read_proc_net, refresh).
THEOREM QueriesAreWhole == Spec => []SuccessIsWhole
<1>1. IInv => SuccessIsWhole
  BY DEF IInv, MapWhole, Delivered, Holds, SuccessIsWhole
<1> QED
  BY Invariance, <1>1, PTL

-----------------------------------------------------------------------------
(* Types.                                                                  *)

\* An aligned length is less than AlignTo longer.
LEMMA AlignBound ==
    ASSUME NEW n \in Nat
    PROVE  nlmsg_align(n) \in Nat /\ nlmsg_align(n) <= n + AlignTo - 1
<1> DEFINE a == n + AlignTo - 1
           q == a \div AlignTo
<1>1. AlignTo \in Nat \ {0} /\ a \in Nat
  BY SourcesAssumption
<1>2. q \in Nat /\ AlignTo * q <= a
  BY <1>1
<1>3. nlmsg_align(n) = q * AlignTo
  BY DEF nlmsg_align
<1> HIDE DEF q
<1>4. q * AlignTo = AlignTo * q /\ AlignTo * q \in Nat
  BY <1>1, <1>2
<1> QED
  BY <1>1, <1>2, <1>3, <1>4

LEMMA InsertType ==
    ASSUME TypeOK, NEW row \in todo
    PROVE  /\ DOMAIN Insert(row) \subseteq Inodes \cup {NoInode}
           /\ \A i \in DOMAIN Insert(row) : Insert(row)[i] \in Tables
<1>1. row \in Rows
  BY DEF TypeOK
<1>2. row.inode \in Inodes \cup {NoInode} /\ row.table \in Tables
  BY <1>1, SourcesAssumption DEF Rows, Tables
<1> QED
  BY <1>2 DEF TypeOK, Insert

\* The loop of parse_response_messages moves on by an aligned message.
LEMMA OffsetType ==
    ASSUME TypeOK, pc = "message", ~length_invalid(header.len),
           offset' = offset + nlmsg_align(header.len)
    PROVE  offset' \in 0 .. (MaxReceived + AlignTo - 1)
<1>1. /\ header.len \in Nat /\ offset \in Nat /\ received \in Nat /\ received <= MaxReceived
      /\ MaxReceived \in Nat /\ AlignTo \in Nat \ {0}
  BY SourcesAssumption DEF TypeOK
<1>2. offset + header.len <= received
  BY <1>1 DEF length_invalid
<1>3. nlmsg_align(header.len) \in Nat /\ nlmsg_align(header.len) <= header.len + AlignTo - 1
  BY <1>1, AlignBound
<1> QED
  BY <1>1, <1>2, <1>3

LEMMA NoHeaderType == NoHeader \in [len : 0 .. MaxReceived + 1, type : Types]
BY SourcesAssumption DEF NoHeader, Types

LEMMA FallBackType == TypeOK /\ fall_back => TypeOK'
<1> SUFFICES ASSUME TypeOK, fall_back PROVE TypeOK'
  OBVIOUS
<1>1. /\ pc' = "file" /\ source' = "proc" /\ table' = 1 /\ sockets_by_inode' = EmptyMap
      /\ todo' = {} /\ datagrams' = 0 /\ received' = 0 /\ offset' = 0 /\ header' = NoHeader
      /\ sockets' \in SUBSET Rows
  BY DEF fall_back, Begin, ParserReturns
<1>2. 0 \in 0 .. MaxDatagrams /\ 0 \in 0 .. MaxReceived /\ 0 \in 0 .. (MaxReceived + AlignTo - 1)
  BY SourcesAssumption
<1> QED
  BY <1>1, <1>2, NoHeaderType DEF TypeOK, EmptyMap

LEMMA TypeStep == TypeOK /\ [Next]_vars => TypeOK'
<1> SUFFICES ASSUME TypeOK, [Next]_vars PROVE TypeOK'
  OBVIOUS
<1>0. 0 \in 0 .. MaxDatagrams /\ 0 \in 0 .. MaxReceived /\ 0 \in 0 .. (MaxReceived + AlignTo - 1)
  BY SourcesAssumption
<1>1. CASE Query
  BY <1>1 DEF Query, Begin, bufferVars, EmptyMap, TypeOK
<1>2. CASE CallFails \/ BadLength \/ MessageFails
  BY <1>2, FallBackType DEF CallFails, BadLength, MessageFails
<1>3. CASE Send
  BY <1>0, <1>3 DEF Send, RowsOf, bufferVars, TypeOK
<1>4. CASE Recv
  <2>1. datagrams' \in 0 .. MaxDatagrams /\ received' \in 0 .. MaxReceived
    BY <1>4, SourcesAssumption DEF Recv, TypeOK
  <2> QED
    BY <1>0, <1>4, <2>1 DEF Recv, TypeOK
<1>5. CASE ReadHeader
  <2>1. header' \in [len : 0 .. MaxReceived + 1, type : Types]
    BY <1>5, SourcesAssumption DEF ReadHeader, TypeOK
  <2> QED
    BY <1>5, <2>1 DEF ReadHeader, TypeOK
<1>6. CASE DatagramEnds
  BY <1>0, <1>6, NoHeaderType DEF DatagramEnds, ParserReturns, TypeOK
<1>7. CASE DumpDone
  <2>1. pc' \in {"send", "ok"} /\ table' \in 1 .. 4
    BY <1>7 DEF DumpDone, DumpOver, TypeOK
  <2> QED
    BY <1>0, <1>7, <2>1, NoHeaderType DEF DumpDone, DumpOver, ParserReturns, TypeOK
<1>8. CASE DiagRow
  <2>1. offset' \in 0 .. (MaxReceived + AlignTo - 1)
    BY <1>8, OffsetType DEF DiagRow
  <2>2. PICK row \in todo : sockets_by_inode' = Insert(row) /\ todo' = todo \ {row}
    BY <1>8 DEF DiagRow
  <2>3. /\ DOMAIN sockets_by_inode' \subseteq Inodes \cup {NoInode}
        /\ \A i \in DOMAIN sockets_by_inode' : sockets_by_inode'[i] \in Tables
    BY <2>2, InsertType
  <2> QED
    BY <1>8, <2>1, <2>2, <2>3, NoHeaderType DEF DiagRow, TypeOK
<1>9. CASE SkipMessage
  <2>1. offset' \in 0 .. (MaxReceived + AlignTo - 1)
    BY <1>9, OffsetType DEF SkipMessage
  <2> QED
    BY <1>9, <2>1, NoHeaderType DEF SkipMessage, TypeOK
<1>10. CASE ReadFile \/ FallbackFails
  BY <1>10 DEF ReadFile, FallbackFails, RowsOf, bufferVars, TypeOK
<1>11. CASE ParseRow
  <2>1. PICK row \in todo : sockets_by_inode' = Insert(row) /\ todo' = todo \ {row}
    BY <1>11 DEF ParseRow
  <2>2. /\ DOMAIN sockets_by_inode' \subseteq Inodes \cup {NoInode}
        /\ \A i \in DOMAIN sockets_by_inode' : sockets_by_inode'[i] \in Tables
    BY <2>1, InsertType
  <2> QED
    BY <1>11, <2>1, <2>2 DEF ParseRow, bufferVars, TypeOK
<1>12. CASE FileEnds
  <2>1. pc' \in {"file", "ok"} /\ table' \in 1 .. 4
    BY <1>12 DEF FileEnds, TypeOK
  <2> QED
    BY <1>12, <2>1 DEF FileEnds, bufferVars, TypeOK
<1>13. CASE UNCHANGED vars
  BY <1>13 DEF vars, bufferVars, TypeOK
<1> QED
  BY <1>1, <1>2, <1>3, <1>4, <1>5, <1>6, <1>7, <1>8, <1>9, <1>10, <1>11, <1>12, <1>13
  DEF Next, Netlink, Proc

\* Every variable keeps its type; in particular the offset of the parser stays
\* within an alignment of the largest datagram (parse_response_messages).
THEOREM TypeCorrect == Spec => []TypeOK
<1>1. Init => TypeOK
  <2>1. 0 \in 0 .. MaxDatagrams /\ 0 \in 0 .. MaxReceived /\ 0 \in 0 .. (MaxReceived + AlignTo - 1)
    BY SourcesAssumption
  <2> QED
    BY <2>1, NoHeaderType DEF Init, EmptyMap, TypeOK
<1> QED
  BY <1>1, TypeStep, PTL DEF Spec

=============================================================================
