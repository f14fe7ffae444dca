----------------------------- MODULE Aggregator -----------------------------
(***************************************************************************)
(* The aggregator thread: it drains the flow channel into per-thread,      *)
(* per-connection and interface counters, evicts idle threads, rotates the *)
(* per-second histories and publishes two snapshots, each behind a lock of *)
(* its own, which the GUI thread reads one after the other in a frame.     *)
(*                                                                         *)
(* Which thread a record belongs to is the resolver's answer and any key   *)
(* here.  Every packet has one byte.  Time is coarse: a Tick makes the     *)
(* rotation due and ages every entry, and an entry whose age is at the     *)
(* eviction limit may be on either side of it.                             *)
(***************************************************************************)
EXTENDS Naturals, FiniteSets, FiniteSetsExt

CONSTANTS
    Keys,          \* ThreadKey values, that of unknown flows included
    Local,         \* addresses of this host
    Remote,        \* addresses of other hosts
    AddressLists,  \* the lists of local addresses that capture may be given
    HistorySlots,  \* HISTORY_SLOTS, 300 in the code
    EvictAfter,    \* PROCESS_EVICTION_TIMEOUT, in ticks
    U64Max,        \* the largest counter value
    Capacity,      \* capacity of the flow channel
    MaxPackets     \* bound on the packets of a behaviour

ASSUME SlotsAssumption == HistorySlots \in Nat \ {0}
ASSUME EvictAssumption == EvictAfter \in Nat
ASSUME WidthAssumption == U64Max \in Nat
ASSUME BoundsAssumption == Capacity \in Nat \ {0} /\ MaxPackets \in Nat

Dirs == {"tx", "rx"}
Addrs == Local \cup Remote
\* A promiscuous capture sees packets between two other hosts as well.
Flows == {f \in Addrs \X Addrs : f[1] # f[2]}
Slots == 0 .. HistorySlots - 1
Ages == 0 .. EvictAfter + 1

VARIABLES
    pc,          \* where the aggregator is in its loop
    queued,      \* records in the flow channel
    known,       \* the keys of stats_by_thread
    stats,       \* their counters; all zero for other keys
    tracked,     \* the keys of connection_stats
    conn,        \* their counters; all zero for other keys
    if_total, if_current, if_history, peak_bw,
    due,         \* a second has passed since the last rotation
    rows,        \* records reflected in the published rows
    iface,       \* records reflected in the published interface totals
    gui,         \* where the GUI is in its frame
    frame,       \* records reflected in the totals read in this frame
    local_ips,   \* the list that capture was given
    wire         \* packets of each thread and flow so far (history variable)

counters == <<known, stats, tracked, conn, if_total, if_current, if_history, peak_bw, due>>
snapshots == <<rows, iface>>
vars == <<pc, queued, counters, snapshots, gui, frame, local_ips, wire>>

Zero == [d \in Dirs |-> 0]
NewStats == [total |-> Zero, current |-> Zero, history |-> [i \in Slots |-> Zero], age |-> 0]
NewConn == [bytes |-> Zero, age |-> 0]
ConnKeys == Keys \X Flows

Counter == [Dirs -> 0 .. U64Max]

\* The sum of f[x] over the elements x of S.
Total(f, S) == MapThenSumSet(LAMBDA x : f[x], S)

TypeOK ==
    /\ pc \in {"drain", "maintain", "rows", "iface"}
    /\ queued \in 0 .. Capacity
    /\ known \subseteq Keys
    /\ stats \in [Keys -> [total: Counter, current: Counter, history: [Slots -> Counter], age: Ages]]
    /\ tracked \subseteq ConnKeys
    /\ conn \in [ConnKeys -> [bytes: Counter, age: Ages]]
    /\ if_total \in Counter
    /\ if_current \in Counter
    /\ if_history \in [Slots -> Counter]
    /\ peak_bw \in 0 .. U64Max
    /\ due \in BOOLEAN
    /\ rows \in Nat /\ iface \in Nat /\ frame \in Nat
    /\ gui \in {"top", "main"}
    /\ local_ips \in AddressLists
    /\ wire \in [ConnKeys -> Nat]

Init ==
    /\ pc = "drain"
    /\ queued = 0
    /\ known = {}
    /\ stats = [k \in Keys |-> NewStats]
    /\ tracked = {}
    /\ conn = [c \in ConnKeys |-> NewConn]
    /\ if_total = Zero
    /\ if_current = Zero
    /\ if_history = [i \in Slots |-> Zero]
    /\ peak_bw = 0
    /\ due = FALSE
    /\ rows = 0 /\ iface = 0
    /\ gui = "top" /\ frame = 0
    /\ local_ips \in AddressLists
    /\ wire = [c \in ConnKeys |-> 0]

-----------------------------------------------------------------------------
(* Records.                                                                *)

classify_direction(f) ==
    IF f[1] \notin local_ips /\ f[2] \in local_ips THEN "rx" ELSE "tx"

\* Mutated form: plain addition.
plain_add(n, bytes) == n + bytes

saturating_add(n, bytes) == IF n + bytes > U64Max THEN U64Max ELSE n + bytes
Add(counter, d) == [counter EXCEPT ![d] = saturating_add(@, 1)]

\* The connection a record counts for, seen from this host.
connection_key(k, f, d) == <<k, IF d = "tx" THEN f ELSE <<f[2], f[1]>>>>

update_connection_stats(k, f, d) ==
    LET c == connection_key(k, f, d)
    IN  /\ tracked' = tracked \cup {c}
        /\ conn' = [conn EXCEPT ![c] = [bytes |-> Add(@.bytes, d), age |-> 0]]

\* The counters of a thread after a record in direction d.
Count(s, d) == [s EXCEPT !.total = Add(@, d), !.current = Add(@, d), !.age = 0]

\* A record of flow f that the resolver attributes to thread k.
process_record(k, f) ==
    LET d == classify_direction(f)
    IN  /\ known' = known \cup {k}
        /\ stats' = [stats EXCEPT ![k] = Count(@, d)]
        /\ if_total' = Add(if_total, d)
        /\ if_current' = Add(if_current, d)
        /\ update_connection_stats(k, f, d)
        /\ wire' = [wire EXCEPT ![<<k, f>>] = @ + 1]

\* drain_flow_channel: a record, the first or a further one, is taken.
Receive(k, f) ==
    /\ pc = "drain"
    /\ queued > 0
    /\ queued' = queued - 1
    /\ process_record(k, f)
    /\ UNCHANGED <<pc, if_history, peak_bw, due, snapshots, gui, frame, local_ips>>

\* The channel is empty: recv_timeout timed out or try_recv found nothing.
DrainDone ==
    /\ pc = "drain"
    /\ queued = 0
    /\ pc' = "maintain"
    /\ UNCHANGED <<queued, counters, snapshots, gui, frame, local_ips, wire>>

-----------------------------------------------------------------------------
(* Maintenance.                                                            *)

\* retain keeps an entry whose age is below the limit and drops one above it.
Retained(S, entries) ==
    {R \in SUBSET S : \A x \in S : /\ entries[x].age < EvictAfter => x \in R
                                   /\ entries[x].age > EvictAfter => x \notin R}

\* What evict_stale_threads and then prune_connection_stats can keep.
evict_stale_threads == Retained(known, stats)

\* Mutated form: connections are dropped by their own age only.
prune_by_age(threads) == Retained(tracked, conn)

prune_connection_stats(threads) ==
    {{c \in R : c[1] \in threads} : R \in Retained(tracked, conn)}

Shift(history, current) == [i \in Slots |-> IF i = 0 THEN current ELSE history[i - 1]]

\* Mutated form: the current second is not reset.
rotate_without_reset(s) == [s EXCEPT !.history = Shift(@, s.current)]

rotate_second(s) == [s EXCEPT !.history = Shift(@, s.current), !.current = Zero]

\* Both directions of a second, in a plain sum: it wraps in a release build.
Bandwidth(second) == (second["tx"] + second["rx"]) % (U64Max + 1)

\* Mutated form: the threads are rotated before the test whether it is due.
rotate_threads_always(s) ==
    /\ stats' = [k \in Keys |-> rotate_second(s[k])]
    /\ IF due
       THEN /\ if_history' = Shift(if_history, if_current)
            /\ if_current' = Zero
            /\ peak_bw' = Max({peak_bw, Bandwidth(if_history'[0])})
            /\ due' = FALSE
       ELSE UNCHANGED <<if_history, if_current, peak_bw, due>>

\* Mutated form: the peak looks at the history before it is rotated.
rotate_peak_early(s) ==
    IF due
    THEN /\ stats' = [k \in Keys |-> rotate_second(s[k])]
         /\ if_history' = Shift(if_history, if_current)
         /\ if_current' = Zero
         /\ peak_bw' = Max({peak_bw, Bandwidth(if_history[0])})
         /\ due' = FALSE
    ELSE /\ stats' = s
         /\ UNCHANGED <<if_history, if_current, peak_bw, due>>

\* rotate_histories_if_due on the threads that were kept.
rotate_histories_if_due(s) ==
    IF due
    THEN /\ stats' = [k \in Keys |-> rotate_second(s[k])]
         /\ if_history' = Shift(if_history, if_current)
         /\ if_current' = Zero
         /\ peak_bw' = Max({peak_bw, Bandwidth(if_history'[0])})
         /\ due' = FALSE
    ELSE /\ stats' = s
         /\ UNCHANGED <<if_history, if_current, peak_bw, due>>

\* mark_exited_threads only changes the displayed name and is left out; the
\* rows for the history are the subject of SessionFiles.
Maintain ==
    /\ pc = "maintain"
    /\ known' \in evict_stale_threads
    /\ tracked' \in prune_connection_stats(known')
    /\ conn' = [c \in ConnKeys |-> IF c \in tracked' THEN conn[c] ELSE NewConn]
    /\ rotate_histories_if_due([k \in Keys |-> IF k \in known' THEN stats[k] ELSE NewStats])
    /\ pc' = "rows"
    /\ UNCHANGED <<queued, if_total, snapshots, gui, frame, local_ips, wire>>

-----------------------------------------------------------------------------
(* Publication, and the GUI that reads.                                    *)

Records(counter) == counter["tx"] + counter["rx"]

Other(d) == IF d = "tx" THEN "rx" ELSE "tx"
Reversed(s) == <<s[2], s[1]>>

\* Mutated form: the directions are not exchanged for the other end.
connection_row_unexchanged(k, s) ==
    IF <<k, s>> \in tracked THEN conn[<<k, s>>].bytes
    ELSE IF <<k, Reversed(s)>> \in tracked THEN conn[<<k, Reversed(s)>>].bytes ELSE Zero

\* The bytes that publish_snapshots puts into the row of socket s of thread k:
\* those that were counted from its own end or, when there are none, those
\* that were counted from the other, with the directions exchanged.
connection_row(k, s) ==
    IF <<k, s>> \in tracked THEN conn[<<k, s>>].bytes
    ELSE IF <<k, Reversed(s)>> \in tracked
         THEN [d \in Dirs |-> conn[<<k, Reversed(s)>>].bytes[Other(d)]]
         ELSE Zero

\* Mutated form: a try_write that gives up when the GUI holds the lock.
TryPublishRows ==
    /\ pc = "rows"
    /\ rows' \in {rows, Records(if_total)}
    /\ pc' = "iface"
    /\ UNCHANGED <<queued, counters, iface, gui, frame, local_ips, wire>>

\* publish_snapshots: first the rows, then the interface totals.
PublishRows ==
    /\ pc = "rows"
    /\ rows' = Records(if_total)
    /\ pc' = "iface"
    /\ UNCHANGED <<queued, counters, iface, gui, frame, local_ips, wire>>

PublishInterface ==
    /\ pc = "iface"
    /\ iface' = Records(if_total)
    /\ pc' = "drain"
    /\ UNCHANGED <<queued, counters, rows, gui, frame, local_ips, wire>>

\* update: the top panel shows the interface totals, the main panel the rows.
render_top_panel ==
    /\ gui = "top"
    /\ frame' = iface
    /\ gui' = "main"
    /\ UNCHANGED <<pc, queued, counters, snapshots, local_ips, wire>>

render_main_panel ==
    /\ gui = "main"
    /\ gui' = "top"
    /\ UNCHANGED <<pc, queued, counters, snapshots, frame, local_ips, wire>>

-----------------------------------------------------------------------------
(* The environment.                                                        *)

\* The capture thread sends a record.
Capture ==
    /\ queued < Capacity
    /\ Total(wire, ConnKeys) + queued < MaxPackets
    /\ queued' = queued + 1
    /\ UNCHANGED <<pc, counters, snapshots, gui, frame, local_ips, wire>>

Older(age) == IF age > EvictAfter THEN age ELSE age + 1

Tick ==
    /\ due' = TRUE
    /\ stats' = [k \in Keys |-> IF k \in known THEN [stats[k] EXCEPT !.age = Older(@)] ELSE stats[k]]
    /\ conn' = [c \in ConnKeys |-> IF c \in tracked THEN [conn[c] EXCEPT !.age = Older(@)] ELSE conn[c]]
    /\ UNCHANGED <<pc, queued, known, tracked, if_total, if_current, if_history, peak_bw,
                   snapshots, gui, frame, local_ips, wire>>

Next ==
    \/ \E k \in Keys, f \in Flows : Receive(k, f)
    \/ DrainDone \/ Maintain \/ PublishRows \/ PublishInterface
    \/ render_top_panel \/ render_main_panel
    \/ Capture \/ Tick

Spec == Init /\ [][Next]_vars

-----------------------------------------------------------------------------
(* Properties.                                                             *)

\* Parts with sum n make up a whole that may have saturated.
Within(n, whole) == n <= whole \/ whole = U64Max

\* The totals of the known threads, and what they have not yet rotated, never
\* exceed those of the interface: no byte is counted twice, through evictions
\* and returns of a thread (process_record, evict_stale_threads).
ThreadsWithinInterface ==
    \A d \in Dirs :
       /\ Within(Total([k \in Keys |-> stats[k].total[d]], known), if_total[d])
       /\ Within(Total([k \in Keys |-> stats[k].current[d]], known), if_current[d])

\* In every history slot the threads together have at most what the interface
\* has: the slots of all histories stand for the same second, also those of
\* threads that appeared later (rotate_histories_if_due, rotate_second).
HistoriesAligned ==
    \A d \in Dirs, i \in Slots :
       Within(Total([k \in Keys |-> stats[k].history[i][d]], known), if_history[i][d])

\* The peak bandwidth is at least that of every second still in the history,
\* as long as the two directions of the second do not overflow the sum.
PeakCoversHistory ==
    \A i \in Slots : Records(if_history[i]) <= U64Max => peak_bw >= Records(if_history[i])

\* The connections of a thread have at most the bytes of the thread: when a
\* thread is evicted and returns with fresh counters, its old connection
\* counters are gone too (prune_connection_stats after evict_stale_threads).
ConnectionsWithinThread ==
    \A k \in Keys, d \in Dirs :
       Within(Total([c \in ConnKeys |-> conn[c].bytes[d]], {c \in tracked : c[1] = k}),
              stats[k].total[d])

\* The row of a socket never shows a byte that the thread's packets did not
\* carry, nor one under the wrong direction: what it shows as sent went from
\* its own end to the other, and what it shows as received came back, whichever
\* end the bytes were counted from and whatever addresses capture was given.
\* It may leave bytes out: without the host's addresses, the bytes received
\* once some have been sent (classify_direction, update_connection_stats, the
\* two lookups of publish_snapshots).
RowsTrueToWire ==
    \A k \in Keys, s \in Flows :
       /\ connection_row(k, s)["tx"] <= wire[<<k, s>>]
       /\ connection_row(k, s)["rx"] <= wire[<<k, Reversed(s)>>]

\* The rows a frame shows are never older than the interface totals it shows,
\* though they are published and read under separate locks: every record in
\* the totals was in the counters the rows were made from.
FrameRowsNotOlder == gui = "main" => frame <= rows

\* Packets that reach this host from another one are counted as received, up
\* to saturation (classify_direction).
ReceivedCountedAsRx ==
    if_total["rx"] = Min({Total(wire, Keys \X (Remote \X Local)), U64Max})

=============================================================================
