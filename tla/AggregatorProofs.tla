-------------------------- MODULE AggregatorProofs --------------------------
(***************************************************************************)
(* Proofs about Aggregator, for every set of threads and addresses, every  *)
(* width of the counters and every number of history slots.                *)
(***************************************************************************)
EXTENDS TotalProofs

\* Evicted entries leave nothing behind, and the maps are finite.
ZeroInv ==
    /\ \A k \in Keys \ known : stats[k] = NewStats
    /\ \A c \in ConnKeys \ tracked : conn[c] = NewConn
    /\ \A c \in tracked : c[1] \in known
    /\ IsFiniteSet(known) /\ IsFiniteSet(tracked)

\* The totals are not ahead of the rows, nor these of the counters.
PublishInv ==
    /\ iface <= rows /\ rows <= Records(if_total)
    /\ pc = "iface" => rows = Records(if_total)
    /\ FrameRowsNotOlder

\* The inductive invariant.
IInv ==
    /\ TypeOK /\ ZeroInv /\ PublishInv /\ PeakCoversHistory
    /\ ThreadsWithinInterface /\ HistoriesAligned /\ ConnectionsWithinThread

\* A connection has at most what its two flows have carried.
WireInv ==
    \A k \in Keys, s \in Flows :
       /\ conn[<<k, s>>].bytes["tx"] <= wire[<<k, s>>]
       /\ conn[<<k, s>>].bytes["rx"] <= wire[<<k, Reversed(s)>>]

-----------------------------------------------------------------------------
(* The operators.                                                          *)

LEMMA SaturatingFacts ==
    ASSUME NEW n \in 0 .. U64Max, NEW m \in {0, 1}
    PROVE  /\ saturating_add(n, m) \in 0 .. U64Max
           /\ saturating_add(n, m) >= n
           /\ saturating_add(n, m) <= n + m
           /\ saturating_add(n, m) = n + m \/ saturating_add(n, m) = U64Max
           /\ m = 0 => saturating_add(n, m) = n
BY WidthAssumption DEF saturating_add

\* How much a record in direction d adds to the counter of direction e.
Inc(d, e) == IF e = d THEN 1 ELSE 0

LEMMA AddFacts ==
    ASSUME NEW counter \in Counter, NEW d \in Dirs
    PROVE  /\ Add(counter, d) \in Counter
           /\ \A e \in Dirs : Add(counter, d)[e] = saturating_add(counter[e], Inc(d, e))
<1>1. \A e \in Dirs : counter[e] \in 0 .. U64Max
  BY DEF Counter
<1>2. \A e \in Dirs : Add(counter, d)[e] = IF e = d THEN saturating_add(counter[e], 1) ELSE counter[e]
  BY DEF Add, Counter
<1>3. \A e \in Dirs : Add(counter, d)[e] = saturating_add(counter[e], Inc(d, e))
  BY <1>1, <1>2, SaturatingFacts DEF Inc
<1>4. saturating_add(counter[d], 1) \in 0 .. U64Max
  BY <1>1, SaturatingFacts
<1>5. Add(counter, d) \in Counter
  BY <1>4 DEF Add, Counter
<1> QED
  BY <1>3, <1>5

\* Parts that grow by at most m stay within a whole that grows by m.
LEMMA WithinGrows ==
    ASSUME NEW n \in Nat, NEW p \in Nat, NEW w \in 0 .. U64Max, NEW m \in {0, 1},
           Within(n, w), p <= n + m
    PROVE  Within(p, saturating_add(w, m))
BY WidthAssumption DEF Within, saturating_add

LEMMA MaxFacts ==
    ASSUME NEW a \in Nat, NEW b \in Nat
    PROVE  Max({a, b}) \in {a, b} /\ Max({a, b}) >= a /\ Max({a, b}) >= b
<1>1. \E x \in {a, b} : \A y \in {a, b} : x >= y
  <2>1. CASE a >= b
    BY <2>1
  <2>2. CASE b >= a
    BY <2>2
  <2> QED
    BY <2>1, <2>2
<1>2. Max({a, b}) \in {a, b} /\ \A y \in {a, b} : Max({a, b}) >= y
  BY <1>1 DEF Max
<1> QED
  BY <1>2

LEMMA ZeroFacts == Zero \in Counter /\ \A d \in Dirs : Zero[d] = 0
BY WidthAssumption DEF Zero, Counter

LEMMA NewFacts ==
    /\ NewStats \in [total: Counter, current: Counter, history: [Slots -> Counter], age: Ages]
    /\ NewConn \in [bytes: Counter, age: Ages]
    /\ NewStats.total = Zero /\ NewStats.current = Zero /\ NewConn.bytes = Zero
    /\ \A i \in Slots : NewStats.history[i] = Zero
<1>1. 0 \in Ages
  BY EvictAssumption DEF Ages
<1> QED
  BY <1>1, ZeroFacts DEF NewStats, NewConn

LEMMA ShiftFacts ==
    ASSUME NEW history \in [Slots -> Counter], NEW current \in Counter
    PROVE  /\ Shift(history, current) \in [Slots -> Counter]
           /\ Shift(history, current)[0] = current /\ 0 \in Slots
           /\ \A i \in Slots : i # 0 => i - 1 \in Slots /\ Shift(history, current)[i] = history[i - 1]
<1>1. 0 \in Slots /\ \A i \in Slots : i # 0 => i - 1 \in Slots
  BY SlotsAssumption DEF Slots
<1> QED
  BY <1>1 DEF Shift

Stats == [total: Counter, current: Counter, history: [Slots -> Counter], age: Ages]

LEMMA RotateFacts ==
    ASSUME NEW s \in Stats
    PROVE  /\ rotate_second(s) \in Stats
           /\ rotate_second(s).total = s.total
           /\ rotate_second(s).current = Zero
           /\ rotate_second(s).history = Shift(s.history, s.current)
<1>1. Shift(s.history, s.current) \in [Slots -> Counter]
  BY ShiftFacts DEF Stats
<1> QED
  BY <1>1, ZeroFacts DEF rotate_second, Stats

LEMMA RotateNew == rotate_second(NewStats) = NewStats
<1> DEFINE z == [i \in Slots |-> Zero]
<1>1. z \in [Slots -> Counter]
  BY ZeroFacts
<1>2. Shift(z, Zero) \in [Slots -> Counter]
  BY <1>1, ZeroFacts, ShiftFacts
<1>3. ASSUME NEW i \in Slots
      PROVE  Shift(z, Zero)[i] = Zero
  <2>1. Shift(z, Zero)[i] = IF i = 0 THEN Zero ELSE z[i - 1]
    BY DEF Shift
  <2>2. i # 0 => i - 1 \in Slots
    BY SlotsAssumption DEF Slots
  <2> QED
    BY <2>1, <2>2
<1>4. Shift(z, Zero) = z
  <2> HIDE DEF z
  <2>1. \A i \in Slots : z[i] = Zero
    BY DEF z
  <2> QED
    BY <1>1, <1>2, <1>3, <2>1
<1>5. rotate_second(NewStats) = [NewStats EXCEPT !.history = Shift(z, Zero), !.current = Zero]
  BY DEF rotate_second, NewStats
<1>6. NewStats = [total |-> Zero, current |-> Zero, history |-> z, age |-> 0]
  BY DEF NewStats
<1> HIDE DEF z
<1> QED
  BY <1>4, <1>5, <1>6

-----------------------------------------------------------------------------
(* A record.                                                               *)

\* What a record of thread k and flow f does to the counters.
LEMMA RecordFacts ==
    ASSUME TypeOK, NEW k \in Keys, NEW f \in Flows, Receive(k, f)
    PROVE  LET d == classify_direction(f)
               c == connection_key(k, f, d)
           IN  /\ d \in Dirs /\ c \in ConnKeys /\ c[1] = k
               /\ stats' \in [Keys -> Stats] /\ conn' \in [ConnKeys -> [bytes: Counter, age: Ages]]
               /\ \A j \in Keys \ {k} : stats'[j] = stats[j]
               /\ \A e \in ConnKeys \ {c} : conn'[e] = conn[e]
               /\ stats'[k].total = Add(stats[k].total, d)
               /\ stats'[k].current = Add(stats[k].current, d)
               /\ stats'[k].history = stats[k].history
               /\ conn'[c].bytes = Add(conn[c].bytes, d)
               /\ known' = known \cup {k} /\ tracked' = tracked \cup {c}
               /\ if_total' = Add(if_total, d) /\ if_total' \in Counter
               /\ if_current' = Add(if_current, d) /\ if_current' \in Counter
<1> DEFINE d == classify_direction(f)
           c == connection_key(k, f, d)
<1>1. d \in Dirs
  BY DEF classify_direction, Dirs
<1>2. c \in ConnKeys /\ c[1] = k
  BY DEF connection_key, ConnKeys, Flows
<1>3. /\ known' = known \cup {k} /\ tracked' = tracked \cup {c}
      /\ stats' = [stats EXCEPT ![k] = Count(@, d)]
      /\ conn' = [conn EXCEPT ![c] = [bytes |-> Add(@.bytes, d), age |-> 0]]
      /\ if_total' = Add(if_total, d) /\ if_current' = Add(if_current, d)
  BY DEF Receive, process_record, update_connection_stats
<1>4. stats \in [Keys -> Stats] /\ conn \in [ConnKeys -> [bytes: Counter, age: Ages]]
  BY DEF TypeOK, Stats
<1> HIDE DEF d, c
<1>5. Add(stats[k].total, d) \in Counter /\ Add(stats[k].current, d) \in Counter /\ 0 \in Ages
  BY <1>1, <1>4, AddFacts, EvictAssumption DEF Stats, Ages
<1>6. Add(conn[c].bytes, d) \in Counter
  BY <1>1, <1>2, <1>4, AddFacts
<1>7. /\ stats'[k] = [stats[k] EXCEPT !.total = Add(stats[k].total, d),
                                      !.current = Add(stats[k].current, d), !.age = 0]
      /\ \A j \in Keys \ {k} : stats'[j] = stats[j]
  <2>1. stats'[k] = Count(stats[k], d) /\ \A j \in Keys \ {k} : stats'[j] = stats[j]
    BY <1>3, <1>4
  <2> QED
    BY <2>1 DEF Count
<1>8. /\ stats'[k].total = Add(stats[k].total, d)
      /\ stats'[k].current = Add(stats[k].current, d)
      /\ stats'[k].history = stats[k].history
      /\ stats'[k] \in Stats
  BY <1>4, <1>5, <1>7 DEF Stats
<1>9. stats' \in [Keys -> Stats]
  BY <1>3, <1>4, <1>8
<1>10. /\ conn'[c].bytes = Add(conn[c].bytes, d)
       /\ \A e \in ConnKeys \ {c} : conn'[e] = conn[e]
       /\ conn' \in [ConnKeys -> [bytes: Counter, age: Ages]]
  BY <1>2, <1>3, <1>4, <1>5, <1>6
<1>11. if_total' \in Counter /\ if_current' \in Counter
  BY <1>1, <1>3, AddFacts DEF TypeOK
<1> QED
  BY <1>1, <1>2, <1>3, <1>7, <1>8, <1>9, <1>10, <1>11 DEF d, c

-----------------------------------------------------------------------------
(* Sums that stay within a counter.                                        *)

\* Entry x, new or not, and the whole both count a record, or neither does.
LEMMA CountWithin ==
    ASSUME NEW S, IsFiniteSet(S), NEW x, NEW f, NEW g, NEW w \in 0 .. U64Max, NEW m \in {0, 1},
           \A y \in S \cup {x} : f[y] \in 0 .. U64Max,
           \A y \in S \ {x} : g[y] = f[y],
           x \notin S => f[x] = 0,
           g[x] = saturating_add(f[x], m),
           Within(Total(f, S), w)
    PROVE  Within(Total(g, S \cup {x}), saturating_add(w, m))
<1>1. f[x] \in 0 .. U64Max
  OBVIOUS
<1>2. g[x] \in 0 .. U64Max /\ g[x] <= f[x] + m
  BY <1>1, SaturatingFacts
<1>3. \A y \in S \cup {x} : f[y] \in Nat /\ g[y] \in Nat
  BY <1>2, WidthAssumption
<1>4. m \in Nat /\ f[x] \in Nat /\ g[x] \in Nat
  BY <1>3
<1>5. Total(g, S \cup {x}) <= Total(f, S) + m
  BY <1>2, <1>3, <1>4, TotalCount
<1>6. IsFiniteSet(S \cup {x})
  BY FS_AddElement
<1>7. Total(f, S) \in Nat
  BY <1>3, TotalType
<1>8. Total(g, S \cup {x}) \in Nat
  BY <1>3, <1>6, TotalType
<1> QED
  BY <1>5, <1>7, <1>8, WithinGrows

\* Entries are dropped, and the others keep their value.
LEMMA PartWithin ==
    ASSUME NEW S, IsFiniteSet(S), NEW R \in SUBSET S, NEW f, NEW g, NEW w \in 0 .. U64Max,
           \A y \in S : f[y] \in 0 .. U64Max,
           \A y \in R : g[y] = f[y],
           Within(Total(f, S), w)
    PROVE  Within(Total(g, R), w)
<1>1. IsFiniteSet(R)
  BY FS_Subset
<1>2. \A y \in S : f[y] \in Nat
  BY WidthAssumption
<1>3. Total(g, R) = Total(f, R)
  BY <1>1, TotalAgrees
<1>4. Total(f, R) <= Total(f, S)
  BY <1>2, TotalPart
<1>5. Total(f, S) \in Nat
  BY <1>2, TotalType
<1>6. Total(f, R) \in Nat
  BY <1>1, <1>2, TotalType
<1> QED
  BY <1>3, <1>4, <1>5, <1>6, WidthAssumption DEF Within

\* No part counts anything.
LEMMA NoneWithin ==
    ASSUME NEW S, IsFiniteSet(S), NEW f, NEW w \in 0 .. U64Max, \A y \in S : f[y] = 0
    PROVE  Within(Total(f, S), w)
<1>1. Total(f, S) = 0
  BY TotalZero
<1> QED
  BY <1>1, WidthAssumption DEF Within

-----------------------------------------------------------------------------
(* Init and the steps that leave the counters alone.                       *)

LEMMA TypeInit == Init => TypeOK
<1> SUFFICES ASSUME Init PROVE TypeOK
  OBVIOUS
<1>1. stats \in [Keys -> [total: Counter, current: Counter, history: [Slots -> Counter], age: Ages]]
  BY NewFacts DEF Init
<1>2. conn \in [ConnKeys -> [bytes: Counter, age: Ages]]
  BY NewFacts DEF Init
<1>3. if_total \in Counter /\ if_current \in Counter /\ if_history \in [Slots -> Counter]
  BY ZeroFacts DEF Init
<1>4. due \in BOOLEAN
  BY Zenon DEF Init
<1>5. queued \in 0 .. Capacity /\ peak_bw \in 0 .. U64Max
  BY BoundsAssumption, WidthAssumption DEF Init
<1>6. wire \in [ConnKeys -> Nat] /\ local_ips \in AddressLists
  BY DEF Init
<1> QED
  BY <1>1, <1>2, <1>3, <1>4, <1>5, <1>6 DEF Init, TypeOK

LEMMA IInvInit == Init => IInv
<1> SUFFICES ASSUME Init PROVE IInv
  OBVIOUS
<1>1. TypeOK
  BY TypeInit
<1>2. known = {} /\ tracked = {} /\ IsFiniteSet({})
  BY FS_EmptySet DEF Init
<1>3. \A d \in Dirs : if_total[d] \in 0 .. U64Max /\ if_current[d] \in 0 .. U64Max
  BY <1>1 DEF TypeOK, Counter
<1>4. \A k \in Keys, d \in Dirs : stats[k].total[d] \in 0 .. U64Max
  BY <1>1 DEF TypeOK, Counter
<1>5. \A i \in Slots, d \in Dirs : if_history[i][d] \in 0 .. U64Max
  BY <1>1 DEF TypeOK, Counter
<1>6. ZeroInv
  BY <1>2 DEF Init, ZeroInv
<1>7. PublishInv
  BY DEF Init, PublishInv, FrameRowsNotOlder, Records, Zero, Dirs
<1>8. PeakCoversHistory
  <2>1. \A i \in Slots : Records(if_history[i]) = 0
    BY DEF Init, Records, Zero, Dirs
  <2> QED
    BY <2>1 DEF Init, PeakCoversHistory
<1>9. ThreadsWithinInterface
  BY <1>2, <1>3, NoneWithin DEF ThreadsWithinInterface
<1>10. HistoriesAligned
  BY <1>2, <1>5, NoneWithin DEF HistoriesAligned
<1>11. ConnectionsWithinThread
  <2>1. \A k \in Keys : {c \in tracked : c[1] = k} = {}
    BY <1>2
  <2> QED
    BY <1>2, <1>4, <2>1, NoneWithin DEF ConnectionsWithinThread
<1> QED
  BY <1>1, <1>6, <1>7, <1>8, <1>9, <1>10, <1>11 DEF IInv

\* The part of the invariant that is about the counters only.
LEMMA CountersKept ==
    ASSUME IInv, UNCHANGED counters
    PROVE  /\ ZeroInv' /\ PeakCoversHistory' /\ ThreadsWithinInterface'
           /\ HistoriesAligned' /\ ConnectionsWithinThread'
<1>1. /\ UNCHANGED <<known, stats, tracked, conn>>
      /\ UNCHANGED <<if_total, if_current, if_history, peak_bw>>
  BY DEF counters
<1>2. ZeroInv' /\ PeakCoversHistory'
  BY <1>1 DEF IInv, ZeroInv, PeakCoversHistory
<1>3. ThreadsWithinInterface' /\ HistoriesAligned'
  BY <1>1 DEF IInv, ThreadsWithinInterface, HistoriesAligned
<1>4. ConnectionsWithinThread'
  BY <1>1 DEF IInv, ConnectionsWithinThread
<1> QED
  BY <1>2, <1>3, <1>4

LEMMA RecordsFacts ==
    ASSUME NEW counter \in Counter
    PROVE  Records(counter) \in Nat
BY WidthAssumption DEF Records, Counter, Dirs

LEMMA QuietStep ==
    ASSUME IInv,
           \/ DrainDone \/ PublishRows \/ PublishInterface
           \/ render_top_panel \/ render_main_panel \/ Capture
    PROVE  IInv'
<1>1. UNCHANGED counters
  BY DEF DrainDone, PublishRows, PublishInterface, render_top_panel, render_main_panel, Capture
<1>2. Records(if_total) \in Nat
  BY RecordsFacts DEF IInv, TypeOK
<1>3. if_total' = if_total /\ wire' = wire /\ local_ips' = local_ips
  BY DEF counters, DrainDone, PublishRows, PublishInterface, render_top_panel, render_main_panel, Capture
<1>4. /\ pc' \in {"drain", "maintain", "rows", "iface"} /\ gui' \in {"top", "main"}
      /\ queued' \in 0 .. Capacity
      /\ rows' \in Nat /\ iface' \in Nat /\ frame' \in Nat
  BY <1>2, BoundsAssumption
  DEF IInv, TypeOK, snapshots, DrainDone, PublishRows, PublishInterface, render_top_panel,
      render_main_panel, Capture
<1>5. TypeOK'
  BY <1>1, <1>3, <1>4 DEF IInv, TypeOK, counters
<1>6. PublishInv'
  <2>1. TypeOK /\ PublishInv
    BY DEF IInv
  <2>2. CASE DrainDone \/ Capture
    BY <1>3, <2>1, <2>2 DEF DrainDone, Capture, snapshots, PublishInv, FrameRowsNotOlder
  <2>3. CASE PublishRows
    BY <1>2, <1>3, <2>1, <2>3 DEF PublishRows, TypeOK, PublishInv, FrameRowsNotOlder
  <2>4. CASE PublishInterface
    BY <1>2, <1>3, <2>1, <2>4 DEF PublishInterface, TypeOK, PublishInv, FrameRowsNotOlder
  <2>5. CASE render_top_panel \/ render_main_panel
    BY <1>3, <2>1, <2>5
    DEF render_top_panel, render_main_panel, snapshots, TypeOK, PublishInv, FrameRowsNotOlder
  <2> QED
    BY <2>2, <2>3, <2>4, <2>5
<1> QED
  BY <1>1, <1>5, <1>6, CountersKept DEF IInv

\* Time only ages the entries.
LEMMA TickStep ==
    ASSUME IInv, Tick
    PROVE  IInv'
<1>1. TypeOK /\ ZeroInv /\ PublishInv
  BY DEF IInv
<1>2. \A a \in Ages : Older(a) \in Ages
  BY EvictAssumption DEF Ages, Older
<1>3. stats \in [Keys -> Stats] /\ conn \in [ConnKeys -> [bytes: Counter, age: Ages]]
  BY <1>1 DEF TypeOK, Stats
<1>4. ASSUME NEW k \in Keys
      PROVE  /\ stats'[k] \in Stats /\ stats'[k].total = stats[k].total
             /\ stats'[k].current = stats[k].current /\ stats'[k].history = stats[k].history
             /\ k \notin known => stats'[k] = stats[k]
  <2>1. stats'[k] = IF k \in known THEN [stats[k] EXCEPT !.age = Older(stats[k].age)] ELSE stats[k]
    BY DEF Tick
  <2> QED
    BY <1>2, <1>3, <2>1 DEF Stats
<1>5. ASSUME NEW c \in ConnKeys
      PROVE  /\ conn'[c] \in [bytes: Counter, age: Ages] /\ conn'[c].bytes = conn[c].bytes
             /\ c \notin tracked => conn'[c] = conn[c]
  <2>1. conn'[c] = IF c \in tracked THEN [conn[c] EXCEPT !.age = Older(conn[c].age)] ELSE conn[c]
    BY DEF Tick
  <2> QED
    BY <1>2, <1>3, <2>1
<1>6. stats' \in [Keys -> Stats] /\ conn' \in [ConnKeys -> [bytes: Counter, age: Ages]]
  BY <1>4, <1>5 DEF Tick
<1>7. /\ UNCHANGED <<pc, queued, known, tracked, if_total, if_current, if_history, peak_bw>>
      /\ UNCHANGED <<rows, iface, gui, frame, local_ips, wire>>
  BY DEF Tick, snapshots
<1>8. due' \in BOOLEAN
  BY Zenon DEF Tick
<1>9. TypeOK'
  BY <1>1, <1>6, <1>7, <1>8 DEF TypeOK, Stats
<1>10. ZeroInv' /\ PublishInv' /\ PeakCoversHistory'
  <2>1. ZeroInv'
    BY <1>1, <1>4, <1>5, <1>7 DEF ZeroInv
  <2>2. PublishInv' /\ PeakCoversHistory'
    BY <1>1, <1>7 DEF IInv, PublishInv, FrameRowsNotOlder, PeakCoversHistory
  <2> QED
    BY <2>1, <2>2
<1>11. ThreadsWithinInterface'
  <2> SUFFICES ASSUME NEW d \in Dirs
               PROVE  /\ Within(Total([k \in Keys |-> stats'[k].total[d]], known'), if_total'[d])
                      /\ Within(Total([k \in Keys |-> stats'[k].current[d]], known'), if_current'[d])
    BY DEF ThreadsWithinInterface
  <2>1. /\ [k \in Keys |-> stats'[k].total[d]] = [k \in Keys |-> stats[k].total[d]]
        /\ [k \in Keys |-> stats'[k].current[d]] = [k \in Keys |-> stats[k].current[d]]
    BY <1>4
  <2> QED
    BY <1>7, <2>1 DEF IInv, ThreadsWithinInterface
<1>12. HistoriesAligned'
  <2> SUFFICES ASSUME NEW d \in Dirs, NEW i \in Slots
               PROVE  Within(Total([k \in Keys |-> stats'[k].history[i][d]], known'), if_history'[i][d])
    BY DEF HistoriesAligned
  <2>1. [k \in Keys |-> stats'[k].history[i][d]] = [k \in Keys |-> stats[k].history[i][d]]
    BY <1>4
  <2> QED
    BY <1>7, <2>1 DEF IInv, HistoriesAligned
<1>13. ConnectionsWithinThread'
  <2> SUFFICES ASSUME NEW k \in Keys, NEW d \in Dirs
               PROVE  Within(Total([c \in ConnKeys |-> conn'[c].bytes[d]], {c \in tracked' : c[1] = k}),
                             stats'[k].total[d])
    BY DEF ConnectionsWithinThread
  <2>1. [c \in ConnKeys |-> conn'[c].bytes[d]] = [c \in ConnKeys |-> conn[c].bytes[d]]
    BY <1>5
  <2>2. stats'[k].total[d] = stats[k].total[d]
    BY <1>4
  <2> QED
    BY <1>7, <2>1, <2>2 DEF IInv, ConnectionsWithinThread
<1> QED
  BY <1>9, <1>10, <1>11, <1>12, <1>13 DEF IInv

-----------------------------------------------------------------------------
(* A record is counted for its thread, its connection and the interface.   *)

LEMMA ReceiveStep ==
    ASSUME IInv, NEW k \in Keys, NEW f \in Flows, Receive(k, f)
    PROVE  IInv'
<1> DEFINE d == classify_direction(f)
           c == connection_key(k, f, d)
<1>1. TypeOK /\ ZeroInv /\ PublishInv /\ IsFiniteSet(known) /\ IsFiniteSet(tracked)
  BY DEF IInv, ZeroInv
<1>2. /\ d \in Dirs /\ c \in ConnKeys /\ c[1] = k
      /\ stats' \in [Keys -> Stats] /\ conn' \in [ConnKeys -> [bytes: Counter, age: Ages]]
      /\ \A j \in Keys \ {k} : stats'[j] = stats[j]
      /\ \A e \in ConnKeys \ {c} : conn'[e] = conn[e]
      /\ stats'[k].total = Add(stats[k].total, d)
      /\ stats'[k].current = Add(stats[k].current, d)
      /\ stats'[k].history = stats[k].history
      /\ conn'[c].bytes = Add(conn[c].bytes, d)
      /\ known' = known \cup {k} /\ tracked' = tracked \cup {c}
      /\ if_total' = Add(if_total, d) /\ if_total' \in Counter
      /\ if_current' = Add(if_current, d) /\ if_current' \in Counter
  BY <1>1, RecordFacts
<1>3. /\ UNCHANGED <<pc, if_history, peak_bw, due, rows, iface, gui, frame, local_ips>>
      /\ pc = "drain" /\ queued > 0 /\ queued' = queued - 1
      /\ wire' = [wire EXCEPT ![<<k, f>>] = @ + 1]
  BY DEF Receive, process_record, snapshots
<1> HIDE DEF d, c
<1>4. /\ stats \in [Keys -> Stats] /\ conn \in [ConnKeys -> [bytes: Counter, age: Ages]]
      /\ if_total \in Counter /\ if_current \in Counter /\ if_history \in [Slots -> Counter]
      /\ known \subseteq Keys /\ tracked \subseteq ConnKeys
  BY <1>1 DEF TypeOK, Stats
<1>5. ASSUME NEW e \in Dirs
      PROVE  /\ Inc(d, e) \in {0, 1}
             /\ if_total[e] \in 0 .. U64Max /\ if_total'[e] = saturating_add(if_total[e], Inc(d, e))
             /\ if_current[e] \in 0 .. U64Max /\ if_current'[e] = saturating_add(if_current[e], Inc(d, e))
             /\ stats'[k].total[e] = saturating_add(stats[k].total[e], Inc(d, e))
             /\ stats'[k].current[e] = saturating_add(stats[k].current[e], Inc(d, e))
             /\ conn'[c].bytes[e] = saturating_add(conn[c].bytes[e], Inc(d, e))
  <2>1. if_total[e] \in 0 .. U64Max /\ if_current[e] \in 0 .. U64Max
    BY <1>4 DEF Counter
  <2>2. /\ stats[k].total \in Counter /\ stats[k].current \in Counter /\ conn[c].bytes \in Counter
    BY <1>2, <1>4 DEF Stats
  <2>3. Inc(d, e) \in {0, 1}
    BY DEF Inc
  <2>4. \A n \in {if_total, if_current, stats[k].total, stats[k].current, conn[c].bytes} :
           Add(n, d)[e] = saturating_add(n[e], Inc(d, e))
    BY <1>2, <1>4, <2>2, AddFacts
  <2> QED
    BY <1>2, <2>1, <2>3, <2>4
<1>6. TypeOK'
  <2>1. queued' \in 0 .. Capacity
    BY <1>1, <1>3, BoundsAssumption DEF TypeOK
  <2>2. wire' \in [ConnKeys -> Nat]
    BY <1>1, <1>3 DEF TypeOK, ConnKeys
  <2>3. known' \subseteq Keys /\ tracked' \subseteq ConnKeys
    BY <1>2, <1>4
  <2> QED
    BY <1>1, <1>2, <1>3, <2>1, <2>2, <2>3 DEF TypeOK, Stats
<1>7. ZeroInv'
  <2>1. IsFiniteSet(known') /\ IsFiniteSet(tracked')
    BY <1>1, <1>2, FS_AddElement
  <2> QED
    BY <1>1, <1>2, <2>1 DEF ZeroInv
<1>8. PublishInv'
  <2>1. \A e \in Dirs : if_total'[e] \in Nat /\ if_total[e] \in Nat /\ if_total'[e] >= if_total[e]
    BY <1>5, SaturatingFacts, WidthAssumption
  <2>2. Records(if_total') >= Records(if_total) /\ Records(if_total) \in Nat /\ Records(if_total') \in Nat
    BY <2>1 DEF Records, Dirs
  <2>3. iface \in Nat /\ rows \in Nat /\ frame \in Nat
    BY <1>1 DEF TypeOK
  <2> QED
    BY <1>1, <1>3, <2>2, <2>3 DEF PublishInv, FrameRowsNotOlder
<1>9. PeakCoversHistory'
  BY <1>3 DEF IInv, PeakCoversHistory
<1>10. ThreadsWithinInterface'
  <2> SUFFICES ASSUME NEW e \in Dirs
               PROVE  /\ Within(Total([j \in Keys |-> stats'[j].total[e]], known'), if_total'[e])
                      /\ Within(Total([j \in Keys |-> stats'[j].current[e]], known'), if_current'[e])
    BY DEF ThreadsWithinInterface
  <2> DEFINE p == [j \in Keys |-> stats[j].total[e]]
             q == [j \in Keys |-> stats'[j].total[e]]
             r == [j \in Keys |-> stats[j].current[e]]
             s == [j \in Keys |-> stats'[j].current[e]]
  <2>1. \A y \in known \cup {k} : p[y] \in 0 .. U64Max /\ r[y] \in 0 .. U64Max
    BY <1>4 DEF Stats, Counter
  <2>2. \A y \in known \ {k} : q[y] = p[y] /\ s[y] = r[y]
    BY <1>2, <1>4
  <2>3. k \notin known => p[k] = 0 /\ r[k] = 0
    BY <1>1, NewFacts, ZeroFacts DEF ZeroInv
  <2>4. q[k] = saturating_add(p[k], Inc(d, e)) /\ s[k] = saturating_add(r[k], Inc(d, e))
    BY <1>5
  <2>5. Within(Total(p, known), if_total[e]) /\ Within(Total(r, known), if_current[e])
    BY DEF IInv, ThreadsWithinInterface
  <2> DEFINE m == Inc(d, e)
  <2> HIDE DEF p, q, r, s
  <2>6. /\ m \in {0, 1} /\ if_total[e] \in 0 .. U64Max /\ if_current[e] \in 0 .. U64Max
        /\ q[k] = saturating_add(p[k], m) /\ s[k] = saturating_add(r[k], m)
        /\ if_total'[e] = saturating_add(if_total[e], m) /\ if_current'[e] = saturating_add(if_current[e], m)
    BY <1>5, <2>4
  <2> HIDE DEF m
  <2>7. Within(Total(q, known \cup {k}), saturating_add(if_total[e], m))
    BY <1>1, <2>1, <2>2, <2>3, <2>5, <2>6, CountWithin
  <2>8. Within(Total(s, known \cup {k}), saturating_add(if_current[e], m))
    BY <1>1, <2>1, <2>2, <2>3, <2>5, <2>6, CountWithin
  <2> QED
    BY <1>2, <2>6, <2>7, <2>8 DEF q, s
<1>11. HistoriesAligned'
  <2> SUFFICES ASSUME NEW e \in Dirs, NEW i \in Slots
               PROVE  Within(Total([j \in Keys |-> stats'[j].history[i][e]], known'), if_history'[i][e])
    BY DEF HistoriesAligned
  <2> DEFINE p == [j \in Keys |-> stats[j].history[i][e]]
             q == [j \in Keys |-> stats'[j].history[i][e]]
  <2>1. p = q
    BY <1>2
  <2>2. \A y \in known \cup {k} : p[y] \in 0 .. U64Max
    BY <1>4 DEF Stats, Counter
  <2>3. k \notin known => p[k] = 0
    BY <1>1, NewFacts, ZeroFacts DEF ZeroInv
  <2>4. if_history[i][e] \in 0 .. U64Max
    BY <1>4 DEF Counter
  <2>5. Within(Total(p, known), if_history[i][e])
    BY DEF IInv, HistoriesAligned
  <2> HIDE DEF p, q
  <2>6. p[k] = saturating_add(p[k], 0) /\ if_history[i][e] = saturating_add(if_history[i][e], 0)
    BY <2>2, <2>4, SaturatingFacts
  <2>7. Within(Total(p, known \cup {k}), saturating_add(if_history[i][e], 0))
    BY <1>1, <2>2, <2>3, <2>4, <2>5, <2>6, CountWithin
  <2> QED
    BY <1>2, <1>3, <2>1, <2>6, <2>7 DEF q
<1>12. ConnectionsWithinThread'
  <2> SUFFICES ASSUME NEW j \in Keys, NEW e \in Dirs
               PROVE  Within(Total([x \in ConnKeys |-> conn'[x].bytes[e]], {x \in tracked' : x[1] = j}),
                             stats'[j].total[e])
    BY DEF ConnectionsWithinThread
  <2> DEFINE p == [x \in ConnKeys |-> conn[x].bytes[e]]
             q == [x \in ConnKeys |-> conn'[x].bytes[e]]
             S == {x \in tracked : x[1] = j}
             R == {x \in tracked' : x[1] = j}
  <2>1. \A y \in S \cup {c} : p[y] \in 0 .. U64Max
    BY <1>2, <1>4 DEF Counter
  <2>2. \A y \in S \ {c} : q[y] = p[y]
    BY <1>2, <1>4
  <2>3. c \notin tracked => p[c] = 0
    BY <1>1, <1>2, NewFacts, ZeroFacts DEF ZeroInv
  <2>4. q[c] = saturating_add(p[c], Inc(d, e))
    BY <1>2, <1>5
  <2>5. Within(Total(p, S), stats[j].total[e])
    BY DEF IInv, ConnectionsWithinThread
  <2>6. stats[j].total[e] \in 0 .. U64Max
    BY <1>4 DEF Stats, Counter
  <2>7. IsFiniteSet(S)
    BY <1>1, FS_Subset
  <2>8. j = k => R = S \cup {c} /\ (c \notin S => c \notin tracked)
    BY <1>2
  <2>9. j # k => R = S /\ c \notin S
    BY <1>2
  <2> HIDE DEF p, q, S, R
  <2>10. CASE j = k
    <3> DEFINE m == Inc(d, e)
    <3>1. m \in {0, 1} /\ q[c] = saturating_add(p[c], m) /\ (c \notin S => p[c] = 0)
      BY <1>5, <2>3, <2>4, <2>8, <2>10
    <3> HIDE DEF m
    <3>2. Within(Total(q, S \cup {c}), saturating_add(stats[j].total[e], m))
      BY <2>1, <2>2, <2>5, <2>6, <2>7, <3>1, CountWithin
    <3>3. Within(Total(q, R), stats'[j].total[e])
      BY <1>5, <2>8, <2>10, <3>2 DEF m
    <3> QED
      BY <3>3 DEF q, R
  <2>11. CASE j # k
    <3>1. \A y \in S : p[y] \in 0 .. U64Max /\ q[y] = p[y]
      BY <2>1, <2>2, <2>9, <2>11
    <3>2. Within(Total(q, S), stats[j].total[e])
      BY <2>5, <2>6, <2>7, <3>1, PartWithin
    <3>3. Within(Total(q, R), stats'[j].total[e])
      BY <1>2, <2>9, <2>11, <3>2
    <3> QED
      BY <3>3 DEF q, R
  <2> QED
    BY <2>10, <2>11
<1> QED
  BY <1>6, <1>7, <1>8, <1>9, <1>10, <1>11, <1>12 DEF IInv

-----------------------------------------------------------------------------
(* Maintenance.                                                            *)

LEMMA BandwidthFacts ==
    ASSUME NEW second \in Counter
    PROVE  /\ Bandwidth(second) \in 0 .. U64Max
           /\ Records(second) <= U64Max => Bandwidth(second) = Records(second)
<1>1. Records(second) \in Nat /\ U64Max + 1 \in Nat \ {0}
  BY RecordsFacts, WidthAssumption
<1>2. Bandwidth(second) = Records(second) % (U64Max + 1)
  BY DEF Bandwidth, Records
<1>3. \A n \in Nat, m \in Nat \ {0} : n % m \in 0 .. m - 1 /\ (n < m => n % m = n)
  OBVIOUS
<1> QED
  BY <1>1, <1>2, <1>3, WidthAssumption

\* What a maintenance keeps of the threads and the connections.
LEMMA KeepFacts ==
    ASSUME TypeOK, Maintain
    PROVE  /\ known' \subseteq known /\ tracked' \subseteq tracked
           /\ \A c \in tracked' : c[1] \in known'
           /\ conn' \in [ConnKeys -> [bytes: Counter, age: Ages]]
           /\ \A c \in tracked' : conn'[c] = conn[c]
           /\ \A c \in ConnKeys \ tracked' : conn'[c] = NewConn
           /\ stats' \in [Keys -> Stats]
           /\ \A k \in Keys \ known' : stats'[k] = NewStats
           /\ \A k \in known' : stats'[k].total = stats[k].total
           /\ \A k \in known' :
                 IF due THEN /\ stats'[k].current = Zero
                             /\ stats'[k].history = Shift(stats[k].history, stats[k].current)
                        ELSE stats'[k] = stats[k]
<1> DEFINE kept == [k \in Keys |-> IF k \in known' THEN stats[k] ELSE NewStats]
<1>1. stats \in [Keys -> Stats] /\ conn \in [ConnKeys -> [bytes: Counter, age: Ages]]
  BY DEF TypeOK, Stats
<1>2. known \subseteq Keys /\ tracked \subseteq ConnKeys
  BY DEF TypeOK
<1>3. known' \subseteq known
  BY DEF Maintain, evict_stale_threads, Retained
<1>4. tracked' \subseteq tracked /\ \A c \in tracked' : c[1] \in known'
  <2>1. PICK R \in Retained(tracked, conn) : tracked' = {c \in R : c[1] \in known'}
    BY DEF Maintain, prune_connection_stats
  <2>2. R \subseteq tracked
    BY DEF Retained
  <2> QED
    BY <2>1, <2>2
<1>5. conn' = [c \in ConnKeys |-> IF c \in tracked' THEN conn[c] ELSE NewConn]
  BY DEF Maintain
<1>6. /\ conn' \in [ConnKeys -> [bytes: Counter, age: Ages]]
      /\ \A c \in tracked' : conn'[c] = conn[c]
      /\ \A c \in ConnKeys \ tracked' : conn'[c] = NewConn
  BY <1>1, <1>2, <1>4, <1>5, NewFacts
<1>7. stats' = IF due THEN [k \in Keys |-> rotate_second(kept[k])] ELSE kept
  BY DEF Maintain, rotate_histories_if_due
<1>8. kept \in [Keys -> Stats]
  BY <1>1, NewFacts DEF Stats
<1>9. /\ \A k \in known' : kept[k] = stats[k]
      /\ \A k \in Keys \ known' : kept[k] = NewStats
  BY <1>2, <1>3
<1> HIDE DEF kept
<1>10. CASE due
  <2>1. stats' = [k \in Keys |-> rotate_second(kept[k])]
    BY <1>7, <1>10
  <2>2. \A k \in Keys : kept[k] \in Stats
    BY <1>8
  <2>3. ASSUME NEW k \in Keys
        PROVE  /\ stats'[k] = rotate_second(kept[k]) /\ stats'[k] \in Stats
               /\ stats'[k].total = kept[k].total /\ stats'[k].current = Zero
               /\ stats'[k].history = Shift(kept[k].history, kept[k].current)
    BY <2>1, <2>2, RotateFacts
  <2>4. stats' \in [Keys -> Stats]
    BY <2>1, <2>3
  <2>5. \A k \in Keys \ known' : stats'[k] = NewStats
    BY <1>9, <2>3, RotateNew
  <2>6. \A k \in known' : /\ stats'[k].total = stats[k].total /\ stats'[k].current = Zero
                          /\ stats'[k].history = Shift(stats[k].history, stats[k].current)
    BY <1>2, <1>3, <1>9, <2>3
  <2> QED
    BY <1>3, <1>4, <1>6, <1>10, <2>4, <2>5, <2>6
<1>11. CASE ~due
  BY <1>3, <1>4, <1>6, <1>7, <1>8, <1>9, <1>11
<1> QED
  BY <1>10, <1>11

\* The interface and the threads that are kept rotate together, or not at all.
LEMMA RotationStep ==
    ASSUME IInv, Maintain
    PROVE  /\ if_history' \in [Slots -> Counter] /\ if_current' \in Counter
           /\ peak_bw' \in 0 .. U64Max /\ due' \in BOOLEAN
           /\ PeakCoversHistory' /\ HistoriesAligned'
           /\ \A d \in Dirs :
                 Within(Total([k \in Keys |-> stats'[k].current[d]], known'), if_current'[d])
<1>1. TypeOK /\ ZeroInv /\ PublishInv /\ IsFiniteSet(known) /\ IsFiniteSet(tracked)
  BY DEF IInv, ZeroInv
<1>2. /\ known' \subseteq known /\ tracked' \subseteq tracked
      /\ \A c \in tracked' : c[1] \in known'
      /\ conn' \in [ConnKeys -> [bytes: Counter, age: Ages]]
      /\ \A c \in tracked' : conn'[c] = conn[c]
      /\ \A c \in ConnKeys \ tracked' : conn'[c] = NewConn
      /\ stats' \in [Keys -> Stats]
      /\ \A k \in Keys \ known' : stats'[k] = NewStats
      /\ \A k \in known' : stats'[k].total = stats[k].total
  BY <1>1, KeepFacts
<1>3. CASE due
  <2>1. /\ if_history' = Shift(if_history, if_current) /\ if_current' = Zero
        /\ peak_bw' = Max({peak_bw, Bandwidth(if_history'[0])})
    BY <1>3 DEF Maintain, rotate_histories_if_due
  <2>2. if_history \in [Slots -> Counter] /\ if_current \in Counter
    BY <1>1 DEF TypeOK
  <2>3. /\ if_history' \in [Slots -> Counter]
        /\ if_history'[0] = if_current /\ 0 \in Slots
        /\ \A i \in Slots : i # 0 => i - 1 \in Slots /\ if_history'[i] = if_history[i - 1]
    BY <2>1, <2>2, ShiftFacts
  <2>4. due' \in BOOLEAN
    BY <1>3, Zenon DEF Maintain, rotate_histories_if_due
  <2>5. peak_bw' \in {peak_bw, Bandwidth(if_current)} /\ peak_bw' >= peak_bw
        /\ peak_bw' >= Bandwidth(if_current) /\ peak_bw' \in 0 .. U64Max
    <3>1. Bandwidth(if_current) \in 0 .. U64Max /\ peak_bw \in 0 .. U64Max
      BY <1>1, <2>2, BandwidthFacts DEF TypeOK
    <3>2. peak_bw' = Max({peak_bw, Bandwidth(if_current)})
      BY <2>1, <2>3
    <3> QED
      BY <3>1, <3>2, MaxFacts, WidthAssumption
  <2>6. PeakCoversHistory'
    <3> SUFFICES ASSUME NEW i \in Slots, Records(if_history'[i]) <= U64Max
                 PROVE  peak_bw' >= Records(if_history'[i])
      BY DEF PeakCoversHistory
    <3>1. CASE i = 0
      BY <2>2, <2>3, <2>5, <3>1, BandwidthFacts
    <3>2. CASE i # 0
      <4>1. i - 1 \in Slots /\ if_history'[i] = if_history[i - 1]
        BY <2>3, <3>2
      <4>2. peak_bw >= Records(if_history[i - 1])
        BY <4>1 DEF IInv, PeakCoversHistory
      <4>3. Records(if_history[i - 1]) \in Nat /\ peak_bw \in Nat /\ peak_bw' \in Nat
        BY <1>1, <2>2, <2>5, <4>1, RecordsFacts, WidthAssumption DEF TypeOK
      <4> QED
        BY <2>5, <4>1, <4>2, <4>3
    <3> QED
      BY <3>1, <3>2
  <2>7. \A k \in known' : /\ stats'[k].current = Zero
                          /\ stats'[k].history = Shift(stats[k].history, stats[k].current)
    BY <1>1, <1>3, KeepFacts
  <2>8. ASSUME NEW d \in Dirs
        PROVE  Within(Total([k \in Keys |-> stats'[k].current[d]], known'), if_current'[d])
    <3>1. \A k \in known' : [j \in Keys |-> stats'[j].current[d]][k] = 0
      BY <1>1, <1>2, <2>7, ZeroFacts DEF TypeOK
    <3>2. if_current'[d] \in 0 .. U64Max /\ IsFiniteSet(known')
      BY <1>1, <1>2, <2>1, ZeroFacts, FS_Subset DEF Counter
    <3> QED
      BY <3>1, <3>2, NoneWithin
  <2>9. HistoriesAligned'
    <3> SUFFICES ASSUME NEW d \in Dirs, NEW i \in Slots
                 PROVE  Within(Total([k \in Keys |-> stats'[k].history[i][d]], known'), if_history'[i][d])
      BY DEF HistoriesAligned
    <3> DEFINE q == [k \in Keys |-> stats'[k].history[i][d]]
    <3>1. \A k \in known' : k \in Keys /\ stats[k].history \in [Slots -> Counter] /\ stats[k].current \in Counter
      BY <1>1, <1>2 DEF TypeOK
    <3>2. CASE i = 0
      <4> DEFINE p == [k \in Keys |-> stats[k].current[d]]
      <4>1. \A k \in known' : q[k] = p[k]
        BY <2>7, <3>1, <3>2, ShiftFacts
      <4>2. \A k \in known : p[k] \in 0 .. U64Max
        BY <1>1 DEF TypeOK, Counter
      <4>3. Within(Total(p, known), if_current[d]) /\ if_current[d] \in 0 .. U64Max
        BY <2>2 DEF IInv, ThreadsWithinInterface, Counter
      <4> HIDE DEF p, q
      <4>4. Within(Total(q, known'), if_current[d])
        BY <1>1, <1>2, <4>1, <4>2, <4>3, PartWithin
      <4> QED
        BY <2>3, <3>2, <4>4 DEF q
    <3>3. CASE i # 0
      <4> DEFINE p == [k \in Keys |-> stats[k].history[i - 1][d]]
      <4>1. i - 1 \in Slots /\ if_history'[i] = if_history[i - 1]
        BY <2>3, <3>3
      <4>2. \A k \in known' : q[k] = p[k]
        <5>1. \A k \in known' : stats'[k].history[i] = stats[k].history[i - 1]
          BY <2>7, <3>1, <3>3, ShiftFacts
        <5> QED
          BY <3>1, <5>1
      <4>3. \A k \in known : p[k] \in 0 .. U64Max
        BY <1>1, <4>1 DEF TypeOK, Counter
      <4>4. Within(Total(p, known), if_history[i - 1][d]) /\ if_history[i - 1][d] \in 0 .. U64Max
        BY <2>2, <4>1 DEF IInv, HistoriesAligned, Counter
      <4> HIDE DEF p, q
      <4>5. Within(Total(q, known'), if_history[i - 1][d])
        BY <1>1, <1>2, <4>2, <4>3, <4>4, PartWithin
      <4> QED
        BY <4>1, <4>5 DEF q
    <3> QED
      BY <3>2, <3>3
  <2>10. if_current' \in Counter
    BY <2>1, ZeroFacts
  <2> QED
    BY <2>3, <2>4, <2>5, <2>6, <2>8, <2>9, <2>10
<1>4. CASE ~due
  <2>1. UNCHANGED <<if_history, if_current, peak_bw, due>>
    BY <1>4 DEF Maintain, rotate_histories_if_due
  <2>2. \A k \in known' : stats'[k] = stats[k]
    BY <1>1, <1>4, KeepFacts
  <2>3. if_history \in [Slots -> Counter] /\ if_current \in Counter /\ stats \in [Keys -> Stats]
    BY <1>1 DEF TypeOK, Stats
  <2>4. /\ if_history' \in [Slots -> Counter] /\ if_current' \in Counter
        /\ peak_bw' \in 0 .. U64Max /\ due' \in BOOLEAN
    BY <1>1, <2>1 DEF TypeOK
  <2>5. PeakCoversHistory'
    BY <2>1 DEF IInv, PeakCoversHistory
  <2>6. HistoriesAligned'
    <3> SUFFICES ASSUME NEW d \in Dirs, NEW i \in Slots
                 PROVE  Within(Total([k \in Keys |-> stats'[k].history[i][d]], known'), if_history'[i][d])
      BY DEF HistoriesAligned
    <3> DEFINE p == [k \in Keys |-> stats[k].history[i][d]]
               q == [k \in Keys |-> stats'[k].history[i][d]]
    <3>1. \A k \in known' : q[k] = p[k]
      BY <1>1, <1>2, <2>2 DEF TypeOK
    <3>2. \A k \in known : p[k] \in 0 .. U64Max
      BY <1>1 DEF TypeOK, Counter
    <3>3. Within(Total(p, known), if_history[i][d]) /\ if_history[i][d] \in 0 .. U64Max
      BY <2>3 DEF IInv, HistoriesAligned, Counter
    <3> HIDE DEF p, q
    <3>4. Within(Total(q, known'), if_history[i][d])
      BY <1>1, <1>2, <3>1, <3>2, <3>3, PartWithin
    <3> QED
      BY <2>1, <3>4 DEF q
  <2>7. ASSUME NEW d \in Dirs
        PROVE  Within(Total([k \in Keys |-> stats'[k].current[d]], known'), if_current'[d])
    <3> DEFINE p == [k \in Keys |-> stats[k].current[d]]
               q == [k \in Keys |-> stats'[k].current[d]]
    <3>1. \A k \in known' : q[k] = p[k]
      BY <1>1, <1>2, <2>2 DEF TypeOK
    <3>2. \A k \in known : p[k] \in 0 .. U64Max
      BY <1>1 DEF TypeOK, Counter
    <3>3. Within(Total(p, known), if_current[d]) /\ if_current[d] \in 0 .. U64Max
      BY <2>3 DEF IInv, ThreadsWithinInterface, Counter
    <3> HIDE DEF p, q
    <3>4. Within(Total(q, known'), if_current[d])
      BY <1>1, <1>2, <3>1, <3>2, <3>3, PartWithin
    <3> QED
      BY <2>1, <3>4 DEF q
  <2> QED
    BY <2>4, <2>5, <2>6, <2>7
<1> QED
  BY <1>3, <1>4

LEMMA MaintainStep ==
    ASSUME IInv, Maintain
    PROVE  IInv'
<1>1. TypeOK /\ ZeroInv /\ PublishInv /\ IsFiniteSet(known) /\ IsFiniteSet(tracked)
  BY DEF IInv, ZeroInv
<1>2. /\ known' \subseteq known /\ tracked' \subseteq tracked
      /\ \A c \in tracked' : c[1] \in known'
      /\ conn' \in [ConnKeys -> [bytes: Counter, age: Ages]]
      /\ \A c \in tracked' : conn'[c] = conn[c]
      /\ \A c \in ConnKeys \ tracked' : conn'[c] = NewConn
      /\ stats' \in [Keys -> Stats]
      /\ \A k \in Keys \ known' : stats'[k] = NewStats
      /\ \A k \in known' : stats'[k].total = stats[k].total
  BY <1>1, KeepFacts
<1>3. /\ pc = "maintain" /\ pc' = "rows"
      /\ UNCHANGED <<queued, if_total, rows, iface, gui, frame, local_ips, wire>>
  BY DEF Maintain, snapshots
<1>4. /\ if_history' \in [Slots -> Counter] /\ if_current' \in Counter
      /\ peak_bw' \in 0 .. U64Max /\ due' \in BOOLEAN
      /\ PeakCoversHistory' /\ HistoriesAligned'
      /\ \A d \in Dirs :
            Within(Total([k \in Keys |-> stats'[k].current[d]], known'), if_current'[d])
  BY RotationStep
<1>5. IsFiniteSet(known') /\ IsFiniteSet(tracked')
  BY <1>1, <1>2, FS_Subset
<1>6. TypeOK'
  BY <1>1, <1>2, <1>3, <1>4 DEF TypeOK, Stats
<1>7. ZeroInv'
  BY <1>2, <1>5 DEF ZeroInv
<1>8. PublishInv'
  BY <1>1, <1>3 DEF PublishInv, FrameRowsNotOlder
<1>9. ThreadsWithinInterface'
  <2>1. ASSUME NEW d \in Dirs
        PROVE  Within(Total([k \in Keys |-> stats'[k].total[d]], known'), if_total'[d])
    <3> DEFINE p == [k \in Keys |-> stats[k].total[d]]
               q == [k \in Keys |-> stats'[k].total[d]]
    <3>1. \A k \in known' : q[k] = p[k]
      BY <1>1, <1>2 DEF TypeOK
    <3>2. \A k \in known : p[k] \in 0 .. U64Max
      BY <1>1 DEF TypeOK, Counter
    <3>3. Within(Total(p, known), if_total[d]) /\ if_total[d] \in 0 .. U64Max
      BY <1>1 DEF IInv, ThreadsWithinInterface, TypeOK, Counter
    <3> HIDE DEF p, q
    <3>4. Within(Total(q, known'), if_total[d])
      BY <1>1, <1>2, <3>1, <3>2, <3>3, PartWithin
    <3> QED
      BY <1>3, <3>4 DEF q
  <2> QED
    BY <1>4, <2>1 DEF ThreadsWithinInterface
<1>10. ConnectionsWithinThread'
  <2> SUFFICES ASSUME NEW k \in Keys, NEW d \in Dirs
               PROVE  Within(Total([c \in ConnKeys |-> conn'[c].bytes[d]], {c \in tracked' : c[1] = k}),
                             stats'[k].total[d])
    BY DEF ConnectionsWithinThread
  <2> DEFINE p == [c \in ConnKeys |-> conn[c].bytes[d]]
             q == [c \in ConnKeys |-> conn'[c].bytes[d]]
             S == {c \in tracked : c[1] = k}
             R == {c \in tracked' : c[1] = k}
  <2>1. R \in SUBSET S /\ IsFiniteSet(S) /\ IsFiniteSet(R)
    BY <1>1, <1>2, <1>5, FS_Subset
  <2>2. \A c \in R : q[c] = p[c]
    BY <1>1, <1>2 DEF TypeOK
  <2>3. \A c \in S : p[c] \in 0 .. U64Max
    BY <1>1 DEF TypeOK, Counter
  <2>4. Within(Total(p, S), stats[k].total[d])
    BY DEF IInv, ConnectionsWithinThread
  <2>5. stats[k].total[d] \in 0 .. U64Max /\ stats'[k].total[d] \in 0 .. U64Max
    BY <1>1, <1>2 DEF TypeOK, Stats, Counter
  <2>6. k \notin known' => R = {}
    BY <1>2
  <2> HIDE DEF p, q, S, R
  <2>7. CASE k \in known'
    <3>1. Within(Total(q, R), stats[k].total[d])
      BY <2>1, <2>2, <2>3, <2>4, <2>5, PartWithin
    <3> QED
      BY <1>2, <2>7, <3>1 DEF q, R
  <2>8. CASE k \notin known'
    <3>1. Within(Total(q, R), stats'[k].total[d])
      BY <2>1, <2>5, <2>6, <2>8, NoneWithin
    <3> QED
      BY <3>1 DEF q, R
  <2> QED
    BY <2>7, <2>8
<1> QED
  BY <1>4, <1>6, <1>7, <1>8, <1>9, <1>10 DEF IInv

-----------------------------------------------------------------------------
(* The theorems.                                                           *)

LEMMA IInvStep == IInv /\ [Next]_vars => IInv'
<1> SUFFICES ASSUME IInv, [Next]_vars PROVE IInv'
  OBVIOUS
<1>1. CASE UNCHANGED vars
  <2>1. /\ UNCHANGED <<pc, queued, rows, iface, gui, frame, local_ips, wire>> /\ UNCHANGED counters
    BY <1>1 DEF vars, snapshots
  <2>2. UNCHANGED <<known, stats, tracked, conn, if_total, if_current, if_history, peak_bw, due>>
    BY <2>1 DEF counters
  <2>3. TypeOK' /\ PublishInv'
    BY <2>1, <2>2 DEF IInv, TypeOK, PublishInv, FrameRowsNotOlder
  <2> QED
    BY <2>1, <2>3, CountersKept DEF IInv
<1>2. ASSUME NEW k \in Keys, NEW f \in Flows, Receive(k, f) PROVE IInv'
  BY <1>2, ReceiveStep
<1>3. CASE Maintain
  BY <1>3, MaintainStep
<1>4. CASE \/ DrainDone \/ PublishRows \/ PublishInterface
           \/ render_top_panel \/ render_main_panel \/ Capture
  BY <1>4, QuietStep
<1>5. CASE Tick
  BY <1>5, TickStep
<1> QED
  BY <1>1, <1>2, <1>3, <1>4, <1>5, Zenon DEF Next

\* Every reachable state of the aggregator and the GUI satisfies the inductive
\* invariant.
THEOREM Invariant == Spec => []IInv
BY IInvInit, IInvStep, PTL DEF Spec

\* Every variable keeps its type: the counters stay within 64 bits, whatever is
\* received, because process_record and update_connection_stats saturate.
THEOREM TypeCorrect == Spec => []TypeOK
<1>1. IInv => TypeOK
  BY DEF IInv
<1> QED
  BY Invariant, <1>1, PTL

\* process_record and evict_stale_threads: for any number of threads, evicted
\* and returning, their totals and their current seconds together never exceed
\* those of the interface, unless that counter has saturated.
THEOREM NoByteCountedTwice == Spec => []ThreadsWithinInterface
<1>1. IInv => ThreadsWithinInterface
  BY DEF IInv
<1> QED
  BY Invariant, <1>1, PTL

\* rotate_histories_if_due: in every slot of a history of any length the known
\* threads together have at most what the interface has.
THEOREM HistoriesStayAligned == Spec => []HistoriesAligned
<1>1. IInv => HistoriesAligned
  BY DEF IInv
<1> QED
  BY Invariant, <1>1, PTL

\* prune_connection_stats: the connections of a thread never have more bytes
\* than the thread, also after the thread was evicted and came back.
THEOREM ConnectionsStayWithinThread == Spec => []ConnectionsWithinThread
<1>1. IInv => ConnectionsWithinThread
  BY DEF IInv
<1> QED
  BY Invariant, <1>1, PTL

\* rotate_histories_if_due updates the peak after it has rotated: the peak is
\* at least the bandwidth of every second in the history that fits the sum.
THEOREM PeakStaysAbove == Spec => []PeakCoversHistory
<1>1. IInv => PeakCoversHistory
  BY DEF IInv
<1> QED
  BY Invariant, <1>1, PTL

\* publish_snapshots writes the rows first and the GUI reads them last: a frame
\* never shows rows older than its interface totals, however the two threads
\* interleave between the two locks.
THEOREM RowsFollowTotals == Spec => []FrameRowsNotOlder
<1>1. IInv => FrameRowsNotOlder
  BY DEF IInv, PublishInv
<1> QED
  BY Invariant, <1>1, PTL

-----------------------------------------------------------------------------
(* Rows and packets.                                                       *)

LEMMA ReversedFacts ==
    ASSUME NEW f \in Flows
    PROVE  Reversed(f) \in Flows /\ Reversed(Reversed(f)) = f
BY DEF Flows, Reversed

LEMMA WireInit == Init => WireInv
<1> SUFFICES ASSUME Init, NEW k \in Keys, NEW s \in Flows
             PROVE  /\ conn[<<k, s>>].bytes["tx"] <= wire[<<k, s>>]
                    /\ conn[<<k, s>>].bytes["rx"] <= wire[<<k, Reversed(s)>>]
  BY DEF WireInv
<1>1. <<k, s>> \in ConnKeys /\ <<k, Reversed(s)>> \in ConnKeys
  BY ReversedFacts DEF ConnKeys
<1>2. conn[<<k, s>>].bytes = Zero
  BY <1>1, NewFacts DEF Init
<1>3. wire[<<k, s>>] = 0 /\ wire[<<k, Reversed(s)>>] = 0
  BY <1>1 DEF Init
<1> QED
  BY <1>2, <1>3, ZeroFacts DEF Dirs

\* A packet is added to its flow, and to one connection on that flow's side.
LEMMA WireReceive ==
    ASSUME IInv, WireInv, NEW k \in Keys, NEW f \in Flows, Receive(k, f)
    PROVE  WireInv'
<1> DEFINE d == classify_direction(f)
           c == connection_key(k, f, d)
<1>1. TypeOK
  BY DEF IInv
<1>2. /\ d \in Dirs /\ c \in ConnKeys
      /\ \A e \in ConnKeys \ {c} : conn'[e] = conn[e]
      /\ conn'[c].bytes = Add(conn[c].bytes, d)
  BY <1>1, RecordFacts
<1>3. c = IF d = "tx" THEN <<k, f>> ELSE <<k, Reversed(f)>>
  BY DEF connection_key, Reversed
<1>4. wire \in [ConnKeys -> Nat] /\ wire' = [wire EXCEPT ![<<k, f>>] = @ + 1]
  BY <1>1 DEF TypeOK, Receive, process_record
<1> HIDE DEF d, c
<1>5. conn[c].bytes \in Counter
  BY <1>1, <1>2 DEF TypeOK
<1>6. \A e \in Dirs : /\ conn[c].bytes[e] \in Nat /\ conn'[c].bytes[e] \in Nat
                     /\ conn'[c].bytes[e] <= conn[c].bytes[e] + Inc(d, e)
  <2>1. \A e \in Dirs : conn[c].bytes[e] \in 0 .. U64Max /\ Inc(d, e) \in {0, 1}
    BY <1>5 DEF Counter, Inc
  <2>2. \A e \in Dirs : conn'[c].bytes[e] = saturating_add(conn[c].bytes[e], Inc(d, e))
    BY <1>2, <1>5, AddFacts
  <2> QED
    BY <2>1, <2>2, SaturatingFacts, WidthAssumption
<1> SUFFICES ASSUME NEW j \in Keys, NEW s \in Flows
             PROVE  /\ conn'[<<j, s>>].bytes["tx"] <= wire'[<<j, s>>]
                    /\ conn'[<<j, s>>].bytes["rx"] <= wire'[<<j, Reversed(s)>>]
  BY DEF WireInv
<1> DEFINE x == <<j, s>>
           y == <<j, Reversed(s)>>
<1>7. x \in ConnKeys /\ y \in ConnKeys /\ <<k, f>> \in ConnKeys
  BY ReversedFacts DEF ConnKeys
<1>8. conn[x].bytes["tx"] <= wire[x] /\ conn[x].bytes["rx"] <= wire[y]
  BY DEF WireInv
<1>9. /\ conn[x].bytes["tx"] \in Nat /\ conn[x].bytes["rx"] \in Nat
  BY <1>1, <1>7, WidthAssumption DEF TypeOK, Counter, Dirs
<1>10. CASE x = c /\ d = "tx"
  <2>1. x = <<k, f>> /\ x # y
    BY <1>3, <1>10 DEF Flows, Reversed
  <2>2. wire'[x] = wire[x] + 1 /\ wire'[y] = wire[y] /\ wire[x] \in Nat /\ wire[y] \in Nat
    BY <1>4, <1>7, <2>1
  <2>3. conn'[x].bytes["tx"] <= conn[x].bytes["tx"] + 1 /\ conn'[x].bytes["rx"] <= conn[x].bytes["rx"]
        /\ conn'[x].bytes["tx"] \in Nat /\ conn'[x].bytes["rx"] \in Nat
    BY <1>6, <1>9, <1>10 DEF Inc, Dirs
  <2> QED
    BY <1>8, <1>9, <2>2, <2>3
<1>11. CASE x = c /\ d = "rx"
  <2>1. s = Reversed(f) /\ j = k
    BY <1>3, <1>11
  <2>2. y = <<k, f>> /\ x # y
    BY <2>1, ReversedFacts DEF Flows, Reversed
  <2>3. wire'[y] = wire[y] + 1 /\ wire'[x] = wire[x] /\ wire[x] \in Nat /\ wire[y] \in Nat
    BY <1>4, <1>7, <2>2
  <2>4. conn'[x].bytes["rx"] <= conn[x].bytes["rx"] + 1 /\ conn'[x].bytes["tx"] <= conn[x].bytes["tx"]
        /\ conn'[x].bytes["tx"] \in Nat /\ conn'[x].bytes["rx"] \in Nat
    BY <1>6, <1>9, <1>11 DEF Inc, Dirs
  <2> QED
    BY <1>8, <1>9, <2>3, <2>4
<1>12. CASE x # c
  <2>1. conn'[x] = conn[x]
    BY <1>2, <1>7, <1>12
  <2>2. \A e \in ConnKeys : wire[e] \in Nat /\ wire'[e] \in Nat /\ wire'[e] >= wire[e]
    BY <1>4, <1>7
  <2> QED
    BY <1>7, <1>8, <1>9, <2>1, <2>2
<1> QED
  BY <1>2, <1>10, <1>11, <1>12 DEF Dirs

LEMMA WireStep == IInv /\ WireInv /\ [Next]_vars => WireInv'
<1> SUFFICES ASSUME IInv, WireInv, [Next]_vars PROVE WireInv'
  OBVIOUS
<1>1. TypeOK
  BY DEF IInv
<1>2. ASSUME NEW k \in Keys, NEW f \in Flows, Receive(k, f) PROVE WireInv'
  BY <1>2, WireReceive
<1>3. ASSUME wire' = wire,
             \A c \in ConnKeys : conn'[c].bytes \in {conn[c].bytes, Zero}
      PROVE  WireInv'
  <2> SUFFICES ASSUME NEW k \in Keys, NEW s \in Flows
               PROVE  /\ conn'[<<k, s>>].bytes["tx"] <= wire'[<<k, s>>]
                      /\ conn'[<<k, s>>].bytes["rx"] <= wire'[<<k, Reversed(s)>>]
    BY DEF WireInv
  <2>1. <<k, s>> \in ConnKeys /\ <<k, Reversed(s)>> \in ConnKeys
    BY ReversedFacts DEF ConnKeys
  <2>2. wire[<<k, s>>] \in Nat /\ wire[<<k, Reversed(s)>>] \in Nat
    BY <1>1, <2>1 DEF TypeOK
  <2>3. CASE conn'[<<k, s>>].bytes = conn[<<k, s>>].bytes
    BY <1>3, <2>3 DEF WireInv
  <2>4. CASE conn'[<<k, s>>].bytes = Zero
    BY <1>3, <2>2, <2>4, ZeroFacts DEF Dirs
  <2> QED
    BY <1>3, <2>1, <2>3, <2>4
<1>4. CASE Maintain
  <2>1. \A c \in ConnKeys : conn'[c].bytes \in {conn[c].bytes, Zero}
    BY <1>1, <1>4, KeepFacts, NewFacts
  <2>2. wire' = wire
    BY <1>4 DEF Maintain
  <2> QED
    BY <1>3, <2>1, <2>2
<1>5. CASE Tick
  <2>1. ASSUME NEW c \in ConnKeys PROVE conn'[c].bytes = conn[c].bytes
    <3>1. conn'[c] = IF c \in tracked THEN [conn[c] EXCEPT !.age = Older(conn[c].age)] ELSE conn[c]
      BY <1>5 DEF Tick
    <3>2. conn[c] \in [bytes: Counter, age: Ages]
      BY <1>1 DEF TypeOK
    <3> QED
      BY <3>1, <3>2
  <2>2. wire' = wire
    BY <1>5 DEF Tick
  <2> QED
    BY <1>3, <2>1, <2>2
<1>6. ASSUME \/ DrainDone \/ PublishRows \/ PublishInterface
             \/ render_top_panel \/ render_main_panel \/ Capture \/ UNCHANGED vars
      PROVE  WireInv'
  <2>1. UNCHANGED <<conn, wire>>
    BY <1>6 DEF DrainDone, PublishRows, PublishInterface, render_top_panel, render_main_panel,
                Capture, vars, counters
  <2> QED
    BY <1>3, <2>1
<1> QED
  BY <1>2, <1>4, <1>5, <1>6, Zenon DEF Next

LEMMA RowsFollowWire == IInv /\ WireInv => RowsTrueToWire
<1> SUFFICES ASSUME IInv, WireInv, NEW k \in Keys, NEW s \in Flows
             PROVE  /\ connection_row(k, s)["tx"] <= wire[<<k, s>>]
                    /\ connection_row(k, s)["rx"] <= wire[<<k, Reversed(s)>>]
  BY DEF RowsTrueToWire
<1> DEFINE own == <<k, s>>
           other == <<k, Reversed(s)>>
<1>1. Reversed(s) \in Flows /\ Reversed(Reversed(s)) = s
  BY ReversedFacts
<1>2. own \in ConnKeys /\ other \in ConnKeys
  BY <1>1 DEF ConnKeys
<1>3. wire[own] \in Nat /\ wire[other] \in Nat
  BY <1>2 DEF IInv, TypeOK
<1>4. /\ conn[own].bytes["tx"] <= wire[own] /\ conn[own].bytes["rx"] <= wire[other]
      /\ conn[other].bytes["tx"] <= wire[other] /\ conn[other].bytes["rx"] <= wire[own]
  BY <1>1 DEF WireInv
<1>5. CASE own \in tracked
  BY <1>4, <1>5 DEF connection_row
<1>6. CASE own \notin tracked /\ other \in tracked
  <2>1. connection_row(k, s) = [d \in Dirs |-> conn[other].bytes[Other(d)]]
    BY <1>6 DEF connection_row
  <2> QED
    BY <1>4, <2>1 DEF Other, Dirs
<1>7. CASE own \notin tracked /\ other \notin tracked
  BY <1>3, <1>7, ZeroFacts DEF connection_row, Dirs
<1> QED
  BY <1>5, <1>6, <1>7

\* publish_snapshots: a row shows as sent only bytes that went from its own end
\* and as received only bytes that came to it, whatever addresses capture was
\* given, for any number of threads, flows, evictions and returns.
THEOREM RowsStayTrue == Spec => []RowsTrueToWire
BY WireInit, WireStep, RowsFollowWire, Invariant, PTL DEF Spec

=============================================================================
