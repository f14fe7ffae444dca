------------------------- MODULE SessionFilesProofs -------------------------
(***************************************************************************)
(* Proofs about SessionFiles, for every number of capture threads, every   *)
(* length of a run and every setting of the clock, the join and the flush. *)
(***************************************************************************)
EXTENDS SessionFiles, TLAPS

Started(t) == life[t] # "unborn"
Active(t) == life[t] \in {"capturing", "dismissed"}
Records(t) == recording[t] # None

\* Threads start in the order of their numbers, and one that has not started
\* has left nothing.
OrderInv ==
    \A t \in Threads : ~Started(t) =>
        /\ \A u \in Threads : t < u => ~Started(u)
        /\ recording[t] = None /\ written[t] = 0 /\ packets_since_flush[t] = 0 /\ on_disk[t] = 0

\* A recording carries a second that has begun, and had begun when the GUI
\* began to wait for its thread.
TimeInv ==
    \A t \in Threads :
        /\ left[t] <= now
        /\ Records(t) => recording[t] <= Second(now)
        /\ Records(t) /\ life[t] = "dismissed" => recording[t] <= Second(left[t])

\* No later thread records under the name of t.
Owner(t) == Records(t) /\ \A u \in Threads : t < u => recording[u] # recording[t]

\* A thread that may still write owns its file.
ActiveOwns == \A t \in Threads : Active(t) /\ Records(t) => Owner(t)

\* What the first n cells of t's stream are.
Beginning(t, n) == [i \in 1 .. n |-> <<t, i>>]

\* The file of an owner is what has left its buffer; a file has an owner.
FileInv ==
    /\ \A t \in Threads : Owner(t) => files[recording[t]] = Beginning(t, on_disk[t])
    /\ \A n \in Names : files[n] # None => \E t \in Threads : Owner(t) /\ recording[t] = n
    /\ DOMAIN files = Names

\* The disk has what was flushed at least, and everything in the end.
FlushInv ==
    \A t \in Threads :
        /\ packets_since_flush[t] <= written[t]
        /\ on_disk[t] <= 1 + CellsPerPacket * written[t]
        /\ packets_since_flush[t] < written[t] =>
              on_disk[t] >= 1 + CellsPerPacket * (written[t] - packets_since_flush[t])
        /\ life[t] = "ended" /\ Records(t) => on_disk[t] = 1 + CellsPerPacket * written[t]

\* The path is that of the latest thread.
PathInv ==
    /\ capture_recording_path = None <=> current = None
    /\ current # None =>
        /\ Started(current)
        /\ \A u \in Threads : current < u => ~Started(u)
        /\ Records(current) => recording[current] = capture_recording_path

\* The stamps of the rows, between the rotations.
HistoryInv ==
    LET n == Len(history) IN
    /\ last_rotation <= now
    /\ \A i, j \in 1 .. n : i <= j => history[i] <= history[j]
    /\ \A i, j \in 1 .. n : i + 2 <= j => history[i] < history[j]
    /\ \A i \in 1 .. n : history[i] <= Second(now)
    /\ \A i \in 1 .. n : i < n => history[i] <= Second(last_rotation)
    /\ agg = "append" =>
        /\ \A i \in 1 .. n : history[i] <= Second(last_rotation)
        /\ \A i \in 1 .. n : i < n => history[i] < Second(last_rotation)

\* The inductive invariant.
IInv ==
    /\ TypeOK /\ OrderInv /\ TimeInv /\ ActiveOwns
    /\ FileInv /\ FlushInv /\ PathInv /\ HistoryInv

-----------------------------------------------------------------------------
(* Seconds.                                                                *)

LEMMA Division ==
    ASSUME NEW a \in Nat, NEW d \in Nat \ {0}
    PROVE  a \div d \in Nat /\ d * (a \div d) <= a /\ a < d * (a \div d) + d
OBVIOUS

LEMMA SecondFacts ==
    ASSUME NEW a \in Nat, NEW b \in Nat
    PROVE  /\ Second(a) \in Nat
           /\ a <= b => Second(a) <= Second(b)
           /\ a + TicksPerSecond <= b => Second(a) < Second(b)
<1> DEFINE d == TicksPerSecond
           q == Second(a)
           r == Second(b)
<1>1. d \in Nat \ {0}
  BY FilesAssumption
<1>2. q \in Nat /\ d * q <= a /\ a < d * q + d
  BY <1>1, Division DEF Second
<1>3. r \in Nat /\ d * r <= b /\ b < d * r + d
  BY <1>1, Division DEF Second
<1> HIDE DEF d, q, r
<1>4. d * r + d = d * (r + 1) /\ d * q + d = d * (q + 1)
  BY <1>1, <1>2, <1>3
<1>5. ASSUME q > r PROVE b < a
  <2>1. r + 1 <= q
    BY <1>2, <1>3, <1>5
  <2>2. PICK k \in Nat : q = (r + 1) + k
    <3>1. q - (r + 1) \in Nat /\ q = (r + 1) + (q - (r + 1))
      BY <1>2, <1>3, <2>1
    <3> QED
      BY <3>1
  <2>3. d * q = d * (r + 1) + d * k /\ d * k \in Nat /\ d * (r + 1) \in Nat
    BY <1>1, <1>3, <2>2
  <2> QED
    BY <1>1, <1>2, <1>3, <1>4, <2>3
<1>6. ASSUME q >= r PROVE b < a + d
  <2>1. PICK k \in Nat : q = r + k
    <3>1. q - r \in Nat /\ q = r + (q - r)
      BY <1>2, <1>3, <1>6
    <3> QED
      BY <3>1
  <2>2. d * q = d * r + d * k /\ d * k \in Nat /\ d * r \in Nat
    BY <1>1, <1>3, <2>1
  <2> QED
    BY <1>1, <1>2, <1>3, <2>2
<1>7. d \in Nat
  BY <1>1
<1> QED
  BY <1>2, <1>3, <1>5, <1>6, <1>7 DEF d, q, r

\* A second on the clock is the name of a recording.
LEMMA NameFacts ==
    ASSUME NEW a \in 0 .. MaxTicks
    PROVE  Second(a) \in Names
<1>1. a \in Nat /\ MaxTicks \in Nat /\ a <= MaxTicks
  BY FilesAssumption
<1>2. Second(a) \in Nat /\ Second(MaxTicks) \in Nat /\ Second(a) <= Second(MaxTicks)
  BY <1>1, SecondFacts
<1> QED
  BY <1>2 DEF Names

-----------------------------------------------------------------------------
(* Files.                                                                  *)

LastCell == 1 + CellsPerPacket * MaxPackets

LEMMA LastCellNat == LastCell \in Nat
BY FilesAssumption DEF LastCell, CellsPerPacket

LEMMA StreamFacts ==
    ASSUME NEW t, NEW n \in Nat
    PROVE  Stream(t, n) = Beginning(t, 1 + CellsPerPacket * n) /\ Len(Stream(t, n)) = 1 + CellsPerPacket * n
<1>1. 1 + CellsPerPacket * n \in Nat
  BY DEF CellsPerPacket
<1>2. Stream(t, n) = Beginning(t, 1 + CellsPerPacket * n)
  BY DEF Stream, Beginning
<1>3. Stream(t, n) \in Seq({<<t, i>> : i \in Nat})
  BY <1>1 DEF Stream
<1>4. DOMAIN Stream(t, n) = 1 .. (1 + CellsPerPacket * n)
  BY DEF Stream
<1> QED
  BY <1>1, <1>2, <1>3, <1>4

LEMMA BeginningFacts ==
    ASSUME NEW t \in Threads, NEW n \in 0 .. LastCell
    PROVE  /\ Beginning(t, n) \in Seq(Cells)
           /\ Len(Beginning(t, n)) = n /\ DOMAIN Beginning(t, n) = 1 .. n
           /\ \A i \in 1 .. n : Beginning(t, n)[i] = <<t, i>>
<1>1. n \in Nat /\ n <= LastCell
  BY LastCellNat
<1>2. \A i \in 1 .. n : <<t, i>> \in Cells
  BY <1>1, LastCellNat DEF Cells, LastCell
<1>3. Beginning(t, n) \in Seq(Cells)
  BY <1>1, <1>2 DEF Beginning
<1>4. DOMAIN Beginning(t, n) = 1 .. n
  BY DEF Beginning
<1> QED
  BY <1>1, <1>3, <1>4 DEF Beginning

LEMMA MaxFacts ==
    ASSUME NEW a \in Nat, NEW b \in Nat, a <= b
    PROVE  Max({a, b}) = b
<1>1. \E x \in {a, b} : \A y \in {a, b} : x >= y
  OBVIOUS
<1>2. Max({a, b}) \in {a, b} /\ \A y \in {a, b} : Max({a, b}) >= y
  BY <1>1 DEF Max
<1> QED
  BY <1>2

\* Appending at the end of a file that holds a beginning gives a longer one.
LEMMA WriteFacts ==
    ASSUME NEW t \in Threads, NEW m \in 0 .. LastCell, NEW n \in m .. LastCell
    PROVE  WriteAt(Beginning(t, m), t, m + 1, n) = Beginning(t, n)
<1>1. m \in Nat /\ n \in Nat /\ m <= n
  BY LastCellNat
<1>2. Len(Beginning(t, m)) = m /\ \A i \in 1 .. m : Beginning(t, m)[i] = <<t, i>>
  BY BeginningFacts
<1>3. Max({m, n}) = n
  BY <1>1, MaxFacts
<1>4. WriteAt(Beginning(t, m), t, m + 1, n) =
        [i \in 1 .. n |-> IF i \in m + 1 .. n THEN <<t, i>>
                          ELSE IF i <= m THEN Beginning(t, m)[i] ELSE Hole]
  BY <1>2, <1>3 DEF WriteAt
<1>5. \A i \in 1 .. n : (IF i \in m + 1 .. n THEN <<t, i>>
                         ELSE IF i <= m THEN Beginning(t, m)[i] ELSE Hole) = <<t, i>>
  BY <1>1, <1>2
<1> QED
  BY <1>4, <1>5 DEF Beginning

LEMMA OwnersDiffer ==
    ASSUME TypeOK, NEW t \in Threads, NEW u \in Threads, Owner(t), Owner(u), t # u
    PROVE  recording[t] # recording[u]
BY FilesAssumption DEF Owner, Threads

\* Cells of an active thread that reach the disk.
LEMMA DrainFacts ==
    ASSUME IInv, NEW t \in Threads, Active(t), Records(t),
           NEW last \in on_disk[t] .. LastCell, Drain(t, last)
    PROVE  /\ recording[t] \in Names
           /\ on_disk' \in [Threads -> 0 .. LastCell]
           /\ on_disk'[t] = last /\ \A u \in Threads \ {t} : on_disk'[u] = on_disk[u]
           /\ files'[recording[t]] = Beginning(t, last)
           /\ \A n \in Names \ {recording[t]} : files'[n] = files[n]
           /\ DOMAIN files' = Names
           /\ \A n \in Names : files'[n] = None \/ files'[n] \in Seq(Cells)
<1>1. TypeOK /\ Owner(t) /\ FileInv
  BY DEF IInv, ActiveOwns
<1>2. recording[t] \in Names
  BY <1>1 DEF TypeOK, Records
<1>3. on_disk \in [Threads -> 0 .. LastCell]
  BY <1>1 DEF TypeOK, LastCell
<1>4. on_disk[t] \in 0 .. LastCell /\ last \in 0 .. LastCell
  BY <1>3, LastCellNat
<1>5. files[recording[t]] = Beginning(t, on_disk[t]) /\ DOMAIN files = Names
  BY <1>1 DEF FileInv
<1>6. WriteAt(files[recording[t]], t, on_disk[t] + 1, last) = Beginning(t, last)
  BY <1>4, <1>5, WriteFacts
<1>7. /\ on_disk' = [on_disk EXCEPT ![t] = last]
      /\ files' = [files EXCEPT ![recording[t]] = Beginning(t, last)]
  BY <1>6 DEF Drain
<1>8. Beginning(t, last) \in Seq(Cells)
  BY <1>4, BeginningFacts
<1>9. /\ files'[recording[t]] = Beginning(t, last) /\ DOMAIN files' = Names
      /\ \A n \in Names \ {recording[t]} : files'[n] = files[n]
  BY <1>2, <1>5, <1>7
<1>10. \A n \in Names : files'[n] = None \/ files'[n] \in Seq(Cells)
  BY <1>1, <1>8, <1>9 DEF TypeOK
<1>11. /\ on_disk' \in [Threads -> 0 .. LastCell]
       /\ on_disk'[t] = last /\ \A u \in Threads \ {t} : on_disk'[u] = on_disk[u]
  BY <1>3, <1>4, <1>7
<1> QED
  BY <1>2, <1>9, <1>10, <1>11

LEMMA DrainKeepsFiles ==
    ASSUME IInv, NEW t \in Threads, Active(t), Records(t),
           NEW last \in on_disk[t] .. LastCell, Drain(t, last), UNCHANGED recording
    PROVE  FileInv'
<1>1. TypeOK /\ Owner(t) /\ FileInv
  BY DEF IInv, ActiveOwns
<1>2. /\ recording[t] \in Names
      /\ on_disk'[t] = last /\ \A u \in Threads \ {t} : on_disk'[u] = on_disk[u]
      /\ files'[recording[t]] = Beginning(t, last)
      /\ \A n \in Names \ {recording[t]} : files'[n] = files[n]
      /\ DOMAIN files' = Names
  BY DrainFacts
<1>3. \A u \in Threads : Owner(u)' <=> Owner(u)
  BY DEF Owner, Records
<1>4. ASSUME NEW u \in Threads, Owner(u)
      PROVE  files'[recording'[u]] = Beginning(u, on_disk'[u])
  <2>1. CASE u = t
    BY <1>2, <2>1
  <2>2. CASE u # t
    <3>1. recording[u] \in Names /\ recording[u] # recording[t]
      BY <1>1, <1>4, <2>2, OwnersDiffer DEF TypeOK, Owner, Records
    <3> QED
      BY <1>1, <1>2, <1>4, <2>2, <3>1 DEF FileInv
  <2> QED
    BY <2>1, <2>2
<1>5. ASSUME NEW n \in Names, files'[n] # None
      PROVE  \E u \in Threads : Owner(u) /\ recording[u] = n
  <2>1. CASE n = recording[t]
    BY <1>1, <2>1
  <2>2. CASE n # recording[t]
    BY <1>1, <1>2, <1>5, <2>2 DEF FileInv
  <2> QED
    BY <2>1, <2>2
<1> QED
  BY <1>2, <1>3, <1>4, <1>5 DEF FileInv

LEMMA NotNone == \A t \in Threads : t # None
BY FilesAssumption DEF Threads

\* Numbers that the steps of a thread need.
LEMMA Numbers ==
    ASSUME IInv, NEW t \in Threads
    PROVE  /\ t \in Nat /\ now \in Nat /\ left[t] \in Nat /\ last_rotation \in Nat
           /\ written[t] \in Nat /\ written[t] <= MaxPackets
           /\ packets_since_flush[t] \in Nat /\ packets_since_flush[t] <= FlushEvery
           /\ on_disk[t] \in Nat /\ on_disk[t] <= LastCell
           /\ on_disk[t] <= 1 + CellsPerPacket * written[t]
           /\ 1 + CellsPerPacket * written[t] \in on_disk[t] .. LastCell
           /\ MaxPackets \in Nat /\ FlushEvery \in Nat \ {0} /\ LastCell = 1 + 2 * MaxPackets
<1>1. MaxPackets \in Nat /\ FlushEvery \in Nat \ {0} /\ LastCell = 1 + 2 * MaxPackets
  BY FilesAssumption DEF LastCell, CellsPerPacket
<1>2. /\ t \in Nat /\ now \in Nat /\ left[t] \in Nat /\ last_rotation \in Nat
      /\ written[t] \in Nat /\ written[t] <= MaxPackets
      /\ packets_since_flush[t] \in Nat /\ packets_since_flush[t] <= FlushEvery
      /\ on_disk[t] \in Nat /\ on_disk[t] <= LastCell
  BY <1>1, FilesAssumption DEF IInv, TypeOK, Threads, LastCell, CellsPerPacket
<1>3. on_disk[t] <= 1 + CellsPerPacket * written[t]
  BY DEF IInv, FlushInv
<1> QED
  BY <1>1, <1>2, <1>3 DEF CellsPerPacket

LEMMA WriteStep ==
    ASSUME IInv, NEW t \in Threads, Write(t)
    PROVE  IInv'
<1>1. /\ TypeOK /\ OrderInv /\ TimeInv /\ ActiveOwns
      /\ FileInv /\ FlushInv /\ PathInv /\ HistoryInv
  BY DEF IInv
<1>2. /\ Active(t) /\ Records(t) /\ written[t] < MaxPackets
      /\ written' = [written EXCEPT ![t] = @ + 1]
      /\ packets_since_flush' = [packets_since_flush EXCEPT ![t] = @ + 1]
      /\ UNCHANGED <<life, open, now, recording, left, capture_recording_path, current>>
      /\ UNCHANGED <<on_disk, files, agg, last_rotation, history>>
  BY DEF Write, Active, Records, guiVars, historyVars
<1>3. /\ written[t] \in Nat /\ packets_since_flush[t] \in Nat
      /\ on_disk[t] \in Nat /\ on_disk[t] <= 1 + CellsPerPacket * written[t]
      /\ MaxPackets \in Nat /\ FlushEvery \in Nat \ {0} /\ LastCell = 1 + 2 * MaxPackets
  BY Numbers
<1>4. packets_since_flush[t] < FlushEvery
  BY <1>3 DEF Write, flush_due
<1>5. written' \in [Threads -> 0 .. MaxPackets] /\ written'[t] = written[t] + 1
      /\ \A u \in Threads \ {t} : written'[u] = written[u]
  BY <1>1, <1>2, <1>3 DEF TypeOK
<1>6. /\ packets_since_flush' \in [Threads -> 0 .. FlushEvery]
      /\ packets_since_flush'[t] = packets_since_flush[t] + 1
      /\ \A u \in Threads \ {t} : packets_since_flush'[u] = packets_since_flush[u]
  BY <1>1, <1>2, <1>3, <1>4 DEF TypeOK
<1>7. TimeInv' /\ ActiveOwns' /\ PathInv' /\ HistoryInv' /\ FileInv'
  BY <1>1, <1>2
  DEF TimeInv, ActiveOwns, Active, Owner, PathInv, HistoryInv, Records, Started, FileInv
<1>8. TypeOK'
  BY <1>1, <1>2, <1>5, <1>6 DEF TypeOK
<1>9. OrderInv'
  BY <1>1, <1>2, <1>5, <1>6 DEF OrderInv, Started, Active
<1>10. FlushInv'
  <2>1. ASSUME NEW u \in Threads, u # t
        PROVE  /\ written'[u] = written[u] /\ on_disk'[u] = on_disk[u]
               /\ packets_since_flush'[u] = packets_since_flush[u]
    BY <1>2, <1>5, <1>6, <2>1
  <2>2. /\ packets_since_flush[t] <= written[t]
        /\ packets_since_flush[t] < written[t] =>
              on_disk[t] >= 1 + CellsPerPacket * (written[t] - packets_since_flush[t])
    BY <1>1 DEF FlushInv
  <2>3. /\ packets_since_flush'[t] <= written'[t]
        /\ on_disk'[t] <= 1 + CellsPerPacket * written'[t]
        /\ packets_since_flush'[t] < written'[t] =>
              on_disk'[t] >= 1 + CellsPerPacket * (written'[t] - packets_since_flush'[t])
    BY <1>2, <1>3, <1>5, <1>6, <2>2 DEF CellsPerPacket
  <2>4. life'[t] # "ended"
    BY <1>2 DEF Active
  <2> QED
    BY <1>1, <1>2, <2>1, <2>3, <2>4 DEF FlushInv, Records
<1> QED
  BY <1>7, <1>8, <1>9, <1>10 DEF IInv

LEMMA FlushStep ==
    ASSUME IInv, NEW t \in Threads, Flush(t)
    PROVE  IInv'
<1> DEFINE last == 1 + CellsPerPacket * written[t]
<1>1. /\ TypeOK /\ OrderInv /\ TimeInv /\ ActiveOwns
      /\ FileInv /\ FlushInv /\ PathInv /\ HistoryInv
  BY DEF IInv
<1>2. /\ Active(t) /\ Records(t)
      /\ packets_since_flush' = [packets_since_flush EXCEPT ![t] = 0]
      /\ UNCHANGED <<life, open, now, recording, written, left, capture_recording_path, current>>
      /\ UNCHANGED <<agg, last_rotation, history>>
  BY DEF Flush, Active, Records, guiVars, historyVars
<1>3. /\ written[t] \in Nat /\ FlushEvery \in Nat \ {0} /\ last \in on_disk[t] .. LastCell
  BY Numbers
<1>4. Drain(t, last)
  BY <1>3, StreamFacts DEF Flush
<1> HIDE DEF last
<1>5. /\ packets_since_flush' \in [Threads -> 0 .. FlushEvery]
      /\ packets_since_flush'[t] = 0
      /\ \A u \in Threads \ {t} : packets_since_flush'[u] = packets_since_flush[u]
  BY <1>1, <1>2, <1>3 DEF TypeOK
<1>6. /\ on_disk' \in [Threads -> 0 .. LastCell]
      /\ on_disk'[t] = last /\ \A u \in Threads \ {t} : on_disk'[u] = on_disk[u]
      /\ \A n \in Names : files'[n] = None \/ files'[n] \in Seq(Cells)
  BY <1>2, <1>3, <1>4, DrainFacts
<1>7. FileInv'
  BY <1>2, <1>3, <1>4, DrainKeepsFiles
<1>8. TypeOK'
  BY <1>1, <1>2, <1>5, <1>6 DEF TypeOK, LastCell
<1>9. OrderInv'
  BY <1>1, <1>2, <1>5, <1>6 DEF OrderInv, Started, Active
<1>10. TimeInv' /\ ActiveOwns' /\ PathInv' /\ HistoryInv'
  BY <1>1, <1>2
  DEF TimeInv, ActiveOwns, Active, Owner, PathInv, HistoryInv, Records, Started
<1>11. FlushInv'
  <2>1. ASSUME NEW u \in Threads, u # t
        PROVE  /\ on_disk'[u] = on_disk[u]
               /\ packets_since_flush'[u] = packets_since_flush[u]
    BY <1>5, <1>6, <2>1
  <2>2. /\ packets_since_flush'[t] <= written'[t]
        /\ on_disk'[t] = 1 + CellsPerPacket * written'[t]
        /\ on_disk'[t] <= 1 + CellsPerPacket * written'[t]
        /\ on_disk'[t] >= 1 + CellsPerPacket * (written'[t] - packets_since_flush'[t])
    BY <1>2, <1>3, <1>5, <1>6 DEF last, CellsPerPacket
  <2> QED
    BY <1>1, <1>2, <2>1, <2>2 DEF FlushInv, Records
<1> QED
  BY <1>7, <1>8, <1>9, <1>10, <1>11 DEF IInv

LEMMA SpillStep ==
    ASSUME IInv, NEW t \in Threads, Spill(t)
    PROVE  IInv'
<1>1. /\ TypeOK /\ OrderInv /\ TimeInv /\ ActiveOwns
      /\ FileInv /\ FlushInv /\ PathInv /\ HistoryInv
  BY DEF IInv
<1>2. /\ Active(t) /\ Records(t) /\ on_disk[t] < Len(Stream(t, written[t]))
      /\ Drain(t, on_disk[t] + 1)
      /\ UNCHANGED <<life, open, now, recording, written, packets_since_flush>>
      /\ UNCHANGED <<left, capture_recording_path, current>>
      /\ UNCHANGED <<agg, last_rotation, history>>
  BY DEF Spill, Active, Records, guiVars, historyVars
<1>3. /\ written[t] \in Nat /\ on_disk[t] \in Nat /\ packets_since_flush[t] \in Nat
      /\ written[t] <= MaxPackets /\ MaxPackets \in Nat /\ LastCell = 1 + 2 * MaxPackets
  BY Numbers
<1>4. on_disk[t] < 1 + CellsPerPacket * written[t]
  BY <1>2, <1>3, StreamFacts
<1>5. on_disk[t] + 1 \in on_disk[t] .. LastCell
  BY <1>3, <1>4 DEF CellsPerPacket
<1>6. /\ on_disk' \in [Threads -> 0 .. LastCell]
      /\ on_disk'[t] = on_disk[t] + 1 /\ \A u \in Threads \ {t} : on_disk'[u] = on_disk[u]
      /\ \A n \in Names : files'[n] = None \/ files'[n] \in Seq(Cells)
  BY <1>2, <1>5, DrainFacts
<1>7. FileInv'
  BY <1>2, <1>5, DrainKeepsFiles
<1>8. TypeOK'
  BY <1>1, <1>2, <1>6 DEF TypeOK, LastCell
<1>9. OrderInv'
  BY <1>1, <1>2, <1>6 DEF OrderInv, Started, Active
<1>10. TimeInv' /\ ActiveOwns' /\ PathInv' /\ HistoryInv'
  BY <1>1, <1>2
  DEF TimeInv, ActiveOwns, Active, Owner, PathInv, HistoryInv, Records, Started
<1>11. FlushInv'
  <2>1. /\ on_disk'[t] <= 1 + CellsPerPacket * written[t]
        /\ packets_since_flush[t] < written[t] =>
              on_disk'[t] >= 1 + CellsPerPacket * (written[t] - packets_since_flush[t])
    <3>1. packets_since_flush[t] < written[t] =>
              on_disk[t] >= 1 + CellsPerPacket * (written[t] - packets_since_flush[t])
      BY <1>1 DEF FlushInv
    <3> QED
      BY <1>3, <1>4, <1>6, <3>1 DEF CellsPerPacket
  <2>2. life'[t] # "ended"
    BY <1>2 DEF Active
  <2> QED
    BY <1>1, <1>2, <1>6, <2>1, <2>2 DEF FlushInv, Records
<1> QED
  BY <1>7, <1>8, <1>9, <1>10, <1>11 DEF IInv

LEMMA EndThreadStep ==
    ASSUME IInv, NEW t \in Threads, EndThread(t)
    PROVE  IInv'
<1>1. /\ TypeOK /\ OrderInv /\ TimeInv /\ ActiveOwns
      /\ FileInv /\ FlushInv /\ PathInv /\ HistoryInv
  BY DEF IInv
<1>2. /\ Active(t) /\ life' = [life EXCEPT ![t] = "ended"]
      /\ UNCHANGED <<open, now, recording, written, packets_since_flush>>
      /\ UNCHANGED <<left, capture_recording_path, current>>
      /\ UNCHANGED <<agg, last_rotation, history>>
  BY DEF EndThread, S!End, Active, guiVars, historyVars
<1>3. /\ life' \in [Threads -> S!Lives] /\ life'[t] = "ended"
      /\ \A u \in Threads \ {t} : life'[u] = life[u]
  BY <1>1, <1>2 DEF TypeOK, S!Lives
<1>4. \A u \in Threads : Started(u)' <=> Started(u)
  BY <1>2, <1>3 DEF Started, Active
<1>5. TimeInv' /\ ActiveOwns' /\ HistoryInv'
  BY <1>1, <1>2, <1>3
  DEF TimeInv, ActiveOwns, Active, Owner, HistoryInv, Records
<1>6. PathInv'
  <2>1. current # None => current \in Threads
    BY <1>1 DEF TypeOK
  <2> QED
    BY <1>1, <1>2, <1>4, <2>1 DEF PathInv, Records
<1>7. CASE Records(t)
  <2> DEFINE last == 1 + CellsPerPacket * written[t]
  <2>1. /\ written[t] \in Nat /\ packets_since_flush[t] \in Nat /\ last \in on_disk[t] .. LastCell
    BY Numbers
  <2>2. Drain(t, last)
    BY <1>7, <2>1, StreamFacts DEF EndThread, Records
  <2> HIDE DEF last
  <2>3. /\ on_disk' \in [Threads -> 0 .. LastCell]
        /\ on_disk'[t] = last /\ \A u \in Threads \ {t} : on_disk'[u] = on_disk[u]
        /\ \A n \in Names : files'[n] = None \/ files'[n] \in Seq(Cells)
    BY <1>2, <1>7, <2>1, <2>2, DrainFacts
  <2>4. FileInv'
    BY <1>2, <1>7, <2>1, <2>2, DrainKeepsFiles
  <2>5. TypeOK'
    BY <1>1, <1>2, <1>3, <2>3 DEF TypeOK, LastCell
  <2>6. OrderInv'
    BY <1>1, <1>2, <1>3, <1>4, <2>3 DEF OrderInv, Started
  <2>7. FlushInv'
    <3>1. /\ on_disk'[t] = 1 + CellsPerPacket * written[t]
          /\ on_disk'[t] <= 1 + CellsPerPacket * written[t]
          /\ on_disk'[t] >= 1 + CellsPerPacket * (written[t] - packets_since_flush[t])
      BY <2>1, <2>3 DEF last, CellsPerPacket
    <3> QED
      BY <1>1, <1>2, <1>3, <2>3, <3>1 DEF FlushInv, Records
  <2> QED
    BY <1>5, <1>6, <2>4, <2>5, <2>6, <2>7 DEF IInv
<1>8. CASE ~Records(t)
  <2>1. UNCHANGED <<on_disk, files>>
    BY <1>8 DEF EndThread, Records
  <2>2. FileInv' /\ TypeOK'
    BY <1>1, <1>2, <1>3, <2>1 DEF FileInv, Owner, Records, TypeOK
  <2>3. OrderInv'
    BY <1>1, <1>2, <1>3, <1>4, <2>1 DEF OrderInv, Started
  <2>4. FlushInv'
    BY <1>1, <1>2, <1>3, <1>8, <2>1 DEF FlushInv, Records
  <2> QED
    BY <1>5, <1>6, <2>2, <2>3, <2>4 DEF IInv
<1> QED
  BY <1>7, <1>8

-----------------------------------------------------------------------------
(* The GUI.                                                                *)

LEMMA StartStep ==
    ASSUME IInv, NEW t \in Threads, start_capture(t)
    PROVE  IInv'
<1> DEFINE name == Second(now)
<1>1. /\ TypeOK /\ OrderInv /\ TimeInv /\ ActiveOwns
      /\ FileInv /\ FlushInv /\ PathInv /\ HistoryInv
  BY DEF IInv
<1>2. /\ join_timeout /\ ~Started(t) /\ \A u \in Threads : life[u] # "capturing"
      /\ \A u \in Threads : u < t => Started(u)
      /\ life' = [life EXCEPT ![t] = "capturing"]
      /\ \/ /\ recording' = [recording EXCEPT ![t] = name]
            /\ files' = [files EXCEPT ![name] = <<>>]
         \/ UNCHANGED <<recording, files>>
      /\ capture_recording_path' = name /\ current' = t
      /\ UNCHANGED <<open, now, left, written, packets_since_flush, on_disk>>
      /\ UNCHANGED <<agg, last_rotation, history>>
  BY DEF start_capture, spawn_capture_thread, S!Start, S!Capturing, Started, historyVars
<1>3. /\ name \in Names /\ name \in Nat /\ now \in Nat /\ name # None
  <2>1. now \in 0 .. MaxTicks
    BY <1>1 DEF TypeOK
  <2>2. now \in Nat /\ name \in Nat
    BY <2>1, FilesAssumption, SecondFacts
  <2> QED
    BY <2>1, <2>2, NameFacts, FilesAssumption
<1>4. /\ recording[t] = None /\ written[t] = 0 /\ packets_since_flush[t] = 0 /\ on_disk[t] = 0
      /\ \A u \in Threads : t < u => ~Started(u) /\ recording[u] = None
  BY <1>1, <1>2 DEF OrderInv
<1>5. ASSUME NEW u \in Threads, Active(u), Records(u)
      PROVE  recording[u] # name
  <2>1. life[u] = "dismissed"
    BY <1>2, <1>5 DEF Active
  <2>2. now >= left[u] + JoinSeconds * TicksPerSecond
    BY <1>2, <2>1 DEF join_timeout
  <2>3. left[u] \in Nat /\ recording[u] <= Second(left[u])
    BY <1>1, <1>5, <2>1, Numbers DEF TimeInv
  <2>4. JoinSeconds * TicksPerSecond >= TicksPerSecond
    <3>1. PICK k \in Nat : JoinSeconds = k + 1
      <4>1. JoinSeconds - 1 \in Nat /\ JoinSeconds = (JoinSeconds - 1) + 1
        BY FilesAssumption
      <4> QED
        BY <4>1
    <3>2. TicksPerSecond \in Nat /\ k * TicksPerSecond \in Nat
      BY FilesAssumption
    <3>3. (k + 1) * TicksPerSecond = k * TicksPerSecond + TicksPerSecond
      BY <3>2
    <3> QED
      BY <3>1, <3>2, <3>3
  <2>5. left[u] + TicksPerSecond <= now
    <3> DEFINE j == JoinSeconds * TicksPerSecond
    <3>1. j \in Nat /\ TicksPerSecond \in Nat
      BY FilesAssumption
    <3> HIDE DEF j
    <3>2. now >= left[u] + j /\ j >= TicksPerSecond
      BY <2>2, <2>4 DEF j
    <3> QED
      BY <1>3, <2>3, <3>1, <3>2
  <2>6. Second(left[u]) < name /\ Second(left[u]) \in Nat
    BY <1>3, <2>3, <2>5, SecondFacts
  <2>7. recording[u] \in Int
    BY <1>1, <1>5 DEF TypeOK, Records, Names
  <2> QED
    BY <1>3, <2>3, <2>6, <2>7
<1> HIDE DEF name
<1>6. /\ life' \in [Threads -> S!Lives] /\ life'[t] = "capturing"
      /\ \A u \in Threads \ {t} : life'[u] = life[u]
  BY <1>1, <1>2 DEF TypeOK, S!Lives
<1>7. HistoryInv'
  BY <1>1, <1>2 DEF HistoryInv
<1>8. CASE UNCHANGED <<recording, files>>
  <2>1. TypeOK'
    BY <1>1, <1>2, <1>3, <1>6, <1>8 DEF TypeOK
  <2>2. OrderInv'
    BY <1>1, <1>2, <1>4, <1>6, <1>8 DEF OrderInv, Started
  <2>3. TimeInv' /\ ActiveOwns' /\ FileInv' /\ FlushInv'
    BY <1>1, <1>2, <1>4, <1>6, <1>8
    DEF TimeInv, ActiveOwns, Active, Owner, Records, FileInv, FlushInv
  <2>4. PathInv'
    BY <1>2, <1>3, <1>4, <1>6, <1>8, NotNone DEF PathInv, Started, Records
  <2> QED
    BY <1>7, <2>1, <2>2, <2>3, <2>4 DEF IInv
<1>9. CASE recording' = [recording EXCEPT ![t] = name] /\ files' = [files EXCEPT ![name] = <<>>]
  <2>1. /\ recording' \in [Threads -> Names \cup {None}] /\ recording'[t] = name
        /\ \A u \in Threads \ {t} : recording'[u] = recording[u]
    BY <1>1, <1>3, <1>9 DEF TypeOK
  <2>2. /\ files'[name] = <<>> /\ DOMAIN files' = Names
        /\ \A n \in Names \ {name} : files'[n] = files[n]
    BY <1>1, <1>3, <1>9 DEF FileInv
  <2>3. Owner(t)'
    BY <1>3, <1>4, <2>1 DEF Owner, Records, Threads
  <2>4. ASSUME NEW u \in Threads, u # t
        PROVE  Owner(u)' <=> Owner(u) /\ recording[u] # name
    <3>1. CASE u < t
      BY <1>4, <2>1, <2>4, <3>1 DEF Owner, Records
    <3>2. CASE t < u
      BY <1>4, <2>1, <2>4, <3>2 DEF Owner, Records
    <3> QED
      BY <2>4, <3>1, <3>2 DEF Threads
  <2>5. TypeOK'
    <3>1. <<>> \in Seq(Cells)
      OBVIOUS
    <3>2. \A n \in Names : files'[n] = None \/ files'[n] \in Seq(Cells)
      BY <1>1, <2>2, <3>1 DEF TypeOK
    <3> QED
      BY <1>1, <1>2, <1>3, <1>6, <2>1, <3>2 DEF TypeOK
  <2>6. OrderInv'
    BY <1>1, <1>2, <1>4, <1>6, <2>1 DEF OrderInv, Started
  <2>7. TimeInv'
    <3>1. name <= Second(now)
      BY <1>3 DEF name
    <3> QED
      BY <1>1, <1>2, <1>6, <2>1, <3>1 DEF TimeInv, Records
  <2>8. ActiveOwns'
    <3> SUFFICES ASSUME NEW u \in Threads, Active(u)', Records(u)'
                 PROVE  Owner(u)'
      BY DEF ActiveOwns
    <3>1. CASE u = t
      BY <2>3, <3>1
    <3>2. CASE u # t
      <4>1. Active(u) /\ Records(u)
        BY <1>6, <2>1, <3>2 DEF Active, Records
      <4> QED
        BY <1>1, <1>5, <2>4, <3>2, <4>1 DEF ActiveOwns
    <3> QED
      BY <3>1, <3>2
  <2>9. FileInv'
    <3>1. ASSUME NEW u \in Threads, Owner(u)'
          PROVE  files'[recording'[u]] = Beginning(u, on_disk'[u])
      <4>1. CASE u = t
        <5>1. on_disk'[t] = 0 /\ Beginning(t, 0) = <<>>
          BY <1>2, <1>4 DEF Beginning
        <5> QED
          BY <2>1, <2>2, <4>1, <5>1
      <4>2. CASE u # t
        <5>1. Owner(u) /\ recording[u] # name /\ recording[u] \in Names
          BY <1>1, <2>4, <3>1, <4>2 DEF TypeOK, Owner, Records
        <5> QED
          BY <1>1, <1>2, <2>1, <2>2, <4>2, <5>1 DEF FileInv
      <4> QED
        BY <4>1, <4>2
    <3>2. ASSUME NEW n \in Names, files'[n] # None
          PROVE  \E u \in Threads : Owner(u)' /\ recording'[u] = n
      <4>1. CASE n = name
        BY <2>1, <2>3, <4>1
      <4>2. CASE n # name
        <5>1. PICK u \in Threads : Owner(u) /\ recording[u] = n
          BY <1>1, <2>2, <3>2, <4>2 DEF FileInv
        <5>2. u # t
          BY <1>4, <5>1 DEF Owner, Records
        <5> QED
          BY <2>1, <2>4, <4>2, <5>1, <5>2
      <4> QED
        BY <4>1, <4>2
    <3> QED
      BY <2>2, <3>1, <3>2 DEF FileInv
  <2>10. FlushInv'
    BY <1>1, <1>2, <1>6, <2>1 DEF FlushInv, Records
  <2>11. PathInv'
    BY <1>2, <1>3, <1>4, <1>6, <2>1, NotNone DEF PathInv, Started, Records
  <2> QED
    BY <1>7, <2>5, <2>6, <2>7, <2>8, <2>9, <2>10, <2>11 DEF IInv
<1> QED
  BY <1>2, <1>8, <1>9

\* Threads are dismissed: by a stop the one that captures, by a close all.
LEMMA DismissStep ==
    ASSUME IInv, NEW D \in SUBSET Threads, \A t \in D : life[t] = "capturing",
           life' = [t \in Threads |-> IF t \in D THEN "dismissed" ELSE life[t]],
           left' = [t \in Threads |-> IF t \in D THEN now ELSE left[t]],
           open' \in BOOLEAN, UNCHANGED <<now, capture_recording_path, current>>,
           UNCHANGED <<recording, written, packets_since_flush, on_disk, files>>,
           UNCHANGED <<agg, last_rotation, history>>
    PROVE  IInv'
<1>1. /\ TypeOK /\ OrderInv /\ TimeInv /\ ActiveOwns
      /\ FileInv /\ FlushInv /\ PathInv /\ HistoryInv
  BY DEF IInv
<1>2. life' \in [Threads -> S!Lives] /\ left' \in [Threads -> 0 .. MaxTicks]
  BY <1>1 DEF TypeOK, S!Lives
<1>3. \A t \in Threads : Started(t)' <=> Started(t)
  BY DEF Started
<1>4. TypeOK'
  BY <1>1, <1>2 DEF TypeOK
<1>5. OrderInv'
  BY <1>1, <1>3 DEF OrderInv
<1>6. TimeInv'
  <2> SUFFICES ASSUME NEW t \in Threads
               PROVE  /\ left'[t] <= now
                      /\ Records(t) => recording[t] <= Second(now)
                      /\ Records(t) /\ life'[t] = "dismissed" => recording[t] <= Second(left'[t])
    BY DEF TimeInv, Records
  <2>1. now \in Nat /\ left[t] <= now /\ (Records(t) => recording[t] <= Second(now))
    BY <1>1, Numbers DEF TimeInv
  <2>2. CASE t \in D
    BY <2>1, <2>2
  <2>3. CASE t \notin D
    BY <1>1, <2>1, <2>3 DEF TimeInv
  <2> QED
    BY <2>2, <2>3
<1>7. ActiveOwns' /\ FileInv'
  BY <1>1 DEF ActiveOwns, Active, Owner, Records, FileInv
<1>8. FlushInv'
  BY <1>1 DEF FlushInv, Records
<1>9. PathInv'
  <2>1. current # None => current \in Threads
    BY <1>1 DEF TypeOK
  <2> QED
    BY <1>1, <1>3, <2>1 DEF PathInv, Records
<1>10. HistoryInv'
  BY <1>1 DEF HistoryInv
<1> QED
  BY <1>4, <1>5, <1>6, <1>7, <1>8, <1>9, <1>10 DEF IInv

LEMMA StopStep ==
    ASSUME IInv, NEW t \in Threads, stop_capture(t)
    PROVE  IInv'
<1>1. life \in [Threads -> S!Lives] /\ left \in [Threads -> 0 .. MaxTicks] /\ open \in BOOLEAN
  BY DEF IInv, TypeOK
<1>2. /\ life[t] = "capturing" /\ life' = [life EXCEPT ![t] = "dismissed"]
      /\ left' = [left EXCEPT ![t] = now]
      /\ UNCHANGED <<open, now, capture_recording_path, current>>
      /\ UNCHANGED <<recording, written, packets_since_flush, on_disk, files>>
      /\ UNCHANGED <<agg, last_rotation, history>>
  BY DEF stop_capture, S!Dismiss, saveVars, historyVars
<1>3. /\ life' = [u \in Threads |-> IF u \in {t} THEN "dismissed" ELSE life[u]]
      /\ left' = [u \in Threads |-> IF u \in {t} THEN now ELSE left[u]]
  BY <1>1, <1>2
<1>4. open' \in BOOLEAN
  BY <1>1, <1>2, Zenon
<1> QED
  BY <1>2, <1>3, <1>4, DismissStep

LEMMA CloseStep ==
    ASSUME IInv, Close
    PROVE  IInv'
<1> DEFINE D == {t \in Threads : life[t] = "capturing"}
<1>1. /\ life' = [t \in Threads |-> IF t \in D THEN "dismissed" ELSE life[t]]
      /\ left' = [t \in Threads |-> IF t \in D THEN now ELSE left[t]]
      /\ UNCHANGED <<now, capture_recording_path, current>>
      /\ UNCHANGED <<recording, written, packets_since_flush, on_disk, files>>
      /\ UNCHANGED <<agg, last_rotation, history>>
  BY DEF Close, S!Close, saveVars, historyVars
<1>2. open' \in BOOLEAN
  BY Zenon DEF Close, S!Close
<1>3. D \in SUBSET Threads /\ \A t \in D : life[t] = "capturing"
  OBVIOUS
<1> HIDE DEF D
<1> QED
  BY <1>1, <1>2, <1>3, DismissStep

LEMMA FailStep ==
    ASSUME IInv, start_capture_fails
    PROVE  IInv'
<1>1. /\ TypeOK /\ OrderInv /\ TimeInv /\ ActiveOwns
      /\ FileInv /\ FlushInv /\ PathInv /\ HistoryInv
  BY DEF IInv
<1>2. /\ UNCHANGED <<life, open, now, left>> /\ capture_recording_path' = None /\ current' = None
      /\ UNCHANGED <<recording, written, packets_since_flush, on_disk, files>>
      /\ UNCHANGED <<agg, last_rotation, history>>
  BY DEF start_capture_fails, saveVars, historyVars
<1>3. TypeOK'
  BY <1>1, <1>2 DEF TypeOK
<1>4. OrderInv' /\ TimeInv' /\ ActiveOwns' /\ FileInv'
  BY <1>1, <1>2 DEF OrderInv, Started, TimeInv, ActiveOwns, Active, Owner, Records, FileInv
<1>5. FlushInv' /\ PathInv' /\ HistoryInv'
  BY <1>1, <1>2 DEF FlushInv, Records, PathInv, HistoryInv
<1> QED
  BY <1>3, <1>4, <1>5 DEF IInv

-----------------------------------------------------------------------------
(* The clock and the history.                                              *)

LEMMA Stamps ==
    ASSUME TypeOK
    PROVE  Len(history) \in Nat /\ \A i \in 1 .. Len(history) : history[i] \in Nat
<1>1. history \in Seq(Names) /\ \A n \in Names : n \in Nat
  BY DEF TypeOK, Names
<1> QED
  BY <1>1

\* What a step of the clock or of the aggregator leaves alone.
Rest == <<life, open, recording, written, packets_since_flush, on_disk, files,
          left, capture_recording_path, current>>

LEMMA RestKept ==
    ASSUME IInv, UNCHANGED Rest
    PROVE  /\ OrderInv' /\ ActiveOwns' /\ FileInv' /\ FlushInv' /\ PathInv'
           /\ (UNCHANGED now => TimeInv')
<1>1. /\ UNCHANGED <<life, recording, written, packets_since_flush, on_disk, files>>
      /\ UNCHANGED <<left, capture_recording_path, current>>
  BY DEF Rest
<1>2. OrderInv' /\ ActiveOwns' /\ FileInv'
  BY <1>1 DEF IInv, OrderInv, Started, ActiveOwns, Active, Owner, Records, FileInv
<1>3. FlushInv' /\ PathInv'
  BY <1>1 DEF IInv, FlushInv, Records, PathInv, Started
<1>4. UNCHANGED now => TimeInv'
  BY <1>1 DEF IInv, TimeInv, Records
<1> QED
  BY <1>2, <1>3, <1>4

LEMMA TickStep ==
    ASSUME IInv, Tick
    PROVE  IInv'
<1>1. /\ UNCHANGED Rest /\ UNCHANGED <<agg, last_rotation, history>>
      /\ now < MaxTicks /\ now' = now + 1
  BY DEF Tick, Rest, saveVars, guiVars, historyVars
<1>2. TypeOK /\ TimeInv /\ HistoryInv
  BY DEF IInv
<1>3. now \in Nat /\ now' \in Nat /\ now' \in 0 .. MaxTicks /\ last_rotation \in Nat
  BY <1>1, <1>2, FilesAssumption DEF TypeOK
<1>4. Second(now) \in Nat /\ Second(now') \in Nat /\ Second(now) <= Second(now')
  BY <1>1, <1>3, SecondFacts
<1>5. TypeOK'
  BY <1>1, <1>2, <1>3 DEF TypeOK, Rest
<1>6. TimeInv'
  <2> SUFFICES ASSUME NEW t \in Threads
               PROVE  /\ left[t] <= now'
                      /\ Records(t) => recording[t] <= Second(now')
                      /\ Records(t) /\ life[t] = "dismissed" => recording[t] <= Second(left[t])
    BY <1>1 DEF TimeInv, Records, Rest
  <2>1. left[t] \in Nat /\ (Records(t) => recording[t] \in Int)
    BY <1>2, Numbers DEF TypeOK, Records, Names
  <2> QED
    BY <1>1, <1>2, <1>3, <1>4, <2>1 DEF TimeInv
<1>7. HistoryInv'
  <2>1. \A i \in 1 .. Len(history) : history[i] \in Nat
    BY <1>2, Stamps
  <2>2. /\ last_rotation' <= now'
        /\ \A i \in 1 .. Len(history') : history'[i] <= Second(now')
    BY <1>1, <1>2, <1>3, <1>4, <2>1 DEF HistoryInv
  <2> QED
    BY <1>1, <1>2, <2>2 DEF HistoryInv
<1> QED
  BY <1>1, <1>5, <1>6, <1>7, RestKept DEF IInv

LEMMA HistoryStep ==
    ASSUME IInv, LoopHead \/ Rotate \/ append_history_csv
    PROVE  IInv'
<1>1. UNCHANGED Rest /\ UNCHANGED now
  BY DEF LoopHead, Rotate, append_history_csv, Rest, saveVars, guiVars
<1>2. TypeOK /\ HistoryInv
  BY DEF IInv
<1>3. /\ now \in Nat /\ now \in 0 .. MaxTicks /\ last_rotation \in Nat /\ last_rotation <= now
      /\ Second(now) \in Nat /\ Second(last_rotation) \in Nat /\ Second(last_rotation) <= Second(now)
  <2>1. now \in Nat /\ now \in 0 .. MaxTicks /\ last_rotation \in Nat /\ last_rotation <= now
    BY <1>2, FilesAssumption DEF TypeOK, HistoryInv
  <2> QED
    BY <2>1, SecondFacts
<1>4. Len(history) \in Nat /\ \A i \in 1 .. Len(history) : history[i] \in Nat
  BY <1>2, Stamps
<1>5. CASE LoopHead
  <2>1. UNCHANGED <<last_rotation, history>> /\ agg' \in {"rotate", "done"}
    BY <1>5 DEF LoopHead
  <2>2. TypeOK'
    BY <1>1, <1>2, <2>1 DEF TypeOK, Rest
  <2>3. HistoryInv'
    BY <1>1, <1>2, <2>1 DEF HistoryInv
  <2> QED
    BY <1>1, <2>2, <2>3, RestKept DEF IInv
<1>6. CASE Rotate
  <2>1. UNCHANGED history /\ agg' \in {"append", "head"}
    BY <1>6 DEF Rotate
  <2>2. CASE rotation_due
    <3>1. agg' = "append" /\ last_rotation' = now /\ last_rotation + TicksPerSecond <= now
      BY <1>3, <1>6, <2>2, FilesAssumption DEF Rotate, rotation_due
    <3>2. Second(last_rotation) < Second(now)
      BY <1>3, <3>1, SecondFacts
    <3>3. TypeOK'
      BY <1>1, <1>2, <2>1, <3>1 DEF TypeOK, Rest
    <3>4. \A i \in 1 .. Len(history) : i < Len(history) => history[i] < Second(now)
      BY <1>2, <1>3, <1>4, <3>2 DEF HistoryInv
    <3>5. HistoryInv'
      BY <1>1, <1>2, <1>3, <1>4, <2>1, <3>1, <3>4 DEF HistoryInv
    <3> QED
      BY <1>1, <3>3, <3>5, RestKept DEF IInv
  <2>3. CASE ~rotation_due
    <3>1. agg' = "head" /\ UNCHANGED last_rotation
      BY <1>6, <2>3 DEF Rotate
    <3>2. TypeOK'
      BY <1>1, <1>2, <2>1, <3>1 DEF TypeOK, Rest
    <3>3. HistoryInv'
      BY <1>1, <1>2, <2>1, <3>1 DEF HistoryInv
    <3> QED
      BY <1>1, <3>2, <3>3, RestKept DEF IInv
  <2> QED
    BY <2>2, <2>3
<1>7. CASE append_history_csv
  <2>1. agg = "append" /\ agg' = "head" /\ UNCHANGED last_rotation
    BY <1>7 DEF append_history_csv
  <2>2. CASE history' = history
    <3>1. TypeOK'
      BY <1>1, <1>2, <2>1, <2>2 DEF TypeOK, Rest
    <3>2. HistoryInv'
      BY <1>1, <1>2, <2>1, <2>2 DEF HistoryInv
    <3> QED
      BY <1>1, <3>1, <3>2, RestKept DEF IInv
  <2>3. CASE history' = Append(history, Second(now))
    <3> DEFINE n == Len(history)
    <3>1. Second(now) \in Names /\ history \in Seq(Names)
      BY <1>2, <1>3, NameFacts DEF TypeOK
    <3>2. /\ history' \in Seq(Names) /\ Len(history') = n + 1 /\ history'[n + 1] = Second(now)
          /\ \A i \in 1 .. n : history'[i] = history[i]
      BY <2>3, <3>1
    <3>3. TypeOK'
      BY <1>1, <1>2, <2>1, <3>2 DEF TypeOK, Rest
    <3>4. /\ \A i, j \in 1 .. n : i <= j => history[i] <= history[j]
          /\ \A i, j \in 1 .. n : i + 2 <= j => history[i] < history[j]
          /\ \A i \in 1 .. n : history[i] <= Second(now)
          /\ \A i \in 1 .. n : history[i] <= Second(last_rotation)
          /\ \A i \in 1 .. n : i < n => history[i] < Second(last_rotation)
      BY <1>2, <2>1 DEF HistoryInv
    <3>5. n \in Nat /\ \A i \in 1 .. n : history[i] \in Nat
      BY <1>4
    <3> HIDE DEF n
    <3>6. \A i \in 1 .. n + 1 : i \in 1 .. n \/ i = n + 1
      BY <3>5
    <3>7. \A i, j \in 1 .. n + 1 : i <= j => history'[i] <= history'[j]
      BY <1>3, <3>2, <3>4, <3>5, <3>6
    <3>8. \A i, j \in 1 .. n + 1 : i + 2 <= j => history'[i] < history'[j]
      <4> SUFFICES ASSUME NEW i \in 1 .. n + 1, NEW j \in 1 .. n + 1, i + 2 <= j
                   PROVE  history'[i] < history'[j]
        OBVIOUS
      <4>1. i \in 1 .. n /\ i < n
        BY <3>5
      <4>2. CASE j = n + 1
        BY <1>3, <3>2, <3>4, <3>5, <4>1, <4>2
      <4>3. CASE j \in 1 .. n
        BY <3>2, <3>4, <4>1, <4>3
      <4> QED
        BY <3>6, <4>2, <4>3
    <3>9. /\ \A i \in 1 .. n + 1 : history'[i] <= Second(now)
          /\ \A i \in 1 .. n + 1 : i < n + 1 => history'[i] <= Second(last_rotation)
      BY <1>3, <3>2, <3>4, <3>5, <3>6
    <3>10. HistoryInv'
      BY <1>1, <1>3, <2>1, <3>2, <3>7, <3>8, <3>9 DEF HistoryInv
    <3> QED
      BY <1>1, <3>3, <3>10, RestKept DEF IInv
  <2> QED
    BY <1>7, <2>2, <2>3 DEF append_history_csv
<1> QED
  BY <1>5, <1>6, <1>7

-----------------------------------------------------------------------------
(* The theorems.                                                           *)

LEMMA IInvInit == Init => IInv
<1> SUFFICES ASSUME Init PROVE IInv
  OBVIOUS
<1>1. life = [t \in Threads |-> "unborn"] /\ open = TRUE
  BY DEF Init, S!Init
<1>2. open \in BOOLEAN
  BY <1>1, Zenon
<1>3. TypeOK
  <2>1. 0 \in 0 .. MaxTicks /\ 0 \in 0 .. MaxPackets /\ 0 \in 0 .. FlushEvery /\ 0 \in 0 .. LastCell
    BY FilesAssumption, LastCellNat
  <2>2. \A n \in Names : files[n] = None
    BY DEF Init
  <2>3. history \in Seq(Names)
    BY DEF Init
  <2> QED
    BY <1>1, <1>2, <2>1, <2>2, <2>3 DEF Init, TypeOK, S!Lives, LastCell
<1>4. \A t \in Threads : ~Records(t) /\ ~Started(t) /\ life[t] = "unborn"
  BY <1>1 DEF Init, Records, Started
<1>5. OrderInv /\ ActiveOwns
  BY <1>4 DEF Init, OrderInv, ActiveOwns, Active
<1>6. TimeInv
  BY <1>4 DEF Init, TimeInv
<1>7. FileInv
  BY <1>4 DEF Init, FileInv, Owner
<1>8. FlushInv
  BY <1>4 DEF Init, FlushInv, CellsPerPacket
<1>9. PathInv
  BY DEF Init, PathInv
<1>10. HistoryInv
  BY DEF Init, HistoryInv
<1> QED
  BY <1>3, <1>5, <1>6, <1>7, <1>8, <1>9, <1>10 DEF IInv

LEMMA IInvStep == IInv /\ [Next]_vars => IInv'
<1> SUFFICES ASSUME IInv, [Next]_vars PROVE IInv'
  OBVIOUS
<1>1. CASE UNCHANGED vars
  <2>1. UNCHANGED Rest /\ UNCHANGED <<now, agg, last_rotation, history>>
    BY <1>1 DEF vars, Rest, saveVars, guiVars, historyVars
  <2>2. TypeOK' /\ HistoryInv'
    BY <2>1 DEF IInv, TypeOK, HistoryInv, Rest
  <2> QED
    BY <2>1, <2>2, RestKept DEF IInv
<1>2. ASSUME NEW t \in Threads,
             start_capture(t) \/ stop_capture(t) \/ Write(t) \/ Flush(t) \/ Spill(t) \/ EndThread(t)
      PROVE  IInv'
  BY <1>2, StartStep, StopStep, WriteStep, FlushStep, SpillStep, EndThreadStep
<1>3. CASE start_capture_fails
  BY <1>3, FailStep
<1>4. CASE Close
  BY <1>4, CloseStep
<1>5. CASE LoopHead \/ Rotate \/ append_history_csv
  BY <1>5, HistoryStep
<1>6. CASE Tick
  BY <1>6, TickStep
<1> QED
  BY <1>1, <1>2, <1>3, <1>4, <1>5, <1>6, Zenon DEF Next

\* Every reachable state of the session and its files satisfies the inductive
\* invariant.
THEOREM Invariant == Spec => []IInv
BY IInvInit, IInvStep, PTL DEF Spec

\* Every variable keeps its type; a recording never has more cells than its
\* thread has written.
THEOREM TypeCorrect == Spec => []TypeOK
<1>1. IInv => TypeOK
  BY DEF IInv
<1> QED
  BY Invariant, <1>1, PTL

LEMMA PrefixFacts ==
    ASSUME NEW t \in Threads, NEW n \in 0 .. LastCell, NEW m \in 0 .. n
    PROVE  IsPrefix(Beginning(t, m), Beginning(t, n))
<1>1. m \in Nat /\ n \in Nat /\ m <= n /\ m \in 0 .. LastCell
  BY LastCellNat
<1>2. /\ Len(Beginning(t, m)) = m /\ Len(Beginning(t, n)) = n
      /\ \A i \in 1 .. m : Beginning(t, m)[i] = <<t, i>>
      /\ \A i \in 1 .. n : Beginning(t, n)[i] = <<t, i>>
      /\ Beginning(t, m) \in Seq(Cells) /\ Beginning(t, n) \in Seq(Cells)
  BY <1>1, BeginningFacts
<1> DEFINE a == Beginning(t, m)
           b == Beginning(t, n)
<1> HIDE DEF a, b
<1>3. /\ a \in Seq(Cells) /\ b \in Seq(Cells) /\ Len(a) = m /\ Len(b) = n
      /\ \A i \in 1 .. m : a[i] = <<t, i>> /\ b[i] = <<t, i>>
  BY <1>1, <1>2 DEF a, b
<1>4. SubSeq(a, 1, m) = [i \in 1 .. m |-> a[i]] /\ SubSeq(b, 1, m) = [i \in 1 .. m |-> b[i]]
  BY <1>1, <1>3
<1>5. SubSeq(a, 1, m) = SubSeq(b, 1, m)
  BY <1>3, <1>4
<1> QED
  BY <1>1, <1>3, <1>5 DEF IsPrefix, a, b

\* What an owner has on disk.
LEMMA OwnerFacts ==
    ASSUME IInv, NEW t \in Threads, Owner(t)
    PROVE  /\ IsPrefix(files[recording[t]], Recorded(t))
           /\ Len(files[recording[t]]) = on_disk[t]
           /\ life[t] = "ended" => files[recording[t]] = Recorded(t) /\ on_disk[t] = Len(Recorded(t))
<1> DEFINE n == 1 + CellsPerPacket * written[t]
<1>1. written[t] \in Nat /\ on_disk[t] \in 0 .. n /\ n \in 0 .. LastCell /\ on_disk[t] \in 0 .. LastCell
  BY Numbers, LastCellNat DEF CellsPerPacket
<1>2. Recorded(t) = Beginning(t, n) /\ Len(Recorded(t)) = n
  BY <1>1, StreamFacts DEF Recorded
<1>3. files[recording[t]] = Beginning(t, on_disk[t])
  BY DEF IInv, FileInv
<1>4. life[t] = "ended" => on_disk[t] = n
  BY DEF IInv, FlushInv, Owner
<1> HIDE DEF n
<1>5. IsPrefix(Beginning(t, on_disk[t]), Beginning(t, n)) /\ Len(Beginning(t, on_disk[t])) = on_disk[t]
  BY <1>1, PrefixFacts, BeginningFacts
<1> QED
  BY <1>2, <1>3, <1>4, <1>5

\* What is not on disk in full is at most what a flush takes.
LEMMA LossBounded ==
    ASSUME IInv, NEW t \in Threads
    PROVE  written[t] - Saved(t) <= FlushEvery
<1> DEFINE w == written[t]
           p == packets_since_flush[t]
           x == Max({on_disk[t], 1}) - 1
<1>1. /\ w \in Nat /\ p \in Nat /\ p <= FlushEvery /\ on_disk[t] \in Nat /\ FlushEvery \in Nat
      /\ p <= w /\ (p < w => on_disk[t] >= 1 + 2 * (w - p))
  BY Numbers DEF IInv, FlushInv, CellsPerPacket
<1>2. x \in Nat /\ x >= on_disk[t] - 1
  <2>1. CASE on_disk[t] <= 1
    BY <1>1, <2>1, MaxFacts
  <2>2. CASE 1 <= on_disk[t]
    <3>1. {on_disk[t], 1} = {1, on_disk[t]}
      OBVIOUS
    <3> QED
      BY <1>1, <2>2, <3>1, MaxFacts
  <2> QED
    BY <1>1, <2>1, <2>2
<1>3. Saved(t) = x \div 2
  BY DEF Saved, CellsPerPacket
<1> HIDE DEF w, p, x
<1>4. x \div 2 \in Nat /\ x < 2 * (x \div 2) + 2
  BY <1>2, Division
<1>5. w - x \div 2 <= FlushEvery
  BY <1>1, <1>2, <1>4
<1> QED
  BY <1>3, <1>5 DEF w

\* run_capture_loop and start_capture: for any number of captures and threads
\* that outlive their join, a recording that no later capture of the same
\* second has replaced is an unbroken beginning of what the capture read,
\* lacks at most the packets of a flush, and is whole once the thread ended.
THEOREM RecordingsAreKept == Spec => []RecordingsKept
<1>1. ASSUME IInv PROVE RecordingsKept
  <2> SUFFICES ASSUME NEW t \in Threads, recording[t] # None,
                      \A u \in Threads : u > t => recording[u] # recording[t]
               PROVE  /\ IsPrefix(files[recording[t]], Recorded(t))
                      /\ Len(files[recording[t]]) = on_disk[t]
                      /\ written[t] - Saved(t) <= FlushEvery
                      /\ life[t] = "ended" => on_disk[t] = Len(Recorded(t))
    BY DEF RecordingsKept
  <2>1. Owner(t)
    BY DEF Owner, Records, Threads
  <2> QED
    BY <1>1, <2>1, OwnerFacts, LossBounded
<1> QED
  BY Invariant, <1>1, PTL

\* export_pcap: at any moment the exported file is an unbroken beginning of a
\* single recording, that of the current capture if it records, and whole if
\* that capture has ended.
THEOREM ExportsOwn == Spec => []ExportIsOwn
<1>1. ASSUME IInv PROVE ExportIsOwn
  <2> SUFFICES ASSUME export_pcap # None
               PROVE  \E t \in Threads :
                        /\ IsPrefix(export_pcap, Recorded(t))
                        /\ recording[current] # None => t = current
                        /\ t = current /\ life[t] = "ended" => export_pcap = Recorded(t)
    BY DEF ExportIsOwn
  <2>1. /\ capture_recording_path \in Names /\ capture_recording_path # None
        /\ export_pcap = files[capture_recording_path]
    BY <1>1 DEF IInv, TypeOK, export_pcap
  <2>2. current \in Threads
    BY <1>1, <2>1 DEF IInv, TypeOK, PathInv
  <2>3. CASE recording[current] # None
    <3>1. Owner(current) /\ recording[current] = capture_recording_path
      <4>1. recording[current] = capture_recording_path /\ \A u \in Threads : current < u => ~Started(u)
        BY <1>1, <2>1, <2>3 DEF IInv, PathInv, Records
      <4>2. \A u \in Threads : current < u => recording[u] = None
        BY <1>1, <4>1 DEF IInv, OrderInv
      <4> QED
        BY <2>3, <4>1, <4>2 DEF Owner, Records
    <3> QED
      BY <1>1, <2>1, <2>2, <3>1, OwnerFacts
  <2>4. CASE recording[current] = None
    <3>1. PICK t \in Threads : Owner(t) /\ recording[t] = capture_recording_path
      BY <1>1, <2>1 DEF IInv, FileInv
    <3>2. t # current
      BY <2>1, <2>4, <3>1
    <3> QED
      BY <1>1, <2>1, <2>4, <3>1, <3>2, OwnerFacts
  <2> QED
    BY <2>3, <2>4
<1> QED
  BY Invariant, <1>1, PTL

\* In the order of the stamps as well, no three batches share a second: the
\* history is in order already, so that three rows of the export with one
\* stamp would be three batches of the history, two of them not neighbours.
LEMMA SortedSpread ==
    ASSUME IInv
    PROVE  BatchesSpread
<1> DEFINE N == DOMAIN history
           p == Sorting(history)
<1>1. Len(history) \in Nat /\ N = 1 .. Len(history) /\ \A i \in N : history[i] \in Nat
  BY Stamps DEF IInv, TypeOK
<1>2. /\ \A i, j \in N : i <= j => history[i] <= history[j]
      /\ \A i, j \in N : i + 2 <= j => history[i] < history[j]
  BY <1>1 DEF IInv, HistoryInv
<1>3. \E q \in Bijection(N, N) : \A i, j \in N : i < j => history[q[i]] <= history[q[j]]
  <2> DEFINE id == [i \in N |-> i]
  <2>1. id \in Bijection(N, N)
    BY DEF Bijection, Injection, Surjection, IsInjective
  <2>2. \A i, j \in N : i < j => history[id[i]] <= history[id[j]]
    BY <1>1, <1>2
  <2> HIDE DEF id
  <2> QED
    BY <2>1, <2>2
<1>4. p \in Bijection(N, N) /\ \A i, j \in N : i < j => history[p[i]] <= history[p[j]]
  BY <1>3 DEF Sorting
<1>5. /\ \A i \in N : p[i] \in N
      /\ \A i, j \in N : p[i] = p[j] => i = j
  BY <1>4 DEF Bijection, Injection, IsInjective
<1>6. DOMAIN export_csv = N /\ \A i \in N : export_csv[i] = history[p[i]]
  BY DEF export_csv
<1> HIDE DEF N, p
<1>7. ASSUME NEW i \in N, NEW j \in N, i + 2 <= j
      PROVE  history[p[i]] < history[p[j]]
  <2>1. i + 1 \in N /\ i < i + 1 /\ i + 1 < j /\ i \in Nat /\ j \in Nat
    BY <1>1, <1>7
  <2> DEFINE a == p[i]
             b == p[i + 1]
             c == p[j]
  <2>2. /\ a \in N /\ b \in N /\ c \in N /\ a # b /\ b # c /\ a # c
        /\ a \in Nat /\ b \in Nat /\ c \in Nat
    BY <1>1, <1>5, <1>7, <2>1
  <2>3. history[a] <= history[b] /\ history[b] <= history[c]
    BY <1>4, <1>7, <2>1
  <2>4. history[a] \in Nat /\ history[b] \in Nat /\ history[c] \in Nat
    BY <1>1, <2>2
  <2> HIDE DEF a, b, c
  <2>5. SUFFICES ASSUME history[a] = history[b], history[b] = history[c]
                 PROVE  FALSE
    BY <2>3, <2>4 DEF a, b, c
  <2>6. \E x, y \in {a, b, c} : x + 2 <= y
    BY <2>2
  <2>7. PICK x \in {a, b, c}, y \in {a, b, c} : x + 2 <= y
    BY <2>6
  <2> QED
    BY <1>2, <2>2, <2>4, <2>5, <2>7
<1> QED
  BY <1>6, <1>7 DEF BatchesSpread

\* rotate_histories_if_due, append_history_csv and export_csv: however late the
\* aggregator runs, at most two exported batches carry the same second.
THEOREM BatchesStaySpread == Spec => []BatchesSpread
<1>1. IInv => BatchesSpread
  BY SortedSpread
<1> QED
  BY Invariant, <1>1, PTL

=============================================================================
