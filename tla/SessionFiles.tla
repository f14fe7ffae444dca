---------------------------- MODULE SessionFiles ----------------------------
(***************************************************************************)
(* What a session leaves on disk: a recording for each capture, the PCAP   *)
(* and CSV exports, and the history of the aggregator.                     *)
(*                                                                         *)
(* Capture threads live as Session says (CaptureSession implements it).    *)
(* To that this module adds the clock, since recordings are named by the   *)
(* second they start in and a join gives up after JoinSeconds; the stdio   *)
(* buffer between a thread and its file, as external code; and the files.  *)
(* A file is a sequence of cells.  The first cell a thread writes is the   *)
(* file header, and a packet has CellsPerPacket cells, so that a buffer    *)
(* can reach the disk in the middle of a packet.                           *)
(*                                                                         *)
(* The system clock and the monotonic clock are one here: a clock that is  *)
(* set back by hand is left out, and so is a disk that is full.            *)
(***************************************************************************)
EXTENDS Integers, SequencesExt

CONSTANTS
    MaxThreads,      \* capture threads ever started
    TicksPerSecond,  \* ticks of the clock in a second
    MaxTicks,        \* bound of the clock
    JoinSeconds,     \* THREAD_JOIN_TIMEOUT_SECS
    FlushEvery,      \* packets between two flushes of a recording
    MaxPackets,      \* packets a thread reads
    None

CellsPerPacket == 2

ASSUME FilesAssumption ==
    /\ MaxThreads \in Nat /\ MaxTicks \in Nat /\ MaxPackets \in Nat
    /\ TicksPerSecond \in Nat \ {0}
    /\ JoinSeconds \in Nat \ {0}
    /\ FlushEvery \in Nat \ {0}
    /\ None \notin Int

Threads == 1 .. MaxThreads
Second(tick) == tick \div TicksPerSecond
Names == 0 .. Second(MaxTicks)

VARIABLES
    life, open,               \* the capture threads and the window, as in Session
    now,                      \* the clock
    left,                     \* when the GUI began to wait for a dismissed thread
    recording,                \* the name of each thread's savefile
    written,                  \* packets given to the savefile
    packets_since_flush,
    on_disk,                  \* cells of the savefile that have left the buffer
    files,                    \* the recordings on disk
    capture_recording_path,   \* the recording that export_pcap copies
    current,                  \* the thread that path was made for
    agg,                      \* where the aggregator is in its loop
    last_rotation,
    history                   \* session_history: the time stamps of its batches of rows

S == INSTANCE Session

saveVars == <<recording, written, packets_since_flush, on_disk, files>>
guiVars == <<left, capture_recording_path, current>>
historyVars == <<agg, last_rotation, history>>
vars == <<life, open, now, saveVars, guiVars, historyVars>>

Hole == <<0, 0>>
Cells == {Hole} \cup (Threads \X (1 .. (1 + CellsPerPacket * MaxPackets)))

TypeOK ==
    /\ life \in [Threads -> S!Lives]
    /\ open \in BOOLEAN
    /\ now \in 0 .. MaxTicks
    /\ left \in [Threads -> 0 .. MaxTicks]
    /\ recording \in [Threads -> Names \cup {None}]
    /\ written \in [Threads -> 0 .. MaxPackets]
    /\ packets_since_flush \in [Threads -> 0 .. FlushEvery]
    /\ on_disk \in [Threads -> 0 .. (1 + CellsPerPacket * MaxPackets)]
    /\ \A n \in Names : files[n] = None \/ files[n] \in Seq(Cells)
    /\ capture_recording_path \in Names \cup {None}
    /\ current \in Threads \cup {None}
    /\ agg \in {"head", "rotate", "append", "done"}
    /\ last_rotation \in 0 .. MaxTicks
    /\ history \in Seq(Names)

Init ==
    /\ S!Init
    /\ now = 0
    /\ left = [t \in Threads |-> 0]
    /\ recording = [t \in Threads |-> None]
    /\ written = [t \in Threads |-> 0]
    /\ packets_since_flush = [t \in Threads |-> 0]
    /\ on_disk = [t \in Threads |-> 0]
    /\ files = [n \in Names |-> None]
    /\ capture_recording_path = None
    /\ current = None
    \* Without the resolver, or without the history file, no row is kept.
    /\ agg \in {"head", "done"}
    /\ last_rotation = 0
    /\ history = <<>>

-----------------------------------------------------------------------------
(* Recordings.                                                             *)

\* The cells t has given to its savefile once it has written n packets, the
\* file header first.
Stream(t, n) == [i \in 1 .. (1 + CellsPerPacket * n) |-> <<t, i>>]

\* File f after cells first .. last of thread t are written at their offset:
\* a file that was truncated meanwhile is extended with a hole.
WriteAt(f, t, first, last) ==
    [i \in 1 .. Max({Len(f), last}) |->
        IF i \in first .. last THEN <<t, i>> ELSE IF i <= Len(f) THEN f[i] ELSE Hole]

\* The cells of t up to last reach the disk.
Drain(t, last) ==
    /\ on_disk' = [on_disk EXCEPT ![t] = last]
    /\ files' = [files EXCEPT ![recording[t]] = WriteAt(@, t, on_disk[t] + 1, last)]

\* Mutated form: one packet more than the bound.
flush_due_late(n) == n > FlushEvery

flush_due(n) == n >= FlushEvery

\* next_packet returns a packet, which is written to the savefile.  A thread
\* that was dismissed may do so before it looks at its flag.
Write(t) ==
    /\ life[t] \in {"capturing", "dismissed"}
    /\ recording[t] # None
    /\ written[t] < MaxPackets
    /\ ~flush_due(packets_since_flush[t])
    /\ written' = [written EXCEPT ![t] = @ + 1]
    /\ packets_since_flush' = [packets_since_flush EXCEPT ![t] = @ + 1]
    /\ UNCHANGED <<life, open, now, recording, on_disk, files, guiVars, historyVars>>

\* The flush after every FlushEvery packets.
Flush(t) ==
    /\ life[t] \in {"capturing", "dismissed"}
    /\ recording[t] # None
    /\ flush_due(packets_since_flush[t])
    /\ packets_since_flush' = [packets_since_flush EXCEPT ![t] = 0]
    /\ Drain(t, Len(Stream(t, written[t])))
    /\ UNCHANGED <<life, open, now, recording, written, guiVars, historyVars>>

\* The buffer of the savefile is full: its oldest cell goes to the disk.
Spill(t) ==
    /\ life[t] \in {"capturing", "dismissed"}
    /\ recording[t] # None
    /\ on_disk[t] < Len(Stream(t, written[t]))
    /\ Drain(t, on_disk[t] + 1)
    /\ UNCHANGED <<life, open, now, recording, written, packets_since_flush, guiVars,
                   historyVars>>

\* Mutated form: the loop is left without the last flush.
EndThreadUnflushed(t) ==
    /\ S!End(t)
    /\ ~flush_due(packets_since_flush[t])
    /\ UNCHANGED <<now, saveVars, guiVars, historyVars>>

\* run_capture_loop returns, because it was told to or after a read error.
EndThread(t) ==
    /\ S!End(t)
    /\ ~flush_due(packets_since_flush[t])
    /\ IF recording[t] # None THEN Drain(t, Len(Stream(t, written[t])))
                              ELSE UNCHANGED <<on_disk, files>>
    /\ UNCHANGED <<now, recording, written, packets_since_flush, guiVars, historyVars>>

-----------------------------------------------------------------------------
(* The GUI.                                                                *)

\* Mutated form: the join does not wait.
no_join_timeout == TRUE

\* join_timeout has returned: the GUI is blocked while it waits for the thread
\* it dismissed, and gives up after JoinSeconds.
join_timeout ==
    \A t \in Threads : life[t] = "dismissed" => now >= left[t] + JoinSeconds * TicksPerSecond

\* spawn_capture_thread: the savefile truncates a recording of the same name;
\* when it cannot be created, the capture goes on without it.
spawn_capture_thread(t, name) ==
    /\ S!Start(t)
    /\ \A u \in Threads : u < t => life[u] # "unborn"
    /\ \/ /\ recording' = [recording EXCEPT ![t] = name]
          /\ files' = [files EXCEPT ![name] = <<>>]
       \/ UNCHANGED <<recording, files>>

\* The path is kept whether or not the thread records.
start_capture(t) ==
    /\ join_timeout
    /\ spawn_capture_thread(t, Second(now))
    /\ capture_recording_path' = Second(now)
    /\ current' = t
    /\ UNCHANGED <<now, left, written, packets_since_flush, on_disk, historyVars>>

\* start_capture cannot open the interface.
start_capture_fails ==
    /\ join_timeout
    /\ open
    /\ S!Capturing = {}
    /\ capture_recording_path' = None
    /\ current' = None
    /\ UNCHANGED <<life, open, now, left, saveVars, historyVars>>

\* stop_capture up to its join.
stop_capture(t) ==
    /\ join_timeout
    /\ open
    /\ S!Dismiss(t)
    /\ left' = [left EXCEPT ![t] = now]
    /\ UNCHANGED <<now, capture_recording_path, current, saveVars, historyVars>>

\* The window is closed: drop dismisses the capture.
Close ==
    /\ join_timeout
    /\ S!Close
    /\ left' = [t \in Threads |-> IF life[t] = "capturing" THEN now ELSE left[t]]
    /\ UNCHANGED <<now, capture_recording_path, current, saveVars, historyVars>>

\* The file that export_pcap makes: a copy of the recording as it is on disk.
\* The export changes nothing else.
export_pcap ==
    IF capture_recording_path = None THEN None ELSE files[capture_recording_path]

-----------------------------------------------------------------------------
(* The history of the aggregator.                                          *)

\* The head of run_aggregator_loop.
LoopHead ==
    /\ agg = "head"
    /\ agg' = IF open THEN "rotate" ELSE "done"
    /\ UNCHANGED <<life, open, now, saveVars, guiVars, last_rotation, history>>

\* Mutated form: histories rotate whenever the loop comes by.
rotation_always_due == TRUE

rotation_due == now - last_rotation >= TicksPerSecond

\* rotate_histories_if_due
Rotate ==
    /\ agg = "rotate"
    /\ IF rotation_due THEN agg' = "append" /\ last_rotation' = now
                       ELSE agg' = "head" /\ UNCHANGED last_rotation
    /\ UNCHANGED <<life, open, now, saveVars, guiVars, history>>

\* append_history_csv stamps one row for each thread with the second of its
\* own call; without threads there is no row.
append_history_csv ==
    /\ agg = "append"
    /\ agg' = "head"
    /\ history' \in {history, Append(history, Second(now))}
    /\ UNCHANGED <<life, open, now, saveVars, guiVars, last_rotation>>

\* A permutation that puts the numbers of s in order.
Sorting(s) ==
    CHOOSE p \in Bijection(DOMAIN s, DOMAIN s) :
        \A i, j \in DOMAIN s : i < j => s[p[i]] <= s[p[j]]

\* The rows that export_csv writes, in the order of their time stamps; a write
\* that fails leaves a beginning of them.
export_csv ==
    LET p == Sorting(history) IN [i \in DOMAIN history |-> history[p[i]]]

-----------------------------------------------------------------------------
Tick ==
    /\ now < MaxTicks
    /\ now' = now + 1
    /\ UNCHANGED <<life, open, saveVars, guiVars, historyVars>>

Next ==
    \/ \E t \in Threads :
        start_capture(t) \/ stop_capture(t) \/ Write(t) \/ Flush(t) \/ Spill(t) \/ EndThread(t)
    \/ start_capture_fails \/ Close
    \/ LoopHead \/ Rotate \/ append_history_csv
    \/ Tick

Spec == Init /\ [][Next]_vars

-----------------------------------------------------------------------------
(* Properties.                                                             *)

Recorded(t) == Stream(t, written[t])

\* A PCAP exported at any moment is an unbroken beginning of the recording of
\* a single capture: never a mix of two, never with a hole.  It is the
\* capture that the path was made for if that one records, and it is the
\* whole recording if the capture has ended.  Names of one second do not
\* break this, because a capture that outlives its join is followed by a
\* start JoinSeconds later, under another name (stop_capture, start_capture,
\* export_pcap).
ExportIsOwn ==
    join_timeout /\ open /\ export_pcap # None =>
        \E t \in Threads :
            /\ IsPrefix(export_pcap, Recorded(t))
            /\ recording[current] # None => t = current
            /\ t = current /\ life[t] = "ended" => export_pcap = Recorded(t)

\* Packets of t that are on disk in full.
Saved(t) == (Max({on_disk[t], 1}) - 1) \div CellsPerPacket

\* A recording is kept unless a later capture has started in the same second.
\* The file is an unbroken beginning of what the capture has read; a crash at
\* any moment loses at most FlushEvery packets of it (that many when it comes
\* between a write and the flush that is due), and once the capture has ended
\* the file is whole (the flushes of run_capture_loop, the file name of
\* start_capture).
RecordingsKept ==
    \A t \in Threads :
        (recording[t] # None /\ \A u \in Threads : u > t => recording[u] # recording[t]) =>
            /\ IsPrefix(files[recording[t]], Recorded(t))
            /\ Len(files[recording[t]]) = on_disk[t]
            /\ written[t] - Saved(t) <= FlushEvery
            /\ life[t] = "ended" => on_disk[t] = Len(Recorded(t))

\* At most two batches of exported history rows carry the same second.  Two
\* may: a row is stamped after the rotation, and the stamp of a delayed batch
\* can fall into the second of the next (rotate_histories_if_due,
\* append_history_csv, export_csv).
BatchesSpread ==
    LET stamps == export_csv
    IN  \A i, j \in DOMAIN stamps : i + 2 <= j => stamps[i] < stamps[j]

=============================================================================
