--------------------------- MODULE CaptureSession ---------------------------
(***************************************************************************)
(* The life of capture threads: the GUI thread that starts, stops,         *)
(* restarts and joins them, the capture threads themselves, the aggregator *)
(* thread at the other end of the flow channel, and the channels between   *)
(* them.                                                                   *)
(*                                                                         *)
(* A capture thread is told to stop in three ways (its running flag, a     *)
(* Stop command, the disconnection of its command channel) and reports     *)
(* through a status channel that all capture threads of the process share. *)
(* The GUI joins a thread for a limited time only: a thread may outlive    *)
(* its session.                                                            *)
(*                                                                         *)
(* One GUI frame is: drain the status channel, then handle at most one     *)
(* click.  The status texts without effect on the program ("Capturing on", *)
(* "BPF error", "PCAP recording disabled") are left out.                   *)
(***************************************************************************)
EXTENDS Naturals, Sequences

CONSTANTS
    MaxThreads,     \* bound on the capture threads of a behaviour
    Capacity,       \* capacity of the flow channel (1024 in the code)
    Filters,        \* BPF expressions the user may apply
    NoFilter,       \* no expression
    MaxCommands,    \* bound on the pending commands of a thread
    JoinTimeouts,   \* whether a join may time out
    ResolverFails   \* whether the aggregator's resolver may fail to start

ASSUME ThreadsAssumption == MaxThreads \in Nat
ASSUME CapacityAssumption == Capacity \in Nat \ {0}
ASSUME CommandsAssumption == MaxCommands \in Nat
ASSUME FilterAssumption == NoFilter \notin Filters /\ Filters \cap {"stop", "stopped"} = {}
ASSUME SwitchAssumption == JoinTimeouts \in BOOLEAN /\ ResolverFails \in BOOLEAN

Threads == 1 .. MaxThreads
None == 0

VARIABLES
    gui,              \* where the GUI thread is
    joining,          \* the capture thread the GUI is joining, or None
    after,            \* what the GUI does after the join
    capture_control,  \* the thread whose control the GUI holds, or None
    capture_running,  \* the thread whose flag the GUI holds, or None
    is_capturing,
    active_filter,
    status_rx,        \* the status channel: applied filters and "stopped"
    app_running,
    started,          \* number of threads spawned so far
    pc,               \* where each capture thread is
    running,          \* the running flag of each capture thread
    commands,         \* the command channel of each capture thread
    filter,           \* the filter on the pcap handle of each thread
    flow,             \* number of records in the flow channel
    agg               \* where the aggregator thread is

guiVars == <<gui, joining, after, capture_control, capture_running, is_capturing,
             active_filter, app_running, started>>
threadVars == <<pc, running, commands, filter>>
vars == <<guiVars, threadVars, status_rx, flow, agg>>

TypeOK ==
    /\ gui \in {"drain", "ui", "join", "join_aggregator", "gone"}
    /\ joining \in Threads \cup {None}
    /\ after \in {"drain", "stop", "restart", "drop"}
    /\ capture_control \in Threads \cup {None}
    /\ capture_running \in Threads \cup {None}
    /\ is_capturing \in BOOLEAN
    /\ active_filter \in Filters \cup {NoFilter}
    /\ status_rx \in Seq(Filters \cup {"stopped"})
    /\ app_running \in BOOLEAN
    /\ started \in 0 .. MaxThreads
    /\ pc \in [Threads -> {"unborn", "check", "commands", "report", "read", "send", "failed",
                        "done"}]
    /\ running \in [Threads -> BOOLEAN]
    /\ commands \in [Threads -> Seq(Filters \cup {"stop"})]
    /\ filter \in [Threads -> Filters \cup {NoFilter}]
    /\ flow \in 0 .. Capacity
    /\ agg \in {"init", "check", "recv", "drain", "done"}

Init ==
    /\ gui = "drain"
    /\ joining = None
    /\ after = "drain"
    /\ capture_control = None
    /\ capture_running = None
    /\ is_capturing = FALSE
    /\ active_filter = NoFilter
    /\ status_rx = <<>>
    /\ app_running = TRUE
    /\ started = 0
    /\ pc = [t \in Threads |-> "unborn"]
    /\ running = [t \in Threads |-> FALSE]
    /\ commands = [t \in Threads |-> <<>>]
    /\ filter = [t \in Threads |-> NoFilter]
    /\ flow = 0
    /\ agg = "init"

-----------------------------------------------------------------------------
(* Capture threads.                                                        *)

\* The sender of t's command channel is alive: the GUI holds its control, or
\* still has it on the stack while joining.
Connected(t) == t \in {capture_control, joining}

\* Mutated form: the flag is not looked at.
SkipFlag(t) ==
    /\ pc[t] = "check"
    /\ pc' = [pc EXCEPT ![t] = "commands"]
    /\ UNCHANGED <<guiVars, running, commands, filter, status_rx, flow, agg>>

\* The head of the loop of run_capture_loop.
CheckFlag(t) ==
    /\ pc[t] = "check"
    /\ pc' = [pc EXCEPT ![t] = IF running[t] THEN "commands" ELSE "done"]
    /\ UNCHANGED <<guiVars, running, commands, filter, status_rx, flow, agg>>

\* Mutated form: a rejected filter is reported as applied.
HandleFilterUnchecked(t) ==
    /\ pc[t] = "commands"
    /\ commands[t] # <<>>
    /\ Head(commands[t]) \in Filters
    /\ commands' = [commands EXCEPT ![t] = Tail(commands[t])]
    /\ filter' \in {filter, [filter EXCEPT ![t] = Head(commands[t])]}
    /\ status_rx' = Append(status_rx, Head(commands[t]))
    /\ UNCHANGED <<guiVars, pc, running, flow, agg>>

\* handle_pending_commands: one command.  A filter that does not compile
\* leaves the old one in place.
HandleFilter(t) ==
    /\ pc[t] = "commands"
    /\ commands[t] # <<>>
    /\ Head(commands[t]) \in Filters
    /\ commands' = [commands EXCEPT ![t] = Tail(commands[t])]
    /\ \/ /\ filter' = [filter EXCEPT ![t] = Head(commands[t])]
          /\ pc' = [pc EXCEPT ![t] = "report"]
       \/ UNCHANGED <<filter, pc>>
    /\ UNCHANGED <<guiVars, running, status_rx, flow, agg>>

\* The filter that was put on the handle is reported.
ReportFilter(t) ==
    /\ pc[t] = "report"
    /\ pc' = [pc EXCEPT ![t] = "commands"]
    /\ status_rx' = Append(status_rx, filter[t])
    /\ UNCHANGED <<guiVars, running, commands, filter, flow, agg>>

HandleStop(t) ==
    /\ pc[t] = "commands"
    /\ commands[t] # <<>>
    /\ Head(commands[t]) = "stop"
    /\ pc' = [pc EXCEPT ![t] = "done"]
    /\ UNCHANGED <<guiVars, running, commands, filter, status_rx, flow, agg>>

\* No command is left: the loop goes on unless the channel is disconnected.
HandleNone(t) ==
    /\ pc[t] = "commands"
    /\ commands[t] = <<>>
    /\ pc' = [pc EXCEPT ![t] = IF Connected(t) THEN "read" ELSE "done"]
    /\ UNCHANGED <<guiVars, running, commands, filter, status_rx, flow, agg>>

\* next_packet returns a packet that parses, or nothing to forward.
ReadPacket(t) ==
    /\ pc[t] = "read"
    /\ pc' \in {[pc EXCEPT ![t] = "send"], [pc EXCEPT ![t] = "check"]}
    /\ UNCHANGED <<guiVars, running, commands, filter, status_rx, flow, agg>>

\* next_packet fails: the thread clears its own flag.
ReadError(t) ==
    /\ pc[t] = "read"
    /\ pc' = [pc EXCEPT ![t] = "failed"]
    /\ running' = [running EXCEPT ![t] = FALSE]
    /\ UNCHANGED <<guiVars, commands, filter, status_rx, flow, agg>>

\* Mutated form: the thread ends without a report.
EndUnreported(t) ==
    /\ pc[t] = "failed"
    /\ pc' = [pc EXCEPT ![t] = "done"]
    /\ UNCHANGED <<guiVars, running, commands, filter, status_rx, flow, agg>>

\* The failure is reported, and the thread ends.
ReportFailure(t) ==
    /\ pc[t] = "failed"
    /\ pc' = [pc EXCEPT ![t] = "done"]
    /\ status_rx' = Append(status_rx, "stopped")
    /\ UNCHANGED <<guiVars, running, commands, filter, flow, agg>>

\* Mutated form: an unbounded channel.
SendUnbounded(t) ==
    /\ pc[t] = "send"
    /\ \/ /\ agg # "done"
          /\ flow' = flow + 1
          /\ pc' = [pc EXCEPT ![t] = "check"]
       \/ /\ agg = "done"
          /\ pc' = [pc EXCEPT ![t] = "done"]
          /\ UNCHANGED flow
    /\ UNCHANGED <<guiVars, running, commands, filter, status_rx, agg>>

\* Mutated form: the thread waits for room for ever.
SendWaits(t) ==
    /\ pc[t] = "send"
    /\ agg # "done"
    /\ flow < Capacity
    /\ flow' = flow + 1
    /\ pc' = [pc EXCEPT ![t] = "check"]
    /\ UNCHANGED <<guiVars, running, commands, filter, status_rx, agg>>

\* flow_sender.send waits for room; when the receiver is gone the thread ends
\* without a report.
SendRecord(t) ==
    /\ pc[t] = "send"
    /\ \/ /\ agg # "done"
          /\ flow < Capacity
          /\ flow' = flow + 1
          /\ pc' = [pc EXCEPT ![t] = "check"]
       \/ /\ agg = "done"
          /\ pc' = [pc EXCEPT ![t] = "done"]
          /\ UNCHANGED flow
    /\ UNCHANGED <<guiVars, running, commands, filter, status_rx, agg>>

CaptureStep(t) ==
    \/ CheckFlag(t)
    \/ HandleFilter(t)
    \/ ReportFilter(t)
    \/ HandleStop(t)
    \/ HandleNone(t)
    \/ ReadPacket(t)
    \/ ReadError(t)
    \/ ReportFailure(t)
    \/ SendRecord(t)

-----------------------------------------------------------------------------
(* The aggregator thread, as the consumer of the flow channel.             *)

\* Returning from run_aggregator_loop drops the receiver and what it holds.
AggregatorEnds == agg' = "done" /\ flow' = 0

Aggregator_init ==
    /\ agg = "init"
    /\ \/ agg' = "check" /\ UNCHANGED flow
       \/ ResolverFails /\ AggregatorEnds
    /\ UNCHANGED <<guiVars, threadVars, status_rx>>

\* Mutated form: the loop does not look at app_running.
Aggregator_forever ==
    /\ agg = "check"
    /\ agg' = "recv"
    /\ UNCHANGED <<guiVars, threadVars, status_rx, flow>>

Aggregator_check ==
    /\ agg = "check"
    /\ IF app_running THEN agg' = "recv" /\ UNCHANGED flow ELSE AggregatorEnds
    /\ UNCHANGED <<guiVars, threadVars, status_rx>>

\* recv_timeout: a record, or the timeout of an empty channel.
Aggregator_recv ==
    /\ agg = "recv"
    /\ IF flow > 0 THEN agg' = "drain" /\ flow' = flow - 1
                   ELSE agg' = "check" /\ UNCHANGED flow
    /\ UNCHANGED <<guiVars, threadVars, status_rx>>

\* try_recv until the channel is empty; app_running is not looked at.
Aggregator_drain ==
    /\ agg = "drain"
    /\ IF flow > 0 THEN flow' = flow - 1 /\ UNCHANGED agg
                   ELSE agg' = "check" /\ UNCHANGED flow
    /\ UNCHANGED <<guiVars, threadVars, status_rx>>

AggregatorStep ==
    Aggregator_init \/ Aggregator_check \/ Aggregator_recv \/ Aggregator_drain

-----------------------------------------------------------------------------
(* The GUI thread.                                                         *)

\* start_capture after its guard: a new flag, then a new thread; without the
\* thread (the interface cannot be opened) the flag is nobody's.
start_capture ==
    \/ /\ started < MaxThreads
       /\ started' = started + 1
       /\ capture_control' = started'
       /\ capture_running' = started'
       /\ is_capturing' = TRUE
       /\ pc' = [pc EXCEPT ![started'] = "check"]
       /\ running' = [running EXCEPT ![started'] = TRUE]
    \/ /\ capture_control' = None
       /\ capture_running' = None
       /\ is_capturing' = FALSE
       /\ UNCHANGED <<started, pc, running>>

\* Mutated form: the flag is left alone.
KeepFlag == running

\* capture_running.store(false)
ClearFlag == [t \in Threads |-> running[t] /\ t # capture_running]

\* control.stop(): the send fails when the thread is gone.
SendStop ==
    [t \in Threads |-> IF t = capture_control /\ pc[t] # "done"
                       THEN Append(commands[t], "stop") ELSE commands[t]]

\* capture_control.take() and join_timeout.
TakeAndJoin(cont) ==
    /\ gui' = "join"
    /\ joining' = capture_control
    /\ after' = cont
    /\ capture_control' = None

\* update_status_from_channel: one message.
DrainFilter ==
    /\ gui = "drain"
    /\ status_rx # <<>>
    /\ Head(status_rx) \in Filters
    /\ active_filter' = Head(status_rx)
    /\ status_rx' = Tail(status_rx)
    /\ UNCHANGED <<gui, joining, after, capture_control, capture_running, is_capturing,
                   app_running, started, threadVars, flow, agg>>

\* Mutated form: the control is taken but is_capturing stays.
DrainStoppedKeepsCapturing ==
    /\ gui = "drain"
    /\ status_rx # <<>>
    /\ Head(status_rx) = "stopped"
    /\ status_rx' = Tail(status_rx)
    /\ running' = ClearFlag
    /\ IF capture_control # None
       THEN TakeAndJoin("drain")
       ELSE UNCHANGED <<gui, joining, after, capture_control>>
    /\ UNCHANGED <<capture_running, is_capturing, active_filter, app_running, started, pc,
                   commands, filter, flow, agg>>

DrainStopped ==
    /\ gui = "drain"
    /\ status_rx # <<>>
    /\ Head(status_rx) = "stopped"
    /\ status_rx' = Tail(status_rx)
    /\ is_capturing' = FALSE
    /\ running' = ClearFlag
    /\ IF capture_control # None
       THEN TakeAndJoin("drain")
       ELSE UNCHANGED <<gui, joining, after, capture_control>>
    /\ UNCHANGED <<capture_running, active_filter, app_running, started, pc, commands,
                   filter, flow, agg>>

DrainEnds ==
    /\ gui = "drain"
    /\ status_rx = <<>>
    /\ gui' = "ui"
    /\ UNCHANGED <<joining, after, capture_control, capture_running, is_capturing,
                   active_filter, app_running, started, threadVars, status_rx, flow, agg>>

\* A frame without a click on the capture controls.
IdleFrame ==
    /\ gui = "ui"
    /\ gui' = "drain"
    /\ UNCHANGED <<joining, after, capture_control, capture_running, is_capturing,
                   active_filter, app_running, started, threadVars, status_rx, flow, agg>>

ClickStart ==
    /\ gui = "ui"
    /\ ~is_capturing
    /\ start_capture
    /\ gui' = "drain"
    /\ UNCHANGED <<joining, after, active_filter, app_running, commands, filter,
                   status_rx, flow, agg>>

\* stop_capture up to its join; an interface change stops and then restarts a
\* running capture.
StopAndJoin(cont) ==
    /\ gui = "ui"
    /\ is_capturing
    /\ running' = ClearFlag
    /\ commands' = SendStop
    /\ TakeAndJoin(cont)
    /\ UNCHANGED <<capture_running, is_capturing, active_filter, app_running, started,
                   pc, filter, status_rx, flow, agg>>

ClickStop == StopAndJoin("stop")
ChangeInterface == StopAndJoin("restart")

\* apply_bpf_filter with a non-empty expression.
ApplyFilter(f) ==
    /\ gui = "ui"
    /\ capture_control # None
    /\ IF pc[capture_control] = "done"
       THEN UNCHANGED commands
       ELSE /\ Len(commands[capture_control]) < MaxCommands
            /\ commands' = [commands EXCEPT ![capture_control] = Append(@, f)]
    /\ gui' = "drain"
    /\ UNCHANGED <<joining, after, capture_control, capture_running, is_capturing,
                   active_filter, app_running, started, pc, running, filter, status_rx,
                   flow, agg>>

\* The window is closed: Drop up to the join of the capture thread.
CloseWindow ==
    /\ gui = "ui"
    /\ running' = ClearFlag
    /\ app_running' = FALSE
    /\ commands' = SendStop
    /\ IF capture_control # None
       THEN TakeAndJoin("drop")
       ELSE gui' = "join_aggregator" /\ UNCHANGED <<joining, after, capture_control>>
    /\ UNCHANGED <<capture_running, is_capturing, active_filter, started, pc, filter,
                   status_rx, flow, agg>>

\* join_timeout returns: the thread has ended or the time is over.  Either way
\* the control is dropped, and the caller goes on.
JoinReturns ==
    /\ gui = "join"
    /\ pc[joining] = "done" \/ JoinTimeouts
    /\ joining' = None
    /\ \/ /\ after = "drain"
          /\ gui' = "drain"
          /\ UNCHANGED <<capture_control, capture_running, is_capturing, started, pc, running>>
       \/ /\ after = "stop"
          /\ gui' = "drain"
          /\ is_capturing' = FALSE
          /\ UNCHANGED <<capture_control, capture_running, started, pc, running>>
       \/ /\ after = "restart"
          /\ gui' = "drain"
          /\ start_capture
       \/ /\ after = "drop"
          /\ gui' = "join_aggregator"
          /\ UNCHANGED <<capture_control, capture_running, is_capturing, started, pc, running>>
    /\ UNCHANGED <<after, active_filter, app_running, commands, filter, status_rx, flow, agg>>

\* The rest of Drop: join the aggregator, flush the rules (see Controller).
JoinAggregator ==
    /\ gui = "join_aggregator"
    /\ agg = "done" \/ JoinTimeouts
    /\ gui' = "gone"
    /\ UNCHANGED <<joining, after, capture_control, capture_running, is_capturing,
                   active_filter, app_running, started, threadVars, status_rx, flow, agg>>

GuiStep ==
    \/ DrainFilter \/ DrainStopped \/ DrainEnds
    \/ IdleFrame \/ ClickStart \/ ClickStop \/ ChangeInterface
    \/ \E f \in Filters : ApplyFilter(f)
    \/ CloseWindow \/ JoinReturns \/ JoinAggregator

\* NetmonApp is gone and the process is about to exit; until then the threads
\* that were not joined may still take steps.
Ended == gui = "gone" /\ UNCHANGED vars

-----------------------------------------------------------------------------

Next ==
    \/ GuiStep
    \/ AggregatorStep
    \/ \E t \in Threads : CaptureStep(t)
    \/ Ended

Spec == Init /\ [][Next]_vars

\* The GUI waits for a thread, and only a timeout lets it go on.
Waiting ==
    \/ gui = "join" /\ pc[joining] # "done"
    \/ gui = "join_aggregator" /\ agg # "done"

\* The operating system runs every thread, eframe repaints at least every
\* UI_REPAINT_INTERVAL_MS and next_packet returns within its read timeout.  Of
\* two threads that wait for room in the flow channel none is passed over for
\* ever.  A join may time out, but nothing relies on it.
Fairness ==
    /\ WF_vars(~Waiting /\ GuiStep)
    /\ WF_vars(AggregatorStep)
    /\ \A t \in Threads : WF_vars(CaptureStep(t)) /\ SF_vars(SendRecord(t))

FairSpec == Spec /\ Fairness

-----------------------------------------------------------------------------
(* Properties.                                                             *)

Live(t) == pc[t] \notin {"unborn", "done"}

\* Between two handlers the GUI shows a capture exactly when it holds the
\* control of a thread, over all orders of starts, stops, restarts, failures
\* and timeouts (start_capture, stop_capture, update_status_from_channel).
CapturingHasControl ==
    gui \in {"drain", "ui"} => (is_capturing <=> capture_control # None)

\* During the first capture, once every applied filter has been reported and
\* read from the status channel, the label shows the filter that is on the pcap
\* handle, whichever expressions were rejected (handle_pending_commands,
\* update_status_from_channel).
FilterLabelAccurate ==
    started = 1 /\ pc[1] # "report" /\ status_rx = <<>> => active_filter = filter[1]

\* Joining never freezes the GUI, even if no join times out: a thread that
\* is told to stop ends, also one that waits for room in the flow channel or
\* whose aggregator is gone.
GuiNeverFreezes == []<>(gui \in {"ui", "gone"})

\* Closing the window ends the process with no worker left, even if no join
\* times out: the capture thread and the aggregator do not wait for each
\* other (Drop, drain_flow_channel).
ShutdownCompletes ==
    ~app_running ~> gui = "gone" /\ agg = "done" /\ \A t \in Threads : ~Live(t)

\* While the aggregator runs, a capture that ended is eventually shown as
\* stopped or replaced by a live one, unless the window is closed first.
DeathIsShown ==
    (is_capturing /\ capture_control # None /\ pc[capture_control] = "done" /\ agg # "done")
       ~> \/ ~is_capturing
          \/ capture_control # None /\ Live(capture_control)
          \/ ~app_running

-----------------------------------------------------------------------------
(* The session as the user may rely on it.                                 *)

Abstract == INSTANCE Session WITH
    life <- [t \in Threads |-> IF pc[t] = "unborn" THEN "unborn"
                               ELSE IF pc[t] = "done" THEN "ended"
                               ELSE IF running[t] THEN "capturing" ELSE "dismissed"],
    open <- app_running

\* With its flags, channels and joins that may time out, the program is a
\* session: at most one thread captures, one that was told to stop never
\* captures again, and nothing is started after the window was closed
\* (start_capture, stop_capture, Drop; specified by Session).
ImplementsSession == Abstract!Spec

\* And every thread that was told to stop does end, also one that outlives its
\* join and runs beside its successor, whether it waits for a packet or for room
\* in the flow channel, and whether or not the aggregator is still there
\* (join_timeout, run_capture_loop).
DismissedThreadsEnd == Abstract!DismissedEnd

-----------------------------------------------------------------------------
(* What the documentation and comments say that the code does not keep.    *)

\* "transition UI state to stopped when capture thread reports failure": the
\* capture that the GUI stops is the one that failed.
OnlyFailedCaptureStops ==
    [][gui = "drain" /\ is_capturing /\ ~is_capturing' => pc[capture_control] = "done"]_vars

=============================================================================
