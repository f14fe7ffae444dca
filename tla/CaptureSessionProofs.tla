------------------------ MODULE CaptureSessionProofs ------------------------
(***************************************************************************)
(* Proofs about CaptureSession, for every number of capture threads, every *)
(* capacity of the flow channel and every set of filters.                  *)
(***************************************************************************)
EXTENDS CaptureSession, TLAPS

\* The threads spawned so far, and whose flag may still be set.
ThreadInv ==
    /\ \A t \in Threads : pc[t] = "unborn" <=> t > started
    /\ \A t \in Threads : running[t] => t = capture_control
    /\ capture_control # None => capture_control = capture_running

\* What the GUI knows, also in the middle of a handler that joins a thread.
GuiInv ==
    /\ gui = "join" => capture_control = None /\ (after = "drain" => ~is_capturing)
    /\ ~app_running => \/ gui \in {"join_aggregator", "gone"}
                       \/ gui = "join" /\ after = "drop"

\* With messages s in the status channel and this label, f is what the GUI
\* shows once it has drained the channel: the last filter in it.
Shows(s, label, f) ==
    \/ /\ \A k \in 1 .. Len(s) : s[k] \notin Filters
       /\ label = f
    \/ \E k \in 1 .. Len(s) :
          /\ s[k] \in Filters /\ s[k] = f
          /\ \A m \in k + 1 .. Len(s) : s[m] \notin Filters

LabelInv ==
    /\ started = 0 => status_rx = <<>> /\ active_filter = NoFilter
    /\ \A t \in Threads : t > started => filter[t] = NoFilter
    /\ \A t \in Threads : pc[t] = "report" => filter[t] \in Filters
    /\ started = 1 /\ pc[1] # "report" => Shows(status_rx, active_filter, filter[1])

\* The inductive invariant.
IInv == TypeOK /\ ThreadInv /\ GuiInv /\ CapturingHasControl /\ LabelInv

-----------------------------------------------------------------------------
(* The status channel.                                                     *)

Messages == Filters \cup {"stopped"}

\* A filter that is appended is the one that will be shown.
LEMMA AppendFilter ==
    ASSUME NEW s \in Seq(Messages), NEW label, NEW f \in Filters
    PROVE  Shows(Append(s, f), label, f)
<1>1. Len(Append(s, f)) = Len(s) + 1 /\ Append(s, f)[Len(s) + 1] = f /\ Len(s) \in Nat
  BY DEF Messages
<1> QED
  BY <1>1 DEF Shows

\* Any other message leaves open what will be shown.
LEMMA AppendStopped ==
    ASSUME NEW s \in Seq(Messages), NEW label, NEW f, Shows(s, label, f)
    PROVE  Shows(Append(s, "stopped"), label, f)
<1> DEFINE n == Len(s)
           r == Append(s, "stopped")
<1>1. /\ Len(r) = n + 1 /\ r[n + 1] = "stopped" /\ n \in Nat
      /\ \A k \in 1 .. n : r[k] = s[k]
  BY DEF Messages
<1>2. "stopped" \notin Filters
  BY FilterAssumption
<1> HIDE DEF n, r
<1>3. CASE (\A k \in 1 .. n : s[k] \notin Filters) /\ label = f
  BY <1>1, <1>2, <1>3 DEF Shows
<1>4. ASSUME NEW k \in 1 .. n, s[k] \in Filters, s[k] = f,
             \A m \in k + 1 .. n : s[m] \notin Filters
      PROVE  Shows(r, label, f)
  BY <1>1, <1>2, <1>4 DEF Shows
<1> QED
  BY <1>3, <1>4 DEF Shows, n, r

\* Taking a message from the channel into the label leaves it open as well.
LEMMA TakeMessage ==
    ASSUME NEW s \in Seq(Messages), NEW label, NEW f, Shows(s, label, f), s # <<>>
    PROVE  Shows(Tail(s), IF Head(s) \in Filters THEN Head(s) ELSE label, f)
<1> DEFINE n == Len(s)
           r == Tail(s)
           shown == IF Head(s) \in Filters THEN Head(s) ELSE label
<1>1. /\ n \in Nat \ {0} /\ Len(r) = n - 1 /\ Head(s) = s[1]
      /\ \A k \in 1 .. n - 1 : r[k] = s[k + 1]
  BY DEF Messages
<1>2. shown = IF s[1] \in Filters THEN s[1] ELSE label
  BY <1>1
<1> SUFFICES Shows(r, shown, f)
  OBVIOUS
<1> HIDE DEF n, r, shown
<1>5. ASSUME shown = f, \A m \in 2 .. n : s[m] \notin Filters
      PROVE  Shows(r, shown, f)
  <2>1. ASSUME NEW m \in 1 .. Len(r) PROVE r[m] \notin Filters
    <3>1. m \in 1 .. n - 1 /\ m + 1 \in 2 .. n
      BY <1>1
    <3> QED
      BY <1>1, <1>5, <3>1
  <2> QED
    BY <1>5, <2>1 DEF Shows
<1>3. CASE (\A k \in 1 .. n : s[k] \notin Filters) /\ label = f
  <2>1. shown = f
    BY <1>1, <1>2, <1>3
  <2>2. \A m \in 2 .. n : s[m] \notin Filters
    BY <1>1, <1>3
  <2> QED
    BY <1>5, <2>1, <2>2
<1>4. ASSUME NEW k \in 1 .. n, s[k] \in Filters, s[k] = f,
             \A m \in k + 1 .. n : s[m] \notin Filters
      PROVE  Shows(r, shown, f)
  <2>1. CASE k = 1
    <3>1. shown = f
      BY <1>2, <1>4, <2>1
    <3>2. \A m \in 2 .. n : s[m] \notin Filters
      BY <1>1, <1>4, <2>1
    <3> QED
      BY <1>5, <3>1, <3>2
  <2>2. CASE k # 1
    <3>1. k - 1 \in 1 .. n - 1 /\ r[k - 1] = f /\ f \in Filters
      BY <1>1, <1>4, <2>2
    <3>2. ASSUME NEW m \in (k - 1) + 1 .. n - 1
          PROVE  r[m] \notin Filters
      <4>1. m \in 1 .. n - 1 /\ m + 1 \in k + 1 .. n
        BY <1>1, <2>2
      <4> QED
        BY <1>1, <1>4, <4>1
    <3> QED
      BY <1>1, <3>1, <3>2 DEF Shows
  <2> QED
    BY <2>1, <2>2
<1> QED
  BY <1>3, <1>4 DEF Shows, n

-----------------------------------------------------------------------------
(* The inductive invariant.                                                *)

LEMMA IInvInit == Init => IInv
<1> SUFFICES ASSUME Init PROVE IInv
  OBVIOUS
<1> USE ThreadsAssumption, CapacityAssumption DEF Init, Threads, None
<1>1. TypeOK
  <2>1. running \in [Threads -> BOOLEAN] /\ is_capturing \in BOOLEAN /\ app_running \in BOOLEAN
    BY Zenon
  <2>2. status_rx \in Seq(Filters \cup {"stopped"})
    OBVIOUS
  <2>3. commands \in [Threads -> Seq(Filters \cup {"stop"})]
    OBVIOUS
  <2>4. /\ started \in 0 .. MaxThreads
        /\ flow \in 0 .. Capacity
    OBVIOUS
  <2> HIDE DEF Threads
  <2> QED
    BY <2>1, <2>2, <2>3, <2>4 DEF TypeOK
<1>2. ThreadInv /\ GuiInv /\ CapturingHasControl /\ LabelInv
  BY DEF ThreadInv, GuiInv, CapturingHasControl, LabelInv
<1> QED
  BY <1>1, <1>2 DEF IInv

\* A capture thread goes on or ends without a word.
Moves(t) ==
    /\ pc[t] \notin {"unborn", "report"}
    /\ \E x \in {"check", "commands", "read", "send", "done"} : pc' = [pc EXCEPT ![t] = x]
    /\ flow' \in 0 .. Capacity
    /\ UNCHANGED <<guiVars, running, commands, filter, status_rx, agg>>

LEMMA MoveStep ==
    ASSUME IInv, NEW t \in Threads, Moves(t)
    PROVE  IInv'
<1> USE DEF IInv, Moves, guiVars
<1>1. TypeOK'
  BY DEF TypeOK
<1>2. ThreadInv'
  BY DEF TypeOK, ThreadInv
<1>3. GuiInv' /\ CapturingHasControl'
  BY DEF GuiInv, CapturingHasControl
<1>4. LabelInv'
  <2>1. \A u \in Threads : pc'[u] = "report" => pc[u] = "report"
    BY DEF TypeOK
  <2>2. \A u \in Threads : pc[u] = "report" => pc'[u] = "report"
    BY DEF TypeOK
  <2>3. started = 1 => 1 \in Threads
    BY ThreadsAssumption DEF TypeOK, Threads
  <2> QED
    BY <2>1, <2>2, <2>3 DEF LabelInv, Shows
<1> QED
  BY <1>1, <1>2, <1>3, <1>4

LEMMA MoveCases ==
    ASSUME IInv, NEW t \in Threads,
           CheckFlag(t) \/ HandleStop(t) \/ HandleNone(t) \/ ReadPacket(t) \/ SendRecord(t)
    PROVE  Moves(t)
<1> USE CapacityAssumption DEF IInv, TypeOK, Moves
<1>1. CASE CheckFlag(t)
  BY <1>1 DEF CheckFlag
<1>2. CASE HandleStop(t)
  BY <1>2 DEF HandleStop
<1>3. CASE HandleNone(t)
  BY <1>3 DEF HandleNone
<1>4. CASE ReadPacket(t)
  BY <1>4 DEF ReadPacket
<1>5. CASE SendRecord(t)
  BY <1>5 DEF SendRecord
<1> QED
  BY <1>1, <1>2, <1>3, <1>4, <1>5

LEMMA FilterStep ==
    ASSUME IInv, NEW t \in Threads, HandleFilter(t)
    PROVE  IInv'
<1> USE DEF IInv, HandleFilter, guiVars
<1> DEFINE f == Head(commands[t])
<1>1. f \in Filters /\ commands[t] \in Seq(Filters \cup {"stop"}) /\ commands[t] # <<>>
  BY DEF TypeOK
<1>2. Tail(commands[t]) \in Seq(Filters \cup {"stop"})
  BY <1>1
<1> HIDE DEF f
<1>4. TypeOK'
  <2>1. filter' \in [Threads -> Filters \cup {NoFilter}]
    BY <1>1 DEF TypeOK, f
  <2>2. commands' \in [Threads -> Seq(Filters \cup {"stop"})]
    BY <1>2 DEF TypeOK
  <2>3. pc' \in [Threads -> {"unborn", "check", "commands", "report", "read", "send", "failed",
                           "done"}]
    BY Zenon DEF TypeOK
  <2>4. UNCHANGED <<gui, joining, after, capture_control, capture_running, is_capturing,
                    active_filter, app_running, started, running, status_rx, flow, agg>>
    OBVIOUS
  <2> HIDE DEF HandleFilter
  <2> QED
    BY <2>1, <2>2, <2>3, <2>4 DEF TypeOK
<1>5. ThreadInv' /\ GuiInv' /\ CapturingHasControl'
  BY DEF ThreadInv, GuiInv, CapturingHasControl, TypeOK
<1>6. LabelInv'
  <2>1. t <= started /\ started # 0
    BY ThreadsAssumption DEF ThreadInv, TypeOK, Threads
  <2>2. CASE UNCHANGED <<filter, pc>>
    BY <2>2 DEF LabelInv
  <2>3. CASE filter' = [filter EXCEPT ![t] = f] /\ pc' = [pc EXCEPT ![t] = "report"]
    <3>1. \A u \in Threads : u > started => filter'[u] = NoFilter
      BY <2>1, <2>3, ThreadsAssumption DEF LabelInv, TypeOK, Threads
    <3>2. \A u \in Threads : pc'[u] = "report" => filter'[u] \in Filters
      BY <1>1, <2>3 DEF LabelInv, TypeOK
    <3>3. ASSUME started = 1 PROVE pc'[1] = "report"
      BY <2>1, <2>3, <3>3, ThreadsAssumption DEF Threads, TypeOK
    <3> QED
      BY <2>1, <3>1, <3>2, <3>3 DEF LabelInv
  <2> QED
    BY <2>2, <2>3 DEF f
<1> QED
  BY <1>4, <1>5, <1>6

LEMMA ReportFilterStep ==
    ASSUME IInv, NEW t \in Threads, ReportFilter(t)
    PROVE  IInv'
<1> USE DEF IInv, ReportFilter, guiVars
<1>1. filter[t] \in Filters /\ status_rx \in Seq(Messages)
  BY DEF LabelInv, TypeOK, Messages
<1>2. TypeOK'
  <2>1. status_rx' \in Seq(Messages)
    BY <1>1 DEF Messages
  <2> QED
    BY <2>1 DEF TypeOK, Messages
<1>3. ThreadInv' /\ GuiInv' /\ CapturingHasControl'
  BY DEF ThreadInv, GuiInv, CapturingHasControl, TypeOK
<1>4. LabelInv'
  <2>1. t <= started /\ started # 0
    BY ThreadsAssumption DEF ThreadInv, TypeOK, Threads
  <2>2. \A u \in Threads : pc'[u] = "report" => filter[u] \in Filters
    BY DEF LabelInv, TypeOK
  <2>3. ASSUME started = 1 PROVE Shows(status_rx', active_filter, filter[1])
    <3>1. t = 1
      BY <2>1, <2>3, ThreadsAssumption DEF Threads
    <3> QED
      BY <1>1, <3>1, AppendFilter
  <2> QED
    BY <2>1, <2>2, <2>3 DEF LabelInv
<1> QED
  BY <1>2, <1>3, <1>4

LEMMA ReadErrorStep ==
    ASSUME IInv, NEW t \in Threads, ReadError(t)
    PROVE  IInv'
<1> USE DEF IInv, ReadError, guiVars
<1>1. TypeOK'
  <2>1. running' \in [Threads -> BOOLEAN]
    BY Zenon DEF TypeOK
  <2> QED
    BY <2>1 DEF TypeOK
<1>2. ThreadInv'
  BY DEF TypeOK, ThreadInv
<1>3. GuiInv' /\ CapturingHasControl'
  BY DEF GuiInv, CapturingHasControl
<1>4. LabelInv'
  <2>1. \A u \in Threads : pc'[u] = "report" <=> pc[u] = "report"
    BY DEF TypeOK
  <2>2. started = 1 => 1 \in Threads
    BY ThreadsAssumption DEF TypeOK, Threads
  <2> QED
    BY <2>1, <2>2 DEF LabelInv
<1> QED
  BY <1>1, <1>2, <1>3, <1>4

LEMMA ReportFailureStep ==
    ASSUME IInv, NEW t \in Threads, ReportFailure(t)
    PROVE  IInv'
<1> USE DEF IInv, ReportFailure, guiVars
<1>1. TypeOK'
  <2>1. status_rx' \in Seq(Filters \cup {"stopped"})
    BY DEF TypeOK
  <2> QED
    BY <2>1 DEF TypeOK
<1>2. ThreadInv'
  BY DEF TypeOK, ThreadInv
<1>3. GuiInv' /\ CapturingHasControl'
  BY DEF GuiInv, CapturingHasControl
<1>4. LabelInv'
  <2>1. started # 0
    BY ThreadsAssumption DEF ThreadInv, TypeOK, Threads
  <2>2. \A u \in Threads : pc'[u] = "report" <=> pc[u] = "report"
    BY DEF TypeOK
  <2>3. ASSUME started = 1, pc'[1] # "report"
        PROVE  Shows(status_rx', active_filter, filter[1])
    <3>1. 1 \in Threads
      BY <2>3, ThreadsAssumption DEF TypeOK, Threads
    <3>2. Shows(status_rx, active_filter, filter[1]) /\ status_rx \in Seq(Messages)
      BY <2>2, <2>3, <3>1 DEF LabelInv, TypeOK, Messages
    <3> QED
      BY <3>2, AppendStopped
  <2> QED
    BY <2>1, <2>2, <2>3 DEF LabelInv
<1> QED
  BY <1>1, <1>2, <1>3, <1>4

LEMMA AggregatorStepKeeps ==
    ASSUME IInv, AggregatorStep
    PROVE  IInv'
<1>1. /\ agg' \in {"init", "check", "recv", "drain", "done"}
      /\ flow' \in 0 .. Capacity
      /\ UNCHANGED <<guiVars, threadVars, status_rx>>
  BY CapacityAssumption DEF IInv, TypeOK, AggregatorStep, Aggregator_init, Aggregator_check,
     Aggregator_recv, Aggregator_drain, AggregatorEnds
<1> QED
  BY <1>1 DEF IInv, TypeOK, ThreadInv, GuiInv, CapturingHasControl, LabelInv, Shows, guiVars,
     threadVars

LEMMA DrainFilterStep ==
    ASSUME IInv, DrainFilter
    PROVE  IInv'
<1> USE DEF IInv, DrainFilter, threadVars
<1>1. Tail(status_rx) \in Seq(Messages) /\ status_rx \in Seq(Messages)
  BY DEF TypeOK, Messages
<1>2. TypeOK'
  BY <1>1 DEF TypeOK, Messages
<1>3. ThreadInv' /\ GuiInv' /\ CapturingHasControl'
  BY DEF ThreadInv, GuiInv, CapturingHasControl
<1>4. LabelInv'
  <2>1. ASSUME started = 1, pc[1] # "report"
        PROVE  Shows(status_rx', active_filter', filter[1])
    BY <1>1, <2>1, TakeMessage DEF LabelInv
  <2> QED
    BY <2>1 DEF LabelInv
<1> QED
  BY <1>2, <1>3, <1>4

\* Clearing the flag that the GUI holds clears every flag.
LEMMA ClearFlagFacts ==
    ASSUME IInv
    PROVE  /\ ClearFlag \in [Threads -> BOOLEAN]
           /\ \A t \in Threads : ~ClearFlag[t]
<1>1. ClearFlag \in [Threads -> BOOLEAN]
  BY Zenon DEF ClearFlag
<1>2. ASSUME NEW t \in Threads
      PROVE  ~ClearFlag[t]
  <2>1. running[t] => t = capture_running
    BY ThreadsAssumption DEF IInv, ThreadInv, Threads, None
  <2>2. ClearFlag[t] = (running[t] /\ t # capture_running)
    BY Zenon DEF ClearFlag
  <2> QED
    BY <2>1, <2>2, Zenon
<1> QED
  BY <1>1, <1>2

LEMMA SendStopType ==
    ASSUME IInv
    PROVE  SendStop \in [Threads -> Seq(Filters \cup {"stop"})]
<1> SUFFICES ASSUME NEW t \in Threads
             PROVE  SendStop[t] \in Seq(Filters \cup {"stop"})
  BY DEF SendStop
<1>1. commands[t] \in Seq(Filters \cup {"stop"})
  BY DEF IInv, TypeOK
<1>2. Append(commands[t], "stop") \in Seq(Filters \cup {"stop"})
  BY <1>1
<1> QED
  BY <1>1, <1>2 DEF SendStop

LEMMA DrainStoppedStep ==
    ASSUME IInv, DrainStopped
    PROVE  IInv'
<1>1. ClearFlag \in [Threads -> BOOLEAN] /\ \A t \in Threads : ~ClearFlag[t]
  BY ClearFlagFacts
<1> USE DEF IInv, DrainStopped, TakeAndJoin
<1>2. Tail(status_rx) \in Seq(Messages) /\ status_rx \in Seq(Messages)
  BY DEF TypeOK, Messages
<1>3. TypeOK'
  <2>1. is_capturing' \in BOOLEAN
    BY Zenon
  <2> QED
    BY <1>1, <1>2, <2>1 DEF TypeOK, Messages
<1>4. ThreadInv'
  BY <1>1 DEF ThreadInv
<1>5. GuiInv' /\ CapturingHasControl'
  BY DEF GuiInv, CapturingHasControl
<1>6. LabelInv'
  <2>1. Head(status_rx) \notin Filters
    BY FilterAssumption
  <2>2. ASSUME started = 1, pc[1] # "report"
        PROVE  Shows(status_rx', active_filter, filter[1])
    BY <1>2, <2>1, <2>2, TakeMessage DEF LabelInv
  <2> QED
    BY <2>2 DEF LabelInv
<1> QED
  BY <1>3, <1>4, <1>5, <1>6

\* The GUI goes on without a change to anything else.
Frames ==
    /\ \/ gui \in {"drain", "ui"} /\ gui' \in {"drain", "ui"}
       \/ gui = "join_aggregator" /\ gui' = "gone"
       \/ gui' = gui
    /\ UNCHANGED <<joining, after, capture_control, capture_running, is_capturing,
                   active_filter, app_running, started, threadVars, status_rx, flow, agg>>

LEMMA FrameStep ==
    ASSUME IInv, Frames
    PROVE  IInv'
BY DEF Frames, IInv, TypeOK, ThreadInv, GuiInv, CapturingHasControl, LabelInv, threadVars

LEMMA FrameCases ==
    ASSUME DrainEnds \/ IdleFrame \/ JoinAggregator \/ Ended \/ UNCHANGED vars
    PROVE  Frames
BY DEF Frames, DrainEnds, IdleFrame, JoinAggregator, Ended, vars, guiVars, threadVars

\* start_capture when the GUI holds no control.
Starts ==
    /\ capture_control = None
    /\ app_running
    /\ start_capture
    /\ gui' = "drain"
    /\ joining' \in {joining, None}
    /\ UNCHANGED <<after, active_filter, app_running, commands, filter, status_rx, flow, agg>>

LEMMA StartStep ==
    ASSUME IInv, Starts
    PROVE  IInv'
<1> USE DEF IInv, Starts
<1>1. \A t \in Threads : ~running[t]
  BY ThreadsAssumption DEF ThreadInv, Threads, None
<1>2. CASE /\ started < MaxThreads
           /\ started' = started + 1
           /\ capture_control' = started'
           /\ capture_running' = started'
           /\ is_capturing' = TRUE
           /\ pc' = [pc EXCEPT ![started'] = "check"]
           /\ running' = [running EXCEPT ![started'] = TRUE]
  <2>1. started' \in Threads /\ started' # None /\ started \in Nat
    BY <1>2, ThreadsAssumption DEF TypeOK, Threads, None
  <2>2. running' \in [Threads -> BOOLEAN] /\ is_capturing' \in BOOLEAN
    BY <1>2, Zenon DEF TypeOK
  <2>3. TypeOK'
    <3>1. started' \in 0 .. MaxThreads
      BY <1>2, <2>1, ThreadsAssumption DEF Threads
    <3>2. pc' \in [Threads -> {"unborn", "check", "commands", "report", "read", "send", "failed",
                             "done"}]
      BY <1>2, <2>1, Zenon DEF TypeOK
    <3>3. joining' \in Threads \cup {None} /\ gui' = "drain"
      BY DEF TypeOK
    <3>4. capture_control' \in Threads \cup {None} /\ capture_running' \in Threads \cup {None}
      BY <1>2, <2>1
    <3>5. UNCHANGED <<after, active_filter, app_running, commands, filter, status_rx, flow, agg>>
      OBVIOUS
    <3> HIDE DEF Starts
    <3> QED
      BY <2>2, <3>1, <3>2, <3>3, <3>4, <3>5 DEF TypeOK
  <2>4. ThreadInv'
    <3>1. \A t \in Threads : running'[t] => t = started'
      BY <1>1, <1>2, <2>1 DEF TypeOK
    <3>2. \A t \in Threads : pc'[t] = "unborn" <=> t > started'
      <4> SUFFICES ASSUME NEW t \in Threads PROVE pc'[t] = "unborn" <=> t > started'
        OBVIOUS
      <4>1. pc'[t] = IF t = started' THEN "check" ELSE pc[t]
        BY <1>2, <2>1 DEF TypeOK
      <4>2. pc[t] = "unborn" <=> t > started
        BY DEF ThreadInv
      <4>3. t \in Nat
        BY ThreadsAssumption DEF Threads
      <4> QED
        BY <1>2, <2>1, <4>1, <4>2, <4>3
    <3> QED
      BY <1>2, <3>1, <3>2 DEF ThreadInv
  <2>5. GuiInv' /\ CapturingHasControl'
    BY <1>2, <2>1 DEF GuiInv, CapturingHasControl
  <2>6. LabelInv'
    <3>1. \A t \in Threads : t > started' => filter[t] = NoFilter
      BY <1>2, <2>1, ThreadsAssumption DEF LabelInv, Threads
    <3>2. ASSUME started' = 1
          PROVE  Shows(status_rx, active_filter, filter[1])
      <4>1. started = 0 /\ 1 \in Threads
        BY <1>2, <2>1, <3>2 DEF TypeOK
      <4>2. status_rx = <<>> /\ active_filter = NoFilter /\ filter[1] = NoFilter
        BY <4>1 DEF LabelInv
      <4> QED
        BY <4>2 DEF Shows
    <3>3. \A t \in Threads : pc'[t] = "report" => filter[t] \in Filters
      BY <1>2, <2>1 DEF LabelInv, TypeOK
    <3> QED
      BY <1>2, <2>1, <3>1, <3>2, <3>3 DEF LabelInv
  <2> QED
    BY <2>3, <2>4, <2>5, <2>6
<1>3. CASE /\ capture_control' = None
           /\ capture_running' = None
           /\ is_capturing' = FALSE
           /\ UNCHANGED <<started, pc, running>>
  <2>1. is_capturing' \in BOOLEAN
    BY <1>3, Zenon
  <2>2. TypeOK'
    BY <1>3, <2>1 DEF TypeOK
  <2>3. ThreadInv'
    BY <1>1, <1>3 DEF ThreadInv
  <2>4. GuiInv' /\ CapturingHasControl' /\ LabelInv'
    BY <1>3 DEF GuiInv, CapturingHasControl, LabelInv
  <2> QED
    BY <2>2, <2>3, <2>4
<1> QED
  BY <1>2, <1>3 DEF start_capture

LEMMA ClickStartCase ==
    ASSUME IInv, ClickStart
    PROVE  Starts
BY DEF IInv, ClickStart, Starts, CapturingHasControl, GuiInv

LEMMA StopStep ==
    ASSUME IInv, NEW cont \in {"stop", "restart"}, StopAndJoin(cont)
    PROVE  IInv'
<1>1. ClearFlag \in [Threads -> BOOLEAN] /\ \A t \in Threads : ~ClearFlag[t]
  BY ClearFlagFacts
<1>2. SendStop \in [Threads -> Seq(Filters \cup {"stop"})]
  BY SendStopType
<1> USE DEF IInv, StopAndJoin, TakeAndJoin
<1>3. TypeOK'
  BY <1>1, <1>2 DEF TypeOK
<1>4. ThreadInv'
  BY <1>1 DEF ThreadInv
<1>5. GuiInv' /\ CapturingHasControl' /\ LabelInv'
  BY DEF GuiInv, CapturingHasControl, LabelInv
<1> QED
  BY <1>3, <1>4, <1>5

LEMMA CloseStep ==
    ASSUME IInv, CloseWindow
    PROVE  IInv'
<1>1. ClearFlag \in [Threads -> BOOLEAN] /\ \A t \in Threads : ~ClearFlag[t]
  BY ClearFlagFacts
<1>2. SendStop \in [Threads -> Seq(Filters \cup {"stop"})]
  BY SendStopType
<1> USE DEF IInv, CloseWindow, TakeAndJoin
<1>3. TypeOK'
  <2>1. app_running' \in BOOLEAN
    BY Zenon
  <2> QED
    BY <1>1, <1>2, <2>1 DEF TypeOK
<1>4. ThreadInv'
  BY <1>1 DEF ThreadInv
<1>5. GuiInv' /\ CapturingHasControl' /\ LabelInv'
  BY DEF GuiInv, CapturingHasControl, LabelInv
<1> QED
  BY <1>3, <1>4, <1>5

LEMMA ApplyStep ==
    ASSUME IInv, NEW f \in Filters, ApplyFilter(f)
    PROVE  IInv'
<1> USE DEF IInv, ApplyFilter
<1>1. TypeOK'
  <2>1. commands' \in [Threads -> Seq(Filters \cup {"stop"})]
    <3>1. capture_control \in Threads
      BY DEF TypeOK
    <3>2. commands[capture_control] \in Seq(Filters \cup {"stop"})
      BY <3>1 DEF TypeOK
    <3>3. Append(commands[capture_control], f) \in Seq(Filters \cup {"stop"})
      BY <3>2
    <3> QED
      BY <3>1, <3>3 DEF TypeOK
  <2> QED
    BY <2>1 DEF TypeOK
<1>2. ThreadInv' /\ GuiInv' /\ CapturingHasControl' /\ LabelInv'
  BY DEF ThreadInv, GuiInv, CapturingHasControl, LabelInv
<1> QED
  BY <1>1, <1>2

LEMMA JoinStep ==
    ASSUME IInv, JoinReturns
    PROVE  IInv'
<1> USE DEF IInv, JoinReturns
<1>1. CASE after = "restart"
  <2>1. Starts
    BY <1>1 DEF GuiInv, Starts
  <2> QED
    BY <2>1, StartStep
<1>2. CASE after # "restart"
  <2>0. /\ UNCHANGED <<capture_control, capture_running, started, pc, running>>
        /\ gui' \in {"drain", "join_aggregator"} /\ gui = "join" /\ joining' = None
        /\ gui' = "drain" => after # "drop"
        /\ UNCHANGED <<after, active_filter, app_running, commands, filter, status_rx, flow, agg>>
    BY <1>2
  <2>1. is_capturing' = FALSE \/ is_capturing' = is_capturing
    BY <1>2
  <2>2. is_capturing' \in BOOLEAN
    BY <2>1, Zenon DEF TypeOK
  <2>3. after = "stop" => ~is_capturing'
    BY <1>2
  <2>4. TypeOK' /\ ThreadInv' /\ LabelInv'
    BY <2>0, <2>2 DEF TypeOK, ThreadInv, LabelInv
  <2>5. GuiInv' /\ CapturingHasControl'
    BY <1>2 DEF GuiInv, CapturingHasControl
  <2> QED
    BY <2>4, <2>5
<1> QED
  BY <1>1, <1>2

-----------------------------------------------------------------------------
(* The theorems.                                                           *)

LEMMA NextCases ==
    ASSUME IInv, [Next]_vars
    PROVE  \/ \E t \in Threads : \/ Moves(t) \/ HandleFilter(t) \/ ReportFilter(t)
                                 \/ ReadError(t) \/ ReportFailure(t)
           \/ AggregatorStep
           \/ DrainFilter \/ DrainStopped \/ Frames \/ Starts \/ CloseWindow \/ JoinReturns
           \/ \E cont \in {"stop", "restart"} : StopAndJoin(cont)
           \/ \E f \in Filters : ApplyFilter(f)
BY MoveCases, FrameCases, ClickStartCase, Zenon
   DEF Next, GuiStep, CaptureStep, ClickStop, ChangeInterface

LEMMA IInvStep ==
    ASSUME IInv, [Next]_vars
    PROVE  IInv'
BY NextCases, MoveStep, FilterStep, ReportFilterStep, ReadErrorStep, ReportFailureStep,
   AggregatorStepKeeps, DrainFilterStep, DrainStoppedStep, FrameStep, StartStep, CloseStep, JoinStep, StopStep, ApplyStep, Zenon

\* The inductive invariant holds in every reachable state, also in the middle
\* of a handler of the GUI that joins a thread.
THEOREM Invariant == Spec => []IInv
BY IInvInit, IInvStep, PTL DEF Spec

\* Every variable keeps its type: no more records are in the flow channel than
\* it has room for, and nothing but filters and reports in the status channel.
THEOREM TypeCorrect == Spec => []TypeOK
<1>1. IInv => TypeOK
  BY DEF IInv
<1> QED
  BY <1>1, Invariant, PTL

\* Between two handlers the GUI shows a capture exactly when it holds the
\* control of a thread (start_capture, stop_capture, update_status_from_channel),
\* for any number of threads.
THEOREM CapturingHoldsControl == Spec => []CapturingHasControl
<1>1. IInv => CapturingHasControl
  BY DEF IInv
<1> QED
  BY <1>1, Invariant, PTL

\* During the first capture the label agrees with the pcap handle whenever no
\* report is outstanding or unread, for any number of expressions
\* (apply_bpf_filter, handle_pending_commands, update_status_from_channel).
THEOREM LabelAccurate == Spec => []FilterLabelAccurate
<1>1. IInv => FilterLabelAccurate
  BY DEF IInv, LabelInv, FilterLabelAccurate, Shows
<1> QED
  BY <1>1, Invariant, PTL

-----------------------------------------------------------------------------
(* The refinement.                                                         *)

\* The life of each thread, as the session sees it.
Life ==
    [t \in Threads |-> IF pc[t] = "unborn" THEN "unborn"
                       ELSE IF pc[t] = "done" THEN "ended"
                       ELSE IF running[t] THEN "capturing" ELSE "dismissed"]

LEMMA SessionInit == Init => Abstract!Init
BY DEF Init, Abstract!Init

\* A thread that goes on has the same life, one that ends has ended.
LEMMA ThreadLife ==
    ASSUME IInv, NEW t \in Threads, CaptureStep(t)
    PROVE  Abstract!End(t) \/ Abstract!Dismiss(t) \/ UNCHANGED Abstract!vars
<1>1. ASSUME pc[t] \notin {"unborn", "done"}, pc' = [pc EXCEPT ![t] = "done"],
             running' = running, app_running' = app_running
      PROVE  Abstract!End(t)
  <2>1. Life[t] \in {"capturing", "dismissed"}
    BY <1>1 DEF Life
  <2>2. Life' = [Life EXCEPT ![t] = "ended"]
    BY <1>1 DEF Life, IInv, TypeOK
  <2> QED
    BY <1>1, <2>1, <2>2 DEF Abstract!End, Life
<1>2. ASSUME NEW x \in {"check", "commands", "report", "read", "send"}, pc[t] \notin {"unborn", "done"},
             pc' = [pc EXCEPT ![t] = x], running' = running, app_running' = app_running
      PROVE  UNCHANGED Abstract!vars
  <2>1. Life' = Life
    BY <1>2 DEF Life, IInv, TypeOK
  <2> QED
    BY <1>2, <2>1 DEF Abstract!vars, Life
<1>3. CASE HandleFilter(t) /\ pc' = pc
  BY <1>3 DEF HandleFilter, Abstract!vars, guiVars
<1>4. CASE \/ HandleFilter(t) /\ pc' # pc
           \/ ReportFilter(t) \/ CheckFlag(t) \/ HandleNone(t)
           \/ ReadPacket(t) \/ HandleStop(t) \/ SendRecord(t) \/ ReportFailure(t)
  <2>1. /\ pc[t] \notin {"unborn", "done"} /\ running' = running /\ app_running' = app_running
        /\ \E x \in {"check", "commands", "report", "read", "send", "done"} :
               pc' = [pc EXCEPT ![t] = x]
    BY <1>4 DEF HandleFilter, ReportFilter, CheckFlag, HandleNone, ReadPacket, HandleStop,
           SendRecord, ReportFailure, guiVars
  <2> QED
    BY <1>1, <1>2, <2>1
<1>5. CASE ReadError(t)
  <2>1. /\ pc[t] = "read" /\ pc' = [pc EXCEPT ![t] = "failed"] /\ app_running' = app_running
        /\ \A u \in Threads : running'[u] = IF u = t THEN FALSE ELSE running[u]
    BY <1>5 DEF ReadError, guiVars, IInv, TypeOK
  <2>2. Life' = [Life EXCEPT ![t] = "dismissed"]
    BY <2>1 DEF Life, IInv, TypeOK
  <2>3. CASE running[t]
    <3>1. Life[t] = "capturing"
      BY <2>1, <2>3 DEF Life
    <3> QED
      BY <2>1, <2>2, <3>1 DEF Abstract!Dismiss, Life
  <2>4. CASE ~running[t]
    <3>1. Life[t] = "dismissed"
      BY <2>1, <2>4 DEF Life
    <3>2. Life' = Life
      BY <2>2, <3>1 DEF Life
    <3> QED
      BY <2>1, <3>2 DEF Abstract!vars, Life
  <2> QED
    BY <2>3, <2>4
<1> QED
  BY <1>3, <1>4, <1>5 DEF CaptureStep

\* Clearing the flag dismisses the thread that captures, if one does.
LEMMA ClearFlagLife ==
    ASSUME IInv, running' = ClearFlag, pc' = pc
    PROVE  /\ Life' = [t \in Threads |-> IF Life[t] = "capturing" THEN "dismissed" ELSE Life[t]]
           /\ app_running' = app_running =>
                (\E t \in Threads : Abstract!Dismiss(t)) \/ UNCHANGED Abstract!vars
<1>1. \A t \in Threads : ~running'[t]
  BY ClearFlagFacts
<1>2. Life' = [t \in Threads |-> IF Life[t] = "capturing" THEN "dismissed" ELSE Life[t]]
  BY <1>1 DEF Life
<1>3. \A t, u \in Threads : Life[t] = "capturing" /\ Life[u] = "capturing" => t = u
  BY DEF Life, IInv, ThreadInv
<1>4. ASSUME NEW t \in Threads, Life[t] = "capturing", app_running' = app_running
      PROVE  Abstract!Dismiss(t)
  <2>1. Life' = [Life EXCEPT ![t] = "dismissed"]
    BY <1>2, <1>3, <1>4 DEF Life
  <2> QED
    BY <1>4, <2>1 DEF Abstract!Dismiss, Life
<1>5. ASSUME \A t \in Threads : Life[t] # "capturing", app_running' = app_running
      PROVE  UNCHANGED Abstract!vars
  <2>1. Life' = Life
    BY <1>2, <1>5 DEF Life
  <2> QED
    BY <1>5, <2>1 DEF Abstract!vars, Life
<1> QED
  BY <1>2, <1>4, <1>5

LEMMA StartLife ==
    ASSUME IInv, Starts
    PROVE  (\E t \in Threads : Abstract!Start(t)) \/ UNCHANGED Abstract!vars
<1>1. CASE UNCHANGED <<pc, running>>
  BY <1>1 DEF Starts, Abstract!vars
<1>2. CASE /\ started < MaxThreads
           /\ started' = started + 1
           /\ pc' = [pc EXCEPT ![started'] = "check"]
           /\ running' = [running EXCEPT ![started'] = TRUE]
  <2>1. PICK t \in Threads : t = started' /\ t > started
    BY <1>2, ThreadsAssumption DEF IInv, TypeOK, Threads
  <2>2. Life[t] = "unborn"
    BY <2>1 DEF Life, IInv, ThreadInv
  <2>3. \A u \in Threads : Life[u] # "capturing"
    BY ThreadsAssumption DEF Life, Starts, IInv, ThreadInv, Threads, None
  <2>4. Life' = [Life EXCEPT ![t] = "capturing"]
    BY <1>2, <2>1 DEF Life, IInv, TypeOK
  <2>5. Abstract!Start(t)
    BY <2>2, <2>3, <2>4 DEF Abstract!Start, Abstract!Capturing, Life, Starts
  <2> QED
    BY <2>5
<1> QED
  BY <1>1, <1>2 DEF Starts, start_capture

LEMMA SessionStep ==
    ASSUME IInv, [Next]_vars
    PROVE  [Abstract!Next]_(Abstract!vars)
<1>1. ASSUME NEW t \in Threads, CaptureStep(t)
      PROVE  [Abstract!Next]_(Abstract!vars)
  BY <1>1, ThreadLife, Zenon DEF Abstract!Next
<1>2. ASSUME AggregatorStep \/ DrainFilter \/ Frames \/ \E f \in Filters : ApplyFilter(f)
      PROVE  UNCHANGED Abstract!vars
  BY <1>2 DEF AggregatorStep, Aggregator_init, Aggregator_check, Aggregator_recv, Aggregator_drain,
     DrainFilter, Frames, ApplyFilter, guiVars, threadVars, Abstract!vars
<1>3. ASSUME DrainStopped \/ \E cont \in {"stop", "restart"} : StopAndJoin(cont)
      PROVE  [Abstract!Next]_(Abstract!vars)
  <2>1. running' = ClearFlag /\ pc' = pc /\ app_running' = app_running
    BY <1>3 DEF DrainStopped, StopAndJoin
  <2> QED
    BY <2>1, ClearFlagLife, Zenon DEF Abstract!Next
<1>4. ASSUME CloseWindow
      PROVE  Abstract!Close
  <2>1. running' = ClearFlag /\ pc' = pc /\ app_running
    BY <1>4 DEF CloseWindow, IInv, GuiInv
  <2>2. Life' = [t \in Threads |-> IF Life[t] = "capturing" THEN "dismissed" ELSE Life[t]]
    BY <2>1, ClearFlagLife
  <2>3. app_running' = FALSE
    BY <1>4, Zenon DEF CloseWindow
  <2> QED
    BY <2>1, <2>2, <2>3, Zenon DEF Abstract!Close, Life
<1>5. ASSUME Starts
      PROVE  [Abstract!Next]_(Abstract!vars)
  BY <1>5, StartLife, Zenon DEF Abstract!Next
<1>6. ASSUME JoinReturns
      PROVE  [Abstract!Next]_(Abstract!vars)
  <2>1. CASE after = "restart"
    <3>1. Starts
      BY <1>6, <2>1 DEF JoinReturns, IInv, GuiInv, Starts
    <3> QED
      BY <3>1, <1>5
  <2>2. CASE after # "restart"
    BY <1>6, <2>2 DEF JoinReturns, Abstract!vars
  <2> QED
    BY <2>1, <2>2
<1>7. ASSUME ClickStart
      PROVE  Starts
  BY <1>7, ClickStartCase
<1>8. ASSUME DrainEnds \/ IdleFrame \/ JoinAggregator \/ Ended \/ UNCHANGED vars
      PROVE  Frames
  BY <1>8, FrameCases
<1> QED
  BY <1>1, <1>2, <1>3, <1>4, <1>5, <1>6, <1>7, <1>8, Zenon
     DEF Next, GuiStep, ClickStop, ChangeInterface, Abstract!Next

\* The flags, the channels and the joins that may time out implement the
\* session: at most one thread captures, a dismissed one never captures again,
\* and none is started after the window was closed (start_capture,
\* stop_capture, Drop).
THEOREM SessionImplemented == Spec => ImplementsSession
BY SessionInit, SessionStep, Invariant, PTL DEF Spec, ImplementsSession, Abstract!Spec

=============================================================================
