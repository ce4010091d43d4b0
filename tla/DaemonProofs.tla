---------------------------- MODULE DaemonProofs ----------------------------
(***************************************************************************)
(* The metrics file, types, answers and events of a daemon, for any        *)
(* channels, capacities and number of processes, whatever write fails and  *)
(* wherever a process is killed.                                           *)
(***************************************************************************)
EXTENDS Daemon, SequenceTheorems, TLAPS

\* Inductive: the temporary file is complete and up to date when it is about to
\* be renamed, because no handler runs between the two awaits.
FileInv ==
  /\ FileWhole
  /\ FinalSnapshot
  /\ pc = "rename" => tmp = metrics_snapshot

\* The steps that leave the file, its temporary copy and the counters alone, and
\* neither come to a rename nor to the end of the loop.
LEMMA QuietStep ==
  ASSUME FileInv, UNCHANGED metricsVars,
         pc' = pc \/ pc' \notin {"rename", "exited"}
  PROVE  FileInv'
BY DEF FileInv, FileWhole, FinalSnapshot, metricsVars, metrics_snapshot

\* A handler counts, and the loop goes on.
LEMMA CountStep ==
  ASSUME FileInv, Count, pc' \notin {"rename", "exited"}
  PROVE  FileInv'
BY DEF FileInv, FileWhole, FinalSnapshot, Count

\* The steps of write_metrics_file.
LEMMA WriteStep ==
  ASSUME FileInv, WriteMetrics
  PROVE  FileInv'
<1>1. CASE pc = "create" /\ CreateTmp /\ pc' = "fill"
  BY <1>1 DEF FileInv, FileWhole, FinalSnapshot, CreateTmp
<1>2. CASE pc = "fill" /\ FillTmp /\ pc' = "rename"
  BY <1>2 DEF FileInv, FileWhole, FinalSnapshot, FillTmp, metrics_snapshot
<1>3. CASE pc = "rename" /\ Rename /\ pc' = WrittenPc
  BY <1>3 DEF FileInv, FileWhole, FinalSnapshot, Rename, metrics_snapshot, Contents, WrittenPc
<1>4. CASE pc \in {"create", "fill", "rename"} /\ WriteError /\ pc' = WrittenPc
  BY <1>4 DEF FileInv, FileWhole, FinalSnapshot, WriteError, WrittenPc
<1> QED
  BY <1>1, <1>2, <1>3, <1>4 DEF WriteMetrics

\* The other steps of the loop.
LEMMA LoopStep ==
  ASSUME FileInv, Loop
  PROVE  FileInv'
<1>1. ASSUME NEW k, Handled(k) PROVE FileInv'
  BY <1>1, CountStep DEF Handled
<1>2. CASE HelloTick
  BY <1>1, <1>2 DEF HelloTick
<1>3. CASE ProtocolTick \/ RecvPacket \/ RecvCommand
  BY <1>1, <1>3 DEF ProtocolTick, RecvPacket, RecvCommand
<1>4. CASE ServeControl
  BY <1>1, <1>4 DEF ServeControl
<1>5. CASE MetricsTick \/ Shutdown
  BY <1>5, QuietStep DEF MetricsTick, Shutdown
<1>6. CASE RecvClosed
  BY <1>6, QuietStep DEF RecvClosed
<1>7. ASSUME NEW r \in Requests, RecvControl(r) PROVE FileInv'
  BY <1>7, QuietStep DEF RecvControl
<1>8. CASE SendEvent
  BY <1>8, QuietStep DEF SendEvent
<1> QED
  BY <1>2, <1>3, <1>4, <1>5, <1>6, <1>7, <1>8, WriteStep DEF Loop

\* Every step keeps the invariant.
LEMMA FileStep ==
  ASSUME FileInv, [Next]_vars
  PROVE  FileInv'
<1>1. CASE Program
  <2>1. UNCHANGED <<pc, metricsVars>>
    BY <1>1 DEF Program, SendCommand, CommandSent, DemoSend, DropReceiver, DropSenders,
                TakeEvent, OutsideFrame, loopVars
  <2> QED
    BY <2>1, QuietStep
<1>2. CASE Cli
  <2>1. UNCHANGED <<pc, metricsVars>>
    BY <1>2 DEF Cli, CliSend, CliAnswer, CliTimeout, OutsideFrame, loopVars
  <2> QED
    BY <2>1, QuietStep
<1>3. CASE CtrlC \/ TimeFlies
  BY <1>3, QuietStep DEF CtrlC, TimeFlies
<1>4. CASE Kill
  BY <1>4, QuietStep DEF Kill
<1>5. CASE Start
  BY <1>5 DEF Start, NewProcess, FileInv, FileWhole, FinalSnapshot
<1>6. CASE UNCHANGED vars
  BY <1>6, QuietStep DEF vars, loopVars
<1> QED
  BY <1>1, <1>2, <1>3, <1>4, <1>5, <1>6, LoopStep DEF Next

\* The invariant holds from the first process on.
LEMMA FileInvariant == Spec => []FileInv
<1>1. Init => FileInv
  BY DEF Init, MetricsInit, FileInv, FileWhole, FinalSnapshot, Absent, Contents
<1>2. FileInv /\ [Next]_vars => FileInv'
  BY FileStep
<1> QED
  BY <1>1, <1>2, PTL DEF Spec

\* write_metrics_snapshot never exposes a partial file at metrics_output_path,
\* at whatever await the process is killed and whichever system call fails.
THEOREM FileWholeTheorem == Spec => []FileWhole
<1>1. FileInv => FileWhole
  BY DEF FileInv
<1> QED
  BY <1>1, FileInvariant, PTL

\* Ctrl-C leaves the final counters at metrics_output_path, if the last write
\* succeeded: nothing counts between the snapshot and the return.
THEOREM FinalSnapshotTheorem == Spec => []FinalSnapshot
<1>1. FileInv => FinalSnapshot
  BY DEF FileInv
<1> QED
  BY <1>1, FileInvariant, PTL
-----------------------------------------------------------------------------
(***************************************************************************)
(* Types                                                                   *)
(***************************************************************************)
Numbers == 0..(EventIds - 1)

\* The loop, its channels and the program outside; the rest of DaemonTypeOK.
LoopTypeOK ==
  /\ setup \in Setups
  /\ pc \in {"select", "events", "control", "create", "fill", "rename", "exited", "down"}
  /\ serving \subseteq Requests \ Malformed
  /\ stopping \in BOOLEAN /\ ctrl_c \in BOOLEAN /\ due \in BOOLEAN

EventTypeOK ==
  /\ todo \in Seq(Numbers) /\ events \in Seq(Numbers)
  /\ next \in Numbers /\ last \in Numbers
  /\ pc = "events" => todo # <<>>
  /\ pc \notin {"events", "down"} => todo = <<>>
  /\ Len(events) <= EventCap
  /\ receiver \in BOOLEAN

\* The demo task is the only sender without a capacity check: it sends into an
\* empty channel, once.
CommandTypeOK ==
  /\ Len(commands) <= CommandCap
  /\ commands \in Seq(1..(MaxCommands + 1)) /\ issued \in 0..(MaxCommands + 1)
  /\ senders \in BOOLEAN /\ program \in {"running", "sending"}
  /\ program = "sending" => issued > 0 /\ setup.commands = "program"
  /\ setup.commands = "demo" /\ senders => commands = <<>>

ControlTypeOK ==
  /\ datagrams \subseteq Requests /\ replies \subseteq Requests
  /\ told \in [Requests -> {"idle", "waiting", "accepted", "error", "nothing"}]
  /\ handled \subseteq Requests /\ cut \subseteq Requests

FileTypeOK ==
  /\ process \in 1..MaxProcesses /\ counted \in 0..MaxCounted
  /\ tmp \in Files /\ file \in Files /\ written \in BOOLEAN

TypesOK == LoopTypeOK /\ EventTypeOK /\ CommandTypeOK /\ ControlTypeOK /\ FileTypeOK

\* Event numbers, and how many events a handler may return at once.
LEMMA NumberTypes ==
  /\ EventIds \in Nat /\ EventIds > 4
  /\ \A x \in Nat : x % EventIds \in Numbers
  /\ 0..2 \subseteq Numbers
  /\ \A failed \in 0..MaxFailed : 2 * failed \in Numbers
<1>1. EventIds \in Nat /\ EventIds > 4
  BY DaemonAssumption DEF DaemonAssumption
<1>2. \A failed \in 0..MaxFailed : 2 * failed \in Numbers
  BY DaemonAssumption DEF DaemonAssumption, Numbers
<1> QED
  BY <1>1, <1>2 DEF Numbers

\* Every handler returns some number of events.
LEMMA HandlerEvents ==
  ASSUME HelloTick \/ ProtocolTick \/ RecvPacket \/ RecvCommand \/ ServeControl
  PROVE  \E k \in Numbers : Handled(k)
<1>1. 0 \in Numbers /\ 2 \in Numbers
  BY NumberTypes
<1>2. CASE HelloTick
  BY <1>1, <1>2 DEF HelloTick
<1>3. CASE ProtocolTick
  <2>1. PICK failed \in 0..MaxFailed : Handled(2 * failed)
    BY <1>3 DEF ProtocolTick
  <2> QED
    BY <2>1, NumberTypes
<1>4. CASE RecvPacket
  BY <1>4, NumberTypes DEF RecvPacket
<1>5. CASE RecvCommand \/ ServeControl
  BY <1>1, <1>5 DEF RecvCommand, ServeControl
<1> QED
  BY <1>2, <1>3, <1>4, <1>5

\* What a handler leaves.
LEMMA HandledTypes ==
  ASSUME TypesOK, NEW k \in Numbers, Handled(k)
  PROVE  /\ FileTypeOK'
         /\ todo' \in Seq(Numbers) /\ next' \in Numbers
         /\ pc' \in {"select", "events"}
         /\ pc' = "events" => todo' # <<>>
         /\ pc' = "select" => todo' = <<>>
<1>1. next \in Nat /\ k \in Nat
  BY NumberTypes DEF TypesOK, EventTypeOK, Numbers
<1>2. FileTypeOK'
  BY DEF Handled, Count, TypesOK, FileTypeOK
<1>3. next' \in Numbers
  <2>1. next + k \in Nat
    BY <1>1
  <2>2. (next + k) % EventIds \in Numbers
    BY <2>1, NumberTypes
  <2> QED
    BY <2>2 DEF Handled, TypesOK, EventTypeOK
<1> DEFINE s == [i \in 1..k |-> (next + i - 1) % EventIds]
<1>4. s \in Seq(Numbers) /\ Len(s) = k
  <2>1. \A i \in 1..k : (next + i - 1) % EventIds \in Numbers
    BY <1>1, NumberTypes
  <2> QED
    BY <1>1, <2>1
<1>5. (k = 0) = (s = <<>>)
  <2>1. PICK q \in Seq(Numbers) : q = s /\ Len(q) = k
    BY <1>4
  <2>2. Len(q) = 0 <=> q = <<>>
    BY EmptySeq
  <2> QED
    BY <2>1, <2>2
<1>6. /\ todo' = IF setup.events THEN s ELSE <<>>
      /\ pc' = IF setup.events /\ k > 0 THEN "events" ELSE "select"
  BY DEF Handled
<1> HIDE DEF s
<1> QED
  BY <1>1, <1>2, <1>3, <1>4, <1>5, <1>6

\* The steps of the loop.
LEMMA LoopTypes ==
  ASSUME TypesOK, Loop
  PROVE  TypesOK'
<1>1. ASSUME NEW k \in Numbers, Handled(k), ctrl_c' \in BOOLEAN, due' \in BOOLEAN,
             serving' \subseteq serving, UNCHANGED <<setup, stopping, events, receiver, last>>,
             CommandTypeOK', ControlTypeOK'
      PROVE  TypesOK'
  BY <1>1, HandledTypes DEF TypesOK, LoopTypeOK, EventTypeOK
<1>2. ASSUME UNCHANGED <<setup, commands, senders, issued, program>> PROVE CommandTypeOK'
  BY <1>2 DEF TypesOK, CommandTypeOK
<1>3. ASSUME UNCHANGED controlVars PROVE ControlTypeOK'
  BY <1>3 DEF TypesOK, ControlTypeOK, controlVars
<1>4. ASSUME HelloTick PROVE TypesOK'
  <2>1. /\ Handled(0) /\ ctrl_c' = FALSE /\ due' = due /\ serving' = serving
        /\ UNCHANGED <<setup, stopping, events, receiver, last>>
        /\ UNCHANGED <<commands, senders, issued, program, controlVars>>
    BY <1>4 DEF HelloTick, Selected, ServeFrame, BranchFrame, programVars
  <2>2. 0 \in Numbers
    BY NumberTypes
  <2> QED
    BY <1>1, <1>2, <1>3, <2>1, <2>2 DEF TypesOK, LoopTypeOK
<1>5. ASSUME ProtocolTick \/ RecvPacket PROVE TypesOK'
  <2>1. PICK k \in Numbers : Handled(k)
    BY <1>5, HandlerEvents
  <2>2. /\ ctrl_c' = FALSE /\ (due' = due \/ due' = FALSE) /\ serving' = serving
        /\ UNCHANGED <<setup, stopping, events, receiver, last>>
        /\ UNCHANGED <<commands, senders, issued, program, controlVars>>
    BY <1>5 DEF ProtocolTick, RecvPacket, Selected, ServeFrame, BranchFrame, programVars
  <2> QED
    BY <1>1, <1>2, <1>3, <2>1, <2>2 DEF TypesOK, LoopTypeOK
<1>6. ASSUME RecvCommand PROVE TypesOK'
  <2>1. PICK k \in Numbers : Handled(k)
    BY <1>6, HandlerEvents
  <2>2. /\ ctrl_c' = FALSE /\ due' = due /\ serving' = serving
        /\ UNCHANGED <<setup, stopping, events, receiver, last>>
        /\ UNCHANGED <<senders, issued, program, controlVars>>
        /\ commands # <<>> /\ commands' = Tail(commands)
    BY <1>6 DEF RecvCommand, Selected, ServeFrame, BranchFrame, programVars
  <2>3. CommandTypeOK'
    BY <2>2, DaemonAssumption DEF DaemonAssumption, TypesOK, CommandTypeOK
  <2> QED
    BY <1>1, <1>3, <2>1, <2>2, <2>3 DEF TypesOK, LoopTypeOK
<1>7. ASSUME ServeControl PROVE TypesOK'
  <2>1. PICK k \in Numbers : Handled(k)
    BY <1>7, HandlerEvents
  <2>2. /\ ctrl_c' = ctrl_c /\ due' = due /\ serving' = {}
        /\ UNCHANGED <<setup, stopping, events, receiver, last>>
        /\ UNCHANGED <<commands, senders, issued, program, datagrams, replies, told, cut>>
        /\ handled' = handled \cup serving
    BY <1>7 DEF ServeControl, ServeFrame, BranchFrame, programVars
  <2>3. ControlTypeOK'
    BY <2>2 DEF TypesOK, ControlTypeOK, LoopTypeOK
  <2> QED
    BY <1>1, <1>2, <2>1, <2>2, <2>3 DEF TypesOK, LoopTypeOK
<1>8. ASSUME RecvClosed PROVE TypesOK'
  BY <1>8 DEF RecvClosed, Selected, ServeFrame, BranchFrame, programVars, controlVars, metricsVars,
     TypesOK, LoopTypeOK, EventTypeOK, CommandTypeOK, ControlTypeOK, FileTypeOK
<1>9. ASSUME NEW r \in Requests, RecvControl(r) PROVE TypesOK'
  <2>1. LoopTypeOK' /\ ControlTypeOK'
    BY <1>9 DEF RecvControl, Selected, ServeFrame, BranchFrame, TypesOK, LoopTypeOK, ControlTypeOK
  <2>2. EventTypeOK' /\ CommandTypeOK' /\ FileTypeOK'
    BY <1>9 DEF RecvControl, Selected, ServeFrame, BranchFrame, programVars, metricsVars,
       TypesOK, EventTypeOK, CommandTypeOK, FileTypeOK
  <2> QED
    BY <2>1, <2>2 DEF TypesOK
<1>10. ASSUME SendEvent PROVE TypesOK'
  <2>1. todo # <<>> /\ todo \in Seq(Numbers) /\ events \in Seq(Numbers)
    BY <1>10 DEF SendEvent, TypesOK, EventTypeOK
  <2>2. /\ Head(todo) \in Numbers /\ Tail(todo) \in Seq(Numbers)
        /\ (Len(todo) = 1) = (Tail(todo) = <<>>)
    <3>1. Head(todo) \in Numbers /\ Tail(todo) \in Seq(Numbers) /\ Len(Tail(todo)) = Len(todo) - 1
      BY <2>1, HeadTailProperties
    <3>2. (Len(Tail(todo)) = 0) = (Tail(todo) = <<>>) /\ Len(todo) \in Nat
      <4>1. PICK t \in Seq(Numbers) : t = Tail(todo)
        BY <3>1
      <4>2. t # <<>> => Len(t) # 0
        BY EmptySeq
      <4>3. Len(<<>>) = 0 /\ Len(todo) \in Nat
        BY <2>1, EmptySeq, LenProperties
      <4> QED
        BY <4>1, <4>2, <4>3
    <3> QED
      BY <3>1, <3>2
  <2>3. EventTypeOK'
    <3>1. events' \in Seq(Numbers) /\ Len(events') <= EventCap
      <4>1. CASE receiver
        <5>1. events' = Append(events, Head(todo)) /\ Len(events) < EventCap
          BY <1>10, <4>1 DEF SendEvent
        <5> QED
          BY <2>1, <2>2, <5>1, DaemonAssumption DEF DaemonAssumption
      <4>2. CASE ~receiver
        BY <1>10, <4>2 DEF SendEvent, TypesOK, EventTypeOK
      <4> QED
        BY <4>1, <4>2
    <3>2. /\ todo' = Tail(todo) /\ UNCHANGED <<next, last, receiver>>
          /\ pc' = IF Len(todo) = 1 THEN "select" ELSE "events"
      BY <1>10 DEF SendEvent, programVars
    <3> QED
      BY <2>2, <3>1, <3>2 DEF TypesOK, EventTypeOK
  <2>4. LoopTypeOK' /\ CommandTypeOK' /\ ControlTypeOK' /\ FileTypeOK'
    BY <1>10 DEF SendEvent, programVars, controlVars, metricsVars,
       TypesOK, LoopTypeOK, CommandTypeOK, ControlTypeOK, FileTypeOK
  <2> QED
    BY <2>3, <2>4 DEF TypesOK
<1>11. ASSUME WriteFrame, LoopTypeOK', FileTypeOK', pc \notin {"events", "down"}, pc' \notin {"events", "down"}
       PROVE  TypesOK'
  BY <1>11 DEF WriteFrame, programVars, controlVars, channelVars,
     TypesOK, EventTypeOK, CommandTypeOK, ControlTypeOK
<1>12. ASSUME MetricsTick \/ Shutdown PROVE TypesOK'
  <2>1. WriteFrame /\ pc = "select" /\ pc' = "create" /\ LoopTypeOK' /\ FileTypeOK'
    BY <1>12 DEF MetricsTick, Shutdown, Selected, WriteFrame, metricsVars,
       TypesOK, LoopTypeOK, FileTypeOK
  <2> QED
    BY <1>11, <2>1
<1>13. ASSUME WriteMetrics PROVE TypesOK'
  <2>1. /\ WriteFrame /\ UNCHANGED <<stopping, ctrl_c, process, counted>>
        /\ pc \in {"create", "fill", "rename"} /\ pc' \in {"fill", "rename", "exited", "select"}
    BY <1>13 DEF WriteMetrics, CreateTmp, FillTmp, Rename, WriteError, WrittenPc
  <2>2. LoopTypeOK'
    BY <2>1 DEF WriteFrame, TypesOK, LoopTypeOK
  <2>3. Partial \in Files /\ Absent \in Files /\ metrics_snapshot \in Files
    BY DEF Files, metrics_snapshot, Contents, TypesOK, FileTypeOK
  <2>4. tmp' \in Files /\ file' \in Files /\ written' \in BOOLEAN
    BY <1>13, <2>3 DEF WriteMetrics, CreateTmp, FillTmp, Rename, WriteError, TypesOK, FileTypeOK
  <2>5. FileTypeOK'
    BY <2>1, <2>4 DEF TypesOK, FileTypeOK
  <2> QED
    BY <1>11, <2>1, <2>2, <2>5
<1> QED
  BY <1>4, <1>5, <1>6, <1>7, <1>8, <1>9, <1>10, <1>12, <1>13 DEF Loop

\* The steps of the parties outside.
LEMMA OutsideTypes ==
  ASSUME TypesOK, Program \/ Cli
  PROVE  TypesOK'
<1>1. LoopTypeOK' /\ FileTypeOK' /\ UNCHANGED <<setup, pc, todo, next>>
  BY DEF Program, SendCommand, CommandSent, DemoSend, DropReceiver, DropSenders, TakeEvent,
     Cli, CliSend, CliAnswer, CliTimeout, OutsideFrame, loopVars, metricsVars,
     TypesOK, LoopTypeOK, FileTypeOK
<1>2. ControlTypeOK'
  <2>1. CASE Program
    BY <2>1 DEF Program, SendCommand, CommandSent, DemoSend, DropReceiver, DropSenders, TakeEvent,
       controlVars, TypesOK, ControlTypeOK
  <2>2. CASE Cli
    BY <2>2 DEF Cli, CliSend, CliAnswer, CliTimeout, TypesOK, ControlTypeOK
  <2> QED
    BY <2>1, <2>2
<1>3. EventTypeOK'
  <2>1. CASE UNCHANGED <<events, last, receiver>>
    BY <1>1, <2>1 DEF TypesOK, EventTypeOK
  <2>2. CASE TakeEvent
    <3>1. events \in Seq(Numbers) /\ events # <<>> /\ Len(events) <= EventCap /\ EventCap \in Nat
      BY <2>2, DaemonAssumption DEF DaemonAssumption, TakeEvent, TypesOK, EventTypeOK
    <3>2. Head(events) \in Numbers /\ Tail(events) \in Seq(Numbers) /\ Len(Tail(events)) <= EventCap
      BY <3>1
    <3>3. last' = Head(events) /\ events' = Tail(events) /\ receiver' = receiver
      BY <2>2 DEF TakeEvent
    <3> QED
      BY <1>1, <3>2, <3>3 DEF TypesOK, EventTypeOK
  <2>3. CASE DropReceiver
    <3>1. events' = <<>> /\ receiver' = FALSE /\ last' = last
      BY <2>3 DEF DropReceiver, programVars
    <3>2. <<>> \in Seq(Numbers) /\ Len(<<>>) <= EventCap
      BY DaemonAssumption DEF DaemonAssumption
    <3> QED
      BY <1>1, <3>1, <3>2 DEF TypesOK, EventTypeOK
  <2> QED
    BY <2>1, <2>2, <2>3
    DEF Program, SendCommand, CommandSent, DemoSend, DropSenders,
        Cli, CliSend, CliAnswer, CliTimeout, channelVars, programVars
<1>4. CommandTypeOK'
  <2>1. /\ commands \in Seq(1..(MaxCommands + 1)) /\ Len(commands) \in Nat /\ Len(commands) <= CommandCap
        /\ issued \in 0..(MaxCommands + 1) /\ CommandCap \in Nat \ {0} /\ MaxCommands \in Nat
    BY DaemonAssumption DEF DaemonAssumption, TypesOK, CommandTypeOK
  <2>2. CASE UNCHANGED <<commands, issued, senders, program>>
    BY <1>1, <2>2 DEF TypesOK, CommandTypeOK
  <2>3. CASE SendCommand
    <3>1. issued + 1 \in 1..(MaxCommands + 1) /\ issued' = issued + 1 /\ senders' = senders
      BY <2>1, <2>3 DEF SendCommand
    <3>2. setup.commands = "program"
      BY <2>3 DEF SendCommand
    <3>3. CASE Len(commands) < CommandCap /\ commands' = Append(commands, issued + 1) /\ UNCHANGED program
      BY <1>1, <2>1, <3>1, <3>2, <3>3 DEF TypesOK, CommandTypeOK
    <3>4. CASE program' = "sending" /\ UNCHANGED commands
      BY <1>1, <2>1, <3>1, <3>2, <3>4 DEF TypesOK, CommandTypeOK
    <3> QED
      BY <2>3, <3>3, <3>4 DEF SendCommand
  <2>4. CASE CommandSent
    <3>1. issued \in 1..(MaxCommands + 1)
      BY <2>1, <2>4 DEF CommandSent, TypesOK, CommandTypeOK
    <3>2. /\ Len(commands) < CommandCap /\ commands' = Append(commands, issued)
          /\ program' = "running" /\ UNCHANGED <<issued, senders>>
      BY <2>4 DEF CommandSent
    <3>3. commands' \in Seq(1..(MaxCommands + 1)) /\ Len(commands') <= CommandCap
      BY <2>1, <3>1, <3>2
    <3>4. ~(setup.commands = "demo" /\ senders)
      BY <2>4 DEF CommandSent, TypesOK, CommandTypeOK
    <3> QED
      BY <1>1, <3>2, <3>3, <3>4 DEF TypesOK, CommandTypeOK
  <2>5. CASE DemoSend
    <3>1. /\ commands = <<>> /\ commands' = Append(commands, 1) /\ issued' = 1 /\ senders' = FALSE
          /\ program' = program /\ setup.commands = "demo"
      BY <2>5 DEF DemoSend, TypesOK, CommandTypeOK
    <3>2. 1 \in 1..(MaxCommands + 1) /\ 1 \in 0..(MaxCommands + 1) /\ 1 <= CommandCap
      BY <2>1
    <3>3. commands' = <<1>>
      BY <3>1
    <3>4. commands' \in Seq(1..(MaxCommands + 1)) /\ Len(commands') <= CommandCap
      BY <3>2, <3>3
    <3> QED
      BY <1>1, <3>1, <3>2, <3>4 DEF TypesOK, CommandTypeOK
  <2>6. CASE DropSenders
    BY <1>1, <2>6 DEF DropSenders, programVars, TypesOK, CommandTypeOK
  <2> QED
    BY <2>2, <2>3, <2>4, <2>5, <2>6
    DEF Program, DropReceiver, TakeEvent, Cli, CliSend, CliAnswer, CliTimeout, channelVars, programVars
<1> QED
  BY <1>1, <1>2, <1>3, <1>4 DEF TypesOK

\* The types are inductive.
LEMMA TypesStep ==
  ASSUME TypesOK, [Next]_vars
  PROVE  TypesOK'
<1>1. CASE CtrlC \/ TimeFlies
  <2>1. LoopTypeOK'
    BY <1>1 DEF CtrlC, TimeFlies, TypesOK, LoopTypeOK
  <2>2. UNCHANGED <<setup, pc, todo, next, channelVars, programVars, controlVars, metricsVars>>
    BY <1>1 DEF CtrlC, TimeFlies
  <2> QED
    BY <2>1, <2>2 DEF channelVars, programVars, controlVars, metricsVars,
       TypesOK, EventTypeOK, CommandTypeOK, ControlTypeOK, FileTypeOK
<1>2. CASE Kill
  <2>1. ControlTypeOK'
    BY <1>2 DEF Kill, TypesOK, LoopTypeOK, ControlTypeOK
  <2> QED
    BY <1>2, <2>1 DEF Kill, channelVars, programVars, metricsVars,
       TypesOK, LoopTypeOK, EventTypeOK, CommandTypeOK, FileTypeOK
<1>3. CASE Start
  <2>1. setup \in Setup /\ setup' = setup
    BY <1>3, DaemonAssumption DEF DaemonAssumption, Start, TypesOK, LoopTypeOK
  <2>2. setup.events \in BOOLEAN
    BY <2>1 DEF Setup
  <2>3. LoopTypeOK' /\ ControlTypeOK'
    BY <1>3 DEF Start, controlVars, TypesOK, LoopTypeOK, ControlTypeOK
  <2>4. EventTypeOK'
    <3>1. 0 \in Numbers /\ 1 \in Numbers
      BY NumberTypes DEF Numbers
    <3> QED
      BY <1>3, <2>2, <3>1, DaemonAssumption DEF DaemonAssumption, Start, EventTypeOK
  <2>5. CommandTypeOK'
    BY <1>3, DaemonAssumption DEF DaemonAssumption, Start, CommandTypeOK
  <2>6. FileTypeOK'
    BY <1>3, MetricsAssumption DEF MetricsAssumption, Start, NewProcess, TypesOK, FileTypeOK
  <2> QED
    BY <2>3, <2>4, <2>5, <2>6 DEF TypesOK
<1>4. CASE UNCHANGED vars
  BY <1>4 DEF vars, loopVars, channelVars, programVars, controlVars, metricsVars,
     TypesOK, LoopTypeOK, EventTypeOK, CommandTypeOK, ControlTypeOK, FileTypeOK
<1> QED
  BY <1>1, <1>2, <1>3, <1>4, LoopTypes, OutsideTypes DEF Next

\* The first process starts well typed.
LEMMA TypesInit == Init => TypesOK
<1> SUFFICES ASSUME Init PROVE TypesOK
  OBVIOUS
<1>1. setup \in Setup /\ setup \in Setups
  BY DaemonAssumption DEF DaemonAssumption, Init
<1>2. setup.events \in BOOLEAN
  BY <1>1 DEF Setup
<1>3. LoopTypeOK /\ ControlTypeOK
  BY <1>1 DEF Init, LoopTypeOK, ControlTypeOK
<1>4. EventTypeOK
  <2>1. 0 \in Numbers /\ 1 \in Numbers
    BY NumberTypes DEF Numbers
  <2> QED
    BY <1>2, <2>1, DaemonAssumption DEF DaemonAssumption, Init, EventTypeOK
<1>5. CommandTypeOK
  BY DaemonAssumption DEF DaemonAssumption, Init, CommandTypeOK
<1>6. FileTypeOK
  BY MetricsAssumption DEF MetricsAssumption, Init, MetricsInit, FileTypeOK, Files
<1> QED
  BY <1>3, <1>4, <1>5, <1>6 DEF TypesOK

\* TypesOK holds in every reachable state.
LEMMA TypesInvariant == Spec => []TypesOK
BY TypesInit, TypesStep, PTL DEF Spec

\* The daemon is well typed; in particular neither channel ever exceeds its
\* capacity, and the loop awaits the event channel only with an event in hand.
THEOREM DaemonTypeCorrect == Spec => []DaemonTypeOK
<1>1. TypesOK => DaemonTypeOK
  <2> SUFFICES ASSUME TypesOK PROVE DaemonTypeOK
    OBVIOUS
  <2>1. (pc = "events") = (todo # <<>> /\ pc # "down")
    BY DEF TypesOK, LoopTypeOK, EventTypeOK
  <2> QED
    BY <2>1 DEF TypesOK, LoopTypeOK, EventTypeOK, CommandTypeOK, ControlTypeOK, FileTypeOK,
       DaemonTypeOK, Numbers
<1> QED
  BY <1>1, TypesInvariant, PTL
-----------------------------------------------------------------------------
(***************************************************************************)
(* Successive snapshots                                                    *)
(***************************************************************************)
\* The file is never ahead of the counters.
FileBehind ==
  file.state = "complete" =>
    \/ file.process < process
    \/ file.process = process /\ file.counted <= counted

\* Counters and process numbers only grow.
LEMMA CountersGrow ==
  ASSUME TypesOK, [Next]_vars
  PROVE  /\ process \in Nat /\ counted \in Nat /\ process' \in Nat /\ counted' \in Nat
         /\ process' > process \/ (process' = process /\ counted' >= counted)
<1>1. process \in Nat /\ counted \in Nat
  BY DEF TypesOK, FileTypeOK
<1>2. process' \in Nat /\ counted' \in Nat
  BY TypesStep DEF TypesOK, FileTypeOK
<1>3. ASSUME Count PROVE process' = process /\ counted' >= counted
  BY <1>1, <1>3 DEF Count
<1>4. CASE Loop
  <2>1. CASE WriteMetrics
    BY <1>1, <2>1 DEF WriteMetrics, CreateTmp, FillTmp, Rename, WriteError
  <2>2. CASE HelloTick \/ ProtocolTick \/ RecvPacket \/ RecvCommand \/ ServeControl
    <3>1. Count
      BY <2>2 DEF HelloTick, ProtocolTick, RecvPacket, RecvCommand, ServeControl, Handled
    <3> QED
      BY <1>1, <1>2, <1>3, <3>1
  <2>3. CASE MetricsTick \/ RecvClosed \/ SendEvent \/ Shutdown \/ \E r \in Requests : RecvControl(r)
    <3>1. UNCHANGED metricsVars
      BY <2>3 DEF MetricsTick, RecvClosed, SendEvent, Shutdown, RecvControl
    <3> QED
      BY <1>1, <3>1 DEF metricsVars
  <2> QED
    BY <1>1, <1>2, <1>4, <2>1, <2>2, <2>3 DEF Loop
<1>5. CASE Start
  BY <1>1, <1>2, <1>5 DEF Start, NewProcess
<1>6. CASE Program \/ Cli \/ CtrlC \/ TimeFlies \/ Kill \/ UNCHANGED vars
  <2>1. UNCHANGED metricsVars
    BY <1>6 DEF Program, SendCommand, CommandSent, DemoSend, DropReceiver, DropSenders, TakeEvent,
       Cli, CliSend, CliAnswer, CliTimeout, OutsideFrame, CtrlC, TimeFlies, Kill, vars
  <2> QED
    BY <1>1, <2>1 DEF metricsVars
<1> QED
  BY <1>1, <1>2, <1>4, <1>5, <1>6 DEF Next

\* Only the rename replaces the file, by the snapshot just taken.
LEMMA FileChange ==
  ASSUME FileInv, [Next]_vars, file' # file
  PROVE  file' = metrics_snapshot /\ process' = process /\ counted' = counted
<1>1. CASE Loop
  <2>1. WriteMetrics
    BY <1>1 DEF Loop, HelloTick, ProtocolTick, RecvPacket, RecvCommand, ServeControl, Handled, Count,
       MetricsTick, RecvClosed, SendEvent, Shutdown, RecvControl, metricsVars
  <2>2. pc = "rename" /\ Rename
    BY <2>1 DEF WriteMetrics, CreateTmp, FillTmp, WriteError
  <2> QED
    BY <2>2 DEF FileInv, Rename
<1>2. CASE Start
  BY <1>2 DEF Start, NewProcess
<1>3. CASE Program \/ Cli \/ CtrlC \/ TimeFlies \/ Kill \/ UNCHANGED vars
  BY <1>3 DEF Program, SendCommand, CommandSent, DemoSend, DropReceiver, DropSenders, TakeEvent,
     Cli, CliSend, CliAnswer, CliTimeout, OutsideFrame, CtrlC, TimeFlies, Kill, vars, metricsVars
<1> QED
  BY <1>1, <1>2, <1>3 DEF Next

\* FileBehind is inductive.
LEMMA FileBehindStep ==
  ASSUME TypesOK, FileInv, FileBehind, [Next]_vars
  PROVE  FileBehind'
<1>1. /\ process \in Nat /\ counted \in Nat /\ process' \in Nat /\ counted' \in Nat
      /\ process' > process \/ (process' = process /\ counted' >= counted)
  BY CountersGrow
<1>2. CASE file' = file
  <2>1. file.state = "complete" => file.process \in Nat /\ file.counted \in Nat
    BY DEF TypesOK, FileTypeOK, Files, Absent, Partial, Contents
  <2> QED
    BY <1>1, <1>2, <2>1 DEF FileBehind
<1>3. CASE file' # file
  <2>1. file' = metrics_snapshot /\ process' = process /\ counted' = counted
    BY <1>3, FileChange
  <2> QED
    BY <1>1, <2>1 DEF FileBehind, metrics_snapshot, Contents
<1> QED
  BY <1>2, <1>3

\* No write, retry of a write after an error, or restart replaces a snapshot by
\* an older one, for any number of processes.
THEOREM SnapshotsInOrderTheorem == Spec => SnapshotsInOrder
<1> DEFINE Newer == /\ file'.state = "complete"
                    /\ file.state = "complete" =>
                         \/ file'.process > file.process
                         \/ file'.process = file.process /\ file'.counted >= file.counted
<1>1. Init => FileBehind
  BY DEF Init, MetricsInit, FileBehind, Absent, Contents
<1>2. TypesOK /\ FileInv /\ FileBehind /\ [Next]_vars => FileBehind'
  BY FileBehindStep
<1>3. ASSUME TypesOK, FileInv, FileBehind, [Next]_vars, file' # file PROVE Newer
  <2>1. file' = metrics_snapshot
    BY <1>3, FileChange
  <2>2. process \in Nat /\ counted \in Nat
    BY <1>3 DEF TypesOK, FileTypeOK
  <2>3. file.state = "complete" => file.process \in Nat /\ file.counted \in Nat
    BY <1>3 DEF TypesOK, FileTypeOK, Files, Absent, Partial, Contents
  <2> QED
    BY <1>3, <2>1, <2>2, <2>3 DEF FileBehind, metrics_snapshot, Contents
<1>4. TypesOK /\ FileInv /\ FileBehind /\ [Next]_vars => [file' # file => Newer]_file
  BY <1>3
<1> QED
  BY <1>1, <1>2, <1>4, TypesInvariant, FileInvariant, PTL DEF Spec, SnapshotsInOrder
-----------------------------------------------------------------------------
(***************************************************************************)
(* Answers of the control socket                                           *)
(***************************************************************************)
\* A request that was answered has been handled, is being served, or was cut off
\* by a kill; nothing but a kill can come between answer and command.
AnswerInv ==
  /\ \A r \in Requests :
       /\ told[r] = "accepted" => r \in replies /\ r \notin Malformed
       /\ told[r] = "error" => r \in Malformed
  /\ handled \cap Malformed = {}
  /\ \A r \in replies \ Malformed :
       r \in handled \cup cut \/ (pc = "control" /\ r \in serving)

\* The steps that serve no request.
LEMMA AnswerQuiet ==
  ASSUME AnswerInv, UNCHANGED <<serving, controlVars>>, pc' = pc \/ pc # "control"
  PROVE  AnswerInv'
BY DEF AnswerInv, controlVars

\* AnswerInv is inductive.
LEMMA AnswerStep ==
  ASSUME TypesOK, AnswerInv, [Next]_vars
  PROVE  AnswerInv'
<1>1. ASSUME NEW r \in Requests, RecvControl(r) PROVE AnswerInv'
  <2>1. /\ pc = "select" /\ replies' = replies \cup {r} /\ UNCHANGED <<told, handled, cut>>
        /\ \/ r \in Malformed
           \/ r \notin Malformed /\ pc' = "control" /\ serving' = {r}
    BY <1>1 DEF RecvControl, Selected
  <2> QED
    BY <2>1 DEF AnswerInv
<1>2. CASE ServeControl
  <2>1. handled' = handled \cup serving /\ UNCHANGED <<replies, told, cut>>
    BY <1>2 DEF ServeControl
  <2>2. serving \cap Malformed = {}
    BY DEF TypesOK, LoopTypeOK
  <2> QED
    BY <2>1, <2>2 DEF AnswerInv
<1>3. CASE HelloTick \/ ProtocolTick \/ RecvPacket \/ RecvCommand \/ RecvClosed \/ MetricsTick \/ Shutdown
  <2>1. pc = "select" /\ UNCHANGED <<serving, controlVars>>
    BY <1>3 DEF HelloTick, ProtocolTick, RecvPacket, RecvCommand, RecvClosed, MetricsTick, Shutdown,
       Selected, WriteFrame
  <2> QED
    BY <2>1, AnswerQuiet
<1>4. CASE SendEvent \/ WriteMetrics
  <2>1. pc # "control" /\ UNCHANGED <<serving, controlVars>>
    BY <1>4 DEF SendEvent, WriteMetrics, WriteFrame
  <2> QED
    BY <2>1, AnswerQuiet
<1>5. CASE Program \/ CtrlC \/ TimeFlies \/ UNCHANGED vars
  <2>1. UNCHANGED <<pc, serving, controlVars>>
    BY <1>5 DEF Program, SendCommand, CommandSent, DemoSend, DropReceiver, DropSenders, TakeEvent,
       OutsideFrame, CtrlC, TimeFlies, vars, loopVars
  <2> QED
    BY <2>1, AnswerQuiet
<1>6. ASSUME NEW r \in Requests, CliSend(r) \/ CliAnswer(r) \/ CliTimeout(r) PROVE AnswerInv'
  <2>1. UNCHANGED <<pc, serving, replies, handled, cut>>
    BY <1>6 DEF CliSend, CliAnswer, CliTimeout, OutsideFrame, loopVars
  <2>2. told \in [Requests -> {"idle", "waiting", "accepted", "error", "nothing"}]
    BY DEF TypesOK, ControlTypeOK
  <2>3. \A q \in Requests :
          /\ told'[q] = "accepted" => told[q] = "accepted" \/ (q \in replies /\ q \notin Malformed)
          /\ told'[q] = "error" => told[q] = "error" \/ q \in Malformed
    BY <1>6, <2>2 DEF CliSend, CliAnswer, CliTimeout
  <2> QED
    BY <2>1, <2>3 DEF AnswerInv
<1>7. CASE Kill
  <2>1. cut' = cut \cup serving /\ UNCHANGED <<replies, told, handled>>
    BY <1>7 DEF Kill
  <2> QED
    BY <2>1 DEF AnswerInv
<1>8. CASE Start
  <2>1. pc # "control" /\ UNCHANGED controlVars
    BY <1>8 DEF Start, Running
  <2> QED
    BY <2>1 DEF AnswerInv, controlVars
<1> QED
  BY <1>1, <1>2, <1>3, <1>4, <1>5, <1>6, <1>7, <1>8 DEF Next, Loop, Cli

\* However answers, their time limit, the loop, kills and restarts interleave,
\* in any number of processes, the CLI never prints "accepted" for a command
\* that was not and will not be handed to the protocol, except for the one that
\* was being served when its process was killed, and never "error" for one that
\* was.
THEOREM AnswersKeptTheorem == Spec => []AnswersKept
<1>1. Init => AnswerInv
  BY DEF Init, AnswerInv
<1>2. TypesOK /\ AnswerInv /\ [Next]_vars => AnswerInv'
  BY AnswerStep
<1>3. AnswerInv => AnswersKept
  BY DEF AnswerInv, AnswersKept
<1> QED
  BY <1>1, <1>2, <1>3, TypesInvariant, PTL DEF Spec
-----------------------------------------------------------------------------
(***************************************************************************)
(* Events                                                                  *)
(***************************************************************************)
Succ(x) == (x + 1) % EventIds

\* s counts on from each element to the next, and then to x.
CountsTo(s, x) ==
  /\ \A i \in 1..(Len(s) - 1) : s[i + 1] = Succ(s[i])
  /\ Succ(s[Len(s)]) = x

\* Numbers wrap around once at most, because a handler returns fewer events than
\* there are numbers.
LEMMA Numbering ==
  ASSUME NEW y \in Nat, y < 2 * EventIds
  PROVE  y % EventIds = IF y < EventIds THEN y ELSE y - EventIds
<1>1. EventIds \in Nat /\ EventIds > 4
  BY NumberTypes
<1>2. ASSUME NEW z \in Nat, z < EventIds PROVE z % EventIds = z
  BY <1>1, <1>2
<1>3. ASSUME NEW z \in Nat, z < EventIds PROVE (z + EventIds) % EventIds = z
  BY <1>1, <1>3
<1>4. CASE y < EventIds
  BY <1>2, <1>4
<1>5. CASE y >= EventIds
  <2>1. PICK z \in Nat : z < EventIds /\ y = z + EventIds
    <3>1. y - EventIds \in Nat /\ y - EventIds < EventIds /\ y = (y - EventIds) + EventIds
      BY <1>1, <1>5
    <3> QED
      BY <3>1
  <2>2. y % EventIds = z
    BY <1>3, <2>1
  <2> QED
    BY <1>1, <1>5, <2>1, <2>2
<1> QED
  BY <1>1, <1>4, <1>5

\* The number after that of y.
LEMMA NextNumber ==
  ASSUME NEW y \in Nat, y + 1 < 2 * EventIds
  PROVE  Succ(y % EventIds) = (y + 1) % EventIds
<1>1. EventIds \in Nat /\ EventIds > 4
  BY NumberTypes
<1>2. y < 2 * EventIds /\ y + 1 \in Nat
  BY <1>1
<1>3. y % EventIds = IF y < EventIds THEN y ELSE y - EventIds
  BY <1>2, Numbering
<1>4. (y + 1) % EventIds = IF y + 1 < EventIds THEN y + 1 ELSE (y + 1) - EventIds
  BY <1>2, Numbering
<1>5. CASE y < EventIds
  BY <1>3, <1>5 DEF Succ
<1>6. CASE y >= EventIds
  <2>1. PICK z \in Nat : z = y - EventIds
    BY <1>1, <1>6
  <2>2. z + 1 < EventIds /\ z + 1 \in Nat /\ z + 1 < 2 * EventIds
    BY <1>1, <1>6, <2>1
  <2>3. (z + 1) % EventIds = z + 1
    BY <2>2, Numbering
  <2>4. y % EventIds = z /\ (y + 1) % EventIds = z + 1
    BY <1>1, <1>3, <1>4, <1>6, <2>1
  <2> QED
    BY <2>3, <2>4 DEF Succ
<1> QED
  BY <1>1, <1>5, <1>6

\* What the program has not read yet, after the last event it read.
unread == <<last>> \o events \o todo

\* Every event the program was or will be given, in order; an event channel has
\* a receiver only where one was set up.
EventInv == (receiver => setup.events) /\ (receiver => CountsTo(unread, next))

\* A sequence that counts to x can be continued by any number of events from x on.
LEMMA CountsOn ==
  ASSUME NEW u \in Seq(Numbers), u # <<>>, NEW x \in Numbers, CountsTo(u, x), NEW k \in Numbers
  PROVE  CountsTo(u \o [i \in 1..k |-> (x + i - 1) % EventIds], (x + k) % EventIds)
<1> DEFINE t == [i \in 1..k |-> (x + i - 1) % EventIds]
           v == u \o t
<1>1. EventIds \in Nat /\ x \in Nat /\ k \in Nat /\ x < EventIds /\ k < EventIds
  BY NumberTypes DEF Numbers
<1>2. t \in Seq(Numbers) /\ Len(t) = k
  <2>1. \A i \in 1..k : (x + i - 1) % EventIds \in Numbers
    <3>1. \A i \in 1..k : x + i - 1 \in Nat
      BY <1>1
    <3> QED
      BY <3>1, NumberTypes
  <2> QED
    BY <1>1, <2>1
<1>3. \A j \in 1..k : t[j] = (x + j - 1) % EventIds
  BY <1>1
<1>4. x % EventIds = x
  BY <1>1, Numbering
<1>5. PICK m \in Nat : m = Len(u) /\ m >= 1
  OBVIOUS
<1> HIDE DEF t
<1>6. /\ Len(v) = m + k
      /\ \A i \in 1..m : v[i] = u[i]
      /\ \A i \in (m + 1)..(m + k) : v[i] = t[i - m]
  BY <1>1, <1>2, <1>5
<1> HIDE DEF v
<1>7. /\ \A i \in 1..(m - 1) : u[i + 1] = Succ(u[i])
      /\ Succ(u[m]) = x
  BY <1>5 DEF CountsTo
<1>8. ASSUME NEW i \in (m + 1)..(m + k) PROVE v[i] = (x + (i - m) - 1) % EventIds
  <2>1. PICK j \in 1..k : j = i - m
    BY <1>1, <1>5
  <2> QED
    BY <1>3, <1>6, <2>1
<1>9. ASSUME NEW i \in (m + 1)..(m + k) PROVE Succ(v[i]) = (x + (i - m)) % EventIds
  <2>1. PICK y \in Nat : y = x + (i - m) - 1
    <3>1. x + (i - m) - 1 \in Nat
      BY <1>1, <1>5
    <3> QED
      BY <3>1
  <2>2. y + 1 < 2 * EventIds /\ y + 1 = x + (i - m)
    BY <1>1, <1>5, <2>1
  <2>3. Succ(y % EventIds) = (y + 1) % EventIds
    BY <2>2, NextNumber
  <2> QED
    BY <1>8, <2>1, <2>2, <2>3
<1>10. ASSUME NEW i \in 1..(Len(v) - 1) PROVE v[i + 1] = Succ(v[i])
  <2>1. i \in Nat /\ i >= 1 /\ i < m + k
    BY <1>1, <1>5, <1>6
  <2>2. CASE i < m
    <3>1. i \in 1..(m - 1) /\ i \in 1..m /\ i + 1 \in 1..m
      BY <1>5, <2>1, <2>2
    <3> QED
      BY <1>6, <1>7, <3>1
  <2>3. CASE i = m
    <3>1. m + 1 \in (m + 1)..(m + k) /\ m \in 1..m /\ x + ((m + 1) - m) - 1 = x
      BY <1>1, <1>5, <2>1, <2>3
    <3>2. v[m + 1] = x % EventIds
      BY <1>8, <3>1
    <3> QED
      BY <1>4, <1>6, <1>7, <2>3, <3>1, <3>2
  <2>4. CASE i > m
    <3>1. /\ i \in (m + 1)..(m + k) /\ i + 1 \in (m + 1)..(m + k)
          /\ x + ((i + 1) - m) - 1 = x + (i - m)
      BY <1>1, <1>5, <2>1, <2>4
    <3>2. v[i + 1] = (x + (i - m)) % EventIds
      BY <1>8, <3>1
    <3> QED
      BY <1>9, <3>1, <3>2
  <2> QED
    BY <1>5, <2>1, <2>2, <2>3, <2>4
<1>11. Succ(v[Len(v)]) = (x + k) % EventIds
  <2>1. CASE k = 0
    <3>1. v[Len(v)] = u[m] /\ x + k = x
      BY <1>1, <1>5, <1>6, <2>1
    <3> QED
      BY <1>4, <1>7, <3>1
  <2>2. CASE k # 0
    <3>1. m + k \in (m + 1)..(m + k) /\ (m + k) - m = k
      BY <1>1, <1>5, <2>2
    <3> QED
      BY <1>6, <1>9, <3>1
  <2> QED
    BY <2>1, <2>2
<1>12. CountsTo(v, (x + k) % EventIds)
  BY <1>10, <1>11 DEF CountsTo
<1> QED
  BY <1>12 DEF t, v

\* A handler adds its events at the end.
LEMMA HandledOrder ==
  ASSUME TypesOK, EventInv, NEW k \in Numbers, Handled(k), pc \in {"select", "control"},
         UNCHANGED <<setup, events, receiver, last>>
  PROVE  EventInv'
<1> SUFFICES ASSUME receiver PROVE CountsTo(unread, next)'
  BY DEF EventInv
<1>1. /\ todo = <<>> /\ events \in Seq(Numbers) /\ last \in Numbers /\ next \in Numbers
      /\ setup.events /\ CountsTo(unread, next)
  BY DEF TypesOK, EventTypeOK, EventInv
<1>2. PICK u \in Seq(Numbers) : u = <<last>> \o events /\ u # <<>> /\ u = unread
  <2>1. /\ <<last>> \o events \in Seq(Numbers) /\ <<last>> \o events # <<>>
        /\ <<last>> \o events = unread
    BY <1>1 DEF unread
  <2> QED
    BY <2>1
<1>3. PICK x \in Numbers : x = next
  BY <1>1
<1>4. CountsTo(u \o [i \in 1..k |-> (x + i - 1) % EventIds], (x + k) % EventIds)
  BY <1>1, <1>2, <1>3, CountsOn
<1>5. /\ unread' = u \o [i \in 1..k |-> (x + i - 1) % EventIds]
      /\ next' = (x + k) % EventIds
  BY <1>1, <1>2, <1>3 DEF Handled, unread
<1> QED
  BY <1>4, <1>5 DEF CountsTo

\* A sequence is its head and its tail.
LEMMA HeadAndTail ==
  ASSUME NEW s \in Seq(Numbers), s # <<>>
  PROVE  <<Head(s)>> \o Tail(s) = s
OBVIOUS

\* Reading an event drops the first number.
LEMMA CountsTail ==
  ASSUME NEW x \in Numbers, NEW v \in Seq(Numbers), v # <<>>, NEW y, CountsTo(<<x>> \o v, y)
  PROVE  CountsTo(v, y)
<1> DEFINE s == <<x>> \o v
<1>1. /\ Len(v) \in Nat /\ Len(v) >= 1 /\ Len(s) = Len(v) + 1
      /\ \A i \in 1..Len(v) : s[i + 1] = v[i]
  OBVIOUS
<1>2. CountsTo(s, y)
  OBVIOUS
<1> HIDE DEF s
<1>3. ASSUME NEW i \in 1..(Len(v) - 1) PROVE v[i + 1] = Succ(v[i])
  <2>1. i \in 1..Len(v) /\ i + 1 \in 1..Len(v) /\ i + 1 \in 1..(Len(s) - 1)
    BY <1>1
  <2>2. s[(i + 1) + 1] = Succ(s[i + 1])
    BY <1>2, <2>1 DEF CountsTo
  <2> QED
    BY <1>1, <2>1, <2>2
<1>4. s[Len(s)] = v[Len(v)]
  BY <1>1
<1> QED
  BY <1>2, <1>3, <1>4 DEF CountsTo

\* Moving the head of a sequence to the end of the one before it.
LEMMA HeadMoved ==
  ASSUME NEW x \in Numbers, NEW e \in Seq(Numbers), NEW s \in Seq(Numbers), s # <<>>
  PROVE  <<x>> \o Append(e, Head(s)) \o Tail(s) = <<x>> \o e \o s
<1> DEFINE u == <<x>> \o Append(e, Head(s)) \o Tail(s)
           v == <<x>> \o e \o s
<1>1. /\ <<x>> \in Seq(Numbers) /\ Head(s) \in Numbers /\ Tail(s) \in Seq(Numbers)
      /\ Append(e, Head(s)) \in Seq(Numbers) /\ <<x>> \o e \in Seq(Numbers)
      /\ <<x>> \o Append(e, Head(s)) \in Seq(Numbers)
  OBVIOUS
<1>2. u \in Seq(Numbers) /\ v \in Seq(Numbers)
  BY <1>1, ConcatProperties
<1>3. /\ Len(u) = 1 + (Len(e) + 1) + (Len(s) - 1)
      /\ Len(v) = 1 + Len(e) + Len(s)
      /\ Len(e) \in Nat /\ Len(s) \in Nat
  BY <1>1
<1>4. ASSUME NEW i \in 1..Len(u) PROVE u[i] = v[i]
  BY <1>1, <1>3
<1>5. Len(u) = Len(v)
  BY <1>3
<1> HIDE DEF u, v
<1>6. u = v
  BY <1>2, <1>4, <1>5, SeqEqual
<1> QED
  BY <1>6 DEF u, v

\* Waiting for room does not change the order.
LEMMA SendOrder ==
  ASSUME TypesOK, EventInv, SendEvent
  PROVE  EventInv'
<1>1. UNCHANGED <<setup, receiver, last, next>>
  BY DEF SendEvent, programVars
<1> SUFFICES ASSUME receiver PROVE CountsTo(unread, next)'
  BY <1>1 DEF EventInv
<1>2. /\ todo \in Seq(Numbers) /\ todo # <<>> /\ events \in Seq(Numbers) /\ last \in Numbers
      /\ todo' = Tail(todo) /\ events' = Append(events, Head(todo))
  BY DEF SendEvent, TypesOK, EventTypeOK
<1>3. <<last>> \o Append(events, Head(todo)) \o Tail(todo) = <<last>> \o events \o todo
  BY <1>2, HeadMoved
<1>4. unread' = unread
  BY <1>1, <1>2, <1>3 DEF unread
<1> QED
  BY <1>1, <1>4 DEF EventInv, CountsTo

\* Nor does reading.
LEMMA TakeOrder ==
  ASSUME TypesOK, EventInv, TakeEvent
  PROVE  EventInv'
<1>1. UNCHANGED <<setup, receiver, todo, next>>
  BY DEF TakeEvent, OutsideFrame, loopVars
<1> SUFFICES ASSUME receiver PROVE CountsTo(unread, next)'
  BY <1>1 DEF EventInv
<1>2. /\ todo \in Seq(Numbers) /\ events \in Seq(Numbers) /\ events # <<>> /\ last \in Numbers
      /\ last' = Head(events) /\ events' = Tail(events)
  BY DEF TakeEvent, TypesOK, EventTypeOK
<1>3. <<last>> \in Seq(Numbers) /\ events \o todo \in Seq(Numbers) /\ events \o todo # <<>>
  BY <1>2
<1>4. unread = <<last>> \o (events \o todo)
  BY <1>2, <1>3, ConcatAssociative DEF unread
<1>5. CountsTo(events \o todo, next)
  BY <1>2, <1>3, <1>4, CountsTail DEF EventInv
<1>6. unread' = events \o todo
  BY <1>1, <1>2, HeadAndTail DEF unread
<1> QED
  BY <1>1, <1>5, <1>6 DEF CountsTo

\* EventInv is inductive.
LEMMA EventStep ==
  ASSUME TypesOK, EventInv, [Next]_vars
  PROVE  EventInv'
<1>1. ASSUME UNCHANGED <<setup, receiver, last, events, todo, next>> PROVE EventInv'
  BY <1>1 DEF EventInv, CountsTo, unread
<1>2. CASE HelloTick \/ ProtocolTick \/ RecvPacket \/ RecvCommand \/ ServeControl
  <2>1. PICK k \in Numbers : Handled(k)
    BY <1>2, HandlerEvents
  <2>2. pc \in {"select", "control"} /\ UNCHANGED <<setup, events, receiver, last>>
    BY <1>2 DEF HelloTick, ProtocolTick, RecvPacket, RecvCommand, ServeControl, Selected,
       ServeFrame, BranchFrame, programVars
  <2> QED
    BY <2>1, <2>2, HandledOrder
<1>3. CASE RecvClosed \/ MetricsTick \/ Shutdown \/ WriteMetrics \/ \E r \in Requests : RecvControl(r)
  BY <1>1, <1>3 DEF RecvClosed, MetricsTick, Shutdown, WriteMetrics, RecvControl, Selected,
     ServeFrame, BranchFrame, WriteFrame, channelVars, programVars
<1>4. CASE Program
  <2>1. CASE DropReceiver
    BY <2>1 DEF DropReceiver, EventInv
  <2>2. CASE SendCommand \/ CommandSent \/ DemoSend \/ DropSenders
    BY <1>1, <2>2 DEF SendCommand, CommandSent, DemoSend, DropSenders, OutsideFrame, loopVars, programVars
  <2> QED
    BY <1>4, <2>1, <2>2, TakeOrder DEF Program
<1>5. CASE Cli \/ CtrlC \/ TimeFlies \/ Kill \/ UNCHANGED vars
  BY <1>1, <1>5 DEF Cli, CliSend, CliAnswer, CliTimeout, OutsideFrame, CtrlC, TimeFlies, Kill, vars,
     loopVars, channelVars, programVars
<1>6. CASE Start
  <2>1. /\ events' = <<>> /\ todo' = <<>> /\ last' = 0 /\ next' = 1 /\ receiver' = setup'.events
    BY <1>6 DEF Start
  <2>2. unread' = <<0>>
    BY <2>1 DEF unread
  <2>3. Succ(0) = 1
    BY NumberTypes DEF Succ
  <2> QED
    BY <2>1, <2>2, <2>3 DEF EventInv, CountsTo
<1> QED
  BY <1>2, <1>3, <1>4, <1>5, <1>6, SendOrder DEF Next, Loop

\* With any capacity of the event channel, however many discoveries a tick gives
\* up and however often the loop waits, a program that keeps its receiver gets
\* every event, once and in order.
THEOREM EventsInOrderTheorem == Spec => []EventsInOrder
<1>1. Init => EventInv
  <2> SUFFICES ASSUME Init PROVE EventInv
    OBVIOUS
  <2>1. unread = <<0>>
    BY DEF Init, unread
  <2>2. Succ(0) = 1
    BY NumberTypes DEF Succ
  <2> QED
    BY <2>1, <2>2 DEF Init, EventInv, CountsTo
<1>2. TypesOK /\ EventInv /\ [Next]_vars => EventInv'
  BY EventStep
<1>3. EventInv => EventsInOrder
  BY DEF EventInv, EventsInOrder, CountsTo, Succ, unread
<1> QED
  BY <1>1, <1>2, <1>3, TypesInvariant, PTL DEF Spec
=============================================================================
