------------------------------- MODULE Daemon -------------------------------
(***************************************************************************)
(* One daemon as a process (dldsr-node/src/daemon.rs): the select loop of  *)
(* run_with_channels with its timers, its command and event channels, the  *)
(* control socket, shutdown and the metrics file, and the three parties    *)
(* outside: the program that holds the other ends of the channels, the     *)
(* `send` command of the CLI, and the user who presses Ctrl-C or kills the *)
(* process.                                                                *)
(*                                                                         *)
(* The ProtocolState is represented by what it gives the loop to do: a     *)
(* handler counts in the metrics and returns some events.  Between two     *)
(* awaits the loop does not stop, so a step of this module runs from one   *)
(* await to the next.                                                      *)
(*                                                                         *)
(* A definition X_suffix before X is X with a plausible bug; no definition *)
(* uses it.                                                                *)
(***************************************************************************)
EXTENDS MetricsFile, Sequences, Functions

CONSTANTS Setups,       \* how the daemon may be started, see Setup
          CommandCap,   \* capacity of the command channel
          EventCap,     \* capacity of the event channel
          MaxCommands,  \* bound on the commands of the program
          MaxFailed,    \* bound on the discoveries one tick gives up
          EventIds,     \* events are numbered modulo this
          Requests,     \* datagrams the CLI sends to the control socket
          Malformed     \* the ones that are no ControlSendRequest

\* What hands commands to the loop (`demo` is the task of demo_send, which is
\* ignored when the program attached a channel), and whether events have a
\* receiver.
Setup == [commands : {"none", "demo", "program"}, events : BOOLEAN]

ASSUME DaemonAssumption ==
  /\ Setups \subseteq Setup
  /\ CommandCap \in Nat \ {0} /\ EventCap \in Nat \ {0} /\ MaxCommands \in Nat
  /\ MaxFailed \in Nat \ {0}
  /\ EventIds \in Nat /\ EventIds > EventCap + 2 * MaxFailed + 1
  /\ Malformed \subseteq Requests

VARIABLES setup,
          pc,        \* where the loop awaits
          serving,   \* the control request being served, as a set
          stopping,  \* the loop returns after the metrics are written
          todo,      \* events of the current handler still to be sent
          next,      \* number of the next event
          ctrl_c,    \* a signal reached the listener of this turn of select
          due,       \* the protocol timer has a tick to give; the others may always
          commands, senders,       \* the command channel, the open sending ends
          events, receiver,        \* the event channel, whether it has a receiver
          issued, program, last,   \* the program: commands sent, state, last event
          datagrams, replies, told, handled, \* control socket and CLI
          cut        \* history: requests answered but not handled when a process was killed

loopVars == <<pc, serving, stopping, todo, next, ctrl_c, due>>
channelVars == <<commands, senders, events, receiver>>
programVars == <<issued, program, last>>
controlVars == <<datagrams, replies, told, handled, cut>>
vars == <<setup, loopVars, channelVars, programVars, controlVars, metricsVars>>

Init ==
  /\ setup \in Setups
  /\ pc = "select" /\ serving = {} /\ stopping = FALSE
  /\ todo = <<>> /\ next = 1 /\ ctrl_c = FALSE /\ due = TRUE
  /\ commands = <<>> /\ senders = (setup.commands # "none")
  /\ events = <<>> /\ receiver = setup.events
  /\ issued = 0 /\ program = "running" /\ last = 0
  /\ datagrams = {} /\ replies = {}
  /\ told = [r \in Requests |-> "idle"] /\ handled = {} /\ cut = {}
  /\ MetricsInit
-----------------------------------------------------------------------------
(***************************************************************************)
(* The loop                                                                *)
(***************************************************************************)
\* Leaving select drops the futures of the other branches, and with them a
\* signal that reached this turn's listener.
Selected == pc = "select" /\ ctrl_c' = FALSE

Handled_zero(k) ==
  /\ Count
  /\ todo' = IF setup.events THEN [i \in 1..k |-> (next + i - 1) % EventIds] ELSE <<>>
  /\ next' = IF setup.events THEN (next + k) % EventIds ELSE next
  /\ pc' = IF setup.events THEN "events" ELSE "select"

\* A handler returns k events.  apply_actions first sends the packets, which
\* does not wait, then the events; without an event channel they are dropped.
Handled(k) ==
  /\ Count
  /\ todo' = IF setup.events THEN [i \in 1..k |-> (next + i - 1) % EventIds] ELSE <<>>
  /\ next' = IF setup.events THEN (next + k) % EventIds ELSE next
  /\ pc' = IF setup.events /\ k > 0 THEN "events" ELSE "select"

SendEvent_lossy ==
  /\ pc = "events"
  /\ todo' = Tail(todo)
  /\ pc' = IF Len(todo) = 1 THEN "select" ELSE "events"
  /\ events' = IF receiver /\ Len(events) < EventCap THEN Append(events, Head(todo)) ELSE events
  /\ UNCHANGED <<serving, stopping, next, ctrl_c, due, commands, senders, receiver,
                 setup, programVars, controlVars, metricsVars>>

SendEvent_reserves ==
  /\ pc = "events"
  /\ receiver => Len(events) + Len(todo) <= EventCap
  /\ todo' = Tail(todo)
  /\ pc' = IF Len(todo) = 1 THEN "select" ELSE "events"
  /\ events' = IF receiver THEN Append(events, Head(todo)) ELSE events
  /\ UNCHANGED <<serving, stopping, next, ctrl_c, due, commands, senders, receiver,
                 setup, programVars, controlVars, metricsVars>>

\* events.send(event).await: waits for room, gives the event up when the
\* receiver is gone.
SendEvent ==
  /\ pc = "events"
  /\ receiver => Len(events) < EventCap
  /\ todo' = Tail(todo)
  /\ pc' = IF Len(todo) = 1 THEN "select" ELSE "events"
  /\ events' = IF receiver THEN Append(events, Head(todo)) ELSE events
  /\ UNCHANGED <<serving, stopping, next, ctrl_c, due, commands, senders, receiver,
                 setup, programVars, controlVars, metricsVars>>

BranchFrame == UNCHANGED <<setup, stopping, events, receiver, programVars>>
ServeFrame == BranchFrame /\ UNCHANGED due

HelloTick ==
  /\ Selected /\ Handled(0)
  /\ ServeFrame /\ UNCHANGED <<serving, commands, senders, controlVars>>

ProtocolTick_after_commands ==
  /\ Selected
  /\ due /\ due' = FALSE
  /\ setup.commands # "none" => commands = <<>> /\ senders
  /\ \E failed \in 0..MaxFailed : Handled(2 * failed)
  /\ BranchFrame /\ UNCHANGED <<serving, commands, senders, controlVars>>

\* handle_tick reports every discovery it gives up by two events.
ProtocolTick ==
  /\ Selected
  /\ due /\ due' = FALSE
  /\ \E failed \in 0..MaxFailed : Handled(2 * failed)
  /\ BranchFrame /\ UNCHANGED <<serving, commands, senders, controlVars>>

\* handle_packet: nothing to report, a route or a delivery, or a drop.  A
\* datagram that is no packet only leaves a warning.
RecvPacket ==
  /\ Selected
  /\ \E k \in 0..2 : Handled(k)
  /\ ServeFrame /\ UNCHANGED <<serving, commands, senders, controlVars>>

RecvCommand_unless_closed ==
  /\ Selected
  /\ senders /\ commands # <<>>
  /\ commands' = Tail(commands)
  /\ \E k \in {0, 2} : Handled(k)
  /\ ServeFrame /\ UNCHANGED <<serving, senders, controlVars>>

\* recv_command yields a command; a dropped payload is reported by two events.
RecvCommand ==
  /\ Selected
  /\ commands # <<>>
  /\ commands' = Tail(commands)
  /\ \E k \in {0, 2} : Handled(k)
  /\ ServeFrame /\ UNCHANGED <<serving, senders, controlVars>>

\* Once the senders are gone and the channel is empty it yields None, at once
\* and on every turn.
RecvClosed ==
  /\ Selected
  /\ setup.commands # "none" /\ ~senders /\ commands = <<>>
  /\ ServeFrame
  /\ UNCHANGED <<pc, serving, todo, next, commands, senders, controlVars, metricsVars>>

\* handle_control_message answers first ...
RecvControl(r) ==
  /\ Selected
  /\ r \in datagrams
  /\ datagrams' = datagrams \ {r}
  /\ replies' = replies \cup {r}
  /\ \/ r \in Malformed /\ UNCHANGED <<pc, serving>>
     \/ r \notin Malformed /\ pc' = "control" /\ serving' = {r}
  /\ ServeFrame
  /\ UNCHANGED <<todo, next, commands, senders, told, handled, cut, metricsVars>>

ServeControl_forgets ==
  /\ pc = "control"
  /\ pc' = "select" /\ serving' = {}
  /\ UNCHANGED <<todo, next, ctrl_c, commands, senders, controlVars, metricsVars>>
  /\ ServeFrame

\* ... and handles the command then.
ServeControl ==
  /\ pc = "control"
  /\ handled' = handled \cup serving
  /\ serving' = {}
  /\ \E k \in {0, 2} : Handled(k)
  /\ UNCHANGED <<ctrl_c, commands, senders, datagrams, replies, told, cut>>
  /\ ServeFrame

\* write_metrics_file, with an await before each of its system calls.
WriteFrame ==
  UNCHANGED <<setup, serving, todo, next, due, channelVars, programVars, controlVars>>

MetricsTick ==
  /\ Selected
  /\ pc' = "create"
  /\ WriteFrame /\ UNCHANGED <<stopping, metricsVars>>

Shutdown_unwritten ==
  /\ ctrl_c
  /\ Selected
  /\ pc' = "exited" /\ stopping' = TRUE
  /\ WriteFrame /\ UNCHANGED metricsVars

Shutdown_idle ==
  /\ ctrl_c /\ ~due
  /\ Selected
  /\ pc' = "create" /\ stopping' = TRUE
  /\ WriteFrame /\ UNCHANGED metricsVars

Shutdown ==
  /\ ctrl_c
  /\ Selected
  /\ pc' = "create" /\ stopping' = TRUE
  /\ WriteFrame /\ UNCHANGED metricsVars

WrittenPc == IF stopping THEN "exited" ELSE "select"

WriteMetrics ==
  /\ \/ pc = "create" /\ CreateTmp /\ pc' = "fill"
     \/ pc = "fill" /\ FillTmp /\ pc' = "rename"
     \/ pc = "rename" /\ Rename /\ pc' = WrittenPc
     \/ pc \in {"create", "fill", "rename"} /\ WriteError /\ pc' = WrittenPc
  /\ WriteFrame /\ UNCHANGED <<stopping, ctrl_c>>
-----------------------------------------------------------------------------
(***************************************************************************)
(* The parties outside                                                     *)
(***************************************************************************)
Running == pc \notin {"exited", "down"}

OutsideFrame == UNCHANGED <<setup, loopVars, metricsVars>>

\* The program sends a command: it waits while the channel is full, and does
\* nothing else meanwhile.
SendCommand ==
  /\ setup.commands = "program" /\ program = "running" /\ senders
  /\ issued < MaxCommands
  /\ issued' = issued + 1
  /\ \/ /\ Len(commands) < CommandCap
        /\ commands' = Append(commands, issued + 1) /\ UNCHANGED program
     \/ /\ Len(commands) = CommandCap
        /\ program' = "sending" /\ UNCHANGED commands
  /\ OutsideFrame /\ UNCHANGED <<last, senders, events, receiver, controlVars>>

CommandSent ==
  /\ program = "sending"
  /\ Len(commands) < CommandCap
  /\ commands' = Append(commands, issued)
  /\ program' = "running"
  /\ OutsideFrame /\ UNCHANGED <<issued, last, senders, events, receiver, controlVars>>

\* The task of demo_send wakes up, sends its command and ends.
DemoSend ==
  /\ setup.commands = "demo" /\ senders
  /\ commands' = Append(commands, 1)
  /\ issued' = 1 /\ senders' = FALSE
  /\ OutsideFrame /\ UNCHANGED <<program, last, events, receiver, controlVars>>

\* The program reads an event, or gives up one end of a channel.
TakeEvent ==
  /\ program = "running" /\ receiver /\ events # <<>>
  /\ last' = Head(events) /\ events' = Tail(events)
  /\ OutsideFrame /\ UNCHANGED <<issued, program, commands, senders, receiver, controlVars>>

DropReceiver ==
  /\ program = "running" /\ receiver
  /\ receiver' = FALSE /\ events' = <<>>
  /\ OutsideFrame /\ UNCHANGED <<programVars, commands, senders, controlVars>>

DropSenders ==
  /\ setup.commands = "program" /\ program = "running" /\ senders
  /\ senders' = FALSE
  /\ OutsideFrame /\ UNCHANGED <<programVars, commands, events, receiver, controlVars>>

\* dldsr-node send: one datagram, no retry, and two seconds for the answer.
CliSend(r) ==
  /\ told[r] = "idle"
  /\ told' = [told EXCEPT ![r] = "waiting"]
  /\ datagrams' = datagrams \cup {r}
  /\ OutsideFrame /\ UNCHANGED <<channelVars, programVars, replies, handled, cut>>

CliAnswer(r) ==
  /\ r \in replies /\ told[r] = "waiting"
  /\ told' = [told EXCEPT ![r] = IF r \in Malformed THEN "error" ELSE "accepted"]
  /\ OutsideFrame /\ UNCHANGED <<channelVars, programVars, datagrams, replies, handled, cut>>

CliTimeout(r) ==
  /\ told[r] = "waiting"
  /\ told' = [told EXCEPT ![r] = "nothing"]
  /\ OutsideFrame /\ UNCHANGED <<channelVars, programVars, datagrams, replies, handled, cut>>

\* Ctrl-C reaches the loop while it waits in select.  At any other time no
\* listener exists and the signal has no effect.
CtrlC ==
  /\ pc = "select" /\ ~ctrl_c
  /\ ctrl_c' = TRUE
  /\ UNCHANGED <<setup, pc, serving, stopping, todo, next, due, channelVars, programVars,
                 controlVars, metricsVars>>

\* The next tick of the protocol timer is due.
TimeFlies ==
  /\ ~due /\ due' = TRUE
  /\ UNCHANGED <<setup, pc, serving, stopping, todo, next, ctrl_c, channelVars, programVars,
                 controlVars, metricsVars>>

\* The process is killed, at any await; a request it was serving has been
\* answered and will not be handled.
Kill ==
  /\ Running
  /\ pc' = "down"
  /\ cut' = cut \cup serving
  /\ UNCHANGED <<setup, serving, stopping, todo, next, due, ctrl_c, channelVars, programVars,
                 datagrams, replies, told, handled, metricsVars>>

\* The daemon is started again, the program with it; datagrams in the network
\* and files remain.
Start ==
  /\ ~Running
  /\ NewProcess
  /\ pc' = "select" /\ serving' = {} /\ stopping' = FALSE
  /\ todo' = <<>> /\ next' = 1 /\ ctrl_c' = FALSE /\ due' = TRUE
  /\ commands' = <<>> /\ senders' = (setup.commands # "none")
  /\ events' = <<>> /\ receiver' = setup.events
  /\ issued' = 0 /\ program' = "running" /\ last' = 0
  /\ UNCHANGED <<setup, controlVars>>

Loop ==
  \/ HelloTick \/ ProtocolTick \/ MetricsTick \/ RecvPacket \/ RecvCommand \/ RecvClosed
  \/ \E r \in Requests : RecvControl(r)
  \/ ServeControl \/ SendEvent \/ WriteMetrics \/ Shutdown

\* The program ends with the process, but not with the loop.
Program ==
  \/ Running /\ (SendCommand \/ CommandSent \/ DemoSend \/ DropReceiver \/ DropSenders)
  \/ pc # "down" /\ TakeEvent

Cli == \E r \in Requests : CliSend(r) \/ CliAnswer(r) \/ CliTimeout(r)

Next == Loop \/ Program \/ Cli \/ CtrlC \/ TimeFlies \/ Kill \/ Start

Spec == Init /\ [][Next]_vars

\* select! picks at random among the branches that are ready, so one that is
\* ready again and again is taken; what the loop awaits elsewhere is done as
\* soon as it can be.  The program reads its events unless it waits itself.
Fairness ==
  /\ SF_vars(ProtocolTick) /\ SF_vars(RecvCommand) /\ SF_vars(Shutdown)
  /\ \A r \in Requests : SF_vars(RecvControl(r))
  /\ WF_vars(TimeFlies) /\ WF_vars(ServeControl) /\ WF_vars(SendEvent) /\ WF_vars(WriteMetrics)
  /\ WF_vars(Running /\ CommandSent) /\ WF_vars(pc # "down" /\ TakeEvent)

FairSpec == Spec /\ Fairness
-----------------------------------------------------------------------------
DaemonTypeOK ==
  /\ setup \in Setups
  /\ pc \in {"select", "events", "control", "create", "fill", "rename", "exited", "down"}
  /\ serving \subseteq Requests \ Malformed
  /\ stopping \in BOOLEAN /\ ctrl_c \in BOOLEAN /\ due \in BOOLEAN
  /\ todo \in Seq(0..(EventIds - 1)) /\ events \in Seq(0..(EventIds - 1))
  /\ next \in 0..(EventIds - 1) /\ last \in 0..(EventIds - 1)
  /\ (pc = "events") = (todo # <<>> /\ pc # "down")
  /\ Len(events) <= EventCap /\ Len(commands) <= CommandCap
  /\ commands \in Seq(1..(MaxCommands + 1)) /\ issued \in 0..(MaxCommands + 1)
  /\ senders \in BOOLEAN /\ receiver \in BOOLEAN
  /\ program \in {"running", "sending"}
  /\ datagrams \subseteq Requests /\ replies \subseteq Requests
  /\ told \in [Requests -> {"idle", "waiting", "accepted", "error", "nothing"}]
  /\ handled \subseteq Requests /\ cut \subseteq Requests
  /\ process \in 1..MaxProcesses /\ counted \in 0..MaxCounted
  /\ tmp \in Files /\ file \in Files /\ written \in BOOLEAN

\* A program that keeps its receiver gets every event, once and in the order
\* in which the handlers returned them, however often the loop had to wait.
EventsInOrder ==
  LET unread == <<last>> \o events \o todo
  IN  receiver =>
        /\ \A i \in 1..(Len(unread) - 1) : unread[i + 1] = (unread[i] + 1) % EventIds
        /\ (unread[Len(unread)] + 1) % EventIds = next

\* The answer the CLI prints is true, whichever process gave it: "accepted"
\* means that the command was handed to the protocol or is next, and fails only
\* for a request whose own process was killed between the answer and that;
\* "error" means that it was not handed over.
AnswersKept ==
  \A r \in Requests :
    /\ told[r] = "accepted" => r \in handled \cup cut \/ (pc = "control" /\ r \in serving)
    /\ told[r] = "error" => r \notin handled

\* Whoever reads the metrics file, at whatever moment and after whatever crash
\* or failed write, finds a whole snapshot.
FileWhole == file.state # "partial"

\* No snapshot is replaced by an older one.
SnapshotsInOrder ==
  [][ file' # file =>
        /\ file'.state = "complete"
        /\ file.state = "complete" =>
             \/ file'.process > file.process
             \/ file'.process = file.process /\ file'.counted >= file.counted ]_file

\* A daemon stopped by Ctrl-C leaves a file with its final counters, unless
\* that last write failed.
FinalSnapshot == pc = "exited" /\ written => file = metrics_snapshot

\* The loop stays in apply_actions for ever, where it serves neither timers nor
\* packets, only when the program sent more commands than the channel holds and
\* waits for the loop in turn, for ever.
StuckOnlyByOverload ==
  <>[](pc = "events") => <>[](program = "sending" /\ issued > CommandCap)

\* The protocol timer is served for ever, also when all command senders are
\* gone and recv_command is always ready, as long as loop and program do not
\* wait for each other.
TicksGoOn == []<><<ProtocolTick>>_vars \/ <>~Running \/ <>[](program = "sending")

\* A command stays in the channel of a running daemon only when loop and program
\* wait for each other for ever; one that was left there when the senders were
\* dropped is handled too.
CommandsTaken ==
  \A c \in 1..MaxCommands :
    <>[](Running /\ c \in Range(commands)) => <>[](pc = "events" /\ program = "sending")

\* Ctrl-C stops the daemon when it is pressed often enough: every press may be
\* lost to a branch that is ready at the same time, but not all of them.
CtrlCStops == []<><<CtrlC>>_vars => <>(pc = "exited")
=============================================================================
