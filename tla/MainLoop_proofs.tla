--------------------------- MODULE MainLoop_proofs ---------------------------
(***************************************************************************)
(* The main loop, for any number of threads and any calls of the handlers: *)
(* what runs on the main thread came from a handler, a task or libuv; a    *)
(* timer's callback never meets an operation that was finished while the   *)
(* timer was about to fire; and the connection writes everything it has    *)
(* accepted, once, in order, and before it is closed.                      *)
(***************************************************************************)
EXTENDS MainLoop, TLAPS, SequenceTheorems

(* A frame of a stack.  The callback of a Timeout is none: it is only ever   *)
(* the topmost call of the main thread.                                      *)
Tasks == {"close", "flush", "route", "generate", "cancel"}

PlainCalls ==
    Calls \cup Tasks \cup
    {"forget", "signal", "flush_tasks", "send_finished", "send_expired",
     "handle_disconnect", "receive_disconnect", "destroy_timer"}

Frame ==
    [call : PlainCalls] \cup [call : {"enqueue"}, task : Tasks] \cup
    [call : {"run"}, pending : Seq(Tasks)] \cup [call : {"write"}, data : Seq(Nat)]

Callback == [call |-> "timeout"]

Client ==
    [m_socket : BOOLEAN, m_is_sending : BOOLEAN, m_send_buf : BOOLEAN,
     m_send_queue : Seq(Nat), m_total_queue_size : Nat,
     m_local_disconnect : BOOLEAN, m_disconnect_handled : BOOLEAN]

ClientTyped(c) ==
    /\ c \in Client
    /\ c.m_total_queue_size = Len(c.m_send_queue)

Ghost ==
    [pushed : Nat, owed : Nat, told : Nat,
     expired : BOOLEAN, dangling : BOOLEAN, aborted : BOOLEAN]

StackTyped(t) ==
    /\ stack[t] \in Seq(Frame \cup {Callback})
    /\ stack[t] # <<>> =>
         /\ Head(stack[t]) \in Frame \/ (t = Main /\ Head(stack[t]) = Callback)
         /\ Tail(stack[t]) \in Seq(Frame)

StacksTyped ==
    /\ stack = [t \in Threads |-> stack[t]]
    /\ \A t \in Threads : StackTyped(t)

LoopTyped ==
    /\ scenario \in Scenarios
    /\ ghost \in Ghost
    /\ ClientTyped(client)
    /\ StacksTyped
    /\ m_task_queue \in Seq(Tasks)

-----------------------------------------------------------------------------
(* What a locked section of the connection leaves: the queue's size is       *)
(* known, and the calls still to make are frames.                            *)
Section(left) == ClientTyped(left.client) /\ left.calls \in Seq(Frame)

LEMMA PlainIsFrame == \A call \in PlainCalls : Call(call) \in Frame
  BY DEF Call, Frame

LEMMA EnqueueIsFrame == \A task \in Tasks : Enqueue(task) \in Frame
  BY DEF Enqueue, Frame

(* The queue is only ever replaced together with its size. *)
LEMMA QueueReplaced ==
  ASSUME NEW c, ClientTyped(c), NEW q \in Seq(Nat), NEW n \in Nat, n = Len(q)
  PROVE  ClientTyped([c EXCEPT !.m_send_queue = q, !.m_total_queue_size = n])
<1> DEFINE d == [c EXCEPT !.m_send_queue = q, !.m_total_queue_size = n]
<1>1. c \in Client
  BY DEF ClientTyped
<1>2. d \in Client
  BY <1>1 DEF Client
<1>3. d.m_send_queue = q /\ d.m_total_queue_size = n
  BY <1>1 DEF Client
<1>4. QED
  BY <1>2, <1>3 DEF ClientTyped

LEMMA ShutdownSection ==
  ASSUME NEW c, ClientTyped(c)
  PROVE  Section(shutdown(c))
<1>1. Enqueue("close") \in Frame
  BY EnqueueIsFrame DEF Tasks
<1>2. [call |-> "forget"] \in Frame
  BY PlainIsFrame DEF Call, PlainCalls
<1>3. <<>> \in Seq(Frame) /\ <<Enqueue("close"), [call |-> "forget"]>> \in Seq(Frame)
  BY <1>1, <1>2
<1>4. QED
  BY <1>3 DEF shutdown, Leaving, Section

LEMMA FlushSection ==
  ASSUME NEW c, ClientTyped(c)
  PROVE  Section(flush_send_queue(c))
<1> DEFINE write == [call |-> "write", data |-> c.m_send_queue]
           left == [c EXCEPT !.m_send_buf = TRUE, !.m_is_sending = TRUE,
                             !.m_send_queue = <<>>,
                             !.m_total_queue_size = @ - Len(c.m_send_queue)]
<1>1. write \in Frame
  BY DEF Frame, ClientTyped, Client
<1>2. <<>> \in Seq(Frame) /\ <<write>> \in Seq(Frame)
  BY <1>1
<1>3. ClientTyped(left)
  <2> DEFINE sending == [c EXCEPT !.m_send_buf = TRUE, !.m_is_sending = TRUE]
  <2>1. ClientTyped(sending)
    BY DEF ClientTyped, Client
  <2>2. c.m_total_queue_size - Len(c.m_send_queue) = 0
    BY DEF ClientTyped, Client
  <2>3. <<>> \in Seq(Nat) /\ Len(<<>>) = 0
    OBVIOUS
  <2>4. left = [sending EXCEPT !.m_send_queue = <<>>, !.m_total_queue_size = 0]
    BY <2>2 DEF ClientTyped, Client
  <2>5. QED
    BY <2>1, <2>3, <2>4, QueueReplaced
<1>4. QED
  BY <1>2, <1>3 DEF flush_send_queue, Leaving, Section

LEMMA PokeSection ==
  ASSUME NEW c, ClientTyped(c), NEW on_main \in BOOLEAN
  PROVE  Section(PokeMain(c, on_main))
<1>1. <<Enqueue("flush")>> \in Seq(Frame)
  BY EnqueueIsFrame DEF Tasks
<1>2. QED
  BY <1>1, FlushSection DEF PokeMain, Leaving, Section

LEMMA DisconnectSection ==
  ASSUME NEW c, ClientTyped(c), NEW on_main \in BOOLEAN
  PROVE  Section(disconnect(c, on_main))
<1> DEFINE closing == [c EXCEPT !.m_local_disconnect = TRUE]
<1>1. ClientTyped(closing)
  BY DEF ClientTyped, Client
<1>2. Section(shutdown(closing)) /\ Section(PokeMain(closing, on_main))
  BY <1>1, ShutdownSection, PokeSection
<1>3. Section(Leaving(c, <<>>))
  BY DEF Section, Leaving
<1>4. QED
  BY <1>2, <1>3 DEF disconnect

LEMMA SendSection ==
  ASSUME NEW c, ClientTyped(c), NEW dg \in Nat, NEW on_main \in BOOLEAN
  PROVE  Section(send_datagram(c, dg, on_main))
<1> DEFINE pushed == [c EXCEPT !.m_send_queue = Append(@, dg),
                               !.m_total_queue_size = @ + 1]
<1>1. ClientTyped(pushed)
  <2> DEFINE q == Append(c.m_send_queue, dg)
  <2>1. c \in Client /\ c.m_send_queue \in Seq(Nat)
    BY DEF ClientTyped, Client
  <2>2. q \in Seq(Nat) /\ Len(q) = c.m_total_queue_size + 1
    BY <2>1 DEF ClientTyped
  <2>3. c.m_total_queue_size + 1 \in Nat
    BY <2>1 DEF Client
  <2>4. QED
    BY <2>1, <2>2, <2>3, QueueReplaced
<1>2. Section(disconnect(pushed, on_main)) /\ Section(PokeMain(pushed, on_main))
  BY <1>1, DisconnectSection, PokeSection
<1>3. Section(Leaving(c, <<>>))
  BY DEF Section, Leaving
<1>4. QED
  BY <1>2, <1>3 DEF send_datagram

LEMMA HandleDisconnectSection ==
  ASSUME NEW c, ClientTyped(c)
  PROVE  Section(handle_disconnect(c))
<1> DEFINE handled == [c EXCEPT !.m_disconnect_handled = TRUE]
           told == [call |-> "receive_disconnect"]
<1>1. ClientTyped(handled)
  BY DEF ClientTyped, Client
<1>2. shutdown(handled).calls \in Seq(Frame)
  BY <1>1, ShutdownSection DEF Section
<1>3. told \in Frame
  BY PlainIsFrame DEF Call, PlainCalls
<1>4. Append(shutdown(handled).calls, told) \in Seq(Frame)
  BY <1>2, <1>3
<1>5. QED
  BY <1>1, <1>4 DEF handle_disconnect, Leaving, Section

LEMMA SendOverTyped ==
  ASSUME NEW c, ClientTyped(c)
  PROVE  ClientTyped(SendOver(c))
BY DEF ClientTyped, Client, SendOver

LEMMA SendFinishedSection ==
  ASSUME NEW c, ClientTyped(c)
  PROVE  Section(send_finished(c))
<1>1. ClientTyped(SendOver(c))
  BY SendOverTyped
<1>2. Section(shutdown(SendOver(c))) /\ Section(flush_send_queue(SendOver(c)))
  BY <1>1, ShutdownSection, FlushSection
<1>3. Section(Leaving(SendOver(c), <<>>))
  BY <1>1 DEF Section, Leaving
<1>4. QED
  BY <1>2, <1>3 DEF send_finished

LEMMA SendExpiredSection ==
  ASSUME NEW c, ClientTyped(c)
  PROVE  Section(send_expired(c))
<1> DEFINE over == [SendOver(c) EXCEPT !.m_send_queue = <<>>, !.m_total_queue_size = 0]
<1>1. ClientTyped(over)
  <2>1. <<>> \in Seq(Nat) /\ Len(<<>>) = 0
    OBVIOUS
  <2>2. QED
    BY <2>1, SendOverTyped, QueueReplaced
<1>2. QED
  BY <1>1, DisconnectSection DEF send_expired

-----------------------------------------------------------------------------
(* Every step but InterestTimer leaves frames on the stack of one thread, or *)
(* nothing changed there.                                                    *)
Moves == \E t \in Threads, s \in Seq(Frame) : stack' = [stack EXCEPT ![t] = s]

Keeps ==
    /\ Moves \/ UNCHANGED stack
    /\ scenario' = scenario
    /\ ghost' \in Ghost
    /\ ClientTyped(client')
    /\ m_task_queue' \in Seq(Tasks)

LEMMA FrameFacts ==
  ASSUME NEW f \in Frame
  PROVE  /\ f.call # "timeout"
         /\ f.call = "enqueue" => f.task \in Tasks
         /\ f.call = "run" => f.pending \in Seq(Tasks)
BY DEF Frame, PlainCalls, Calls, Tasks

LEMMA TopFrame ==
  ASSUME LoopTyped, NEW t \in Threads, NEW call, At(t, call)
  PROVE  /\ stack[t] # <<>> /\ Head(stack[t]).call = call
         /\ Tail(stack[t]) \in Seq(Frame)
         /\ call # "timeout" => Head(stack[t]) \in Frame
BY DEF LoopTyped, StacksTyped, StackTyped, At, Callback

LEMMA Returned ==
  ASSUME LoopTyped, NEW t \in Threads, NEW call, At(t, call),
         NEW calls \in Seq(Frame), Return(t, calls)
  PROVE  Moves
<1>1. Tail(stack[t]) \in Seq(Frame)
  BY TopFrame
<1>2. calls \o Tail(stack[t]) \in Seq(Frame)
  BY <1>1
<1>3. QED
  BY <1>2 DEF Return, Moves

LEMMA LockedKeeps ==
  ASSUME LoopTyped, NEW t \in Threads, NEW call, At(t, call),
         NEW left, Section(left), NEW pushed \in Nat, Locked(t, left, pushed)
  PROVE  Keeps
<1>1. Moves
  BY Returned DEF Locked, Section
<1>2. ghost' \in Ghost
  BY DEF Locked, LoopTyped, Ghost
<1>3. ClientTyped(client') /\ scenario' = scenario /\ m_task_queue' \in Seq(Tasks)
  BY DEF Locked, Section, LoopTyped, taskVars
<1>4. QED
  BY <1>1, <1>2, <1>3 DEF Keeps

(* The steps that touch neither the connection nor what is queued.           *)
LEMMA OthersKeep ==
  ASSUME LoopTyped, Moves \/ UNCHANGED stack, ghost' \in Ghost,
         UNCHANGED <<scenario, client, m_task_queue>>
  PROVE  Keeps
BY DEF LoopTyped, Keeps

LEMMA PlainSequences ==
  /\ <<>> \in Seq(Frame)
  /\ \A c \in PlainCalls : <<Call(c)>> \in Seq(Frame)
  /\ \A c, d \in PlainCalls : <<Call(c), Call(d)>> \in Seq(Frame)
  /\ \A task \in Tasks : <<Enqueue(task)>> \in Seq(Frame)
<1>1. \A c \in PlainCalls : Call(c) \in Frame
  BY PlainIsFrame
<1>2. \A task \in Tasks : Enqueue(task) \in Frame
  BY EnqueueIsFrame
<1>3. QED
  BY <1>1, <1>2

LEMMA ThreadStepKeeps ==
  ASSUME LoopTyped, NEW t \in Threads, ThreadStep(t)
  PROVE  Keeps
<1> DEFINE on_main == t = Main
<1>1. ClientTyped(client) /\ ghost \in Ghost /\ ghost.pushed \in Nat
      /\ on_main \in BOOLEAN
  BY DEF LoopTyped, Ghost
<1>2. CASE SendDatagram(t)
  <2>1. Section(send_datagram(client, ghost.pushed + 1, on_main))
    <3>1. ghost.pushed + 1 \in Nat
      BY <1>1
    <3>2. QED
      BY <1>1, <3>1, SendSection
  <2>2. ghost.pushed + (IF is_connected(client) THEN 1 ELSE 0) \in Nat
    BY <1>1
  <2>3. QED
    BY <1>2, <2>1, <2>2, LockedKeeps DEF SendDatagram
<1>3. CASE Disconnect(t)
  <2>1. Section(disconnect(client, on_main))
    BY <1>1, DisconnectSection
  <2>2. QED
    BY <1>1, <1>3, <2>1, LockedKeeps DEF Disconnect
<1>4. CASE SendDisconnect(t)
  <2>1. {"send_datagram", "disconnect"} \subseteq PlainCalls
    BY DEF PlainCalls, Calls
  <2>2. Moves
    BY <1>4, <2>1, PlainSequences, Returned DEF SendDisconnect
  <2>3. QED
    BY <1>1, <1>4, <2>2, OthersKeep DEF SendDisconnect, taskVars
<1>5. CASE Forget(t)
  <2>1. Section(Leaving(Forgotten(client), <<>>))
    BY <1>1, PlainSequences DEF Section, Leaving, Forgotten, ClientTyped, Client
  <2>2. QED
    BY <1>1, <1>5, <2>1, LockedKeeps DEF Forget
<1>6. CASE EnqueueTask(t)
  <2>1. Top(t).task \in Tasks
    BY <1>6, TopFrame, FrameFacts DEF EnqueueTask, Top
  <2>2. m_task_queue' \in Seq(Tasks)
    BY <1>6, <2>1 DEF EnqueueTask, LoopTyped
  <2>3. {"flush_tasks", "signal"} \subseteq PlainCalls
    BY DEF PlainCalls
  <2>4. Moves
    BY <1>6, <2>3, PlainSequences, Returned DEF EnqueueTask
  <2>5. QED
    BY <1>1, <1>6, <2>2, <2>4 DEF EnqueueTask, Keeps
<1>7. CASE Signal(t)
  <2>1. Moves
    BY <1>7, PlainSequences, Returned DEF Signal
  <2>2. QED
    BY <1>1, <1>7, <2>1, OthersKeep DEF Signal
<1>8. CASE PostRouting(t)
  <2>1. "route" \in Tasks
    BY DEF Tasks
  <2>2. Moves
    BY <1>8, <2>1, PlainSequences, Returned DEF PostRouting
  <2>3. QED
    BY <1>1, <1>8, <2>2, OthersKeep DEF PostRouting, taskVars
<1>9. CASE OpenInterest(t)
  <2>1. "generate" \in Tasks /\ "generate" \in PlainCalls
    BY DEF Tasks, PlainCalls
  <2>2. Moves
    BY <1>9, <2>1, PlainSequences, Returned DEF OpenInterest
  <2>3. QED
    BY <1>1, <1>9, <2>2, OthersKeep DEF OpenInterest, taskVars
<1>10. CASE Finish(t)
  <2>1. "cancel" \in Tasks
    BY DEF Tasks
  <2>2. Moves
    BY <1>10, <2>1, PlainSequences, Returned DEF Finish
  <2>3. QED
    BY <1>1, <1>10, <2>2, OthersKeep DEF Finish, taskVars
<1>11. QED
  BY <1>2, <1>3, <1>4, <1>5, <1>6, <1>7, <1>8, <1>9, <1>10, ThreadStep(t) DEF ThreadStep

LEMMA MainStepKeeps ==
  ASSUME LoopTyped, MainStep
  PROVE  Keeps
<1>1. ClientTyped(client) /\ ghost \in Ghost /\ ghost.pushed \in Nat /\ Main \in Threads
  BY DEF LoopTyped, Ghost, Threads
<1>2. CASE FlushTasks
  <2>1. <<[call |-> "run", pending |-> m_task_queue]>> \in Seq(Frame)
    BY DEF LoopTyped, Frame
  <2>2. Moves
    BY <1>1, <1>2, <2>1, PlainSequences, Returned DEF FlushTasks
  <2>3. m_task_queue' \in Seq(Tasks)
    <3>1. m_task_queue \in Seq(Tasks) /\ <<>> \in Seq(Tasks)
      BY DEF LoopTyped
    <3>2. m_task_queue' = m_task_queue \/ m_task_queue' = <<>>
      BY <1>2 DEF FlushTasks
    <3>3. QED
      BY <3>1, <3>2
  <2>4. QED
    BY <1>1, <1>2, <2>2, <2>3 DEF FlushTasks, Keeps
<1>3. CASE RunTask
  <2> DEFINE pending == Top(Main).pending
             left == <<Call(Head(pending)), [call |-> "run", pending |-> Tail(pending)]>>
  <2>1. pending \in Seq(Tasks)
    BY <1>1, <1>3, TopFrame, FrameFacts DEF RunTask, Top
  <2>2. ASSUME pending # <<>> PROVE left \in Seq(Frame)
    <3>1. Head(pending) \in PlainCalls /\ Tail(pending) \in Seq(Tasks)
      BY <2>1, <2>2 DEF PlainCalls
    <3>2. Call(Head(pending)) \in Frame
      BY <3>1, PlainIsFrame
    <3>3. [call |-> "run", pending |-> Tail(pending)] \in Frame
      BY <3>1 DEF Frame
    <3>4. QED
      BY <3>2, <3>3
  <2>3. Moves
    <3>1. CASE pending = <<>>
      BY <1>1, <1>3, <3>1, PlainSequences, Returned DEF RunTask
    <3>2. CASE pending # <<>>
      BY <1>1, <1>3, <3>2, <2>2, Returned DEF RunTask
    <3>3. QED
      BY <3>1, <3>2
  <2>4. QED
    BY <1>1, <1>3, <2>3, OthersKeep DEF RunTask
<1>4. CASE RouteTask
  <2>1. PICK call \in scenario.routed : Return(Main, <<Call(call)>>)
    BY <1>4 DEF RouteTask
  <2>2. call \in PlainCalls
    BY <2>1, ScenariosAssumption DEF LoopTyped, PlainCalls
  <2>3. Moves
    BY <1>1, <1>4, <2>1, <2>2, PlainSequences, Returned DEF RouteTask
  <2>4. QED
    BY <1>1, <1>4, <2>3, OthersKeep DEF RouteTask, taskVars
<1>5. CASE FlushTask
  <2>1. Section(flush_send_queue(client))
    BY <1>1, FlushSection
  <2>2. QED
    BY <1>1, <1>5, <2>1, LockedKeeps DEF FlushTask
<1>6. CASE CloseTask
  <2>1. Moves
    BY <1>1, <1>6, PlainSequences, Returned DEF CloseTask
  <2>2. QED
    BY <1>1, <1>6, <2>1, OthersKeep DEF CloseTask, taskVars
<1>7. CASE Write
  <2>1. "handle_disconnect" \in PlainCalls
    BY DEF PlainCalls
  <2>2. Moves
    BY <1>1, <1>7, <2>1, PlainSequences, Returned DEF Write
  <2>3. QED
    BY <1>1, <1>7, <2>2, OthersKeep DEF Write, taskVars
<1>8. CASE SendFinished
  <2>1. Section(send_finished(client))
    BY <1>1, SendFinishedSection
  <2>2. QED
    BY <1>1, <1>8, <2>1, LockedKeeps DEF SendFinished
<1>9. CASE SendExpired
  <2>1. Section(send_expired(client))
    BY <1>1, SendExpiredSection
  <2>2. QED
    BY <1>1, <1>9, <2>1, LockedKeeps DEF SendExpired
<1>10. CASE HandleDisconnect
  <2>1. Section(handle_disconnect(client))
    BY <1>1, HandleDisconnectSection
  <2>2. QED
    BY <1>1, <1>10, <2>1, LockedKeeps DEF HandleDisconnect
<1>11. CASE ReceiveDisconnect
  <2>1. "finish" \in PlainCalls
    BY DEF PlainCalls, Calls
  <2>2. Moves
    BY <1>1, <1>11, <2>1, PlainSequences, Returned DEF ReceiveDisconnect
  <2>3. ghost' \in Ghost
    BY <1>1, <1>11 DEF ReceiveDisconnect, Ghost
  <2>4. QED
    BY <1>11, <2>2, <2>3, OthersKeep DEF ReceiveDisconnect, taskVars
<1>12. CASE GenerateTask \/ CancelTask \/ TimedOut
  <2>1. Moves
    BY <1>1, <1>12, PlainSequences, Returned DEF GenerateTask, CancelTask, TimedOut
  <2>2. ghost' \in Ghost
    BY <1>1, <1>12 DEF GenerateTask, CancelTask, TimedOut, Dangling, Ghost
  <2>3. QED
    BY <1>12, <2>1, <2>2, OthersKeep DEF GenerateTask, CancelTask, TimedOut, taskVars
<1>13. CASE DestroyTimer
  <2>1. Moves
    BY <1>1, <1>13, PlainSequences, Returned DEF DestroyTimer
  <2>2. QED
    BY <1>1, <1>13, <2>1, OthersKeep DEF DestroyTimer, taskVars
<1>14. CASE AssertionFails
  <2>1. ghost' \in Ghost
    BY <1>1, <1>14 DEF AssertionFails, Ghost
  <2>2. QED
    BY <1>14, <2>1, OthersKeep DEF AssertionFails, taskVars
<1>15. QED
  BY <1>2, <1>3, <1>4, <1>5, <1>6, <1>7, <1>8, <1>9, <1>10, <1>11, <1>12, <1>13, <1>14,
     MainStep DEF MainStep

(* Handlers and libuv's events, which begin on an empty stack.               *)
LEMMA BeginningKeeps ==
  ASSUME LoopTyped, NEW t \in Threads, NEW call \in PlainCalls,
         stack' = [stack EXCEPT ![t] = <<Call(call)>>],
         ghost' \in Ghost, UNCHANGED <<scenario, client, m_task_queue>>
  PROVE  Keeps
<1>1. Moves
  BY PlainSequences DEF Moves
<1>2. QED
  BY <1>1, OthersKeep

LEMMA EventKeeps ==
  ASSUME LoopTyped,
         \/ \E t \in Threads : Handle(t)
         \/ AsyncEvent \/ WriteEvent \/ TimerEvent \/ PeerGone \/ CloseEvent
         \/ HeartbeatTimer
  PROVE  Keeps
<1>1. ghost \in Ghost /\ Main \in Threads
  BY DEF LoopTyped, Threads
<1>2. ASSUME NEW t \in Threads, Handle(t) PROVE Keeps
  <2>1. PICK call \in scenario.handlers[t] : stack' = [stack EXCEPT ![t] = <<Call(call)>>]
    BY <1>2 DEF Handle
  <2>2. call \in PlainCalls
    BY <2>1, ScenariosAssumption DEF LoopTyped, PlainCalls
  <2>3. QED
    BY <1>1, <1>2, <2>1, <2>2, BeginningKeeps DEF Handle, taskVars
<1>3. {"flush_tasks", "send_finished", "send_expired", "handle_disconnect",
       "send_disconnect"} \subseteq PlainCalls
  BY DEF PlainCalls, Calls
<1>4. CASE AsyncEvent
  BY <1>1, <1>3, <1>4, BeginningKeeps DEF AsyncEvent, Event
<1>5. CASE WriteEvent
  BY <1>1, <1>3, <1>5, BeginningKeeps DEF WriteEvent, Event
<1>6. CASE TimerEvent
  <2>1. ghost' \in Ghost
    BY <1>1, <1>6 DEF TimerEvent, Ghost
  <2>2. QED
    BY <1>1, <1>3, <1>6, <2>1, BeginningKeeps DEF TimerEvent, Event
<1>7. CASE PeerGone
  BY <1>1, <1>3, <1>7, BeginningKeeps DEF PeerGone, Event
<1>8. CASE CloseEvent
  BY <1>1, <1>3, <1>8, BeginningKeeps DEF CloseEvent, Event
<1>9. CASE HeartbeatTimer
  BY <1>1, <1>3, <1>9, BeginningKeeps DEF HeartbeatTimer, Event
<1>10. QED
  BY <1>2, <1>4, <1>5, <1>6, <1>7, <1>8, <1>9

LEMMA StepKeeps ==
  ASSUME LoopTyped, [Next]_vars
  PROVE  Keeps \/ InterestTimer
<1>1. CASE UNCHANGED vars
  BY <1>1, OthersKeep DEF vars, taskVars, LoopTyped
<1>2. CASE Next
  BY <1>2, ThreadStepKeeps, MainStepKeeps, EventKeeps DEF Next
<1>3. QED
  BY <1>1, <1>2

-----------------------------------------------------------------------------
LEMMA FramesTyped ==
  ASSUME NEW s \in Seq(Frame)
  PROVE  /\ s \in Seq(Frame \cup {Callback})
         /\ s # <<>> => Head(s) \in Frame /\ Tail(s) \in Seq(Frame)
OBVIOUS

LEMMA MovesTyped ==
  ASSUME StacksTyped, Moves
  PROVE  StacksTyped'
<1>1. PICK t \in Threads, s \in Seq(Frame) : stack' = [stack EXCEPT ![t] = s]
  BY DEF Moves
<1>2. \A u \in Threads : stack'[u] = IF u = t THEN s ELSE stack[u]
  BY <1>1 DEF StacksTyped
<1>3. \A u \in Threads : StackTyped(u)'
  BY <1>2, FramesTyped DEF StacksTyped, StackTyped
<1>4. stack' = [u \in Threads |-> stack'[u]]
  BY <1>1 DEF StacksTyped
<1>5. QED
  BY <1>3, <1>4 DEF StacksTyped

(***************************************************************************)
(* The main thread and the others run only what handlers, tasks and libuv  *)
(* gave them, a timer's callback is run by the timer alone, and the size   *)
(* of the send queue is known after every locked section.                  *)
(***************************************************************************)
THEOREM LoopIsTyped == Spec => []LoopTyped
<1>1. Init => LoopTyped
  <2> SUFFICES ASSUME Init PROVE LoopTyped
    OBVIOUS
  <2>1. ClientTyped(client)
    BY DEF Init, NewNetworkClient, ClientTyped, Client
  <2>2. ghost \in Ghost
    BY DEF Init, Ghost
  <2>3. StacksTyped
    BY DEF Init, StacksTyped, StackTyped
  <2>4. QED
    BY <2>1, <2>2, <2>3 DEF Init, LoopTyped
<1>2. LoopTyped /\ [Next]_vars => LoopTyped'
  <2> SUFFICES ASSUME LoopTyped, [Next]_vars PROVE LoopTyped'
    OBVIOUS
  <2>1. CASE Keeps
    <3>1. StacksTyped'
      BY <2>1, MovesTyped DEF Keeps, LoopTyped, StacksTyped, StackTyped
    <3>2. QED
      BY <2>1, <3>1 DEF Keeps, LoopTyped, ClientTyped
  <2>2. CASE InterestTimer
    <3>1. Callback = Call("timeout") /\ Call("destroy_timer") \in Frame
      BY PlainIsFrame DEF Callback, Call, PlainCalls
    <3> DEFINE s == IF CallbackRuns(timeout) THEN <<Call("timeout"), Call("destroy_timer")>>
                    ELSE <<Call("destroy_timer")>>
    <3>2. s \in Seq(Frame \cup {Callback}) /\ s # <<>>
          /\ (Head(s) \in Frame \/ Head(s) = Callback) /\ Tail(s) \in Seq(Frame)
      <4>1. ASSUME NEW f \in Frame
            PROVE  /\ <<Callback, f>> \in Seq(Frame \cup {Callback})
                   /\ Head(<<Callback, f>>) = Callback /\ Tail(<<Callback, f>>) = <<f>>
                   /\ <<f>> \in Seq(Frame) /\ <<f>> # <<>> /\ <<Callback, f>> # <<>>
        OBVIOUS
      <4>2. CASE CallbackRuns(timeout)
        <5>1. s = <<Callback, Call("destroy_timer")>>
          BY <3>1, <4>2
        <5>2. QED
          BY <3>1, <4>1, <5>1
      <4>3. CASE ~CallbackRuns(timeout)
        <5>1. s = <<Call("destroy_timer")>> /\ s \in Seq(Frame) /\ s # <<>>
          BY <3>1, <4>1, <4>3
        <5>2. QED
          BY <5>1, FramesTyped
      <4>4. QED
        BY <4>2, <4>3
    <3>3. stack' = [stack EXCEPT ![Main] = s] /\ Main \in Threads
      BY <2>2 DEF InterestTimer, Threads
    <3>4. \A u \in Threads : stack'[u] = IF u = Main THEN s ELSE stack[u]
      BY <3>3 DEF LoopTyped, StacksTyped
    <3>5. \A u \in Threads : StackTyped(u)'
      BY <3>2, <3>4 DEF LoopTyped, StacksTyped, StackTyped
    <3>6. StacksTyped'
      BY <3>3, <3>5 DEF LoopTyped, StacksTyped
    <3>7. QED
      BY <2>2, <3>6 DEF InterestTimer, LoopTyped, ClientTyped, taskVars
  <2>3. QED
    BY <2>1, <2>2, StepKeeps
<1>3. QED
  BY <1>1, <1>2, PTL DEF Spec

-----------------------------------------------------------------------------
(* cancel() answers true only if it was the first to set the flag, so the    *)
(* operation that is finished on its word has no callback to come; while the *)
(* callback is due the flag is set, and nobody finishes the operation.       *)
TimersTyped ==
    /\ interest \in [state : {"none", "open", "finished"}, m_timeout : BOOLEAN]
    /\ timeout \in [alive : BOOLEAN, m_timer : BOOLEAN, m_callback : BOOLEAN,
                    m_callback_disabled : BOOLEAN]

CallbackDue == stack[Main] # <<>> /\ Head(stack[Main]).call = "timeout"

CallbackInv ==
    /\ TimersTyped
    /\ interest.m_timeout => interest.state = "open"
    /\ CallbackRuns(timeout) => interest.m_timeout
    /\ CallbackDue => interest.m_timeout /\ timeout.m_callback_disabled

LEMMA NoLongerDue ==
  ASSUME LoopTyped, NEW call, At(Main, call), Return(Main, <<>>)
  PROVE  ~CallbackDue'
<1>1. Main \in Threads
  BY DEF Threads
<1>2. stack'[Main] = Tail(stack[Main]) /\ Tail(stack[Main]) \in Seq(Frame)
  <2>1. Tail(stack[Main]) \in Seq(Frame)
    BY <1>1, TopFrame
  <2>2. stack'[Main] = <<>> \o Tail(stack[Main])
    BY <1>1 DEF Return, LoopTyped, StacksTyped
  <2>3. QED
    BY <2>1, <2>2
<1>3. QED
  BY <1>2, FramesTyped, FrameFacts DEF CallbackDue

LEMMA StillDue ==
  ASSUME LoopTyped, Keeps, CallbackDue'
  PROVE  CallbackDue
<1>1. CASE UNCHANGED stack
  BY <1>1 DEF CallbackDue
<1>2. CASE Moves
  <2>1. PICK t \in Threads, s \in Seq(Frame) : stack' = [stack EXCEPT ![t] = s]
    BY <1>2 DEF Moves
  <2>2. stack'[Main] = IF t = Main THEN s ELSE stack[Main]
    BY <2>1 DEF LoopTyped, StacksTyped, Threads
  <2>3. QED
    BY <2>2, FramesTyped, FrameFacts DEF CallbackDue
<1>3. QED
  BY <1>1, <1>2 DEF Keeps

LEMMA TimersUntouched ==
  ASSUME LoopTyped, Keeps, CallbackInv, UNCHANGED <<interest, timeout>>
  PROVE  CallbackInv'
BY StillDue DEF CallbackInv, TimersTyped

LEMMA CallbackStep ==
  ASSUME LoopTyped, CallbackInv, [Next]_vars
  PROVE  CallbackInv'
<1>1. CASE InterestTimer
  <2>1. interest.m_timeout' = interest.m_timeout /\ interest' = interest
    BY <1>1 DEF InterestTimer
  <2>2. timeout' = [timeout EXCEPT !.m_callback_disabled = TRUE]
    BY <1>1 DEF InterestTimer
  <2>3. TimersTyped' /\ timeout'.m_callback_disabled
    BY <2>1, <2>2 DEF CallbackInv, TimersTyped
  <2>4. CallbackDue' => CallbackRuns(timeout)
    <3> SUFFICES ASSUME ~CallbackRuns(timeout) PROVE ~CallbackDue'
      OBVIOUS
    <3>1. stack' = [stack EXCEPT ![Main] = <<Call("destroy_timer")>>]
      BY <1>1 DEF InterestTimer
    <3>2. stack'[Main] = <<Call("destroy_timer")>>
      BY <3>1 DEF LoopTyped, StacksTyped, Threads
    <3>3. QED
      BY <3>2 DEF CallbackDue, Call
  <2>5. QED
    BY <2>1, <2>3, <2>4 DEF CallbackInv, CallbackRuns
<1>2. ASSUME Keeps, NEW t \in Threads, OpenInterest(t) PROVE CallbackInv'
  BY <1>2, StillDue DEF OpenInterest, CallbackInv, TimersTyped, CallbackRuns
<1>3. ASSUME Keeps, NEW t \in Threads, Finish(t) PROVE CallbackInv'
  <2>1. CASE interest.state = "open" /\ interest.m_timeout
    <3>1. timeout' = cancel(timeout, t = Main)
          /\ interest' = IF CancelSucceeds(timeout) THEN Finished ELSE interest
      BY <1>3, <2>1 DEF Finish
    <3>2. TimersTyped' /\ timeout'.m_callback_disabled
      BY <3>1 DEF CallbackInv, TimersTyped, cancel, destroy_timer, Finished
    <3>3. QED
      BY <1>3, <3>1, <3>2, StillDue
         DEF CallbackInv, TimersTyped, CallbackRuns, CancelSucceeds, Finished
  <2>2. CASE ~(interest.state = "open" /\ interest.m_timeout)
    <3>1. timeout' = timeout /\ ~interest.m_timeout /\ ~CallbackDue'
      BY <1>3, <2>2, StillDue DEF Finish, CallbackInv
    <3>2. interest' = Finished \/ interest' = interest
      BY <1>3, <2>2 DEF Finish
    <3>3. TimersTyped' /\ ~interest'.m_timeout
      <4>1. TimersTyped
        BY DEF CallbackInv
      <4>2. CASE interest' = interest
        BY <3>1, <4>1, <4>2 DEF TimersTyped
      <4>3. CASE interest' = Finished
        BY <3>1, <4>1, <4>3 DEF TimersTyped, Finished
      <4>4. QED
        BY <3>2, <4>2, <4>3
    <3>4. QED
      BY <3>1, <3>3 DEF CallbackInv, CallbackRuns
  <2>3. QED
    BY <2>1, <2>2
<1>4. CASE GenerateTask
  <2>1. ~CallbackDue'
    BY <1>4, NoLongerDue DEF GenerateTask
  <2>2. QED
    <3>1. CASE interest.state = "open"
      <4>1. timeout' = StartedTimeout /\ interest' = [interest EXCEPT !.m_timeout = TRUE]
        BY <1>4, <3>1 DEF GenerateTask
      <4>2. TimersTyped' /\ interest'.m_timeout /\ interest'.state = "open"
        BY <3>1, <4>1 DEF CallbackInv, TimersTyped, StartedTimeout
      <4>3. QED
        BY <2>1, <4>2 DEF CallbackInv
    <3>2. CASE interest.state # "open"
      <4>1. UNCHANGED <<interest, timeout>>
        BY <1>4, <3>2 DEF GenerateTask
      <4>2. QED
        BY <2>1, <4>1 DEF CallbackInv, TimersTyped
    <3>3. QED
      BY <3>1, <3>2
<1>5. CASE CancelTask
  <2>1. ~CallbackDue'
    BY <1>5, NoLongerDue DEF CancelTask
  <2>2. interest' = interest
    BY <1>5 DEF CancelTask
  <2>3. timeout' = timeout \/ timeout' = cancel(timeout, TRUE)
    BY <1>5 DEF CancelTask
  <2>4. TimersTyped' /\ (CallbackRuns(timeout') => CallbackRuns(timeout))
    BY <2>2, <2>3 DEF CallbackInv, TimersTyped, CallbackRuns, cancel, destroy_timer
  <2>5. QED
    BY <2>1, <2>2, <2>4 DEF CallbackInv
<1>6. CASE TimedOut
  <2>1. ~CallbackDue'
    BY <1>6, NoLongerDue DEF TimedOut
  <2>2. timeout.m_callback_disabled
    BY <1>6 DEF TimedOut, At, CallbackInv, CallbackDue
  <2>3. QED
    BY <1>6, <2>1, <2>2 DEF TimedOut, CallbackInv, TimersTyped, CallbackRuns, Finished
<1>7. CASE DestroyTimer
  <2>1. ~CallbackDue'
    BY <1>7, NoLongerDue DEF DestroyTimer
  <2>2. QED
    BY <1>7, <2>1 DEF DestroyTimer, CallbackInv, TimersTyped, CallbackRuns, destroy_timer
<1>8. ASSUME Keeps, UNCHANGED <<interest, timeout>> PROVE CallbackInv'
  BY <1>8, TimersUntouched
<1>9. CASE UNCHANGED vars
  BY <1>9, StepKeeps, <1>1, <1>8 DEF vars, timerVars
<1>10. ASSUME NEW t \in Threads, ThreadStep(t) PROVE CallbackInv'
  <2>1. Keeps
    BY <1>10, ThreadStepKeeps
  <2>2. OpenInterest(t) \/ Finish(t) \/ UNCHANGED <<interest, timeout>>
    BY <1>10 DEF ThreadStep, SendDatagram, Disconnect, SendDisconnect, Forget, EnqueueTask,
      Signal, PostRouting, Locked, timerVars
  <2>3. QED
    BY <1>2, <1>3, <1>8, <2>1, <2>2
<1>11. CASE MainStep
  <2>1. Keeps
    BY <1>11, MainStepKeeps
  <2>2. \/ GenerateTask \/ CancelTask \/ TimedOut \/ DestroyTimer
        \/ UNCHANGED <<interest, timeout>>
    BY <1>11 DEF MainStep, FlushTasks, RunTask, RouteTask, FlushTask, CloseTask, Write,
      SendFinished, AssertionFails, SendExpired, HandleDisconnect, ReceiveDisconnect,
      Locked, timerVars
  <2>3. QED
    BY <1>4, <1>5, <1>6, <1>7, <1>8, <2>1, <2>2
<1>12. CASE \/ \E t \in Threads : Handle(t)
            \/ AsyncEvent \/ WriteEvent \/ TimerEvent \/ PeerGone \/ CloseEvent
            \/ HeartbeatTimer
  <2>1. Keeps
    BY <1>12, EventKeeps
  <2>2. UNCHANGED <<interest, timeout>>
    BY <1>12 DEF Handle, AsyncEvent, WriteEvent, TimerEvent, PeerGone, CloseEvent,
      HeartbeatTimer, Event, timerVars
  <2>3. QED
    BY <1>8, <2>1, <2>2
<1>13. QED
  BY <1>1, <1>9, <1>10, <1>11, <1>12 DEF Next

(***************************************************************************)
(* However cancel() on any thread meets the timer on the main one, the     *)
(* callback runs only on an operation that has not been finished: what     *)
(* Timeout::cancel promises when it answers true.                          *)
(***************************************************************************)
THEOREM CallbacksMeetLiveOperations == Spec => []CallbackOnLiveOperation
<1>1. Init => CallbackInv
  BY DEF Init, CallbackInv, TimersTyped, CallbackRuns, CallbackDue, NoTimeout, Threads
<1>2. LoopTyped /\ CallbackInv /\ [Next]_vars => CallbackInv'
  BY CallbackStep
<1>3. CallbackInv => CallbackOnLiveOperation
  BY DEF CallbackInv, CallbackDue, CallbackOnLiveOperation, At
<1>4. QED
  BY <1>1, <1>2, <1>3, LoopIsTyped, PTL DEF Spec

-----------------------------------------------------------------------------
(* The connection.  What its closing rests on: closing it is in order once   *)
(* everything sent before has been written, unless the peer is gone or a     *)
(* write timed out, and once it is in order it stays so.  FramesNow are the  *)
(* calls that may be on a stack or behind another: a write and the end of a  *)
(* write are only ever the topmost call of the main thread.                  *)
MayClose == Intact => client.m_local_disconnect /\ Len(wire) >= ghost.owed

Gone == ~peer \/ socket # "open"

TasksNow == {task \in Tasks : task = "close" => MayClose}

CallsNow ==
    {call \in PlainCalls :
       /\ call # "send_finished"
       /\ call = "close" => MayClose
       /\ call = "handle_disconnect" => Gone
       /\ call = "send_expired" => ghost.expired}

FramesNow ==
    [call : CallsNow] \cup [call : {"enqueue"}, task : TasksNow] \cup
    [call : {"run"}, pending : Seq(TasksNow)]

Writing(data) == [call |-> "write", data |-> data]

Buffers == Seq(Nat) \ {<<>>}

StackNow(t) ==
    stack[t] # <<>> =>
      /\ Tail(stack[t]) \in Seq(FramesNow)
      /\ \/ Head(stack[t]) \in FramesNow
         \/ /\ t = Main
            /\ \/ \E data \in Buffers : Head(stack[t]) = Writing(data)
               \/ Head(stack[t]) \in {Call("send_finished"), Callback}

StacksNow ==
    /\ \A t \in Threads : StackNow(t)
    /\ m_task_queue \in Seq(TasksNow)

FinishDue == stack[Main] # <<>> /\ Top(Main).call = "send_finished"

SocketTyped ==
    /\ wire \in Seq(Nat) /\ writing \in Seq(Buffers)
    /\ ghost.owed <= ghost.pushed
    /\ socket # "open" => MayClose

(* At most one write is under way, with libuv, or just before or just after, *)
(* and it has a buffer.                                                      *)
OneWrite ==
    /\ ~ghost.aborted
    /\ client.m_is_sending = client.m_send_buf
    /\ Len(writing) <= 1
    /\ ~(writing # <<>> /\ Flushing) /\ ~(writing # <<>> /\ FinishDue)
    /\ writing # <<>> \/ Flushing \/ FinishDue => client.m_is_sending
    /\ socket = "open" /\ client.m_is_sending =>
         writing # <<>> \/ Flushing \/ FinishDue

(* The peer has received what was accepted first, and the rest follows.      *)
InOrder ==
    /\ wire = Numbers(Len(wire))
    /\ socket = "open" =>
         wire \o Outgoing \o client.m_send_queue = Numbers(ghost.pushed)

ConnectionInv ==
    /\ StacksNow
    /\ SocketTyped
    /\ ~ghost.expired => OneWrite /\ InOrder

-----------------------------------------------------------------------------
(* Sequences of consecutive numbers.                                         *)
LEMMA NumbersTyped ==
  ASSUME NEW n \in Nat
  PROVE  /\ Numbers(n) \in Seq(Nat) /\ Len(Numbers(n)) = n
         /\ \A k \in 1..n : Numbers(n)[k] = k
BY DEF Numbers

LEMMA NumbersPrefix ==
  ASSUME NEW w \in Seq(Nat), NEW s \in Seq(Nat), NEW n \in Nat, w \o s = Numbers(n)
  PROVE  w = Numbers(Len(w)) /\ Len(w) <= n
<1>1. Len(w) \in Nat /\ Len(s) \in Nat /\ Len(w) + Len(s) = n
  <2>1. Len(w \o s) = n
    BY NumbersTyped
  <2>2. Len(w \o s) = Len(w) + Len(s)
    OBVIOUS
  <2>3. QED
    BY <2>1, <2>2
<1>2. ASSUME NEW k \in 1..Len(w) PROVE w[k] = k
  <2>1. k \in 1..n /\ k <= Len(w)
    BY <1>1
  <2>2. (w \o s)[k] = w[k]
    BY <1>1, <2>1, ConcatProperties
  <2>3. QED
    BY <2>1, <2>2, NumbersTyped
<1>3. QED
  BY <1>1, <1>2, NumbersTyped, SeqEqual, SMTT(20)

LEMMA NumbersAppend ==
  ASSUME NEW w \in Seq(Nat), NEW q \in Seq(Nat), NEW n \in Nat, w \o q = Numbers(n)
  PROVE  w \o Append(q, n + 1) = Numbers(n + 1)
<1> DEFINE s == w \o Append(q, n + 1)
<1>1. Len(w) + Len(q) = n
  <2>1. Len(w \o q) = n
    BY NumbersTyped
  <2>2. Len(w \o q) = Len(w) + Len(q)
    OBVIOUS
  <2>3. QED
    BY <2>1, <2>2
<1>2. s \in Seq(Nat) /\ Len(s) = n + 1
  BY <1>1
<1>3. \A k \in 1..n : s[k] = (w \o q)[k]
  BY <1>1
<1>4. s[n + 1] = n + 1
  BY <1>1
<1>5. \A k \in 1..(n + 1) : s[k] = k
  BY <1>3, <1>4 DEF Numbers
<1>6. PICK m \in Nat : m = n + 1
  OBVIOUS
<1> HIDE DEF s
<1>7. s = Numbers(m)
  BY <1>2, <1>5, <1>6, NumbersTyped, SeqEqual
<1>8. QED
  BY <1>6, <1>7 DEF s

-----------------------------------------------------------------------------
(* A locked section of the connection leaves the write under way and the     *)
(* queue alone and may post a flush; or it closes the connection, with no    *)
(* write under way and nothing in the queue; or, on the main thread, it      *)
(* begins to write the whole queue.                                          *)
SameWrite(c, d) ==
    /\ d.m_is_sending = c.m_is_sending /\ d.m_send_buf = c.m_send_buf
    /\ d.m_send_queue = c.m_send_queue

CloseCalls == <<Enqueue("close"), Call("forget")>>

Outcome(c, left, on_main) ==
    /\ c.m_local_disconnect => left.client.m_local_disconnect
    /\ \/ /\ SameWrite(c, left.client)
          /\ left.calls = <<>> \/ left.calls = <<Enqueue("flush")>>
       \/ /\ SameWrite(c, left.client)
          /\ ~c.m_is_sending /\ c.m_send_queue = <<>>
          /\ left.client.m_local_disconnect
          /\ left.calls = CloseCalls
       \/ /\ on_main /\ ~c.m_is_sending /\ c.m_send_queue # <<>>
          /\ left.client.m_is_sending /\ left.client.m_send_buf
          /\ left.client.m_send_queue = <<>>
          /\ left.calls = <<Writing(c.m_send_queue)>>

LEMMA FlushOutcome ==
  ASSUME NEW c, ClientTyped(c)
  PROVE  Outcome(c, flush_send_queue(c), TRUE)
BY DEF ClientTyped, Client, flush_send_queue, Leaving, Outcome, SameWrite, Writing

LEMMA PokeOutcome ==
  ASSUME NEW c, ClientTyped(c), NEW on_main \in BOOLEAN
  PROVE  Outcome(c, PokeMain(c, on_main), on_main)
<1>1. CASE on_main
  BY <1>1, FlushOutcome DEF PokeMain
<1>2. CASE ~on_main
  BY <1>2 DEF PokeMain, Leaving, Outcome, SameWrite
<1>3. QED
  BY <1>1, <1>2

LEMMA ShutdownOutcome ==
  ASSUME NEW c, ClientTyped(c), ~c.m_is_sending, c.m_send_queue = <<>>,
         c.m_local_disconnect
  PROVE  Outcome(c, shutdown(c), TRUE) /\ Outcome(c, shutdown(c), FALSE)
BY DEF shutdown, Leaving, Outcome, SameWrite, CloseCalls, Call

LEMMA EmptyQueue ==
  ASSUME NEW c, ClientTyped(c), c.m_total_queue_size = 0
  PROVE  c.m_send_queue = <<>>
<1>1. c.m_send_queue \in Seq(Nat) /\ Len(c.m_send_queue) = 0
  BY DEF ClientTyped, Client
<1>2. QED
  BY <1>1, EmptySeq

LEMMA DisconnectOutcome ==
  ASSUME NEW c, ClientTyped(c), NEW on_main \in BOOLEAN
  PROVE  Outcome(c, disconnect(c, on_main), on_main)
<1> DEFINE closing == [c EXCEPT !.m_local_disconnect = TRUE]
<1>1. ClientTyped(closing) /\ SameWrite(c, closing) /\ closing.m_local_disconnect
      /\ closing.m_total_queue_size = c.m_total_queue_size
  BY DEF ClientTyped, Client, SameWrite
<1>2. ASSUME NEW left, Outcome(closing, left, on_main)
      PROVE  Outcome(c, left, on_main)
  BY <1>1, <1>2 DEF Outcome, SameWrite
<1> HIDE DEF closing
<1>3. CASE c.m_local_disconnect \/ c.m_disconnect_handled
  BY <1>3 DEF disconnect, Leaving, Outcome, SameWrite
<1>4. CASE ~(c.m_local_disconnect \/ c.m_disconnect_handled)
  <2>1. CASE ~c.m_is_sending /\ c.m_total_queue_size = 0
    <3>1. disconnect(c, on_main) = shutdown(closing)
      BY <1>4, <2>1 DEF disconnect, closing
    <3>2. Outcome(closing, shutdown(closing), on_main)
      BY <1>1, <2>1, EmptyQueue, ShutdownOutcome DEF SameWrite
    <3>3. QED
      BY <1>2, <3>1, <3>2
  <2>2. CASE ~(~c.m_is_sending /\ c.m_total_queue_size = 0)
    <3>1. disconnect(c, on_main) = PokeMain(closing, on_main)
      BY <1>4, <2>2 DEF disconnect, closing
    <3>2. Outcome(closing, PokeMain(closing, on_main), on_main)
      BY <1>1, PokeOutcome
    <3>3. QED
      BY <1>2, <3>1, <3>2
  <2>3. QED
    BY <2>1, <2>2
<1>5. QED
  BY <1>3, <1>4

Pushed(c, dg) == [c EXCEPT !.m_send_queue = Append(@, dg), !.m_total_queue_size = @ + 1]

LEMMA PushedTyped ==
  ASSUME NEW c, ClientTyped(c), NEW dg \in Nat
  PROVE  /\ ClientTyped(Pushed(c, dg))
         /\ Pushed(c, dg).m_send_queue = Append(c.m_send_queue, dg)
         /\ Pushed(c, dg).m_is_sending = c.m_is_sending
         /\ Pushed(c, dg).m_send_buf = c.m_send_buf
         /\ Pushed(c, dg).m_local_disconnect = c.m_local_disconnect
<1> DEFINE q == Append(c.m_send_queue, dg)
<1>1. c \in Client /\ c.m_send_queue \in Seq(Nat) /\ c.m_total_queue_size \in Nat
  BY DEF ClientTyped, Client
<1>2. q \in Seq(Nat) /\ Len(q) = c.m_total_queue_size + 1
  BY <1>1 DEF ClientTyped
<1>3. Pushed(c, dg) = [c EXCEPT !.m_send_queue = q,
                                !.m_total_queue_size = c.m_total_queue_size + 1]
  BY <1>1 DEF Pushed, Client
<1>4. ClientTyped(Pushed(c, dg))
  <2> HIDE DEF q
  <2>1. PICK n \in Nat : n = c.m_total_queue_size + 1
    BY <1>1
  <2>2. Pushed(c, dg) = [c EXCEPT !.m_send_queue = q, !.m_total_queue_size = n]
    BY <1>3, <2>1
  <2>3. ClientTyped([c EXCEPT !.m_send_queue = q, !.m_total_queue_size = n])
    BY <1>2, <2>1, QueueReplaced
  <2>4. QED
    BY <2>2, <2>3
<1>5. QED
  BY <1>1, <1>3, <1>4 DEF Client

LEMMA SendOutcome ==
  ASSUME NEW c, ClientTyped(c), NEW dg \in Nat, NEW on_main \in BOOLEAN
  PROVE  IF is_connected(c)
         THEN Outcome(Pushed(c, dg), send_datagram(c, dg, on_main), on_main)
         ELSE Outcome(c, send_datagram(c, dg, on_main), on_main)
<1>1. ClientTyped(Pushed(c, dg))
  BY PushedTyped
<1>2. Outcome(Pushed(c, dg), disconnect(Pushed(c, dg), on_main), on_main)
  BY <1>1, DisconnectOutcome
<1>3. Outcome(Pushed(c, dg), PokeMain(Pushed(c, dg), on_main), on_main)
  BY <1>1, PokeOutcome
<1>4. Outcome(c, Leaving(c, <<>>), on_main)
  BY DEF Leaving, Outcome, SameWrite
<1>5. QED
  BY <1>2, <1>3, <1>4 DEF send_datagram, Pushed

LEMMA SendFinishedOutcome ==
  ASSUME NEW c, ClientTyped(c)
  PROVE  Outcome(SendOver(c), send_finished(c), TRUE)
<1> DEFINE done == SendOver(c)
<1>1. ClientTyped(done)
  BY SendOverTyped
<1>2. ~done.m_is_sending /\ done.m_local_disconnect = c.m_local_disconnect
      /\ done.m_total_queue_size = c.m_total_queue_size
  BY DEF ClientTyped, Client, SendOver
<1>3. CASE ~is_connected(c)
  BY <1>3 DEF send_finished, Leaving, Outcome, SameWrite
<1>4. CASE is_connected(c) /\ c.m_local_disconnect /\ c.m_total_queue_size = 0
  <2>1. done.m_send_queue = <<>>
    BY <1>1, <1>2, <1>4, EmptyQueue
  <2>2. QED
    BY <1>1, <1>2, <1>4, <2>1, ShutdownOutcome DEF send_finished
<1>5. CASE is_connected(c) /\ ~(c.m_local_disconnect /\ c.m_total_queue_size = 0)
  BY <1>1, <1>5, FlushOutcome DEF send_finished
<1>6. QED
  BY <1>3, <1>4, <1>5

Emptied(c) == [SendOver(c) EXCEPT !.m_send_queue = <<>>, !.m_total_queue_size = 0]

LEMMA SendExpiredOutcome ==
  ASSUME NEW c, ClientTyped(c)
  PROVE  /\ ClientTyped(Emptied(c))
         /\ Emptied(c).m_local_disconnect = c.m_local_disconnect
         /\ Outcome(Emptied(c), send_expired(c), TRUE)
<1>1. ClientTyped(Emptied(c))
  <2>1. <<>> \in Seq(Nat) /\ Len(<<>>) = 0
    OBVIOUS
  <2>2. QED
    BY <2>1, SendOverTyped, QueueReplaced DEF Emptied
<1>2. Emptied(c).m_local_disconnect = c.m_local_disconnect
  BY DEF Emptied, SendOver, ClientTyped, Client
<1>3. QED
  BY <1>1, <1>2, DisconnectOutcome DEF send_expired, Emptied

-----------------------------------------------------------------------------
(* What was in order stays in order, so what is on the stacks stays there.   *)
Onward ==
    /\ MayClose => MayClose'
    /\ Gone => Gone'
    /\ ghost.expired => ghost'.expired

LEMMA FramesStay ==
  ASSUME Onward
  PROVE  /\ TasksNow \subseteq TasksNow' /\ FramesNow \subseteq FramesNow'
         /\ Seq(TasksNow) \subseteq Seq(TasksNow')
         /\ Seq(FramesNow) \subseteq Seq(FramesNow')
<1>1. TasksNow \subseteq TasksNow' /\ CallsNow \subseteq CallsNow'
  BY DEF Onward, TasksNow, CallsNow
<1> HIDE DEF Onward
<1>2. Seq(TasksNow) \subseteq Seq(TasksNow')
  BY <1>1
<1>3. FramesNow \subseteq FramesNow'
  BY <1>1, <1>2 DEF FramesNow
<1>4. QED
  BY <1>1, <1>2, <1>3

LEMMA FramesFacts ==
  ASSUME NEW f \in FramesNow
  PROVE  /\ f.call # "timeout" /\ f.call # "write" /\ f.call # "send_finished"
         /\ f.call = "close" => MayClose
         /\ f.call = "handle_disconnect" => Gone
         /\ f.call = "send_expired" => ghost.expired
         /\ f.call = "enqueue" => f.task \in TasksNow
         /\ f.call = "run" => f.pending \in Seq(TasksNow)
BY DEF FramesNow, CallsNow, TasksNow, PlainCalls, Calls, Tasks

(* A step that leaves calls on the stack of one thread, or none changed.     *)
Leaves(t, s) == stack' = [stack EXCEPT ![t] = s]

LEMMA StackLeft ==
  ASSUME StacksTyped, StacksNow, Onward, m_task_queue' \in Seq(TasksNow'),
         NEW t \in Threads, NEW s, Leaves(t, s),
         s # <<>> =>
           /\ Tail(s) \in Seq(FramesNow')
           /\ \/ Head(s) \in FramesNow'
              \/ /\ t = Main
                 /\ \/ \E data \in Buffers : Head(s) = Writing(data)
                    \/ Head(s) \in {Call("send_finished"), Callback}
  PROVE  StacksNow'
<1>1. \A u \in Threads : stack'[u] = IF u = t THEN s ELSE stack[u]
  BY DEF Leaves, StacksTyped
<1>2. ASSUME NEW u \in Threads PROVE StackNow(u)'
  <2>1. CASE u = t
    BY <1>1, <2>1 DEF StackNow
  <2>2. CASE u # t
    <3>1. stack'[u] = stack[u] /\ StackNow(u)
      BY <1>1, <2>2 DEF StacksNow
    <3>2. QED
      BY <2>2, <3>1, FramesStay DEF StackNow
  <2>3. QED
    BY <2>1, <2>2
<1>3. QED
  BY <1>2 DEF StacksNow

(* Calls that are returned go in front of those that wait.                   *)
LEMMA CallsReturned ==
  ASSUME StacksTyped, StacksNow, Onward, m_task_queue' \in Seq(TasksNow'),
         NEW t \in Threads, NEW call, At(t, call),
         NEW calls \in Seq(FramesNow'), Return(t, calls)
  PROVE  /\ StacksNow'
         /\ t = Main => ~Flushing' /\ ~FinishDue'
         /\ t # Main => stack'[Main] = stack[Main]
<1> DEFINE s == calls \o Tail(stack[t])
<1>1. Tail(stack[t]) \in Seq(FramesNow')
  BY FramesStay DEF At, StacksNow, StackNow
<1>2. s \in Seq(FramesNow') /\ Leaves(t, s)
  BY <1>1 DEF Return, Leaves
<1>3. s # <<>> => Head(s) \in FramesNow' /\ Tail(s) \in Seq(FramesNow')
  BY <1>2
<1> HIDE DEF s
<1>4. StacksNow'
  BY <1>2, <1>3, StackLeft
<1>5. stack'[Main] = IF t = Main THEN s ELSE stack[Main]
  BY <1>2 DEF Leaves, StacksTyped, Threads
<1>6. ASSUME NEW f \in FramesNow' PROVE f.call # "write" /\ f.call # "send_finished"
  BY <1>6 DEF FramesNow, CallsNow, PlainCalls, Calls, Tasks
<1>7. t = Main => ~Flushing' /\ ~FinishDue'
  BY <1>3, <1>5, <1>6 DEF Flushing, FinishDue, Top
<1>8. QED
  BY <1>4, <1>5, <1>7

LEMMA WriteReturned ==
  ASSUME StacksTyped, StacksNow, Onward, m_task_queue' \in Seq(TasksNow'),
         NEW call, At(Main, call), NEW data \in Buffers, Return(Main, <<Writing(data)>>)
  PROVE  /\ StacksNow'
         /\ Flushing' /\ ~FinishDue' /\ Top(Main)' = Writing(data)
<1> DEFINE s == <<Writing(data)>> \o Tail(stack[Main])
<1>1. Main \in Threads
  BY DEF Threads
<1>2. Tail(stack[Main]) \in Seq(FramesNow')
  BY <1>1, FramesStay DEF At, StacksNow, StackNow
<1>3. s # <<>> /\ Head(s) = Writing(data) /\ Tail(s) = Tail(stack[Main])
  BY <1>2
<1>4. Leaves(Main, s)
  BY DEF Return, Leaves
<1> HIDE DEF s
<1>5. StacksNow'
  BY <1>1, <1>2, <1>3, <1>4, StackLeft
<1>6. stack'[Main] = s
  BY <1>1, <1>4 DEF Leaves, StacksTyped
<1>7. QED
  BY <1>3, <1>5, <1>6 DEF Flushing, FinishDue, Top, Writing

(* The topmost call, where it is not the end of a write or a callback.       *)
LEMMA TopNow ==
  ASSUME StacksNow, NEW t \in Threads, NEW call, At(t, call),
         call \notin {"write", "send_finished", "timeout"}
  PROVE  Top(t) \in FramesNow /\ Top(t).call = call
BY DEF At, StacksNow, StackNow, Top, Writing, Call, Callback

LEMMA OnMain ==
  ASSUME StacksNow, NEW t \in Threads, NEW call, At(t, call),
         call \in {"write", "send_finished", "timeout"}
  PROVE  t = Main
<1>1. ASSUME Head(stack[t]) \in FramesNow PROVE FALSE
  BY <1>1, FramesFacts DEF At
<1>2. QED
  BY <1>1 DEF At, StacksNow, StackNow

LEMMA TopWrite ==
  ASSUME StacksNow, Flushing
  PROVE  \E data \in Buffers : Top(Main) = Writing(data)
<1>1. Main \in Threads
  BY DEF Threads
<1>2. Top(Main) \notin FramesNow
  BY FramesFacts DEF Flushing
<1>3. QED
  BY <1>1, <1>2 DEF StacksNow, StackNow, Flushing, Top, Call, Callback

LEMMA OutgoingTyped ==
  ASSUME StacksNow, SocketTyped
  PROVE  /\ Outgoing \in Seq(Nat)
         /\ writing = <<>> /\ ~Flushing => Outgoing = <<>>
         /\ writing # <<>> /\ ~Flushing => Outgoing = Head(writing)
         /\ writing = <<>> /\ Flushing => Outgoing = Top(Main).data
         /\ Outgoing # <<>> <=> writing # <<>> \/ Flushing
<1>1. writing # <<>> => Head(writing) \in Buffers
  BY DEF SocketTyped
<1>2. Flushing => Top(Main).data \in Buffers
  BY TopWrite DEF Writing
<1>3. <<>> \in Seq(Nat) /\ \A x \in Buffers : x \in Seq(Nat) /\ x # <<>>
  BY DEF Buffers
<1>4. \A x, y \in Seq(Nat) : x \o y \in Seq(Nat) /\ (x \o y = <<>> => x = <<>> /\ y = <<>>)
  BY ConcatProperties, ConcatSimplifications
<1>5. \A x \in Seq(Nat) : x \o <<>> = x /\ <<>> \o x = x
  BY ConcatEmptySeq
<1>6. QED
  BY <1>1, <1>2, <1>3, <1>4, <1>5 DEF Outgoing

-----------------------------------------------------------------------------
(* The steps that leave the write under way, the queue and the socket alone. *)
LEMMA Undisturbed ==
  ASSUME ConnectionInv, StacksNow', Onward,
         Flushing' <=> Flushing, FinishDue' <=> FinishDue, Outgoing' = Outgoing,
         SameWrite(client, client'), UNCHANGED <<writing, wire>>,
         socket' = "open" => socket = "open", socket' # "open" => MayClose',
         ghost'.pushed = ghost.pushed, ghost'.owed = ghost.owed,
         ghost'.aborted = ghost.aborted
  PROVE  ConnectionInv'
<1>1. SocketTyped'
  BY DEF ConnectionInv, SocketTyped
<1>2. ASSUME ~ghost'.expired PROVE OneWrite' /\ InOrder'
  <2>1. OneWrite /\ InOrder
    BY <1>2 DEF ConnectionInv, Onward
  <2>2. OneWrite'
    BY <2>1 DEF OneWrite, SameWrite
  <2>3. InOrder'
    BY <2>1 DEF InOrder, SameWrite
  <2>4. QED
    BY <2>2, <2>3
<1>3. QED
  BY <1>1, <1>2 DEF ConnectionInv

(* Such a step returns from a call, or begins on a thread that was done.     *)
SameConnection ==
    /\ SameWrite(client, client')
    /\ client'.m_local_disconnect = client.m_local_disconnect
    /\ UNCHANGED <<socket, writing, wire, peer>>
    /\ ghost'.pushed = ghost.pushed /\ ghost'.owed = ghost.owed
    /\ ghost'.expired = ghost.expired /\ ghost'.aborted = ghost.aborted

LEMMA SameOnward ==
  ASSUME SameConnection
  PROVE  Onward /\ (MayClose => MayClose')
BY DEF SameConnection, MayClose, Intact, Gone, Onward

LEMMA Returns ==
  ASSUME LoopTyped, ConnectionInv, NEW t \in Threads, NEW call, At(t, call),
         call \notin {"write", "send_finished"},
         Onward, SameWrite(client, client'), UNCHANGED <<writing, wire>>,
         socket' = "open" => socket = "open", socket' # "open" => MayClose',
         ghost'.pushed = ghost.pushed, ghost'.owed = ghost.owed,
         ghost'.aborted = ghost.aborted,
         m_task_queue' \in Seq(TasksNow'),
         NEW calls \in Seq(FramesNow'), Return(t, calls)
  PROVE  ConnectionInv'
<1>1. /\ StacksNow'
      /\ t = Main => ~Flushing' /\ ~FinishDue'
      /\ t # Main => stack'[Main] = stack[Main]
  BY CallsReturned DEF LoopTyped, ConnectionInv
<1>2. t = Main => ~Flushing /\ ~FinishDue
  BY DEF At, Flushing, FinishDue, Top
<1>3. /\ (Flushing' <=> Flushing) /\ (FinishDue' <=> FinishDue)
      /\ Outgoing' = Outgoing
  <2>1. CASE t = Main
    BY <1>1, <1>2, <2>1 DEF Outgoing
  <2>2. CASE t # Main
    BY <1>1, <2>2 DEF Flushing, FinishDue, Top, Outgoing
  <2>3. QED
    BY <2>1, <2>2
<1>4. QED
  BY <1>1, <1>3, Undisturbed

LEMMA SameReturns ==
  ASSUME LoopTyped, ConnectionInv, NEW t \in Threads, NEW call, At(t, call),
         call \notin {"write", "send_finished"}, SameConnection,
         m_task_queue' \in Seq(TasksNow'),
         NEW calls \in Seq(FramesNow'), Return(t, calls)
  PROVE  ConnectionInv'
<1>1. Onward /\ (socket' # "open" => MayClose')
  BY SameOnward DEF ConnectionInv, SocketTyped, SameConnection
<1>2. QED
  BY <1>1, Returns DEF SameConnection

LEMMA Begins ==
  ASSUME LoopTyped, ConnectionInv, NEW t \in Threads, stack[t] = <<>>,
         Onward, SameWrite(client, client'), UNCHANGED <<writing, wire>>,
         socket' = "open" => socket = "open", socket' # "open" => MayClose',
         ghost'.pushed = ghost.pushed, ghost'.owed = ghost.owed,
         ghost'.aborted = ghost.aborted, m_task_queue' = m_task_queue,
         NEW s, Leaves(t, s), s # <<>>, Tail(s) \in Seq(FramesNow'),
         Head(s) \in FramesNow' \/ (t = Main /\ Head(s) = Callback)
  PROVE  ConnectionInv'
<1>1. m_task_queue' \in Seq(TasksNow')
  BY FramesStay DEF ConnectionInv, StacksNow
<1>2. StacksNow'
  BY <1>1, StackLeft DEF LoopTyped, ConnectionInv
<1>3. stack'[Main] = IF t = Main THEN s ELSE stack[Main]
  BY DEF Leaves, LoopTyped, StacksTyped, Threads
<1>4. Head(s).call # "write" /\ Head(s).call # "send_finished"
  BY DEF FramesNow, CallsNow, PlainCalls, Calls, Tasks, Callback
<1>5. (Flushing' <=> Flushing) /\ (FinishDue' <=> FinishDue)
  BY <1>3, <1>4 DEF Flushing, FinishDue, Top
<1>6. Outgoing' = Outgoing
  <2>1. CASE t = Main
    BY <1>3, <1>5, <2>1 DEF Outgoing, Flushing
  <2>2. CASE t # Main
    BY <1>3, <2>2 DEF Outgoing, Flushing, Top
  <2>3. QED
    BY <2>1, <2>2
<1>7. QED
  BY <1>2, <1>5, <1>6, Undisturbed

(* A locked section by thread t: first the client becomes c (a datagram is   *)
(* pushed, or the write is over), then it has one of the outcomes above.     *)
Middle(call, c, pushed) ==
    /\ c.m_is_sending = c.m_send_buf
    /\ IF call = "send_finished" THEN ~c.m_is_sending
                                 ELSE c.m_is_sending = client.m_is_sending
    /\ socket = "open" => wire \o Outgoing \o c.m_send_queue = Numbers(pushed)

LEMMA SectionKeeps ==
  ASSUME LoopTyped, ConnectionInv, NEW t \in Threads, NEW call, At(t, call),
         call \notin {"write", "timeout"},
         NEW c, ClientTyped(c), client.m_local_disconnect => c.m_local_disconnect,
         NEW left, Outcome(c, left, t = Main),
         NEW pushed \in Nat, pushed >= ghost.pushed, Locked(t, left, pushed),
         UNCHANGED <<socket, writing, wire, peer>>,
         ~ghost.expired => Middle(call, c, pushed)
  PROVE  ConnectionInv'
<1>1. /\ ghost'.expired = ghost.expired /\ ghost'.aborted = ghost.aborted
      /\ ghost'.pushed = pushed /\ client' = left.client
      /\ ghost'.owed = IF left.client.m_local_disconnect /\ ~client.m_local_disconnect
                       THEN pushed ELSE ghost.owed
      /\ Return(t, left.calls) /\ m_task_queue' = m_task_queue
  BY DEF Locked, LoopTyped, Ghost, taskVars
<1>2. /\ StacksNow /\ SocketTyped /\ StacksTyped
      /\ client.m_local_disconnect => client'.m_local_disconnect
      /\ ghost.owed \in Nat /\ ghost.pushed \in Nat /\ Len(wire) \in Nat
  BY <1>1 DEF ConnectionInv, LoopTyped, Ghost, SocketTyped, Outcome
<1>3. Onward
  BY <1>1, <1>2 DEF MayClose, Intact, Gone, Onward
<1>4. SocketTyped'
  <2>1. ghost'.owed <= ghost'.pushed
    BY <1>1, <1>2 DEF SocketTyped
  <2>2. QED
    BY <1>2, <1>3, <2>1 DEF SocketTyped, Onward
<1>5. t = Main => ~Flushing
  BY DEF At, Flushing, Top
<1>6. ASSUME ~ghost.expired, ~c.m_is_sending
      PROVE  writing = <<>> /\ ~Flushing /\ Outgoing = <<>>
  <2>1. OneWrite /\ Middle(call, c, pushed)
    BY <1>6 DEF ConnectionInv
  <2>2. CASE call = "send_finished"
    <3>1. t = Main
      BY <1>2, <2>2, OnMain
    <3>2. FinishDue
      BY <2>2, <3>1 DEF At, FinishDue, Top
    <3>3. QED
      BY <1>2, <1>5, <2>1, <3>1, <3>2, OutgoingTyped DEF OneWrite
  <2>3. CASE call # "send_finished"
    BY <1>2, <1>6, <2>1, <2>3, OutgoingTyped DEF OneWrite, Middle
  <2>4. QED
    BY <2>2, <2>3
<1>7. ASSUME left.client.m_local_disconnect, ~c.m_is_sending, c.m_send_queue = <<>>
      PROVE  MayClose'
  <2> SUFFICES ASSUME Intact' PROVE client'.m_local_disconnect /\ Len(wire') >= ghost'.owed
    BY DEF MayClose
  <2>1. ~ghost.expired /\ ghost'.owed <= pushed /\ Intact
    BY <1>1, <1>4 DEF Intact, SocketTyped
  <2>2. CASE socket = "open"
    <3>1. wire \o <<>> \o <<>> = Numbers(pushed)
      BY <1>6, <1>7, <2>1, <2>2 DEF Middle
    <3>2. wire = Numbers(pushed)
      BY <1>2, <3>1, ConcatEmptySeq DEF SocketTyped
    <3>3. Len(wire) = pushed
      BY <3>2, NumbersTyped
    <3>4. QED
      BY <1>1, <1>2, <1>7, <2>1, <3>3
  <2>3. CASE socket # "open"
    <3>1. MayClose'
      BY <1>2, <1>3, <2>3 DEF SocketTyped, Onward
    <3>2. QED
      BY <3>1 DEF MayClose
  <2>4. QED
    BY <2>2, <2>3
<1>8. m_task_queue' \in Seq(TasksNow')
  BY <1>1, <1>2, <1>3, FramesStay DEF StacksNow
<1>9. ASSUME left.calls \in Seq(FramesNow'), SameWrite(c, client')
      PROVE  ConnectionInv'
  <2>1. /\ StacksNow'
        /\ t = Main => ~Flushing' /\ ~FinishDue'
        /\ t # Main => stack'[Main] = stack[Main]
    BY <1>1, <1>2, <1>3, <1>8, <1>9, CallsReturned
  <2>2. call # "send_finished" => (t = Main => ~FinishDue)
    BY DEF At, FinishDue, Top
  <2>3. (Flushing' <=> Flushing) /\ Outgoing' = Outgoing
    <3>1. CASE t = Main
      BY <1>5, <2>1, <3>1 DEF Outgoing
    <3>2. CASE t # Main
      BY <2>1, <3>2 DEF Flushing, Top, Outgoing
    <3>3. QED
      BY <3>1, <3>2
  <2>4. FinishDue' <=> FinishDue /\ call # "send_finished"
    <3>1. CASE t = Main
      BY <2>1, <2>2, <3>1
    <3>2. CASE t # Main
      <4>1. call # "send_finished"
        BY <1>2, <3>2, OnMain
      <4>2. QED
        BY <2>1, <3>2, <4>1 DEF FinishDue, Top
    <3>3. QED
      BY <3>1, <3>2
  <2>5. ASSUME ~ghost'.expired PROVE OneWrite' /\ InOrder'
    <3>1. OneWrite /\ InOrder /\ Middle(call, c, pushed)
      BY <1>1, <2>5 DEF ConnectionInv
    <3>2. OneWrite'
      <4>1. CASE call = "send_finished"
        BY <1>1, <1>6, <1>9, <2>3, <2>4, <2>5, <3>1, <4>1 DEF OneWrite, SameWrite, Middle
      <4>2. CASE call # "send_finished"
        BY <1>1, <1>9, <2>3, <2>4, <3>1, <4>2 DEF OneWrite, SameWrite, Middle
      <4>3. QED
        BY <4>1, <4>2
    <3>3. InOrder'
      BY <1>1, <1>9, <2>3, <3>1 DEF InOrder, SameWrite, Middle
    <3>4. QED
      BY <3>2, <3>3
  <2>6. QED
    BY <1>4, <2>1, <2>5 DEF ConnectionInv
<1>10. CASE /\ SameWrite(c, left.client)
            /\ left.calls = <<>> \/ left.calls = <<Enqueue("flush")>>
  <2>1. Enqueue("flush") \in FramesNow'
    BY DEF Enqueue, FramesNow, TasksNow, Tasks
  <2>2. <<>> \in Seq(FramesNow') /\ <<Enqueue("flush")>> \in Seq(FramesNow')
    BY <2>1
  <2>3. QED
    BY <1>1, <1>9, <1>10, <2>2
<1>11. CASE /\ SameWrite(c, left.client)
            /\ ~c.m_is_sending /\ c.m_send_queue = <<>>
            /\ left.client.m_local_disconnect
            /\ left.calls = CloseCalls
  <2>1. MayClose'
    BY <1>7, <1>11
  <2>2. Enqueue("close") \in FramesNow'
    BY <2>1 DEF Enqueue, FramesNow, TasksNow, Tasks
  <2>3. Call("forget") \in FramesNow'
    BY DEF Call, FramesNow, CallsNow, PlainCalls
  <2>4. left.calls \in Seq(FramesNow')
    BY <1>11, <2>2, <2>3 DEF CloseCalls
  <2>5. QED
    BY <1>1, <1>9, <1>11, <2>4
<1>12. CASE /\ t = Main /\ ~c.m_is_sending /\ c.m_send_queue # <<>>
            /\ left.client.m_is_sending /\ left.client.m_send_buf
            /\ left.client.m_send_queue = <<>>
            /\ left.calls = <<Writing(c.m_send_queue)>>
  <2>1. c.m_send_queue \in Buffers
    BY <1>12 DEF ClientTyped, Client, Buffers
  <2>2. StacksNow' /\ Flushing' /\ ~FinishDue' /\ Top(Main)' = Writing(c.m_send_queue)
    BY <1>1, <1>2, <1>3, <1>8, <1>12, <2>1, WriteReturned
  <2>3. ASSUME ~ghost'.expired PROVE OneWrite' /\ InOrder'
    <3>1. OneWrite /\ InOrder /\ Middle(call, c, pushed)
      BY <1>1, <2>3 DEF ConnectionInv
    <3>2. writing = <<>> /\ Outgoing = <<>>
      BY <1>1, <1>6, <1>12, <2>3
    <3>3. OneWrite'
      BY <1>1, <1>12, <2>2, <3>1, <3>2 DEF OneWrite
    <3>4. Outgoing' = c.m_send_queue
      <4>1. Outgoing' = <<>> \o c.m_send_queue
        BY <2>2, <3>2 DEF Outgoing, Writing
      <4>2. QED
        BY <2>1, <4>1, ConcatEmptySeq DEF Buffers
    <3>5. InOrder'
      <4>1. SUFFICES ASSUME socket = "open"
                     PROVE  wire \o Outgoing' \o <<>> = Numbers(pushed)
        BY <1>1, <1>12, <3>1 DEF InOrder
      <4>2. wire \o <<>> \o c.m_send_queue = Numbers(pushed)
        BY <3>1, <3>2, <4>1 DEF Middle
      <4>3. wire \o <<>> = wire /\ wire \o c.m_send_queue \in Seq(Nat)
        BY <1>2, <2>1, ConcatEmptySeq, ConcatProperties DEF SocketTyped, Buffers
      <4>4. (wire \o c.m_send_queue) \o <<>> = wire \o c.m_send_queue
        BY <4>3, ConcatEmptySeq
      <4>5. QED
        BY <3>4, <4>2, <4>3, <4>4
    <3>6. QED
      BY <3>3, <3>5
  <2>4. QED
    BY <1>4, <2>2, <2>3 DEF ConnectionInv
<1>13. QED
  BY <1>10, <1>11, <1>12 DEF Outcome

LEMMA SafeCalls ==
  /\ <<>> \in Seq(FramesNow')
  /\ \A c \in PlainCalls \ {"send_finished", "close", "handle_disconnect", "send_expired"} :
       Call(c) \in FramesNow' /\ <<Call(c)>> \in Seq(FramesNow')
  /\ <<Call("send_datagram"), Call("disconnect")>> \in Seq(FramesNow')
  /\ \A task \in Tasks \ {"close"} : <<Enqueue(task)>> \in Seq(FramesNow')
<1>1. \A c \in PlainCalls \ {"send_finished", "close", "handle_disconnect", "send_expired"} :
        Call(c) \in FramesNow'
  BY DEF FramesNow, CallsNow, Call
<1>2. \A task \in Tasks \ {"close"} : Enqueue(task) \in FramesNow'
  BY DEF FramesNow, TasksNow, Enqueue
<1>3. {"send_datagram", "disconnect"} \subseteq
        PlainCalls \ {"send_finished", "close", "handle_disconnect", "send_expired"}
  BY DEF PlainCalls, Calls
<1>4. QED
  BY <1>1, <1>2, <1>3

LEMMA QueueKept ==
  ASSUME ConnectionInv, SameConnection, m_task_queue' = m_task_queue
  PROVE  m_task_queue' \in Seq(TasksNow')
BY SameOnward, FramesStay DEF ConnectionInv, StacksNow

LEMMA MiddleNow ==
  ASSUME ConnectionInv, ~ghost.expired, NEW call, call # "send_finished"
  PROVE  Middle(call, client, ghost.pushed)
BY DEF ConnectionInv, OneWrite, InOrder, Middle

LEMMA DatagramSent ==
  ASSUME LoopTyped, ConnectionInv, NEW t \in Threads, SendDatagram(t)
  PROVE  ConnectionInv'
<1> DEFINE dg == ghost.pushed + 1
           left == send_datagram(client, dg, t = Main)
<1>1. /\ ClientTyped(client) /\ ghost.pushed \in Nat /\ dg \in Nat /\ dg >= ghost.pushed
      /\ ghost.pushed >= ghost.pushed
  BY DEF LoopTyped, Ghost
<1>2. /\ At(t, "send_datagram") /\ UNCHANGED <<socket, writing, wire, peer>>
      /\ Locked(t, left, ghost.pushed + IF is_connected(client) THEN 1 ELSE 0)
  BY DEF SendDatagram, socketVars
<1>3. (t = Main) \in BOOLEAN
  OBVIOUS
<1>4. IF is_connected(client)
      THEN Outcome(Pushed(client, dg), left, t = Main) ELSE Outcome(client, left, t = Main)
  BY <1>1, <1>3, SendOutcome
<1> HIDE DEF left
<1>5. CASE is_connected(client)
  <2>1. /\ ClientTyped(Pushed(client, dg))
        /\ Pushed(client, dg).m_send_queue = Append(client.m_send_queue, dg)
        /\ Pushed(client, dg).m_is_sending = client.m_is_sending
        /\ Pushed(client, dg).m_send_buf = client.m_send_buf
        /\ Pushed(client, dg).m_local_disconnect = client.m_local_disconnect
    BY <1>1, PushedTyped
  <2>2. ASSUME ~ghost.expired PROVE Middle("send_datagram", Pushed(client, dg), dg)
    <3>1. OneWrite /\ InOrder
      BY <2>2 DEF ConnectionInv
    <3>2. wire \in Seq(Nat) /\ Outgoing \in Seq(Nat) /\ client.m_send_queue \in Seq(Nat)
      BY <1>1, OutgoingTyped DEF ConnectionInv, SocketTyped, ClientTyped, Client
    <3>3. wire \o Outgoing \in Seq(Nat)
      BY <3>2, ConcatProperties
    <3>4. ASSUME socket = "open"
          PROVE  wire \o Outgoing \o Append(client.m_send_queue, dg) = Numbers(dg)
      <4>1. wire \o Outgoing \o client.m_send_queue = Numbers(ghost.pushed)
        BY <3>1, <3>4 DEF InOrder
      <4>2. QED
        BY <1>1, <3>2, <3>3, <4>1, NumbersAppend
    <3>5. QED
      BY <2>1, <3>1, <3>4 DEF OneWrite, Middle
  <2>3. Locked(t, left, dg) /\ Outcome(Pushed(client, dg), left, t = Main)
    BY <1>2, <1>4, <1>5
  <2> HIDE DEF dg
  <2>4. QED
    BY <1>1, <1>2, <2>1, <2>2, <2>3, SectionKeeps
<1>6. CASE ~is_connected(client)
  <2>1. Locked(t, left, ghost.pushed) /\ Outcome(client, left, t = Main)
    BY <1>1, <1>2, <1>4, <1>6
  <2>2. QED
    BY <1>1, <1>2, <2>1, MiddleNow, SectionKeeps
<1>7. QED
  BY <1>5, <1>6

(* The steps of a handler or a task that do not touch the connection.        *)
LEMMA PassingReturns ==
  ASSUME LoopTyped, ConnectionInv, NEW t \in Threads, NEW call, At(t, call),
         call \notin {"write", "send_finished"},
         UNCHANGED <<client, socket, writing, wire, peer>>,
         ghost'.pushed = ghost.pushed, ghost'.owed = ghost.owed,
         ghost'.expired = ghost.expired, ghost'.aborted = ghost.aborted,
         m_task_queue' \in Seq(TasksNow') \/ m_task_queue' = m_task_queue,
         NEW calls \in Seq(FramesNow'), Return(t, calls)
  PROVE  ConnectionInv'
<1>1. SameConnection
  BY DEF SameConnection, SameWrite
<1>2. QED
  BY <1>1, QueueKept, SameReturns

LEMMA ThreadStepConnected ==
  ASSUME LoopTyped, ConnectionInv, NEW t \in Threads, ThreadStep(t)
  PROVE  ConnectionInv'
<1>1. /\ ClientTyped(client) /\ ghost.pushed \in Nat /\ ghost.pushed >= ghost.pushed
      /\ (t = Main) \in BOOLEAN
  BY DEF LoopTyped, Ghost
<1>2. CASE SendDatagram(t)
  BY <1>2, DatagramSent
<1>3. CASE Disconnect(t)
  <2>1. Outcome(client, disconnect(client, t = Main), t = Main)
    BY <1>1, DisconnectOutcome
  <2>2. QED
    BY <1>1, <1>3, <2>1, MiddleNow, SectionKeeps DEF Disconnect, socketVars
<1>4. CASE SendDisconnect(t)
  <2>1. PICK calls \in Seq(FramesNow') : Return(t, calls)
    BY <1>4, SafeCalls DEF SendDisconnect
  <2>2. QED
    BY <1>4, <2>1, PassingReturns DEF SendDisconnect, taskVars, socketVars
<1>5. CASE Forget(t)
  <2>1. /\ client' = Forgotten(client) /\ Return(t, <<>>)
        /\ At(t, "forget") /\ UNCHANGED <<socket, writing, wire, peer, m_task_queue>>
    BY <1>5 DEF Forget, Locked, Leaving, socketVars, taskVars
  <2>2. SameWrite(client, client') /\ client'.m_local_disconnect = client.m_local_disconnect
    BY <1>1, <2>1 DEF Forgotten, SameWrite, ClientTyped, Client
  <2>3. /\ ghost'.pushed = ghost.pushed /\ ghost'.owed = ghost.owed
        /\ ghost'.expired = ghost.expired /\ ghost'.aborted = ghost.aborted
    <3>1. ghost' = [ghost EXCEPT !.pushed = ghost.pushed, !.owed = ghost.owed]
      BY <1>5, <2>1, <2>2 DEF Forget, Locked, Leaving
    <3>2. QED
      BY <3>1 DEF LoopTyped, Ghost
  <2>4. SameConnection
    BY <2>1, <2>2, <2>3 DEF SameConnection
  <2>5. QED
    BY <2>1, <2>4, SafeCalls, QueueKept, SameReturns
<1>6. CASE EnqueueTask(t)
  <2>1. Top(t).task \in TasksNow
    BY <1>6, TopNow, FramesFacts DEF EnqueueTask, ConnectionInv
  <2>2. SameConnection
    BY <1>6 DEF EnqueueTask, SameConnection, SameWrite, socketVars
  <2>3. m_task_queue' \in Seq(TasksNow')
    <3>1. m_task_queue \in Seq(TasksNow') /\ Top(t).task \in TasksNow'
      BY <2>1, <2>2, SameOnward, FramesStay DEF ConnectionInv, StacksNow
    <3>2. QED
      BY <1>6, <3>1, AppendProperties DEF EnqueueTask
  <2>4. PICK calls \in Seq(FramesNow') : Return(t, calls)
    <3>1. {"flush_tasks", "signal"} \subseteq
            PlainCalls \ {"send_finished", "close", "handle_disconnect", "send_expired"}
      BY DEF PlainCalls
    <3>2. QED
      BY <1>6, <3>1, SafeCalls DEF EnqueueTask
  <2>5. QED
    BY <1>6, <2>2, <2>3, <2>4, SameReturns DEF EnqueueTask
<1>7. CASE Signal(t)
  BY <1>7, SafeCalls, PassingReturns DEF Signal, socketVars
<1>8. CASE PostRouting(t)
  <2>1. "route" \in Tasks \ {"close"}
    BY DEF Tasks
  <2>2. QED
    BY <1>8, <2>1, SafeCalls, PassingReturns DEF PostRouting, socketVars, taskVars
<1>9. CASE OpenInterest(t)
  <2>1. "generate" \in Tasks \ {"close"} /\
        "generate" \in PlainCalls \ {"send_finished", "close", "handle_disconnect", "send_expired"}
    BY DEF Tasks, PlainCalls
  <2>2. PICK calls \in Seq(FramesNow') : Return(t, calls)
    BY <1>9, <2>1, SafeCalls DEF OpenInterest
  <2>3. QED
    BY <1>9, <2>2, PassingReturns DEF OpenInterest, socketVars, taskVars
<1>10. CASE Finish(t)
  <2>1. "cancel" \in Tasks \ {"close"}
    BY DEF Tasks
  <2>2. PICK calls \in Seq(FramesNow') : Return(t, calls)
    BY <1>10, <2>1, SafeCalls DEF Finish
  <2>3. QED
    BY <1>10, <2>2, PassingReturns DEF Finish, socketVars, taskVars
<1>11. QED
  BY <1>2, <1>3, <1>4, <1>5, <1>6, <1>7, <1>8, <1>9, <1>10, ThreadStep(t) DEF ThreadStep

(* libuv takes the buffer, or says at once that the connection is gone.      *)
LEMMA WriteConnected ==
  ASSUME LoopTyped, ConnectionInv, Write
  PROVE  ConnectionInv'
<1>1. /\ At(Main, "write") /\ Main \in Threads /\ Flushing
      /\ client' = client /\ m_task_queue' = m_task_queue /\ ghost' = ghost
      /\ UNCHANGED <<socket, wire, peer>>
  BY DEF Write, taskVars, Threads, At, Flushing, Top
<1>2. StacksTyped /\ StacksNow /\ SocketTyped
  BY DEF LoopTyped, ConnectionInv
<1>3. PICK data \in Buffers : Top(Main) = Writing(data)
  BY <1>1, <1>2, TopWrite
<1>4. Onward
  BY <1>1 DEF Onward, MayClose, Intact, Gone
<1>5. m_task_queue' \in Seq(TasksNow')
  BY <1>1, <1>2, <1>4, FramesStay DEF StacksNow
<1>6. PICK calls \in Seq(FramesNow') : Return(Main, calls)
  <2>1. CASE socket = "open"
    BY <2>1, SafeCalls DEF Write
  <2>2. CASE socket # "open"
    <3>1. Call("handle_disconnect") \in FramesNow'
      BY <1>1, <2>2 DEF Call, FramesNow, CallsNow, PlainCalls, Gone
    <3>2. <<Call("handle_disconnect")>> \in Seq(FramesNow')
      BY <3>1
    <3>3. QED
      BY <2>2, <3>2 DEF Write
  <2>3. QED
    BY <2>1, <2>2
<1>7. StacksNow' /\ ~Flushing' /\ ~FinishDue'
  BY <1>1, <1>2, <1>4, <1>5, <1>6, CallsReturned
<1>8. writing' = IF socket = "open" THEN Append(writing, data) ELSE writing
  BY <1>3 DEF Write, Writing
<1>9. SocketTyped'
  <2>1. writing' \in Seq(Buffers)
    BY <1>2, <1>8, AppendProperties DEF SocketTyped
  <2>2. QED
    BY <1>1, <1>2, <1>4, <2>1 DEF SocketTyped, Onward
<1>10. ASSUME ~ghost'.expired PROVE OneWrite' /\ InOrder'
  <2>1. OneWrite /\ InOrder
    BY <1>1, <1>10 DEF ConnectionInv
  <2>2. writing = <<>>
    BY <1>1, <2>1 DEF OneWrite
  <2>3. client.m_is_sending
    BY <1>1, <2>1 DEF OneWrite
  <2>4. CASE socket = "open"
    <3>1. writing' = <<data>> /\ Len(<<data>>) = 1 /\ <<data>> # <<>> /\ Head(<<data>>) = data
      BY <1>8, <2>2, <2>4
    <3>2. OneWrite'
      BY <1>1, <1>7, <2>1, <2>3, <3>1 DEF OneWrite
    <3>3. Outgoing = data
      BY <1>1, <1>2, <1>3, <2>2, OutgoingTyped DEF Writing
    <3>4. Outgoing' = data
      <4>1. Outgoing' = data \o <<>>
        BY <1>7, <3>1 DEF Outgoing
      <4>2. QED
        BY <4>1, ConcatEmptySeq DEF Buffers
    <3>5. InOrder'
      BY <1>1, <2>1, <3>3, <3>4 DEF InOrder
    <3>6. QED
      BY <3>2, <3>5
  <2>5. CASE socket # "open"
    <3>1. writing' = <<>> /\ Len(<<>>) = 0
      BY <1>8, <2>2, <2>5
    <3>2. OneWrite'
      BY <1>1, <1>7, <2>1, <2>5, <3>1 DEF OneWrite
    <3>3. InOrder'
      BY <1>1, <2>1, <2>5 DEF InOrder
    <3>4. QED
      BY <3>2, <3>3
  <2>6. QED
    BY <2>4, <2>5
<1>11. QED
  BY <1>7, <1>9, <1>10 DEF ConnectionInv

LEMMA HandleDisconnectConnected ==
  ASSUME LoopTyped, ConnectionInv, HandleDisconnect
  PROVE  ConnectionInv'
<1> DEFINE left == handle_disconnect(client)
<1>1. /\ At(Main, "handle_disconnect") /\ Main \in Threads
      /\ Locked(Main, left, ghost.pushed)
      /\ UNCHANGED <<socket, writing, wire, peer, m_task_queue>>
  BY DEF HandleDisconnect, socketVars, Locked, taskVars, Threads
<1>2. ClientTyped(client)
  BY DEF LoopTyped
<1>3. /\ SameWrite(client, left.client)
      /\ left.client.m_local_disconnect = client.m_local_disconnect
      /\ left.client.m_send_queue = client.m_send_queue
  BY <1>2 DEF handle_disconnect, Leaving, SameWrite, ClientTyped, Client
<1>4. left.calls \in {<<>>, <<Call("receive_disconnect")>>,
                      Append(CloseCalls, Call("receive_disconnect"))}
  <2>1. Append(<<>>, Call("receive_disconnect")) = <<Call("receive_disconnect")>>
    OBVIOUS
  <2>2. QED
    BY <2>1 DEF handle_disconnect, Leaving, shutdown, CloseCalls, Call
<1> HIDE DEF left
<1>5. /\ client' = left.client /\ Return(Main, left.calls)
      /\ ghost'.pushed = ghost.pushed /\ ghost'.owed = ghost.owed
      /\ ghost'.expired = ghost.expired /\ ghost'.aborted = ghost.aborted
  <2>1. ghost' = [ghost EXCEPT !.pushed = ghost.pushed, !.owed = ghost.owed]
    BY <1>1, <1>3 DEF Locked
  <2>2. QED
    BY <1>1, <2>1 DEF Locked, LoopTyped, Ghost
<1>6. SameConnection
  BY <1>1, <1>3, <1>5 DEF SameConnection
<1>7. MayClose'
  <2>1. Gone
    BY <1>1, TopNow, FramesFacts DEF ConnectionInv
  <2>2. MayClose
    BY <2>1 DEF Gone, MayClose, Intact, ConnectionInv, SocketTyped
  <2>3. QED
    BY <1>6, <2>2, SameOnward
<1>8. left.calls \in Seq(FramesNow')
  <2>1. /\ Enqueue("close") \in FramesNow' /\ Call("forget") \in FramesNow'
        /\ Call("receive_disconnect") \in FramesNow'
    BY <1>7 DEF Enqueue, Call, FramesNow, TasksNow, Tasks, CallsNow, PlainCalls
  <2>2. CloseCalls \in Seq(FramesNow') /\ <<Call("receive_disconnect")>> \in Seq(FramesNow')
    BY <2>1 DEF CloseCalls
  <2>3. Append(CloseCalls, Call("receive_disconnect")) \in Seq(FramesNow')
    BY <2>1, <2>2, AppendProperties
  <2>4. QED
    BY <1>4, <2>2, <2>3, SafeCalls
<1>9. QED
  BY <1>1, <1>5, <1>6, <1>8, QueueKept, SameReturns

LEMMA MainStepConnected ==
  ASSUME LoopTyped, ConnectionInv, MainStep
  PROVE  ConnectionInv'
<1>1. /\ ClientTyped(client) /\ ghost.pushed \in Nat /\ ghost.pushed >= ghost.pushed
      /\ Main \in Threads /\ ghost \in Ghost /\ StacksNow
  BY DEF LoopTyped, Ghost, Threads, ConnectionInv
<1>2. CASE FlushTasks
  <2>1. SameConnection
    BY <1>2 DEF FlushTasks, SameConnection, SameWrite, socketVars
  <2>2. m_task_queue \in Seq(TasksNow')
    BY <1>1, <2>1, SameOnward, FramesStay DEF StacksNow
  <2>3. PICK calls \in Seq(FramesNow') : Return(Main, calls)
    <3>1. <<[call |-> "run", pending |-> m_task_queue]>> \in Seq(FramesNow')
      BY <2>2 DEF FramesNow
    <3>2. QED
      BY <1>2, <3>1, SafeCalls DEF FlushTasks
  <2>4. m_task_queue' \in Seq(TasksNow')
    <3>1. <<>> \in Seq(TasksNow')
      OBVIOUS
    <3>2. m_task_queue' = m_task_queue \/ m_task_queue' = <<>>
      BY <1>2 DEF FlushTasks
    <3>3. QED
      BY <2>2, <3>1, <3>2
  <2>5. QED
    BY <1>1, <1>2, <2>1, <2>3, <2>4, SameReturns DEF FlushTasks
<1>3. CASE RunTask
  <2>1. /\ Top(Main).pending \in Seq(TasksNow) /\ At(Main, "run")
        /\ UNCHANGED <<client, socket, writing, wire, peer, m_task_queue, ghost>>
    BY <1>1, <1>3, TopNow, FramesFacts DEF RunTask, socketVars
  <2>2. SameConnection
    BY <2>1 DEF SameConnection, SameWrite
  <2>3. PICK pending : pending = Top(Main).pending
    OBVIOUS
  <2>4. pending \in Seq(TasksNow')
    BY <2>1, <2>2, <2>3, SameOnward, FramesStay
  <2>5. PICK calls \in Seq(FramesNow') : Return(Main, calls)
    <3>1. CASE pending = <<>>
      BY <1>3, <2>3, <3>1, SafeCalls DEF RunTask
    <3>2. CASE pending # <<>>
      <4>1. Head(pending) \in TasksNow' /\ Tail(pending) \in Seq(TasksNow')
        BY <2>4, <3>2
      <4>2. Call(Head(pending)) \in FramesNow'
        BY <4>1 DEF Call, FramesNow, CallsNow, TasksNow, Tasks, PlainCalls
      <4>3. [call |-> "run", pending |-> Tail(pending)] \in FramesNow'
        BY <4>1 DEF FramesNow
      <4>4. <<Call(Head(pending)), [call |-> "run", pending |-> Tail(pending)]>>
              \in Seq(FramesNow')
        BY <4>2, <4>3
      <4>5. QED
        BY <1>3, <2>3, <3>2, <4>4 DEF RunTask
    <3>3. QED
      BY <3>1, <3>2
  <2>6. QED
    BY <1>1, <2>1, <2>5, PassingReturns
<1>4. CASE RouteTask
  <2>1. PICK call \in scenario.routed : Return(Main, <<Call(call)>>)
    BY <1>4 DEF RouteTask
  <2>2. call \in PlainCalls \ {"send_finished", "close", "handle_disconnect", "send_expired"}
    BY <2>1, ScenariosAssumption DEF LoopTyped, PlainCalls, Calls
  <2>3. QED
    BY <1>1, <1>4, <2>1, <2>2, SafeCalls, PassingReturns DEF RouteTask, socketVars, taskVars
<1>5. CASE FlushTask
  <2>1. Outcome(client, flush_send_queue(client), Main = Main)
    BY <1>1, FlushOutcome
  <2>2. QED
    BY <1>1, <1>5, <2>1, MiddleNow, SectionKeeps DEF FlushTask, socketVars
<1>6. CASE CloseTask
  <2>1. MayClose
    BY <1>1, <1>6, TopNow, FramesFacts DEF CloseTask
  <2>2. Onward /\ MayClose'
    BY <1>6, <2>1 DEF CloseTask, Onward, MayClose, Intact, Gone
  <2>3. m_task_queue' \in Seq(TasksNow')
    BY <1>1, <1>6, <2>2, FramesStay DEF StacksNow, CloseTask, taskVars
  <2>4. SameWrite(client, client') /\ (socket' = "open" => socket = "open")
        /\ UNCHANGED <<writing, wire, ghost>> /\ Return(Main, <<>>) /\ At(Main, "close")
    BY <1>6 DEF CloseTask, SameWrite
  <2>5. QED
    BY <1>1, <2>2, <2>3, <2>4, SafeCalls, Returns
<1>7. CASE Write
  BY <1>7, WriteConnected
<1>8. CASE SendFinished
  <2>1. /\ ClientTyped(SendOver(client))
        /\ Outcome(SendOver(client), send_finished(client), Main = Main)
    BY <1>1, SendOverTyped, SendFinishedOutcome
  <2>2. /\ SendOver(client).m_is_sending = FALSE /\ SendOver(client).m_send_buf = FALSE
        /\ SendOver(client).m_send_queue = client.m_send_queue
        /\ SendOver(client).m_local_disconnect = client.m_local_disconnect
    BY <1>1 DEF SendOver, ClientTyped, Client
  <2>3. ~ghost.expired => Middle("send_finished", SendOver(client), ghost.pushed)
    BY <2>2 DEF Middle, ConnectionInv, InOrder
  <2>4. QED
    BY <1>1, <1>8, <2>1, <2>2, <2>3, SectionKeeps DEF SendFinished
<1>9. CASE AssertionFails
  <2>1. FinishDue /\ ~(client.m_is_sending /\ client.m_send_buf)
    BY <1>9 DEF AssertionFails, At, FinishDue, Top
  <2>2. ghost.expired
    <3> SUFFICES ASSUME ~ghost.expired PROVE FALSE
      OBVIOUS
    <3>1. OneWrite
      BY DEF ConnectionInv
    <3>2. client.m_is_sending /\ client.m_send_buf
      BY <2>1, <3>1 DEF OneWrite
    <3>3. QED
      BY <2>1, <3>2
  <2>3. /\ ghost'.expired /\ ghost'.pushed = ghost.pushed /\ ghost'.owed = ghost.owed
        /\ UNCHANGED <<client, stack, m_task_queue, socket, writing, wire, peer>>
    BY <1>1, <1>9, <2>2 DEF AssertionFails, Ghost, taskVars, socketVars
  <2>4. Onward
    BY <2>2, <2>3 DEF Onward, MayClose, Intact, Gone
  <2>5. StacksNow'
    BY <1>1, <2>3, <2>4, FramesStay DEF StacksNow, StackNow
  <2>6. SocketTyped'
    BY <2>3, <2>4 DEF ConnectionInv, SocketTyped, Onward
  <2>7. QED
    BY <2>3, <2>5, <2>6 DEF ConnectionInv
<1>10. CASE SendExpired
  <2>1. ghost.expired
    BY <1>1, <1>10, TopNow, FramesFacts DEF SendExpired
  <2>2. /\ ClientTyped(Emptied(client))
        /\ Outcome(Emptied(client), send_expired(client), Main = Main)
        /\ Emptied(client).m_local_disconnect = client.m_local_disconnect
    BY <1>1, SendExpiredOutcome
  <2>3. QED
    BY <1>1, <1>10, <2>1, <2>2, SectionKeeps DEF SendExpired, socketVars
<1>11. CASE HandleDisconnect
  BY <1>11, HandleDisconnectConnected
<1>12. CASE ReceiveDisconnect
  <2>1. "finish" \in PlainCalls \ {"send_finished", "close", "handle_disconnect", "send_expired"}
    BY DEF PlainCalls, Calls
  <2>2. PICK calls \in Seq(FramesNow') : Return(Main, calls)
    BY <1>12, <2>1, SafeCalls DEF ReceiveDisconnect
  <2>3. /\ ghost'.pushed = ghost.pushed /\ ghost'.owed = ghost.owed
        /\ ghost'.expired = ghost.expired /\ ghost'.aborted = ghost.aborted
    BY <1>1, <1>12 DEF ReceiveDisconnect, Ghost
  <2>4. QED
    BY <1>1, <1>12, <2>2, <2>3, PassingReturns DEF ReceiveDisconnect, socketVars, taskVars
<1>13. CASE GenerateTask \/ CancelTask \/ TimedOut \/ DestroyTimer
  <2>1. /\ ghost'.pushed = ghost.pushed /\ ghost'.owed = ghost.owed
        /\ ghost'.expired = ghost.expired /\ ghost'.aborted = ghost.aborted
    BY <1>1, <1>13 DEF GenerateTask, CancelTask, TimedOut, DestroyTimer, Dangling, Ghost
  <2>2. QED
    BY <1>1, <1>13, <2>1, SafeCalls, PassingReturns
       DEF GenerateTask, CancelTask, TimedOut, DestroyTimer, socketVars, taskVars
<1>14. QED
  BY <1>2, <1>3, <1>4, <1>5, <1>6, <1>7, <1>8, <1>9, <1>10, <1>11, <1>12, <1>13,
     MainStep DEF MainStep

-----------------------------------------------------------------------------
(* libuv's events.                                                           *)
LEMMA WriteEventConnected ==
  ASSUME LoopTyped, ConnectionInv, WriteEvent
  PROVE  ConnectionInv'
<1> DEFINE data == Head(writing)
<1>1. /\ stack[Main] = <<>> /\ Main \in Threads /\ ~Flushing /\ ~FinishDue
      /\ Leaves(Main, <<Call("send_finished")>>)
      /\ writing # <<>> /\ socket = "open" /\ peer
      /\ wire' = wire \o data /\ writing' = Tail(writing)
      /\ client' = client /\ m_task_queue' = m_task_queue /\ ghost' = ghost
      /\ UNCHANGED <<socket, peer>>
  BY DEF WriteEvent, Event, Leaves, Threads, Flushing, FinishDue
<1>2. /\ StacksTyped /\ StacksNow /\ SocketTyped /\ ghost \in Ghost
      /\ client.m_send_queue \in Seq(Nat)
  BY DEF LoopTyped, ConnectionInv, ClientTyped, Client
<1>3. /\ data \in Seq(Nat) /\ wire \in Seq(Nat) /\ wire' \in Seq(Nat)
      /\ writing' \in Seq(Buffers) /\ Len(wire') >= Len(wire)
  <2>1. data \in Buffers /\ Tail(writing) \in Seq(Buffers) /\ wire \in Seq(Nat)
    BY <1>1, <1>2 DEF SocketTyped
  <2>2. data \in Seq(Nat)
    BY <2>1 DEF Buffers
  <2> HIDE DEF data
  <2>3. wire \o data \in Seq(Nat) /\ Len(wire \o data) >= Len(wire)
    BY <2>1, <2>2
  <2>4. QED
    BY <1>1, <2>1, <2>2, <2>3
<1> HIDE DEF data
<1>4. Onward
  <2>1. MayClose => MayClose'
    <3>1. Len(wire) \in Nat /\ Len(wire') \in Nat /\ ghost.owed \in Nat
      BY <1>2, <1>3 DEF Ghost
    <3>2. QED
      BY <1>1, <1>3, <3>1 DEF MayClose, Intact
  <2>2. QED
    BY <1>1, <2>1 DEF Onward, Gone
<1>5. StacksNow'
  <2> DEFINE s == <<Call("send_finished")>>
  <2>1. s # <<>> /\ Tail(s) \in Seq(FramesNow') /\ Head(s) = Call("send_finished")
    <3>1. Tail(s) = <<>>
      OBVIOUS
    <3>2. QED
      BY <3>1, SafeCalls
  <2>2. m_task_queue' \in Seq(TasksNow')
    BY <1>1, <1>2, <1>4, FramesStay DEF StacksNow
  <2>3. Leaves(Main, s)
    BY <1>1
  <2> HIDE DEF s
  <2>4. QED
    BY <1>1, <1>2, <1>4, <2>1, <2>2, <2>3, StackLeft
<1>6. ~Flushing' /\ FinishDue'
  <2>1. stack'[Main] = <<Call("send_finished")>>
    BY <1>1, <1>2 DEF Leaves, StacksTyped
  <2>2. QED
    BY <2>1 DEF Flushing, FinishDue, Top, Call
<1>7. SocketTyped'
  BY <1>1, <1>2, <1>3 DEF SocketTyped
<1>8. ASSUME ~ghost'.expired PROVE OneWrite' /\ InOrder'
  <2>1. OneWrite /\ InOrder
    BY <1>1, <1>8 DEF ConnectionInv
  <2>2. writing' = <<>> /\ Len(writing') = 0
    <3>1. Len(writing) = 1
      BY <1>1, <1>2, <2>1 DEF OneWrite, SocketTyped
    <3>2. QED
      BY <1>1, <1>2, <3>1 DEF SocketTyped
  <2>3. OneWrite'
    BY <1>1, <1>6, <2>1, <2>2 DEF OneWrite
  <2>4. Outgoing = data
    BY <1>1, <1>2, OutgoingTyped DEF data
  <2>5. Outgoing' = <<>>
    <3>1. Outgoing' = <<>> \o <<>>
      BY <1>6, <2>2 DEF Outgoing
    <3>2. QED
      BY <3>1
  <2>6. wire' \o client.m_send_queue = Numbers(ghost.pushed)
    BY <1>1, <2>1, <2>4 DEF InOrder
  <2>7. wire' = Numbers(Len(wire'))
    BY <1>2, <1>3, <2>6, NumbersPrefix DEF Ghost
  <2>8. wire' \o <<>> = wire'
    BY <1>3, ConcatEmptySeq
  <2>9. InOrder'
    BY <1>1, <2>5, <2>6, <2>7, <2>8 DEF InOrder
  <2>10. QED
    BY <2>3, <2>9
<1>9. QED
  BY <1>5, <1>7, <1>8 DEF ConnectionInv

LEMMA Single ==
  ASSUME NEW f
  PROVE  <<f>> # <<>> /\ Head(<<f>>) = f /\ Tail(<<f>>) = <<>>
OBVIOUS

(* A thread begins with a call, whatever else became of the socket.          *)
LEMMA CallBegins ==
  ASSUME LoopTyped, ConnectionInv, NEW t \in Threads, stack[t] = <<>>,
         Onward, UNCHANGED <<client, writing, wire, m_task_queue>>,
         socket' = "open" => socket = "open", socket' # "open" => MayClose',
         ghost'.pushed = ghost.pushed, ghost'.owed = ghost.owed,
         ghost'.aborted = ghost.aborted,
         NEW call, Call(call) \in FramesNow', Leaves(t, <<Call(call)>>)
  PROVE  ConnectionInv'
<1>1. PICK s : s = <<Call(call)>>
  OBVIOUS
<1>2. s # <<>> /\ Head(s) = Call(call) /\ Tail(s) \in Seq(FramesNow')
  BY <1>1, Single, SafeCalls
<1>3. SameWrite(client, client') /\ Leaves(t, s)
  BY <1>1 DEF SameWrite
<1>4. QED
  BY <1>2, <1>3, Begins

LEMMA EventConnected ==
  ASSUME LoopTyped, ConnectionInv,
         \/ \E t \in Threads : Handle(t)
         \/ AsyncEvent \/ WriteEvent \/ TimerEvent \/ PeerGone \/ CloseEvent
         \/ HeartbeatTimer \/ InterestTimer
  PROVE  ConnectionInv'
<1>1. ghost \in Ghost /\ Main \in Threads /\ StacksNow /\ SocketTyped
  BY DEF LoopTyped, Threads, ConnectionInv
<1>2. ASSUME UNCHANGED <<client, socket, writing, wire, peer, ghost>>
      PROVE  SameConnection /\ Onward /\ (socket' # "open" => MayClose')
  <2>1. SameConnection
    BY <1>2 DEF SameConnection, SameWrite
  <2>2. QED
    BY <1>1, <1>2, <2>1, SameOnward DEF SocketTyped
<1>3. ASSUME NEW t \in Threads, Handle(t) PROVE ConnectionInv'
  <2>1. PICK call \in scenario.handlers[t] : stack' = [stack EXCEPT ![t] = <<Call(call)>>]
    BY <1>3 DEF Handle
  <2>2. call \in PlainCalls \ {"send_finished", "close", "handle_disconnect", "send_expired"}
    BY <2>1, ScenariosAssumption DEF LoopTyped, PlainCalls, Calls
  <2>3. Call(call) \in FramesNow' /\ Leaves(t, <<Call(call)>>)
    BY <2>1, <2>2, SafeCalls DEF Leaves
  <2>4. /\ stack[t] = <<>>
        /\ UNCHANGED <<client, socket, writing, wire, peer, ghost, m_task_queue>>
    BY <1>3 DEF Handle, taskVars, socketVars
  <2>5. QED
    BY <1>2, <2>3, <2>4, CallBegins
<1>4. {"flush_tasks", "send_disconnect", "destroy_timer"} \subseteq
        PlainCalls \ {"send_finished", "close", "handle_disconnect", "send_expired"}
  BY DEF PlainCalls, Calls
<1>5. CASE AsyncEvent
  BY <1>1, <1>2, <1>4, <1>5, SafeCalls, CallBegins DEF AsyncEvent, Event, Leaves, socketVars
<1>6. CASE HeartbeatTimer
  BY <1>1, <1>2, <1>4, <1>6, SafeCalls, CallBegins DEF HeartbeatTimer, Event, Leaves, socketVars
<1>7. CASE WriteEvent
  BY <1>7, WriteEventConnected
<1>8. CASE TimerEvent
  <2>1. /\ ghost'.expired /\ ghost'.pushed = ghost.pushed /\ ghost'.owed = ghost.owed
        /\ ghost'.aborted = ghost.aborted
        /\ UNCHANGED <<client, writing, wire, m_task_queue, socket, peer>>
        /\ stack[Main] = <<>> /\ Leaves(Main, <<Call("send_expired")>>)
    BY <1>1, <1>8 DEF TimerEvent, Event, Ghost, Leaves
  <2>2. Onward /\ (socket' # "open" => MayClose')
    BY <2>1 DEF Onward, MayClose, Intact, Gone
  <2>3. Call("send_expired") \in FramesNow'
    BY <2>1 DEF Call, FramesNow, CallsNow, PlainCalls
  <2>4. QED
    BY <1>1, <2>1, <2>2, <2>3, CallBegins
<1>9. CASE PeerGone
  <2>1. /\ UNCHANGED <<client, writing, wire, m_task_queue, socket, ghost>>
        /\ stack[Main] = <<>> /\ Leaves(Main, <<Call("handle_disconnect")>>) /\ ~peer'
    BY <1>9 DEF PeerGone, Event, Leaves
  <2>2. Onward /\ (socket' # "open" => MayClose')
    BY <2>1 DEF Onward, MayClose, Intact, Gone
  <2>3. Call("handle_disconnect") \in FramesNow'
    BY <2>1 DEF Call, FramesNow, CallsNow, PlainCalls, Gone
  <2>4. QED
    BY <1>1, <2>1, <2>2, <2>3, CallBegins
<1>10. CASE CloseEvent
  <2>1. /\ UNCHANGED <<client, writing, wire, m_task_queue, peer, ghost>>
        /\ stack[Main] = <<>> /\ Leaves(Main, <<Call("handle_disconnect")>>)
        /\ socket # "open" /\ socket' # "open"
    BY <1>10 DEF CloseEvent, Event, Leaves
  <2>2. Onward /\ MayClose'
    BY <1>1, <2>1 DEF Onward, MayClose, Intact, Gone, SocketTyped
  <2>3. Call("handle_disconnect") \in FramesNow'
    BY <2>1 DEF Call, FramesNow, CallsNow, PlainCalls, Gone
  <2>4. QED
    BY <1>1, <2>1, <2>2, <2>3, CallBegins
<1>11. CASE InterestTimer
  <2>1. /\ UNCHANGED <<client, socket, writing, wire, peer, ghost, m_task_queue>>
        /\ stack[Main] = <<>>
        /\ Leaves(Main, IF CallbackRuns(timeout)
                        THEN <<Call("timeout"), Call("destroy_timer")>>
                        ELSE <<Call("destroy_timer")>>)
    BY <1>11 DEF InterestTimer, Leaves, socketVars, taskVars
  <2>2. Call("destroy_timer") \in FramesNow' /\ <<Call("destroy_timer")>> \in Seq(FramesNow')
    BY <1>4, SafeCalls
  <2>3. CASE CallbackRuns(timeout)
    <3>1. PICK s : s = <<Call("timeout"), Call("destroy_timer")>>
      OBVIOUS
    <3>2. s # <<>> /\ Head(s) = Callback /\ Tail(s) \in Seq(FramesNow')
      <4>1. s # <<>> /\ Head(s) = Call("timeout") /\ Tail(s) = <<Call("destroy_timer")>>
        BY <3>1
      <4>2. QED
        BY <2>2, <4>1 DEF Callback, Call
    <3>3. Leaves(Main, s) /\ SameWrite(client, client')
      BY <2>1, <2>3, <3>1 DEF SameWrite
    <3>4. QED
      BY <1>1, <1>2, <2>1, <3>2, <3>3, Begins
  <2>4. CASE ~CallbackRuns(timeout)
    BY <1>1, <1>2, <2>1, <2>2, <2>4, CallBegins
  <2>5. QED
    BY <2>3, <2>4
<1>12. QED
  BY <1>3, <1>5, <1>6, <1>7, <1>8, <1>9, <1>10, <1>11

LEMMA ConnectionStep ==
  ASSUME LoopTyped, ConnectionInv, [Next]_vars
  PROVE  ConnectionInv'
<1>1. CASE UNCHANGED vars
  <2>1. UNCHANGED <<client, stack, m_task_queue, socket, writing, wire, peer, ghost>>
    BY <1>1 DEF vars, taskVars, socketVars
  <2>2. (MayClose' <=> MayClose) /\ (Gone' <=> Gone)
    BY <2>1 DEF MayClose, Intact, Gone
  <2>3. StacksNow'
    BY <2>1, <2>2 DEF ConnectionInv, StacksNow, StackNow, FramesNow, CallsNow, TasksNow
  <2>4. (Flushing' <=> Flushing) /\ (FinishDue' <=> FinishDue) /\ Outgoing' = Outgoing
    BY <2>1 DEF Flushing, FinishDue, Top, Outgoing
  <2>5. Onward /\ SameWrite(client, client') /\ (socket' # "open" => MayClose')
    BY <2>1, <2>2 DEF Onward, SameWrite, ConnectionInv, SocketTyped
  <2>6. QED
    BY <2>1, <2>3, <2>4, <2>5, Undisturbed
<1>2. CASE Next
  BY <1>2, ThreadStepConnected, MainStepConnected, EventConnected DEF Next
<1>3. QED
  BY <1>1, <1>2

LEMMA ConnectionInit ==
  ASSUME Init
  PROVE  ConnectionInv
<1>1. /\ writing = <<>> /\ wire = <<>> /\ socket = "open" /\ m_task_queue = <<>>
      /\ ~Flushing /\ ~FinishDue /\ ghost.pushed = 0 /\ ghost.owed = 0 /\ ~ghost.aborted
      /\ client.m_send_queue = <<>> /\ ~client.m_is_sending
      /\ client.m_is_sending = client.m_send_buf
      /\ \A t \in Threads : stack[t] = <<>>
  BY DEF Init, Threads, Flushing, FinishDue, NewNetworkClient
<1>2. StacksNow
  BY <1>1 DEF StacksNow, StackNow
<1>3. /\ Outgoing = <<>> \o <<>> /\ Numbers(0) = <<>> /\ Len(<<>>) = 0
      /\ <<>> \o <<>> = <<>> /\ <<>> \in Seq(Nat) /\ <<>> \in Seq(Buffers)
  <2>1. Numbers(0) \in Seq(Nat) /\ Len(Numbers(0)) = 0
    BY NumbersTyped
  <2>2. Numbers(0) = <<>>
    BY <2>1, EmptySeq
  <2>3. QED
    BY <1>1, <2>2 DEF Outgoing
<1>4. SocketTyped /\ OneWrite /\ InOrder
  BY <1>1, <1>3 DEF SocketTyped, OneWrite, InOrder
<1>5. QED
  BY <1>2, <1>4 DEF ConnectionInv

(***************************************************************************)
(* However threads interleave: until a write times out, what the peer has  *)
(* received, what is being written and what is queued make up all that was *)
(* accepted, in order, and there is one buffer for each write under way.   *)
(***************************************************************************)
THEOREM EveryWriteIsCounted == Spec => []WritesAreCounted
<1>1. LoopTyped /\ ConnectionInv => WritesAreCounted
  <2> SUFFICES ASSUME LoopTyped, ConnectionInv PROVE WritesAreCounted
    OBVIOUS
  <2>1. Outgoing # <<>> <=> writing # <<>> \/ Flushing
    BY OutgoingTyped DEF ConnectionInv
  <2>2. OneWrite => (FinishDue <=> At(Main, "send_finished"))
    BY DEF OneWrite, FinishDue, At, Top
  <2>3. client.m_total_queue_size = Len(client.m_send_queue)
    BY DEF LoopTyped, ClientTyped
  <2>4. ASSUME Intact, socket = "open" PROVE OneWrite /\ InOrder
    BY <2>4 DEF Intact, ConnectionInv
  <2>5. QED
    BY <2>1, <2>2, <2>3, <2>4 DEF WritesAreCounted, OneWrite, InOrder
<1>2. LoopTyped /\ ConnectionInv /\ [Next]_vars => ConnectionInv'
  BY ConnectionStep
<1>3. Init => ConnectionInv
  BY ConnectionInit
<1>4. QED
  BY <1>1, <1>2, <1>3, LoopIsTyped, PTL DEF Spec

(***************************************************************************)
(* The peer receives the datagrams in the order in which they were         *)
(* accepted, and a connection the server closes has first written every    *)
(* datagram accepted before it was told to close.                          *)
(***************************************************************************)
THEOREM NothingIsLost == Spec => []NothingLost
<1>1. ConnectionInv => NothingLost
  BY DEF ConnectionInv, SocketTyped, MayClose, InOrder, NothingLost, Intact
<1>2. LoopTyped /\ ConnectionInv /\ [Next]_vars => ConnectionInv'
  BY ConnectionStep
<1>3. Init => ConnectionInv
  BY ConnectionInit
<1>4. QED
  BY <1>1, <1>2, <1>3, LoopIsTyped, PTL DEF Spec

=============================================================================
