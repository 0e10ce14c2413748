------------------------------ MODULE MainLoop ------------------------------
(***************************************************************************)
(* The main thread with its libuv loop and its TaskQueue, the other        *)
(* threads of the server, and what they share: the connection of a client, *)
(* its heartbeat, and the Timeout of one interest operation.               *)
(*                                                                         *)
(* A thread is a stack of calls still to make.  A step makes the topmost,  *)
(* up to the next release of a lock.  Main runs libuv's events when it has *)
(* no calls left.  The handler is a DisneyClient.                          *)
(***************************************************************************)
EXTENDS NetworkClient, Timeout

CONSTANTS Main, Others, Scenarios

Threads == {Main} \cup Others

(* What a handler may call. *)
Calls == {"send_datagram", "send_disconnect", "disconnect", "post_routing",
          "open", "finish"}

ASSUME ScenariosAssumption ==
    \A s \in Scenarios :
        s.routed \subseteq Calls /\ \A t \in Threads : s.handlers[t] \subseteq Calls

VARIABLES
    scenario,       \* what may happen in this behaviour, chosen in Init
    budget,         \* how many more calls the handlers make
    client,         \* the NetworkClient
    stack,          \* the calls each thread is still to make
    m_task_queue, m_in_flush, signalled,  \* TaskQueue; its async handle
    socket,         \* libuv's handle: open, closing or closed
    timer,          \* m_async_timer runs
    writing,        \* the buffers libuv is writing
    wire,           \* what the peer has received
    peer,           \* the peer is there
    heartbeat,      \* the heartbeat's Timeout; m_heartbeat_timer is null
                    \* exactly when it is not alive
    interest,       \* the interest operation and its m_timeout pointer
    timeout,        \* the Timeout m_timeout points to, or did
    ghost           \* what the properties need to remember

taskVars   == <<m_task_queue, m_in_flush, signalled>>
socketVars == <<socket, timer, writing, wire, peer>>
timerVars  == <<heartbeat, interest, timeout>>
vars == <<scenario, budget, client, stack, taskVars, socketVars, timerVars,
          ghost>>

Init ==
    /\ scenario \in Scenarios
    /\ budget = scenario.calls
    /\ client = NewNetworkClient
    /\ stack = [t \in Threads |-> <<>>]
    /\ m_task_queue = <<>> /\ m_in_flush = FALSE /\ signalled = FALSE
    /\ socket = "open" /\ timer = FALSE /\ writing = <<>> /\ wire = <<>>
    /\ peer = TRUE
    /\ heartbeat = IF scenario.heartbeat THEN StartedTimeout ELSE NoTimeout
    /\ interest = [state |-> "none", m_timeout |-> FALSE]
    /\ timeout = NoTimeout
    /\ ghost = [pushed |-> 0, owed |-> 0, told |-> 0,
                expired |-> FALSE, dangling |-> FALSE, aborted |-> FALSE]

At(t, call) == ~ghost.aborted /\ stack[t] # <<>> /\ Head(stack[t]).call = call

Top(t) == Head(stack[t])

(* The topmost call of t is over, and leaves calls to be made next. *)
Return(t, calls) == stack' = [stack EXCEPT ![t] = calls \o Tail(@)]

Call(call) == [call |-> call]

(***************************************************************************)
(* A locked section of the connection, by thread t; pushed datagrams had   *)
(* been accepted for sending when it ended.                                *)
(***************************************************************************)
Locked(t, left, pushed) ==
    /\ client' = left.client
    /\ Return(t, left.calls)
    /\ ghost' = [ghost EXCEPT
         !.pushed = pushed,
         !.owed = IF left.client.m_local_disconnect /\ ~client.m_local_disconnect
                  THEN pushed ELSE @]
    /\ UNCHANGED <<scenario, budget, taskVars, timerVars>>

------------------------------------------------------------------------------
(* The handlers, on any thread. *)

(* A datagram is handled, which makes the handler call the connection. *)
Handle(t) ==
    /\ ~ghost.aborted /\ stack[t] = <<>> /\ budget > 0
    /\ \E call \in scenario.handlers[t] :
          /\ call = "open" => interest.state = "none"
          /\ call = "finish" => interest.state = "open"
          /\ stack' = [stack EXCEPT ![t] = <<Call(call)>>]
    /\ budget' = budget - 1
    /\ UNCHANGED <<scenario, client, taskVars, socketVars, timerVars, ghost>>

SendDatagram(t) ==
    /\ At(t, "send_datagram")
    /\ Locked(t, send_datagram(client, ghost.pushed + 1, t = Main),
              ghost.pushed + IF is_connected(client) THEN 1 ELSE 0)
    /\ UNCHANGED socketVars

Disconnect(t) ==
    /\ At(t, "disconnect")
    /\ Locked(t, disconnect(client, t = Main), ghost.pushed)
    /\ UNCHANGED socketVars

SendDisconnect(t) ==
    /\ At(t, "send_disconnect")
    /\ Return(t, IF is_connected(client)
                 THEN <<Call("send_datagram"), Call("disconnect")>> ELSE <<>>)
    /\ UNCHANGED <<scenario, budget, client, taskVars, socketVars, timerVars, ghost>>

(* shutdown() has the lock again. *)
Forget(t) ==
    /\ At(t, "forget")
    /\ Locked(t, Leaving(Forgotten(client), <<>>), ghost.pushed)
    /\ UNCHANGED socketVars

------------------------------------------------------------------------------
(* The task queue. *)

EnqueueTask(t) ==
    /\ At(t, "enqueue")
    /\ m_task_queue' = Append(m_task_queue, Top(t).task)
    /\ Return(t, <<Call(IF t = Main THEN "flush_tasks" ELSE "signal")>>)
    /\ UNCHANGED <<scenario, budget, client, m_in_flush, signalled, socketVars,
                   timerVars, ghost>>

Signal(t) ==
    /\ At(t, "signal")
    /\ signalled' = TRUE
    /\ Return(t, <<>>)
    /\ UNCHANGED <<scenario, budget, client, m_task_queue, m_in_flush,
                   socketVars, timerVars, ghost>>

FlushTasks ==
    /\ At(Main, "flush_tasks")
    /\ IF m_in_flush
       THEN Return(Main, <<>>) /\ UNCHANGED <<m_task_queue, m_in_flush>>
       ELSE /\ m_in_flush' = TRUE
            /\ m_task_queue' = <<>>
            /\ Return(Main, <<[call |-> "run", pending |-> m_task_queue]>>)
    /\ UNCHANGED <<scenario, budget, client, signalled, socketVars, timerVars, ghost>>

(* The next of the tasks taken out of the queue, or the end of the flush. *)
RunTask ==
    /\ At(Main, "run")
    /\ LET pending == Top(Main).pending
       IN  IF pending = <<>>
           THEN m_in_flush' = FALSE /\ Return(Main, <<>>)
           ELSE /\ Return(Main, <<Call(Head(pending)),
                                  [call |-> "run", pending |-> Tail(pending)]>>)
                /\ UNCHANGED m_in_flush
    /\ UNCHANGED <<scenario, budget, client, m_task_queue, signalled, socketVars,
                   timerVars, ghost>>

(* A message director's worker posts the routing of what it has queued. *)
PostRouting(t) ==
    /\ At(t, "post_routing")
    /\ Return(t, <<Enqueue("route")>>)
    /\ UNCHANGED <<scenario, budget, client, taskVars, socketVars, timerVars, ghost>>

(* The routing makes the handler call the connection, on the main thread. *)
RouteTask ==
    /\ At(Main, "route")
    /\ \E call \in scenario.routed : Return(Main, <<Call(call)>>)
    /\ UNCHANGED <<scenario, budget, client, taskVars, socketVars, timerVars, ghost>>

FlushTask ==
    /\ At(Main, "flush")
    /\ Locked(Main, flush_send_queue(client), ghost.pushed)
    /\ UNCHANGED socketVars

CloseTask ==
    /\ At(Main, "close")
    /\ socket' = IF socket = "open" THEN "closing" ELSE socket
    /\ timer' = FALSE
    /\ Return(Main, <<>>)
    /\ UNCHANGED <<scenario, budget, client, taskVars, writing, wire, peer,
                   timerVars, ghost>>

------------------------------------------------------------------------------
(* The connection, on the main thread. *)

(* The end of flush_send_queue.  libuv refuses to write to a closing handle
   and reports it at once. *)
Write ==
    /\ At(Main, "write")
    /\ IF socket = "open"
       THEN /\ writing' = Append(writing, Top(Main).data)
            /\ timer' = scenario.timed
            /\ Return(Main, <<>>)
       ELSE /\ Return(Main, <<Call("handle_disconnect")>>)
            /\ UNCHANGED <<writing, timer>>
    /\ UNCHANGED <<scenario, budget, client, taskVars, socket, wire, peer,
                   timerVars, ghost>>

SendFinished ==
    /\ At(Main, "send_finished")
    /\ Locked(Main, send_finished(client), ghost.pushed)
    /\ timer' = (timer /\ ~is_connected(client))
    /\ UNCHANGED <<socket, writing, wire, peer>>

(* A build with assertions stops where one of send_finished fails. *)
AssertionFails ==
    /\ At(Main, "send_finished")
    /\ ~(client.m_is_sending /\ client.m_send_buf)
    /\ ghost' = [ghost EXCEPT !.aborted = TRUE]
    /\ UNCHANGED <<scenario, budget, client, stack, taskVars, socketVars, timerVars>>

SendExpired ==
    /\ At(Main, "send_expired")
    /\ Locked(Main, send_expired(client), ghost.pushed)
    /\ UNCHANGED socketVars

HandleDisconnect ==
    /\ At(Main, "handle_disconnect")
    /\ Locked(Main, handle_disconnect(client), ghost.pushed)
    /\ UNCHANGED socketVars

(* DisneyClient::receive_disconnect, and the interests annihilate() ends. *)
ReceiveDisconnect ==
    /\ At(Main, "receive_disconnect")
    /\ ghost' = [ghost EXCEPT !.told = @ + 1]
    /\ heartbeat' = IF heartbeat.alive THEN cancel(heartbeat, TRUE) ELSE heartbeat
    /\ Return(Main, IF interest.state = "open" THEN <<Call("finish")>> ELSE <<>>)
    /\ UNCHANGED <<scenario, budget, client, taskVars, socketVars, interest, timeout>>

------------------------------------------------------------------------------
(* The interest operation and its Timeout. *)

Finished == [state |-> "finished", m_timeout |-> FALSE]

Dangling(ended) == ghost' = [ghost EXCEPT !.dangling = @ \/ ended]

(* InterestOperation's constructor. *)
OpenInterest(t) ==
    /\ At(t, "open")
    /\ IF interest.state = "none"
       THEN /\ interest' = [interest EXCEPT !.state = "open"]
            /\ Return(t, <<IF t = Main THEN Call("generate")
                                       ELSE Enqueue("generate")>>)
       ELSE Return(t, <<>>) /\ UNCHANGED interest
    /\ UNCHANGED <<scenario, budget, client, taskVars, socketVars, heartbeat,
                   timeout, ghost>>

(* generate_timeouts and on_timeout_generate: the operation may be gone. *)
GenerateTask ==
    /\ At(Main, "generate")
    /\ Dangling(interest.state = "finished")
    /\ IF interest.state = "open"
       THEN /\ timeout' = StartedTimeout
            /\ interest' = [interest EXCEPT !.m_timeout = TRUE]
       ELSE UNCHANGED <<timeout, interest>>
    /\ Return(Main, <<>>)
    /\ UNCHANGED <<scenario, budget, client, taskVars, socketVars, heartbeat>>

(* finish(false), under the client's lock: the last object has entered, or
   the client goes.  If the timeout is running it cleans up instead. *)
Finish(t) ==
    /\ At(t, "finish")
    /\ IF interest.state = "open" /\ interest.m_timeout
       THEN /\ timeout' = cancel(timeout, t = Main)
            /\ interest' = IF CancelSucceeds(timeout) THEN Finished ELSE interest
            /\ Return(t, IF t = Main THEN <<>> ELSE <<Enqueue("cancel")>>)
       ELSE /\ interest' = IF interest.state = "open" THEN Finished ELSE interest
            /\ Return(t, <<>>)
            /\ UNCHANGED timeout
    /\ UNCHANGED <<scenario, budget, client, taskVars, socketVars, heartbeat, ghost>>

(* The cancel() that a cancel() on another thread has posted. *)
CancelTask ==
    /\ At(Main, "cancel")
    /\ Dangling(~timeout.alive)
    /\ timeout' = IF timeout.alive THEN cancel(timeout, TRUE) ELSE timeout
    /\ Return(Main, <<>>)
    /\ UNCHANGED <<scenario, budget, client, taskVars, socketVars, heartbeat, interest>>

(* timer_callback, up to the callback. *)
InterestTimer ==
    /\ ~ghost.aborted /\ stack[Main] = <<>> /\ timeout.alive /\ timeout.m_timer
    /\ timeout' = [timeout EXCEPT !.m_callback_disabled = TRUE]
    /\ stack' = [stack EXCEPT ![Main] =
         IF CallbackRuns(timeout) THEN <<Call("timeout"), Call("destroy_timer")>>
         ELSE <<Call("destroy_timer")>>]
    /\ UNCHANGED <<scenario, budget, client, taskVars, socketVars, heartbeat,
                   interest, ghost>>

(* The callback, InterestOperation::timeout: finish(true). *)
TimedOut ==
    /\ At(Main, "timeout")
    /\ Dangling(interest.state # "open")
    /\ interest' = Finished
    /\ Return(Main, <<>>)
    /\ UNCHANGED <<scenario, budget, client, taskVars, socketVars, heartbeat, timeout>>

(* The rest of timer_callback. *)
DestroyTimer ==
    /\ At(Main, "destroy_timer")
    /\ timeout' = destroy_timer(timeout)
    /\ Return(Main, <<>>)
    /\ UNCHANGED <<scenario, budget, client, taskVars, socketVars, heartbeat,
                   interest, ghost>>

------------------------------------------------------------------------------
(* libuv's events, on a main thread with nothing else to do. *)

Event(call) ==
    /\ ~ghost.aborted /\ stack[Main] = <<>>
    /\ stack' = [stack EXCEPT ![Main] = <<Call(call)>>]
    /\ UNCHANGED <<scenario, budget, client, m_task_queue, m_in_flush,
                   interest, timeout>>

AsyncEvent ==
    /\ signalled
    /\ Event("flush_tasks")
    /\ signalled' = FALSE
    /\ UNCHANGED <<socketVars, heartbeat, ghost>>

WriteEvent ==
    /\ writing # <<>> /\ socket = "open" /\ peer
    /\ Event("send_finished")
    /\ wire' = wire \o Head(writing)
    /\ writing' = Tail(writing)
    /\ UNCHANGED <<signalled, socket, timer, peer, heartbeat, ghost>>

TimerEvent ==
    /\ timer
    /\ Event("send_expired")
    /\ timer' = FALSE
    /\ ghost' = [ghost EXCEPT !.expired = TRUE]
    /\ UNCHANGED <<signalled, socket, writing, wire, peer, heartbeat>>

(* An end of file or an error: the peer has gone. *)
PeerGone ==
    /\ scenario.leaves /\ peer /\ socket = "open"
    /\ Event("handle_disconnect")
    /\ peer' = FALSE
    /\ UNCHANGED <<signalled, socket, timer, writing, wire, heartbeat, ghost>>

CloseEvent ==
    /\ socket = "closing"
    /\ Event("handle_disconnect")
    /\ socket' = "closed"
    /\ UNCHANGED <<signalled, timer, writing, wire, peer, heartbeat, ghost>>

(* heartbeat_timeout; the Timeout then deletes itself. *)
HeartbeatTimer ==
    /\ heartbeat.alive
    /\ Event("send_disconnect")
    /\ heartbeat' = destroy_timer([heartbeat EXCEPT !.m_callback_disabled = TRUE])
    /\ UNCHANGED <<signalled, socketVars, ghost>>

------------------------------------------------------------------------------
ThreadStep(t) ==
    \/ SendDatagram(t) \/ Disconnect(t) \/ SendDisconnect(t) \/ Forget(t)
    \/ EnqueueTask(t) \/ Signal(t) \/ PostRouting(t)
    \/ OpenInterest(t) \/ Finish(t)

MainStep ==
    \/ FlushTasks \/ RunTask \/ RouteTask \/ FlushTask \/ CloseTask
    \/ Write \/ SendFinished \/ AssertionFails \/ SendExpired
    \/ HandleDisconnect \/ ReceiveDisconnect
    \/ GenerateTask \/ CancelTask \/ TimedOut \/ DestroyTimer

Next ==
    \/ \E t \in Threads : Handle(t) \/ ThreadStep(t)
    \/ MainStep
    \/ AsyncEvent \/ WriteEvent \/ TimerEvent \/ PeerGone \/ CloseEvent
    \/ HeartbeatTimer \/ InterestTimer

(***************************************************************************)
(* Threads go on with what they are doing, and the loop serves its events. *)
(* A peer may never read: then the write timer ends the write, if there is *)
(* one; without it (m_write_timeout = 0) the peer is taken to read.        *)
(***************************************************************************)
Fairness ==
    /\ \A t \in Threads : WF_vars(ThreadStep(t))
    /\ WF_vars(MainStep)
    /\ WF_vars(AsyncEvent) /\ WF_vars(CloseEvent) /\ WF_vars(InterestTimer)
    /\ WF_vars(WriteEvent \/ TimerEvent)

Spec == Init /\ [][Next]_vars /\ Fairness

------------------------------------------------------------------------------
(* Nothing went wrong outside the server, and no write timed out. *)
Intact == peer /\ ~ghost.expired

Numbers(n) == [k \in 1..n |-> k]

(***************************************************************************)
(* The peer receives what was sent in the order in which it was accepted,  *)
(* and a connection the server closes is closed only when everything sent  *)
(* before has been written, whoever sent it on whichever thread.           *)
(***************************************************************************)
NothingLost ==
    /\ ~ghost.expired => wire = Numbers(Len(wire))
    /\ Intact /\ socket # "open" => Len(wire) >= ghost.owed

(***************************************************************************)
(* While the connection stands there is exactly one buffer for each write  *)
(* under way and no second write; what is neither written nor being        *)
(* written is in the queue, and its size is known.  These are the          *)
(* assertions of flush_send_queue, send_finished and send_expired.  A      *)
(* buffer goes out from flush_send_queue, or is with libuv.                *)
(***************************************************************************)
Flushing == stack[Main] # <<>> /\ Top(Main).call = "write"

Outgoing ==
    (IF writing # <<>> THEN Head(writing) ELSE <<>>) \o
    (IF Flushing THEN Top(Main).data ELSE <<>>)

WritesAreCounted ==
    /\ client.m_total_queue_size = Len(client.m_send_queue)
    /\ Intact /\ socket = "open" =>
         /\ Len(writing) <= 1
         /\ wire \o Outgoing \o client.m_send_queue = Numbers(ghost.pushed)
         /\ client.m_is_sending = client.m_send_buf
         /\ client.m_is_sending <=>
              Outgoing # <<>> \/ At(Main, "send_finished")

(***************************************************************************)
(* The timer's callback is not run on an interest operation that another   *)
(* thread has finished: what cancel() promises when it answers true.       *)
(***************************************************************************)
CallbackOnLiveOperation ==
    At(Main, "timeout") => interest.state = "open"

(***************************************************************************)
(* A handler that closes its connection is told that it is closed, and an  *)
(* interest ends.  Two things may prevent the first (README): the write    *)
(* timer runs out after the closing, or the closing is posted by a task of *)
(* the queue itself.                                                       *)
(***************************************************************************)
Abandoned == client.m_local_disconnect /\ ghost.expired /\ socket = "open"

Stranded == m_task_queue # <<>> /\ stack[Main] = <<>> /\ ~signalled

EventuallyTold ==
    /\ client.m_local_disconnect ~>
         (ghost.told > 0 \/ Abandoned \/ Stranded \/ ghost.aborted)
    /\ interest.state = "open" ~> (interest.state = "finished" \/ ghost.aborted)
=============================================================================
