---------------------------- MODULE NetworkClient ----------------------------
(***************************************************************************)
(* One TCP connection of the server (NetworkClient): the queue of          *)
(* datagrams to send, the write under way and the two ways of closing.     *)
(*                                                                         *)
(* Every member function runs under m_mutex.  An operator of this module   *)
(* is one such locked section: it gives the client it leaves behind and    *)
(* the calls the thread then makes without the lock.  Sections that run on *)
(* a thread other than the main one may not touch libuv: they post a task. *)
(* Datagrams are numbered in the order they are pushed, and have size 1.   *)
(***************************************************************************)
EXTENDS Naturals, Sequences

CONSTANT MaxQueueSize   \* m_max_queue_size, set_write_buffer; 0: no limit

ASSUME QuotaAssumption == MaxQueueSize \in Nat

NewNetworkClient ==
    [m_socket |-> TRUE, m_is_sending |-> FALSE, m_send_buf |-> FALSE,
     m_send_queue |-> <<>>, m_total_queue_size |-> 0,
     m_local_disconnect |-> FALSE, m_disconnect_handled |-> FALSE]

(* m_socket is not null. *)
is_connected(c) == c.m_socket

Leaving(c, calls) == [client |-> c, calls |-> calls]

Enqueue(task) == [call |-> "enqueue", task |-> task]

(***************************************************************************)
(* shutdown() lets go of the lock to post the closing of the handles, and  *)
(* only then, with the lock again, forgets them.                           *)
(***************************************************************************)
shutdown(c) ==
    Leaving(c, IF is_connected(c)
               THEN <<Enqueue("close"), [call |-> "forget"]>> ELSE <<>>)

Forgotten(c) == [c EXCEPT !.m_socket = FALSE]

flush_send_queue_WhileSending(c) ==
    IF ~is_connected(c) \/ c.m_send_queue = <<>>
    THEN Leaving(c, <<>>)
    ELSE Leaving([c EXCEPT !.m_send_buf = TRUE, !.m_is_sending = TRUE,
                           !.m_send_queue = <<>>,
                           !.m_total_queue_size = @ - Len(c.m_send_queue)],
                 <<[call |-> "write", data |-> c.m_send_queue]>>)

(* flush_send_queue, which only the main thread runs. *)
flush_send_queue(c) ==
    IF ~is_connected(c) \/ c.m_is_sending \/ c.m_send_queue = <<>>
    THEN Leaving(c, <<>>)
    ELSE Leaving([c EXCEPT !.m_send_buf = TRUE, !.m_is_sending = TRUE,
                           !.m_send_queue = <<>>,
                           !.m_total_queue_size = @ - Len(c.m_send_queue)],
                 <<[call |-> "write", data |-> c.m_send_queue]>>)

(* How send_datagram and disconnect get the queue flushed. *)
PokeMain(c, on_main) ==
    IF on_main THEN flush_send_queue(c) ELSE Leaving(c, <<Enqueue("flush")>>)

disconnect_AtOnce(c, on_main) ==
    IF c.m_local_disconnect \/ c.m_disconnect_handled
    THEN Leaving(c, <<>>)
    ELSE shutdown([c EXCEPT !.m_local_disconnect = TRUE])

disconnect(c, on_main) ==
    LET closing == [c EXCEPT !.m_local_disconnect = TRUE]
    IN  IF c.m_local_disconnect \/ c.m_disconnect_handled
        THEN Leaving(c, <<>>)
        ELSE IF ~c.m_is_sending /\ c.m_total_queue_size = 0
        THEN shutdown(closing)
        ELSE PokeMain(closing, on_main)

send_datagram(c, dg, on_main) ==
    LET pushed == [c EXCEPT !.m_send_queue = Append(@, dg),
                            !.m_total_queue_size = @ + 1]
    IN  IF ~is_connected(c)
        THEN Leaving(c, <<>>)
        ELSE IF MaxQueueSize # 0 /\ pushed.m_total_queue_size > MaxQueueSize
        THEN disconnect(pushed, on_main)
        ELSE PokeMain(pushed, on_main)

(* A libuv event says that the connection is gone. *)
handle_disconnect(c) ==
    IF c.m_disconnect_handled
    THEN Leaving(c, <<>>)
    ELSE LET handled == [c EXCEPT !.m_disconnect_handled = TRUE]
         IN  Leaving(handled, Append(shutdown(handled).calls,
                                     [call |-> "receive_disconnect"]))

SendOver(c) == [c EXCEPT !.m_is_sending = FALSE, !.m_send_buf = FALSE]

send_finished_StaysOpen(c) ==
    IF ~is_connected(c) THEN Leaving(SendOver(c), <<>>)
    ELSE flush_send_queue(SendOver(c))

(* WriteEvent: the write under way is complete. *)
send_finished(c) ==
    LET done == SendOver(c)
    IN  IF ~is_connected(c)
        THEN Leaving(done, <<>>)
        ELSE IF c.m_local_disconnect /\ c.m_total_queue_size = 0
        THEN shutdown(done)
        ELSE flush_send_queue(done)

(* TimerEvent: the write under way took longer than m_write_timeout. *)
send_expired(c) ==
    disconnect([SendOver(c) EXCEPT !.m_send_queue = <<>>,
                                   !.m_total_queue_size = 0], TRUE)
=============================================================================
