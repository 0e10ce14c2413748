------------------------------- MODULE Timeout -------------------------------
(***************************************************************************)
(* A Timeout: a libuv timer with a callback, which deletes itself when it  *)
(* fires or is cancelled.  m_callback_disabled is the atomic flag on which *)
(* cancel(), on any thread, and the timer, on the main one, meet.          *)
(***************************************************************************)
EXTENDS Naturals

(* A Timeout after initialize() and start(). *)
StartedTimeout ==
    [alive |-> TRUE, m_timer |-> TRUE, m_callback |-> TRUE,
     m_callback_disabled |-> FALSE]

NoTimeout ==
    [alive |-> FALSE, m_timer |-> FALSE, m_callback |-> FALSE,
     m_callback_disabled |-> TRUE]

(* destroy_timer() ends in "delete this". *)
destroy_timer(o) ==
    [o EXCEPT !.alive = FALSE, !.m_timer = FALSE, !.m_callback = FALSE]

(***************************************************************************)
(* What cancel() answers, and what it leaves: on the main thread a timer   *)
(* that runs is destroyed at once, elsewhere a task is posted to do it.    *)
(***************************************************************************)
CancelSucceeds(o) == ~o.m_callback_disabled

cancel_ByTask(o, on_main) ==
    IF ~on_main THEN o
    ELSE IF o.m_timer THEN destroy_timer([o EXCEPT !.m_callback_disabled = TRUE])
    ELSE [o EXCEPT !.m_callback_disabled = TRUE]

cancel(o, on_main) ==
    LET disabled == [o EXCEPT !.m_callback_disabled = TRUE]
    IN  IF on_main /\ o.m_timer THEN destroy_timer(disabled) ELSE disabled

(* timer_callback() runs the callback if it is the first to set the flag. *)
CallbackRuns(o) == o.m_callback /\ ~o.m_callback_disabled
=============================================================================
