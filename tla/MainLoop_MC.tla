---------------------------- MODULE MainLoop_MC ----------------------------
(* Small instances of MainLoop: a connection that is written to and closed, *)
(* and the Timeout of an interest.                                          *)
EXTENDS MainLoop, TLC

CONSTANTS Router

Quiet ==
    [calls |-> 0, handlers |-> (Main :> {}) @@ (Router :> {}), routed |-> {},
     timed |-> FALSE, leaves |-> FALSE, heartbeat |-> FALSE]

(* Both threads send and close; the peer may leave; the heartbeat runs. *)
Closing ==
    [Quiet EXCEPT
       !.calls = 4, !.heartbeat = TRUE, !.leaves = TRUE,
       !.handlers = (Main :> {"send_datagram", "send_disconnect"}) @@
                    (Router :> {"send_datagram", "disconnect"})]

(* Writes may time out; the message director routes from a posted task. *)
Expiring ==
    [Quiet EXCEPT
       !.calls = 4, !.timed = TRUE, !.routed = {"send_datagram", "disconnect"},
       !.handlers = (Main :> {"disconnect"}) @@
                    (Router :> {"send_datagram", "post_routing"})]

(* An interest is opened, done and timed out on two threads. *)
Interest ==
    [Quiet EXCEPT
       !.calls = 4, !.leaves = TRUE,
       !.handlers = (Main :> {"open", "finish"}) @@
                    (Router :> {"open", "finish", "send_datagram"})]

MCScenarios == {Closing, Expiring, Interest}
=============================================================================
