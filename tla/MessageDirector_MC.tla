------------------------- MODULE MessageDirector_MC -------------------------
(***************************************************************************)
(* Two participants and an upstream with one service.  Channels 1 and 2    *)
(* are subscribed one by one; 3..5 are a range with a gap to cut, apart    *)
(* from them; 1..3 overlaps them.  The service listens on the last one.    *)
(***************************************************************************)
EXTENDS MessageDirector

CONSTANTS p, q, u, d

MCSubscriber == {p, q, u, d}
MCLocal == {p, q}
MCRemote == {u}

Scenario(channels, ranges, threaded, n, sends) ==
  [channels |-> channels, ranges |-> ranges, destinations |-> {{1, Service}},
   threaded |-> threaded, changes |-> n, sends |-> sends]

Working == {
  \* Subscriptions only; a range with a hole to cut.
  Scenario({1, 2}, {3..5, 3..4, 4..4}, FALSE, 4, 0),
  \* Participants ask, are answered, and go away.
  Scenario({1}, {2..3}, FALSE, 2, 2),
  \* The same with the routing thread, and with a range over a channel.
  Scenario({1}, {1..3}, TRUE, 3, 1) }

Overlapping == { Scenario({1, 2}, {1..3}, FALSE, 4, 0) }
=============================================================================
