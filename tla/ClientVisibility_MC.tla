------------------------- MODULE ClientVisibility_MC -------------------------
(***************************************************************************)
(* Parent 1 has zones 1 and 2, parent 2 zone 1.                            *)
(***************************************************************************)
EXTENDS ClientVisibility

In(p, zones) == [parent |-> p, zones |-> zones]

Hasty(s) == [s EXCEPT !.hasty = TRUE]
World == {"generate", "move", "delete", "set field"}
Overlapping == {In(1, {1}), In(1, {1, 2})}
Near == <<1, 1>>
Far == <<2, 1>>
Both == <<Near, <<1, 2>>>>

Scenario(objects, interests, places, kinds, max, n) ==
  [threaded |-> FALSE, hasty |-> FALSE, objects |-> objects, owned |-> {}, session |-> {},
   ids |-> {1, 2}, interests |-> interests, places |-> places,
   requests |-> kinds, max |-> max, changes |-> n]

Playing == {
  \* Objects come, go and change while their zone is opened and closed.
  Scenario(<<Near>>, {In(1, {1})}, {Near, Far}, World \cup {"add", "remove"}, 2, 3),
  \* Interests overlap and are altered.
  Scenario(Both, Overlapping \cup {In(2, {1})}, {Near, Far, <<1, 2>>}, World \cup {"add", "alter", "remove"}, 3, 1),
  \* Several are opened at once.
  Hasty(Scenario(Both, Overlapping, {Near, <<1, 2>>}, (World \ {"move"}) \cup {"add", "disconnect"}, 2, 2)),
  \* They are closed and altered while they are open; operations time out.
  Hasty(Scenario(Both, Overlapping, {Near}, {"add", "alter", "remove", "move", "timeout"}, 3, 1)),
  \* Daemons do the same and change the client's channel.
  Scenario(Both, Overlapping, {Far}, {"add", "daemon adds", "daemon removes", "set channel", "move"}, 3, 1),
  \* The client owns an object of its session.
  [Scenario(Both, Overlapping, {Near, Far}, {"add", "session", "move", "set owner", "delete", "delete ai"}, 2, 2)
     EXCEPT !.owned = {1}, !.session = {1}],
  \* Both directors have threads.
  [Hasty(Scenario(Both, Overlapping, {Near, Far}, {"add", "daemon adds", "move", "delete", "timeout", "disconnect"}, 2, 1))
     EXCEPT !.threaded = TRUE] }

\* An interest is closed while its operation is open.
Closing == { Hasty(Scenario(<<Near>>, {In(1, {1})}, {}, {"add", "remove"}, 2, 0)) }

\* A daemon removes an interest that may not be there, while 0 may be open.
Zero == { [Scenario(<<Near>>, {In(1, {1})}, {}, {"add", "daemon removes"}, 2, 0) EXCEPT !.ids = {0, 1}] }

\* A zone is closed and opened again before the first operation is answered,
\* while an object passes through.
Reopening == { Hasty(Scenario(<<Far>>, {In(1, {1})}, {Near, Far}, {"add", "remove", "move"}, 3, 2)) }
=============================================================================
