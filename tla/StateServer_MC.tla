---------------------------- MODULE StateServer_MC ----------------------------
(***************************************************************************)
(* Object 1 is the root; requests give an object a parent with a smaller   *)
(* doid, so the tree has no cycles.                                        *)
(***************************************************************************)
EXTENDS StateServer, TLC

CONSTANTS a, b, c

At(p, z) == [parent |-> p, zone |-> z]
Root == At(0, 0)

Flat == <<Root, At(1, 1), At(1, 1)>>
Pair == <<Root, At(1, 1)>>
Gap == 1 :> Root @@ 3 :> At(1, 1)
Apart == <<Root, At(1, 1), At(1, 2)>>
Chain == <<Root, At(1, 1), At(2, 1)>>
Line == <<Root, At(1, 1), At(2, 1), At(3, 1)>>
Bush == <<Root, At(1, 1), At(2, 1), At(2, 1)>>
Fork == <<Root, At(1, 1), At(1, 1), At(2, 1)>>

Nobody(tree) == [d \in DOMAIN tree |-> NoChannel]
Below(n) == [d \in 1..n |-> IF d = 1 THEN {0} ELSE 1..(d - 1)]

Scenario(threaded, tree, n, zones, kinds, max) ==
  [threaded |-> threaded, tree |-> tree, owners |-> Nobody(tree), ai |-> a,
   parents |-> Below(n), zones |-> zones, generators |-> {a, NoChannel}, requests |-> kinds,
   queries |-> {[parent |-> 1, zones |-> {1}], [parent |-> 1, zones |-> {1, 2}]},
   max |-> max]

\* Only some objects are generated or moved, to some parents; other requests
\* may name any object of the tree.
Among(s, parents) ==
  [s EXCEPT !.parents = [d \in DOMAIN s.tree \cup DOMAIN parents |->
                           IF d \in DOMAIN parents THEN parents[d] ELSE {}]]

\* Requests that meet the datagrams of earlier ones.
Crossing == {
  Among(Scenario(TRUE, Pair, 3, {1}, {"generate", "move", "set_owner"}, 3), 3 :> {1, 2}),
  Among(Scenario(TRUE, Fork, 4, {1}, {"move", "set_ai"}, 3), 3 :> {1, 2}),
  [Among(Scenario(TRUE, Gap, 4, {1}, {"generate", "generate_early", "move", "move_early", "move_away"}, 3),
         2 :> {1} @@ 3 :> {0, 1, 2} @@ 4 :> {2})
     EXCEPT !.ai = NoChannel, !.generators = {NoChannel}],
  Among(Scenario(TRUE, Apart, 3, {1, 2}, {"move", "query"}, 4), 2 :> {1}),
  [Among(Scenario(TRUE, Pair, 3, {1, 2}, {"generate", "move", "query"}, 3), 2 :> {1} @@ 3 :> {1})
     EXCEPT !.generators = {NoChannel}],
  Scenario(TRUE, Bush, 4, {1}, {"delete", "query"}, 3) }

\* Requests that are settled one after the other.
Settling == {
  Scenario(FALSE, Bush, 4, {1},
           {"generate", "truncated_generate", "move", "set_ai", "set_owner", "delete"}, 4),
  Scenario(FALSE, Bush, 4, {1},
           {"generate", "truncated_generate", "move", "set_owner", "delete", "delete_ai"}, 3),
  Scenario(FALSE, Bush, 4, {1}, {"set_ai", "delete_ai"}, 4),
  Scenario(FALSE, Line, 4, {1}, {"set_ai", "delete_ai"}, 4),
  Scenario(FALSE, Bush, 4, {1, 2}, {"generate", "move", "delete", "query"}, 3) }

CrossingAndSettling == Crossing \cup Settling

\* The AI of a chain of objects is lost.
LostAI == { Scenario(FALSE, Chain, 3, {1}, {"delete_ai"}, 1) }
=============================================================================
