--------------------------- MODULE DBStateServer_MC ---------------------------
(***************************************************************************)
(* One object (two in a scenario) with a field f of the database and a     *)
(* field g that is only in RAM.                                            *)
(***************************************************************************)
EXTENDS DBStateServer, TLC

CONSTANTS f, g

NoFields == [x \in {} |-> 0]
Request(kind, d, fields, asked) ==
  [kind |-> kind, doid |-> d, fields |-> fields, asked |-> asked]

Plain(kind, d) == Request(kind, d, NoFields, {})
Asking(kind, d, asked) == Request(kind, d, NoFields, asked)

MCDefault == (f :> 0) @@ (g :> 0)

Activation(d) == {Plain("activate", d), Request("activate", d, (f :> 3) @@ (g :> 3), {})}
Sets(d) == {Request("set", d, f :> 1, {}), Request("set", d, (f :> 2) @@ (g :> 2), {})}
Gets(d) == {Asking("get_field", d, {f}), Asking("get_fields", d, {f, g}), Plain("get_all", d)}

Scenario(S, requests, n) == [stored |-> S, requests |-> requests, max |-> n]

MCScenarios == {
  \* Everything that may happen to a stored object.
  Scenario({1}, Activation(1) \cup Sets(1) \cup Gets(1)
                \cup {Plain("delete_ram", 1), Plain("delete_disk", 1), Plain("get_activated", 1)}, 3),
  \* Long enough to read, change, load and unload it.
  Scenario({1}, {Plain("activate", 1), Request("set", 1, f :> 1, {}), Plain("get_all", 1),
                 Plain("delete_ram", 1)}, 5),
  \* An object that is not there.
  Scenario({}, Activation(1) \cup Sets(1) \cup Gets(1) \cup {Plain("get_activated", 1)}, 3),
  \* Two objects.
  Scenario({1, 2}, {Plain("activate", 1), Plain("get_all", 1), Plain("get_all", 2),
                    Request("set", 1, f :> 1, {}), Asking("get_field", 2, {f}),
                    Plain("activate", 2)}, 4) }
===============================================================================
