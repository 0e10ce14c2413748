---------------------------- MODULE ObjectAnswers ----------------------------
(***************************************************************************)
(* Questions about the fields of an object and what they are answered,     *)
(* when the object is loaded (DistributedObject.cpp) and when it is only   *)
(* stored (DBStateServer.cpp).  A loaded object is a function of its       *)
(* fields, a stored one of those with the db keyword.  All fields are      *)
(* required, so every one has a value or a default.                        *)
(***************************************************************************)

CONSTANTS
  Field,    \* the fields of the objects' class
  DbField,  \* those with the db keyword
  Default,  \* the default values of the fields
  Missing   \* no such object

\* The fields of op with values, where the object has others.
Updated(x, fields) ==
  [f \in DOMAIN x |-> IF f \in DOMAIN fields THEN fields[f] ELSE x[f]]

\* A stored object with the default values of what is not stored.
Complete(x) == [f \in Field |-> IF f \in DbField THEN x[f] ELSE Default[f]]

Fields(x, S) == [tag |-> "fields", fields |-> [f \in S |-> x[f]]]
Failure == [tag |-> "failure"]
Silence == [tag |-> "silence"]
Activated(b) == [tag |-> "activated", active |-> b]

Asks(op) == op.kind \in {"get_field", "get_fields", "get_all", "get_activated"}

\* What a loaded object x answers.
RamAnswer(op, x) ==
  CASE op.kind = "get_activated" -> Activated(TRUE)
    [] op.kind = "get_all"       -> Fields(x, Field)
    [] OTHER                     -> Fields(x, op.asked)

\* What is answered for an object that is not loaded: x is what is stored.
DiskAnswer(op, x) ==
  CASE op.kind = "get_activated" -> Activated(FALSE)
    [] op.kind = "get_all"       -> IF x = Missing THEN Silence ELSE Fields(Complete(x), Field)
    [] op.kind = "get_field"     -> IF x = Missing /\ op.asked \subseteq DbField THEN Failure
                                    ELSE IF x = Missing THEN Fields(Default, op.asked)
                                    ELSE Fields(Complete(x), op.asked)
    [] OTHER                     -> IF x = Missing THEN Fields(Default, op.asked \ DbField)
                                    ELSE Fields(Complete(x), op.asked)
=============================================================================
