----------------------------- MODULE DBOperation -----------------------------
(***************************************************************************)
(* The operations a database server accepts (src/src/database/             *)
(* DBOperation.{h,cpp}): what each one reads and writes, when two of them  *)
(* are independent, and what the backend does to an object when it runs    *)
(* one.  Field values are opaque; an empty value vector is Blank, which    *)
(* means "delete the field" among the set fields, "must be absent" among   *)
(* the criteria and "absent" in a stored object.                           *)
(***************************************************************************)
EXTENDS Naturals

CONSTANTS
  Doid,      \* ids of the objects the operations act on
  Field,     \* database fields known to the DC file
  Class,     \* the fields that belong to the class of the stored objects
  Value,     \* non-empty field values
  Blank,     \* the empty value vector
  Missing    \* "no such object"

ASSUME DBOperationAssumption ==
  /\ Blank \notin Value
  /\ Class \subseteq Field
  /\ Missing \notin [Field -> Value \cup {Blank}]

Stored == Value \cup {Blank}

\* A FieldValues map: some of the fields, each with a (maybe blank) value.
FieldValues == UNION {[S -> Stored] : S \in SUBSET Field}

\* An object of the database: every field, absent ones being Blank.
Object == [Field -> Stored]

OperationType ==
  {"DELETE_OBJECT", "GET_OBJECT", "GET_FIELDS", "SET_FIELDS", "UPDATE_FIELDS"}

\* DBOperation's attributes.  CREATE_OBJECT has no doid, is never queued, and
\* is modelled with the backend that allocates its doid.
Operation ==
  [type : OperationType, doid : Doid, get_fields : SUBSET Field,
   set_fields : FieldValues, criteria_fields : FieldValues]

Gets(op)   == op.type \in {"GET_OBJECT", "GET_FIELDS"}
Writes(op) == op.type \in {"SET_FIELDS", "UPDATE_FIELDS"}

Reads(op)    == op.get_fields
Changes(op)  == DOMAIN op.set_fields
Criteria(op) == DOMAIN op.criteria_fields

-----------------------------------------------------------------------------
(* is_independent_of, one operator per override.                           *)

GetIndependentOf(op, other) ==
  \/ Gets(other)
  \/ /\ Writes(other)
     /\ op.type # "GET_OBJECT"
     /\ Reads(op) \cap Changes(other) = {}

SetIndependentOf(op, other) ==
  \/ /\ Gets(other)
     /\ GetIndependentOf(other, op)
  \/ /\ other.type = "SET_FIELDS"
     /\ Changes(op) \cap Changes(other) = {}
  \/ /\ other.type = "UPDATE_FIELDS"
     /\ Changes(op) \cap (Changes(other) \cup Criteria(other)) = {}

UpdateIndependentOf_IgnoringCriteria(op, other) ==
  \/ Gets(other) /\ GetIndependentOf(other, op)
  \/ Writes(other) /\ Changes(op) \cap Changes(other) = {}

UpdateIndependentOf(op, other) ==
  \/ /\ Gets(other)
     /\ GetIndependentOf(other, op)
  \/ /\ other.type = "SET_FIELDS"
     /\ SetIndependentOf(other, op)
  \/ /\ other.type = "UPDATE_FIELDS"
     /\ Changes(op) \cap (Changes(other) \cup Criteria(other)) = {}
     /\ Changes(other) \cap Criteria(op) = {}

IsIndependentOf(op, other) ==
  \/ op.doid # other.doid
  \/ Gets(op) /\ GetIndependentOf(op, other)
  \/ op.type = "SET_FIELDS" /\ SetIndependentOf(op, other)
  \/ op.type = "UPDATE_FIELDS" /\ UpdateIndependentOf(op, other)

-----------------------------------------------------------------------------
(* What running an operation against the stored object x does to it and    *)
(* what the operation is completed with.  Both are total on                *)
(* Object \cup {Missing}.                                                  *)

\* verify_class: a modification may only name fields of the object's class.
VerifyClass(op) ==
  Writes(op) => Changes(op) \cup Criteria(op) \subseteq Class

CriteriaMet(op, x) == \A f \in Criteria(op) : x[f] = op.criteria_fields[f]

Modified(op, x) ==
  [f \in Field |-> IF f \in Changes(op) THEN op.set_fields[f] ELSE x[f]]

\* find_one_and_update matches: the object is there and meets the criteria.
Matches(op, x) == x # Missing /\ (op.type = "UPDATE_FIELDS" => CriteriaMet(op, x))

\* The object after the operation.
Effect(op, x) ==
  IF op.type = "DELETE_OBJECT" THEN Missing
  ELSE IF Writes(op) /\ Matches(op, x) /\ VerifyClass(op) THEN Modified(op, x)
  ELSE x

Failure    == [tag |-> "failure"]
Success    == [tag |-> "success"]
Snapshot(S, x) == [tag |-> "snapshot", fields |-> [f \in S |-> x[f]]]
Mismatch(S, x) == [tag |-> "mismatch", fields |-> [f \in S |-> x[f]]]

\* What the operation is completed with (on_complete, on_failure or
\* on_criteria_mismatch).
Outcome(op, x) ==
  IF x = Missing \/ ~VerifyClass(op) THEN Failure
  ELSE IF op.type = "GET_OBJECT" THEN Snapshot(Class, x)
  ELSE IF op.type = "GET_FIELDS" THEN Snapshot(Reads(op) \cap Class, x)
  ELSE IF Matches(op, x) THEN Success
  ELSE Mismatch(Criteria(op), x)

-----------------------------------------------------------------------------
(* Two operations commute on x when running them in either order leaves    *)
(* the same object behind and completes both with the same outcomes: the   *)
(* header's "the outcome of one operation does not affect the other, which *)
(* makes their ordering unimportant".                                      *)
Commute(a, b, x) ==
  /\ Effect(a, Effect(b, x)) = Effect(b, Effect(a, x))
  /\ Outcome(a, Effect(b, x)) = Outcome(a, x)
  /\ Outcome(b, Effect(a, x)) = Outcome(b, x)
=============================================================================
