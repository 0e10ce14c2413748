-------------------------- MODULE MongoDatabase_MC --------------------------
(***************************************************************************)
(* Two worker threads over objects with two fields of the class and one    *)
(* field (z) that is not.  Doids 1..3; objects 1 and 2 are there.          *)
(***************************************************************************)
EXTENDS MongoDatabase, TLC

CONSTANTS f, g, z, a, b

Op(type, d, gets, sets, crit) ==
  [type |-> type, doid |-> d, get_fields |-> gets,
   set_fields |-> sets, criteria_fields |-> crit]

None == [x \in {} |-> Blank]
MCNewObject == [x \in Field |-> IF x = f THEN a ELSE Blank]

MCDoid == MinId..MaxId

VARIABLE scenario   \* what may arrive and fail in a behaviour; never changes

SerialMalformed == {Op("SET_FIELDS", 1, {}, None, None)}

\* Compare-and-set on f, plain sets, a delete of a field, gets and a delete.
Conflicts ==
  [requests |-> { Op("UPDATE_FIELDS", 1, {}, f :> b, f :> a),
                  Op("UPDATE_FIELDS", 1, {}, g :> a, f :> b),
                  Op("SET_FIELDS", 1, {}, f :> Blank, None),
                  Op("SET_FIELDS", 1, {}, g :> b, None),
                  Op("GET_OBJECT", 1, {}, None, None),
                  Op("GET_FIELDS", 1, {g}, None, None),
                  Op("DELETE_OBJECT", 1, {}, None, None) },
   malformed |-> SerialMalformed, creates |-> 0, errors |-> 1]

\* Deletes return the doids that creates run out of.
Allocation ==
  [requests |-> { Op("DELETE_OBJECT", d, {}, None, None) : d \in {1, 2} },
   malformed |-> {}, creates |-> 3, errors |-> 1]

\* A modification that is undone, among what may run beside it or must wait.
Undoing ==
  [requests |-> { Op("SET_FIELDS", 1, {}, (f :> b) @@ (z :> b), None),
                  Op("GET_FIELDS", 1, {g}, None, None),
                  Op("GET_OBJECT", 1, {}, None, None),
                  Op("UPDATE_FIELDS", 1, {}, g :> b, f :> b),
                  Op("DELETE_OBJECT", 1, {}, None, None) },
   malformed |-> {}, creates |-> 0, errors |-> 0]

Scenarios == {Conflicts, Allocation, Undoing}

MCRequests == UNION {s.requests : s \in Scenarios}
MCMalformed == UNION {s.malformed : s \in Scenarios}

MCInit == MongoInit /\ scenario \in Scenarios

Arrival ==
  \/ \E op \in scenario.requests : ReceiveOperation(op)
  \/ \E op \in scenario.malformed : ReceiveMalformed(op)
  \/ creates < scenario.creates /\ ReceiveCreate

MCNext ==
  /\ \/ Arrival
     \/ \E w \in Worker : Work(w) \/ (errors < scenario.errors /\ DatabaseError(w))
  /\ UNCHANGED scenario

MCVars == <<allVars, scenario>>
MCSpec == MCInit /\ [][MCNext]_MCVars /\ \A w \in Worker : WF_MCVars(Work(w) /\ UNCHANGED scenario)

\* For the race between an update and a create.
RacingUpdate == {Op("UPDATE_FIELDS", 1, {}, g :> b, f :> a)}
RacingSpec == MCInit /\ [][MongoNext /\ UNCHANGED scenario]_MCVars
=============================================================================
