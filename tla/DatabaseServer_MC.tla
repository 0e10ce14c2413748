-------------------------- MODULE DatabaseServer_MC --------------------------
(***************************************************************************)
(* Two objects, two fields, and one operation of every kind that makes a   *)
(* different independence decision: deletes, whole and partial gets, sets  *)
(* and conditional updates over one or the other field.                    *)
(***************************************************************************)
EXTENDS DatabaseServer

CONSTANTS f, g, v, d1, d2

Op(type, d, gets, sets, crit) ==
  [type |-> type, doid |-> d, get_fields |-> gets,
   set_fields |-> [x \in sets |-> v], criteria_fields |-> [x \in crit |-> Blank]]

MCRequests ==
  { Op("DELETE_OBJECT", d1, {}, {}, {}),
    Op("GET_OBJECT", d1, {}, {}, {}),
    Op("GET_FIELDS", d1, {f}, {}, {}),
    Op("SET_FIELDS", d1, {}, {f}, {}),
    Op("SET_FIELDS", d1, {}, {g}, {}),
    Op("UPDATE_FIELDS", d1, {}, {g}, {f}),
    Op("UPDATE_FIELDS", d1, {}, {f}, {g}),
    Op("SET_FIELDS", d2, {}, {f}, {}) }

MCMalformed ==
  { Op("SET_FIELDS", d1, {}, {f}, {}),
    Op("GET_FIELDS", d1, {}, {}, {}) }
=============================================================================
