-------------------------- MODULE DistributedObject --------------------------
(***************************************************************************)
(* One object of a state server (src/src/stateserver/DistributedObject     *)
(* .cpp): its place in the tree, its AI and owner, its deletion.  Every    *)
(* handler is a function of the object and the datagram: what the object   *)
(* is afterwards, the datagrams it routes, in order, and whether it is     *)
(* gone.  Field values are left out; so is the sender a datagram carries,  *)
(* except where a reply goes to it.                                        *)
(***************************************************************************)
EXTENDS Naturals, FiniteSets, Sequences, SequencesExt, FiniteSetsExt

CONSTANTS
  Doid,    \* object ids
  Zone,    \* zones
  AI,      \* channels of AIs
  Client   \* channels of owners

NoDoid == 0
NoZone == 0
NoChannel == "no_channel"
Role == AI \cup Client

ASSUME DistributedObjectAssumption ==
  /\ Doid \subseteq Nat \ {0} /\ Zone \subseteq Nat \ {0}
  /\ IsFiniteSet(Doid) /\ IsFiniteSet(Zone)
  /\ AI \cap Client = {} /\ NoChannel \notin Role

\* The channels of core/types.h.
ObjectChannel(d) == <<"object", d>>
ChildrenOf(d) == <<"children_of", d>>
LocationChannel(p, z) == <<"location", p, z>>
RoleChannel(r) == <<"role", r>>

Object ==
  [parent : Doid \cup {NoDoid},
   zone : Zone \cup {NoZone},
   ai : AI \cup {NoChannel},
   explicit : BOOLEAN,                \* m_ai_explicitly_set
   owner : Client \cup {NoChannel},
   sync : BOOLEAN,                    \* m_parent_synchronized
   deleting : BOOLEAN,                \* m_deletion_process
   deleted : Nat,                     \* m_deleted
   count : Nat,                       \* m_deletion_count
   generator : AI \cup {NoChannel},   \* m_generate_sender
   zone_objects : UNION {[zones -> SUBSET Doid] : zones \in SUBSET Zone}]

NewObject(generator) ==
  [parent |-> NoDoid, zone |-> NoZone, ai |-> NoChannel, explicit |-> FALSE,
   owner |-> NoChannel, sync |-> FALSE, deleting |-> FALSE, deleted |-> 0, count |-> 0,
   generator |-> generator, zone_objects |-> [z \in {} |-> {}]]

Children(o) == UNION {o.zone_objects[z] : z \in DOMAIN o.zone_objects}

\* m_zone_objects[zone], which makes an entry for a zone it has none for.
ObjectsIn(o, z) == IF z \in DOMAIN o.zone_objects THEN o.zone_objects[z] ELSE {}

Visited(o, zones) ==
  [o EXCEPT !.zone_objects = [z \in DOMAIN o.zone_objects \cup zones |-> ObjectsIn(o, z)]]

AddChild(o, z, c) ==
  [o EXCEPT !.zone_objects = [y \in DOMAIN o.zone_objects \cup {z} |->
     IF y = z THEN ObjectsIn(o, z) \cup {c} ELSE o.zone_objects[y]]]

\* ... and an entry is erased with its last object.
RemoveChild(o, z, c) ==
  LET left == ObjectsIn(o, z) \ {c}
      zones == IF left = {} THEN DOMAIN o.zone_objects \ {z} ELSE DOMAIN o.zone_objects
  IN  [o EXCEPT !.zone_objects = [y \in zones |-> IF y = z THEN left ELSE o.zone_objects[y]]]

Roles(S) == {RoleChannel(r) : r \in S \ {NoChannel}}

\* What the object is subscribed to.
Subscriptions(d, o) ==
  {ObjectChannel(d)} \cup IF o.parent = NoDoid THEN {} ELSE {ChildrenOf(o.parent)}

\* The result of a handler.
Stay(o) == [obj |-> o, out |-> <<>>, gone |-> FALSE]
Become(o, out) == [obj |-> o, out |-> out, gone |-> FALSE]

\* A datagram to nobody is not one.
Send(msg) == IF msg.to = {} THEN <<>> ELSE <<msg>>

When(condition, msg) == IF condition THEN Send(msg) ELSE <<>>

-----------------------------------------------------------------------------
(* Location.                                                               *)

ChangingLocation(to, d, p, z, old_p, old_z) ==
  [kind |-> "changing_location", to |-> to, doid |-> d,
   parent |-> p, zone |-> z, old_parent |-> old_p, old_zone |-> old_z]

\* Who is told that the object leaves its place.
Left(o) ==
  IF o.parent = NoDoid THEN {}
  ELSE {ObjectChannel(o.parent), LocationChannel(o.parent, o.zone)}

\* ... and who else that it comes to another.
Entered(o, p) == IF p \in {o.parent, NoDoid} THEN {} ELSE {ObjectChannel(p)}

Relocated(o, p, z) ==
  [o EXCEPT !.parent = p, !.zone = z, !.sync = FALSE,
            !.ai = IF p # o.parent /\ p = NoDoid /\ ~o.explicit THEN NoChannel ELSE o.ai]

\* handle_location_change
ChangeLocation(d, o, p, z) ==
  IF p = d \/ (p = o.parent /\ z = o.zone) THEN Stay(o)
  ELSE Become(Relocated(o, p, z),
    When(p \notin {o.parent, NoDoid} /\ ~o.explicit,
         [kind |-> "get_ai", to |-> {ObjectChannel(p)}, sender |-> d])
    \o Send(ChangingLocation(Roles({o.ai, o.owner}) \cup Left(o) \cup Entered(o, p),
                             d, p, z, o.parent, o.zone))
    \o When(p # NoDoid, [kind |-> "enter_location", to |-> {LocationChannel(p, z)}, doid |-> d]))

LocationAck(d, msg) ==
  [kind |-> "location_ack", to |-> {ObjectChannel(msg.doid)}, parent |-> d, zone |-> msg.zone]

\* The parent's side of it.
HandleChangingLocation_KeepingZone(d, o, msg) ==
  IF msg.parent = d
  THEN IF msg.old_parent = d /\ msg.zone = msg.old_zone THEN Stay(o)
       ELSE Become(AddChild(o, msg.zone, msg.doid), <<LocationAck(d, msg)>>)
  ELSE Stay(IF msg.old_parent = d THEN RemoveChild(o, msg.old_zone, msg.doid) ELSE o)

HandleChangingLocation_NewChildrenOnly(d, o, msg) ==
  LET left == IF msg.old_parent = d THEN RemoveChild(o, msg.old_zone, msg.doid) ELSE o
  IN  IF msg.parent # d THEN Stay(left)
      ELSE IF msg.old_parent = d /\ msg.zone = msg.old_zone THEN Stay(o)
      ELSE Become(AddChild(left, msg.zone, msg.doid),
                  When(msg.old_parent # d, LocationAck(d, msg)))

HandleChangingLocation(d, o, msg) ==
  LET left == IF msg.old_parent = d THEN RemoveChild(o, msg.old_zone, msg.doid) ELSE o
  IN  IF msg.parent # d THEN Stay(left)
      ELSE IF msg.old_parent = d /\ msg.zone = msg.old_zone THEN Stay(o)
      ELSE Become(AddChild(left, msg.zone, msg.doid), <<LocationAck(d, msg)>>)

HandleLocationAck(o, msg) ==
  Stay([o EXCEPT !.sync = @ \/ (msg.parent = o.parent /\ msg.zone = o.zone)])

\* wake_children's question and what becomes of the answers.
WakeChildren(d) == [kind |-> "get_location", to |-> {ChildrenOf(d)}, sender |-> d]

HandleGetLocation(d, o, msg) ==
  Become(o, <<[kind |-> "get_location_resp", to |-> {ObjectChannel(msg.sender)}, doid |-> d,
               parent |-> o.parent, zone |-> o.zone]>>)

HandleGetLocationResp(d, o, msg) ==
  Stay(IF msg.parent = d THEN AddChild(o, msg.zone, msg.doid) ELSE o)

-----------------------------------------------------------------------------
(* AI and owner.                                                           *)

\* handle_ai_change
ChangeAI_ChannelAsFlag(d, o, ai, explicit) ==
  IF ai = o.ai THEN Stay(o) ELSE Stay([o EXCEPT !.ai = ai, !.explicit = ai])

ChangeAI(d, o, ai, explicit) ==
  IF ai = o.ai THEN Stay(o)
  ELSE Become([o EXCEPT !.ai = ai, !.explicit = explicit],
    Send([kind |-> "changing_ai", doid |-> d, ai |-> ai, old_ai |-> o.ai,
          to |-> Roles({o.ai}) \cup IF DOMAIN o.zone_objects # {} THEN {ChildrenOf(d)} ELSE {}])
    \o When(ai # o.generator \/ o.ai # NoChannel,
            [kind |-> "enter_ai", to |-> Roles({ai}), doid |-> d]))

\* STATESERVER_OBJECT_CHANGING_AI and STATESERVER_OBJECT_GET_AI_RESP
InheritAI_FirstOnly(d, o, msg) ==
  IF msg.doid # o.parent \/ o.ai # NoChannel THEN Stay(o) ELSE ChangeAI(d, o, msg.ai, FALSE)

InheritAI(d, o, msg) ==
  IF msg.doid # o.parent \/ o.explicit THEN Stay(o) ELSE ChangeAI(d, o, msg.ai, FALSE)

HandleGetAI(d, o, msg) ==
  Become(o, <<[kind |-> "get_ai_resp", to |-> {ObjectChannel(msg.sender)}, doid |-> d, ai |-> o.ai]>>)

HandleSetOwner_NoFarewell(d, o, msg) ==
  IF msg.owner = o.owner THEN Stay(o)
  ELSE Become([o EXCEPT !.owner = msg.owner],
    When(msg.owner # NoChannel /\ msg.entry,
         [kind |-> "enter_owner", to |-> Roles({msg.owner}), doid |-> d]))

HandleSetOwner(d, o, msg) ==
  IF msg.owner = o.owner THEN Stay(o)
  ELSE Become([o EXCEPT !.owner = msg.owner],
    When(o.owner # NoChannel, [kind |-> "changing_owner", to |-> Roles({o.owner}), doid |-> d])
    \o When(msg.owner # NoChannel /\ msg.entry,
            [kind |-> "enter_owner", to |-> Roles({msg.owner}), doid |-> d]))

-----------------------------------------------------------------------------
(* Deletion.                                                               *)

DeleteRam(to, d, ai_deletion) ==
  [kind |-> "delete_ram", to |-> to, doid |-> d, ai_deletion |-> ai_deletion]

\* finish_delete with notify_parent
Farewell(d, o, ai_deletion) ==
  When(o.parent # NoDoid, DeleteRam({ObjectChannel(o.parent)}, d, ai_deletion))
  \o Send(DeleteRam(Roles({o.owner, o.ai}) \cup
                      IF o.parent = NoDoid THEN {} ELSE {LocationChannel(o.parent, o.zone)},
                    d, ai_deletion))

FinishDelete(d, o, ai_deletion) == [obj |-> o, out |-> Farewell(d, o, ai_deletion), gone |-> TRUE]

\* begin_delete.  It tells the parent itself when there is nothing to wait for.
Leave(d, o) ==
  When(o.parent # NoDoid,
       ChangingLocation({ObjectChannel(o.parent)}, d, NoDoid, NoZone, o.parent, o.zone))

BeginDelete_OffByOne(d, o, ai_deletion) ==
  IF Cardinality(Children(o)) <= 1
  THEN [obj |-> o, out |-> Leave(d, o) \o Farewell(d, o, ai_deletion), gone |-> TRUE]
  ELSE Become([o EXCEPT !.deleting = TRUE, !.count = Cardinality(Children(o))],
         Leave(d, o) \o <<[kind |-> "delete_children", to |-> {ChildrenOf(d)},
                           ai_deletion |-> ai_deletion]>>)

BeginDelete(d, o, ai_deletion) ==
  IF Children(o) = {}
  THEN [obj |-> o, out |-> Leave(d, o) \o Farewell(d, o, ai_deletion), gone |-> TRUE]
  ELSE Become([o EXCEPT !.deleting = TRUE, !.count = Cardinality(Children(o))],
         Leave(d, o) \o <<[kind |-> "delete_children", to |-> {ChildrenOf(d)},
                           ai_deletion |-> ai_deletion]>>)

LastChild_OffByOne(o) == o.deleted = o.count

LastChild(o) == o.deleted + 1 = o.count

HandleDeleteRam(d, o, msg) ==
  IF msg.doid = d THEN BeginDelete(d, o, msg.ai_deletion)
  ELSE IF ~o.deleting THEN Stay(o)
  ELSE IF LastChild(o) THEN FinishDelete(d, [o EXCEPT !.deleted = @ + 1], FALSE)
  ELSE Stay([o EXCEPT !.deleted = @ + 1])

-----------------------------------------------------------------------------
(* Interest queries.                                                       *)

Counted(o, zones) == {e \in Doid \X zones : e[1] \in ObjectsIn(o, e[2])}

GetZonesObjects(to, parent, zones, sender) ==
  [kind |-> "get_zones_objects", to |-> to, parent |-> parent, zones |-> zones, sender |-> sender]

\* A child answers for itself, a parent with a count and by asking its children.
HandleGetZonesObjects(d, o, msg) ==
  IF msg.parent = o.parent
  THEN Become(o, When(o.zone \in msg.zones,
         [kind |-> IF o.sync THEN "enter_interest" ELSE "enter_location",
          to |-> {msg.sender}, doid |-> d, zone |-> o.zone]))
  ELSE IF msg.parent = d
  THEN Become(Visited(o, msg.zones), <<[kind |-> "zones_count", to |-> {msg.sender},
                    count |-> Cardinality(Counted(o, msg.zones))]>>
                 \o When(Counted(o, msg.zones) # {}, GetZonesObjects({ChildrenOf(d)}, d, msg.zones, msg.sender)))
  ELSE Stay(o)

-----------------------------------------------------------------------------
\* handle_datagram
Handle(d, o, msg) ==
  CASE msg.kind = "delete_ai_objects" ->
         IF msg.ai = o.ai THEN BeginDelete(d, o, TRUE) ELSE Stay(o)
    [] msg.kind = "delete_ram"        -> HandleDeleteRam(d, o, msg)
    [] msg.kind = "delete_children"   -> BeginDelete(d, o, msg.ai_deletion)
    [] msg.kind \in {"changing_ai", "get_ai_resp"} -> InheritAI(d, o, msg)
    [] msg.kind = "set_ai"            -> ChangeAI(d, o, msg.ai, TRUE)
    [] msg.kind = "get_ai"            -> HandleGetAI(d, o, msg)
    [] msg.kind = "changing_location" -> HandleChangingLocation(d, o, msg)
    [] msg.kind = "location_ack"      -> HandleLocationAck(o, msg)
    [] msg.kind = "set_location"      -> ChangeLocation(d, o, msg.parent, msg.zone)
    [] msg.kind = "get_location"      -> HandleGetLocation(d, o, msg)
    [] msg.kind = "get_location_resp" -> HandleGetLocationResp(d, o, msg)
    [] msg.kind = "set_owner"         -> HandleSetOwner(d, o, msg)
    [] msg.kind = "get_zones_objects" -> HandleGetZonesObjects(d, o, msg)
=============================================================================
