----------------------------- MODULE StateServer -----------------------------
(***************************************************************************)
(* A state server (src/src/stateserver/StateServer.cpp) and its objects:   *)
(* they agree on the tree, on AIs and on deletion by datagrams alone, which *)
(* the message director routes in order.  What clients, AIs and other      *)
(* daemons ask for arrives between any two datagrams when the director     *)
(* routes on its own thread; otherwise only when all is routed, because    *)
(* flush_queue returns to the event loop with an empty queue.              *)
(***************************************************************************)
EXTENDS DistributedObject

CONSTANT
  Scenarios   \* what a behaviour starts with and may meet

ASSUME StateServerAssumption ==
  \A s \in Scenarios :
    /\ s.tree \in [DOMAIN s.tree -> [parent : Doid \cup {NoDoid}, zone : Zone \cup {NoZone}]]
    /\ DOMAIN s.tree \subseteq Doid /\ DOMAIN s.parents \subseteq Doid
    /\ \A d \in DOMAIN s.tree :
         /\ s.tree[d].parent # d
         /\ s.tree[d].parent = NoDoid <=> s.tree[d].zone = NoZone
    /\ DOMAIN s.tree # {} => \E d \in DOMAIN s.tree : s.tree[d].parent = NoDoid
    /\ s.owners \in [DOMAIN s.tree -> Client \cup {NoChannel}]
    /\ s.ai \in AI \cup {NoChannel}
    /\ s.parents \in [DOMAIN s.parents -> SUBSET (Doid \cup {NoDoid})]
    /\ s.zones \subseteq Zone /\ s.generators \subseteq AI \cup {NoChannel}
    /\ \A q \in s.queries : q.parent \in Doid /\ q.zones \subseteq Zone
    /\ s.threaded \in BOOLEAN /\ s.max \in Nat

VARIABLES
  scenario,      \* never changes
  objs,          \* m_objs
  m_root_object,
  net,           \* the director's queue
  making,        \* what the running handler has still to route
  routing,       \* the datagram at hand and who has still to handle it
  view,          \* what listeners on location and role channels know to be there
  queries,       \* interest queries: what was counted, answered and heard since
  former,        \* places that objects have told that they leave
  reaped,        \* objects deleted for their AI
  early,         \* children that outlived their parents, and whether they were going, too
  recounted,     \* objects whose deletion began anew, with another count
  requests       \* requests so far

history == <<former, reaped, early, recounted>>
vars == <<scenario, objs, m_root_object, net, making, routing, view, queries, history, requests>>

Tree == scenario.tree            \* objects at the start, settled: doid -> [parent, zone]
Owners == scenario.owners        \* owners of some of them
TreeAI == scenario.ai            \* the AI of the tree's root, which they inherit
Parents == scenario.parents      \* doid -> where requests may move it or generate it
Requests == scenario.requests    \* the kinds of request
Queries == scenario.queries      \* [parent, zones] that may be asked for
Threaded == scenario.threaded    \* the "threaded" setting of the message director
MaxRequests == scenario.max      \* bound of the model: requests

Server == 0   \* beside the doids
ServerChannel == <<"state_server">>
Live == DOMAIN objs
Idle == [msg |-> [kind |-> "none"], to |-> {}]
Asker(q) == <<"asker", q>>

\* Nothing is under way: flush_queue has returned.
Quiet == net = <<>> /\ making = <<>> /\ routing.to = {}

-----------------------------------------------------------------------------
ChildrenIn(T, d, z) == {c \in DOMAIN T : T[c].parent = d /\ T[c].zone = z}

Settled(d) ==
  [NewObject(NoChannel) EXCEPT
    !.parent = Tree[d].parent, !.zone = Tree[d].zone,
    !.ai = TreeAI,
    !.explicit = (Tree[d].parent = NoDoid) /\ TreeAI # NoChannel,
    !.owner = Owners[d],
    !.sync = Tree[d].parent # NoDoid,
    !.zone_objects = [z \in {Tree[c].zone : c \in {c \in DOMAIN Tree : Tree[c].parent = d}} |->
                        ChildrenIn(Tree, d, z)]]

Listeners == {LocationChannel(p, z) : p \in Doid, z \in Zone} \cup Roles(Role)

Init ==
  /\ scenario \in Scenarios
  /\ objs = [d \in DOMAIN Tree |-> Settled(d)]
  /\ m_root_object = IF DOMAIN Tree = {} THEN NoDoid
                     ELSE CHOOSE d \in DOMAIN Tree : Tree[d].parent = NoDoid
  /\ net = <<>> /\ making = <<>> /\ routing = Idle
  /\ view = [c \in Listeners |->
       {d \in DOMAIN Tree : c = LocationChannel(Tree[d].parent, Tree[d].zone)
                              \/ c \in Roles({TreeAI, Owners[d]})}]
  /\ queries = <<>>
  /\ former = {} /\ reaped = {} /\ early = {} /\ recounted = {}
  /\ requests = 0

-----------------------------------------------------------------------------
(* Requests from outside.                                                  *)

Request(kind, msg) ==
  /\ kind \in Requests
  /\ requests < MaxRequests
  /\ Threaded \/ Quiet
  /\ requests' = requests + 1
  /\ net' = Append(net, msg)
  /\ UNCHANGED <<scenario, objs, m_root_object, making, routing, view, history>>

To(d) == {ObjectChannel(d)}
ToServer == {ServerChannel}

\* A parent that is there, or not yet, or no longer.
RequestGenerate(d, p, z, generator) ==
  /\ Request(IF p \in Live \cup {NoDoid} THEN "generate" ELSE "generate_early",
             [kind |-> "create", to |-> ToServer, doid |-> d, parent |-> p,
              zone |-> IF p = NoDoid THEN NoZone ELSE z,
              generator |-> generator, truncated |-> FALSE])
  /\ UNCHANGED queries

RequestTruncatedGenerate(d) ==
  /\ Request("truncated_generate",
             [kind |-> "create", to |-> ToServer, doid |-> d, parent |-> NoDoid, zone |-> NoZone,
              generator |-> NoChannel, truncated |-> TRUE])
  /\ UNCHANGED queries

RequestMove(d, p, z) ==
  /\ Request(IF p = NoDoid THEN "move_away" ELSE IF p \in Live THEN "move" ELSE "move_early",
             [kind |-> "set_location", to |-> To(d), parent |-> p,
              zone |-> IF p = NoDoid THEN NoZone ELSE z])
  /\ UNCHANGED queries

RequestAI(d, a) ==
  Request("set_ai", [kind |-> "set_ai", to |-> To(d), ai |-> a]) /\ UNCHANGED queries

RequestOwner(d, c) ==
  /\ Request("set_owner", [kind |-> "set_owner", to |-> To(d), owner |-> c, entry |-> TRUE])
  /\ UNCHANGED queries

RequestDelete(d) ==
  /\ Request("delete", DeleteRam(To(d), d, FALSE))
  /\ UNCHANGED queries

DeleteAIObjects(to, a) == [kind |-> "delete_ai_objects", to |-> to, ai |-> a]

RequestDeleteAI(a) ==
  /\ Request("delete_ai", DeleteAIObjects(ToServer, a))
  /\ UNCHANGED queries

RequestZones(q) ==
  /\ Request("query", GetZonesObjects(To(q.parent), q.parent, q.zones, Asker(Len(queries) + 1)))
  /\ queries' = Append(queries, [parent |-> q.parent, zones |-> q.zones,
                                 counted |-> {}, entered |-> {}, left |-> {}, known |-> {}])

-----------------------------------------------------------------------------
(* Routing.                                                                *)

Receivers(to) ==
  {d \in Live : Subscriptions(d, objs[d]) \cap to # {}}
    \cup IF ServerChannel \in to THEN {Server} ELSE {}

\* What a listener on channel c knows after msg.
Listen(c, known, msg) ==
  IF c \notin msg.to THEN known
  ELSE IF msg.kind \in {"enter_location", "enter_ai", "enter_owner"} THEN known \cup {msg.doid}
  ELSE IF msg.kind \in {"delete_ram", "changing_ai", "changing_owner"}
            \/ (msg.kind = "changing_location" /\ c \notin Roles(Role))
       THEN known \ {msg.doid}
  ELSE known

\* What an asker was answered, and what it hears on the locations it asks
\* about, which it listens on first (Client::open_interest).
Answered(q, msg) ==
  LET s == queries[q]
      here == {<<msg.doid, z>> : z \in {z \in s.zones : LocationChannel(s.parent, z) \in msg.to}}
      there == {<<msg.doid, msg.zone>>}
  IN  IF Asker(q) \in msg.to
      THEN CASE msg.kind = "enter_interest" -> [s EXCEPT !.entered = @ \cup there, !.known = @ \cup there]
             [] msg.kind = "enter_location" -> [s EXCEPT !.known = @ \cup there]
             [] OTHER -> s
      ELSE CASE msg.kind = "enter_location" -> [s EXCEPT !.known = @ \cup here]
             [] msg.kind \in {"changing_location", "delete_ram"} ->
                  [s EXCEPT !.known = @ \ here, !.left = @ \cup here]
             [] OTHER -> s

TakeMessage ==
  /\ routing.to = {} /\ making = <<>>
  /\ net # <<>>
  /\ LET msg == Head(net)
         to == Receivers(msg.to)
     IN  /\ routing' = IF to = {} THEN Idle ELSE [msg |-> msg, to |-> to]
         /\ view' = [c \in Listeners |-> Listen(c, view[c], msg)]
         /\ queries' = [q \in DOMAIN queries |-> Answered(q, msg)]
         /\ former' = IF msg.kind # "changing_location" THEN former
                      ELSE former \cup {<<msg.doid, msg.old_parent, msg.old_zone>>}
  /\ net' = Tail(net)
  /\ UNCHANGED <<scenario, objs, m_root_object, making, reaped, early, recounted, requests>>

\* A handler routes its datagrams one by one; nothing gets between them but
\* in threaded mode.
Route(out) ==
  IF Threaded THEN making' = out /\ UNCHANGED net
  ELSE net' = net \o out /\ UNCHANGED making

Push ==
  /\ making # <<>>
  /\ net' = Append(net, Head(making))
  /\ making' = Tail(making)
  /\ UNCHANGED <<scenario, objs, m_root_object, routing, view, queries, history, requests>>

Done(r) ==
  routing' = IF routing.to = {r} THEN Idle ELSE [routing EXCEPT !.to = @ \ {r}]

Orphans(d) == {c \in Live \ {d} : objs[c].parent = d}

\* An object handles the datagram; if it is gone then, it leaves m_objs.
HandleObject(d) ==
  /\ making = <<>>
  /\ d \in routing.to
  /\ LET msg == routing.msg
         r == Handle(d, objs[d], msg)
     IN  /\ Route(r.out)
         /\ objs' = IF r.gone THEN [c \in Live \ {d} |-> objs[c]]
                    ELSE [objs EXCEPT ![d] = r.obj]
         /\ early' = IF r.gone THEN early \cup {<<c, objs[c].deleting>> : c \in Orphans(d)} ELSE early
         /\ recounted' = IF objs[d].deleting /\ r.obj.count # objs[d].count THEN recounted \cup {d}
                         ELSE recounted
         /\ reaped' = IF \/ msg.kind = "delete_ai_objects" /\ r # Stay(objs[d])
                         \/ msg.kind = "delete_children" /\ msg.ai_deletion
                      THEN reaped \cup {d} ELSE reaped
         /\ queries' =
              IF msg.kind = "get_zones_objects" /\ msg.parent = d
              THEN [q \in DOMAIN queries |->
                     IF Asker(q) = msg.sender
                     THEN [queries[q] EXCEPT !.counted = Counted(objs[d], msg.zones), !.left = {}]
                     ELSE queries[q]]
              ELSE queries
  /\ Done(d)
  /\ UNCHANGED <<scenario, m_root_object, view, former, requests>>

\* handle_generate; the object's constructor takes its place in the tree and
\* wakes the children it finds.
Accepts(msg) ==
  /\ msg.doid \notin Live
  /\ IF msg.parent = NoDoid /\ msg.zone = NoZone THEN m_root_object = NoDoid
     ELSE m_root_object # NoDoid

HandleGenerate ==
  /\ making = <<>>
  /\ Server \in routing.to
  /\ routing.msg.kind = "create"
  /\ LET msg == routing.msg
         d == msg.doid
         new == ChangeLocation(d, NewObject(msg.generator), msg.parent, msg.zone)
     IN  /\ m_root_object' = IF Accepts(msg) /\ msg.parent = NoDoid THEN d ELSE m_root_object
         /\ IF Accepts(msg) /\ ~msg.truncated
            THEN /\ objs' = [c \in Live \cup {d} |-> IF c = d THEN new.obj ELSE objs[c]]
                 /\ Route(Append(new.out, WakeChildren(d)))
            ELSE UNCHANGED <<objs, making, net>>
  /\ Done(Server)
  /\ UNCHANGED <<scenario, view, queries, history, requests>>

\* handle_delete_ai
ManagedBy(a) == {d \in Live : objs[d].ai = a /\ objs[d].explicit}

HandleDeleteAI ==
  /\ making = <<>>
  /\ Server \in routing.to
  /\ routing.msg.kind = "delete_ai_objects"
  /\ Route(Send(DeleteAIObjects({ObjectChannel(d) : d \in ManagedBy(routing.msg.ai)}, routing.msg.ai)))
  /\ Done(Server)
  /\ UNCHANGED <<scenario, objs, m_root_object, view, queries, history, requests>>

-----------------------------------------------------------------------------
Ask ==
  \/ \E d \in DOMAIN Parents, z \in scenario.zones : \E p \in Parents[d] :
       \/ \E generator \in scenario.generators : RequestGenerate(d, p, z, generator)
       \/ RequestMove(d, p, z)
  \/ \E d \in DOMAIN Parents :
       \/ RequestTruncatedGenerate(d)
       \/ RequestDelete(d)
       \/ \E a \in AI : RequestAI(d, a)
       \/ \E c \in Client \cup {NoChannel} : RequestOwner(d, c)
  \/ \E a \in AI : RequestDeleteAI(a)
  \/ \E q \in Queries : RequestZones(q)

Serve ==
  \/ TakeMessage \/ Push \/ HandleGenerate \/ HandleDeleteAI
  \/ \E d \in Doid : HandleObject(d)

Next == Ask \/ Serve

Spec == Init /\ [][Next]_vars

\* The director routes what it is given.
FairSpec == Spec /\ WF_vars(Serve)

-----------------------------------------------------------------------------
(* Types.                                                                    *)
TypeOK ==
  /\ Live \subseteq Doid
  /\ \A d \in Live : objs[d] \in Object
  /\ m_root_object \in Doid \cup {NoDoid}
  /\ routing.to \subseteq Live \cup {Server}
  /\ view \in [Listeners -> SUBSET Doid]

(* What is asked of some scenarios only.                                     *)

\* Nothing is deleted.
Undeleted(s) == s.requests \cap {"delete", "delete_ai"} = {}

\* Nothing is moved or generated while something is being deleted.
TreesRest(s) ==
  \/ ~s.threaded \/ Undeleted(s)
  \/ s.requests \cap {"generate", "generate_early", "move", "move_early", "move_away"} = {}

\* A subtree is deleted from its top only.
OneEnd(s) == ~s.threaded /\ ~({"set_ai", "delete_ai"} \subseteq s.requests)

\* Objects come after their parents.
ParentsFirst(s) == s.requests \cap {"generate_early", "move_early"} = {}

\* No object drops an inherited AI because it is moved out of the world.
NoAIs(s) == s.ai = NoChannel /\ "set_ai" \notin s.requests
AIsStay(s) == "move_away" \notin s.requests \/ NoAIs(s)

\* Parents have a child that stays, and so always tell their children of an AI.
Peopled(s) ==
  /\ Undeleted(s)
  /\ \A d \in DOMAIN s.parents : \A p \in s.parents[d] :
       \E c \in DOMAIN s.tree : s.tree[c].parent = p /\ s.parents[c] = {}

-----------------------------------------------------------------------------
(* When all is routed, everyone who listens on a location knows exactly what *)
(* is there, whatever moved, came and went in the meantime: each object      *)
(* enters, leaves and is deleted on the right channel.  And when no deletion *)
(* waits, every parent lists exactly the objects that are its children, in   *)
(* their zones (with the routing thread not of one that is moved while it is *)
(* being deleted, and has told its former parent only).                      *)
There(p, z) == {c \in Live : objs[c].parent = p /\ objs[c].zone = z}

Rested == Quiet /\ \A d \in Live : ~objs[d].deleting

PlacesKnown ==
  Quiet => \A p \in Doid, z \in Zone : view[LocationChannel(p, z)] = There(p, z)

ChildrenListed ==
  Rested /\ TreesRest(scenario) =>
    \A p \in Live, z \in Zone : ObjectsIn(objs[p], z) = There(p, z)

LocationsAgree == PlacesKnown /\ ChildrenListed

(* ... and AIs and owners know exactly what is theirs, whichever AI an object *)
(* ends with when settings, answers and announcements cross, except that an  *)
(* AI is not told of what it generated itself.                               *)
RolesKnown ==
  Quiet /\ AIsStay(scenario) => \A r \in Role :
    /\ view[RoleChannel(r)] \subseteq Live
    /\ \A c \in Live : objs[c].generator # r =>
         (c \in view[RoleChannel(r)] <=> r \in {objs[c].ai, objs[c].owner})

(* ... and every object whose AI was not set has its parent's: no answer and *)
(* no announcement of the parent's AI is lost, none is overtaken by an older *)
(* one or taken from a former parent.  With the routing thread a parent that *)
(* gets its first child may miss telling it (DistributedObject.cpp:280), so  *)
(* that it is then asked of parents that have a child that stays.            *)
AIInherited ==
  /\ Rested
  /\ AIsStay(scenario) /\ ParentsFirst(scenario) /\ (Threaded => Peopled(scenario))
  => \A c \in Live : (~objs[c].explicit /\ objs[c].parent \in Live) =>
                      objs[c].ai = objs[objs[c].parent].ai

(* Whoever asks what is in some zones, and listens there, knows it when all  *)
(* is routed, though objects come, move and go while it is counted and       *)
(* answered (DistributedObject.cpp:841-847: who is in the count replies with *)
(* an interest entry, who is not with a location entry, so that the asker    *)
(* can "resolve the difference itself"): who was counted enters, or is heard *)
(* leaving.  Nobody enters who was not counted, but for one that has been in *)
(* that place before (:653 takes the acknowledgement of the former stay).    *)
(* When requests are settled one by one, exactly who was counted enters.     *)
QueriesAnswered ==
  ParentsFirst(scenario) => \A q \in DOMAIN queries :
    LET s == queries[q]
        before == {e \in Doid \X Zone : <<e[1], s.parent, e[2]>> \in former}
    IN  /\ Rested /\ TreesRest(scenario) =>
             /\ s.known = {e \in Doid \X s.zones : e[1] \in There(s.parent, e[2])}
             /\ s.counted \subseteq s.entered \cup s.left
        /\ s.entered \subseteq s.counted \cup before
        /\ ~Threaded /\ Quiet => s.entered = s.counted

(* Nobody is left behind, also when a subtree is deleted from two ends: when *)
(* all is routed and no deletion waits, the parents of all that is there are *)
(* there; without the routing thread, a child that is still there when its   *)
(* parent goes has at least begun to go; and when only one deletion is under *)
(* way, the children go first (DistributedObject.cpp:520: "All children are  *)
(* deleted. We can delete ourselves now.").                                  *)
SubtreesGo ==
  /\ Rested /\ TreesRest(scenario) /\ ParentsFirst(scenario) =>
       \A c \in Live : objs[c].parent \in Live \cup {NoDoid}
  /\ \A e \in early : Threaded \/ (e[2] /\ ~OneEnd(scenario))

(* An object that has begun to delete its subtree finishes, unless a         *)
(* deletion has begun anew with another count of children: begin_delete      *)
(* counts again but keeps m_deleted.  With the routing thread, a child may   *)
(* also be moved away that is waited for.                                    *)
DeletionFinishes ==
  TreesRest(scenario) =>
    \A d \in Doid : []<>(d \notin Live \/ ~objs[d].deleting \/ recounted # {})

(* Nobody is told that an object was deleted as usual when it was deleted    *)
(* for its AI (Client.cpp:572: "If the AI server we're on has crashed, then  *)
(* we need to fall over and die").                                           *)
AIDeletionTold ==
  \A k \in 1..Len(net) :
    (net[k].kind = "delete_ram" /\ net[k].doid \in reaped /\ net[k].to \cap Listeners # {})
      => net[k].ai_deletion
=============================================================================
