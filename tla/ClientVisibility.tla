-------------------------- MODULE ClientVisibility --------------------------
(***************************************************************************)
(* A client (src/src/clientagent) between a game and a cluster: the game   *)
(* and daemons open and close interests, while the objects they look at    *)
(* come, change, move and go.  The client agent and the state server are   *)
(* two daemons: subscriptions and queries travel to the state server's     *)
(* director in order, datagrams come back in order, and what is addressed  *)
(* to a channel is dropped at either end when nobody there subscribes.     *)
(***************************************************************************)
EXTENDS Client

CONSTANT
  Scenarios   \* what a behaviour starts with and may meet

ASSUME ClientVisibilityAssumption ==
  \A s \in Scenarios :
    /\ s.objects \in [DOMAIN s.objects -> Location] /\ DOMAIN s.objects \subseteq Doid
    /\ s.owned \subseteq DOMAIN s.objects /\ s.session \subseteq s.owned
    /\ s.ids \subseteq InterestId
    /\ s.interests \subseteq [parent : Parent, zones : SUBSET Zone \ {{}}]
    /\ s.places \subseteq Location
    /\ s.threaded \in BOOLEAN /\ s.hasty \in BOOLEAN /\ s.max \in Nat /\ s.changes \in Nat

VARIABLES
  scenario,  \* never changes
  client,
  game,      \* what the game was told
  up,        \* FIFO to the state server's director
  heard,     \* what the client agent is subscribed to there
  down,      \* FIFO from it
  objs,      \* the objects: doid -> [location, value, owner]
  asked,     \* queries whose children have still to answer
  posted,    \* timers the main thread has still to make
  requests, changes   \* so far

vars == <<scenario, client, game, up, heard, down, objs, asked, posted, requests, changes>>
world == <<heard, objs, asked>>

\* Interests are not closed or altered while their operations are open.
Orderly == ~scenario.hasty \/ {"alter", "remove", "daemon removes"} \cap scenario.requests = {}
Threaded == scenario.threaded  \* both directors route on threads of their own
Caller == ClientChannel(9)     \* a daemon that opens interests for the client
NoOwner == NoCaller
Gone == client.terminated \/ game.ejected

FirstValue == CHOOSE v \in Value : TRUE
StartOwner(d) == IF d \in scenario.owned THEN ClientChannel(1) ELSE NoOwner

Init ==
  /\ scenario \in Scenarios
  /\ client = [NewClient(ClientChannel(1)) EXCEPT
       !.m_owned_objects = [d \in scenario.owned |-> scenario.objects[d]],
       !.m_session_objects = scenario.session]
  /\ game = [shown |-> Empty, met |-> {}, owns |-> scenario.owned, waiting |-> {},
             confused |-> FALSE, again |-> FALSE, ejected |-> FALSE]
  /\ up = <<>> /\ down = <<>>
  /\ heard = {ClientChannel(1)}
  /\ objs = [d \in DOMAIN scenario.objects |->
       [location |-> scenario.objects[d], value |-> FirstValue, owner |-> StartOwner(d)]]
  /\ asked = {} /\ posted = {}
  /\ requests = 0 /\ changes = 0

-----------------------------------------------------------------------------
(* The game.                                                               *)

\* It shows what it was told, and is confused by what makes no sense.
Hear(g, msg) ==
  CASE msg.kind = "enter" ->
         [g EXCEPT !.shown = With(@, msg.doid, [location |-> msg.location, value |-> msg.value]),
                   !.met = @ \cup {msg.doid},
                   !.confused = @ \/ msg.doid \in DOMAIN g.shown]
    [] msg.kind = "disable" ->
         [g EXCEPT !.shown = Without(@, {msg.doid}),
                   !.confused = @ \/ msg.doid \notin DOMAIN g.shown]
    [] msg.kind = "enter_owner" -> [g EXCEPT !.owns = @ \cup {msg.doid}]
    [] msg.kind = "disable_owner" ->
         [g EXCEPT !.owns = @ \ {msg.doid}, !.confused = @ \/ msg.doid \notin g.owns]
    [] msg.kind \in {"set_field", "location"} ->
         [g EXCEPT !.shown = IF msg.doid \notin DOMAIN @ THEN @
                             ELSE IF msg.kind = "location"
                                  THEN [@ EXCEPT ![msg.doid].location = msg.location]
                                  ELSE [@ EXCEPT ![msg.doid].value = msg.value],
                   !.confused = @ \/ msg.doid \notin DOMAIN g.shown \cup g.owns]
    [] msg.kind = "done" ->
         [g EXCEPT !.waiting = @ \ {msg.context},
                   !.again = @ \/ (msg.context < 0 /\ msg.context \notin g.waiting)]
    [] msg.kind = "eject" -> [g EXCEPT !.ejected = TRUE]
    [] OTHER -> g

\* The client has handled something: the game hears of it, the cluster gets
\* what was sent.
Handled(after) == \E c \in {after} :
  /\ client' = [c EXCEPT !.told = <<>>, !.sent = <<>>]
  /\ game' = InTurn(Hear, game, c.told)
  /\ up' = up \o c.sent
  /\ posted' = IF Threaded
               THEN posted \cup (DOMAIN c.m_pending_interests \ DOMAIN client.m_pending_interests)
               ELSE {}

\* The main thread makes and fires timers and reads what the game sends; a
\* timer that waits for the client's lock keeps it from everything else.
MainIsFree == client.timing_out = 0
Reads == MainIsFree /\ client.m_accept_messages

\* Who is not hasty waits until no operation is open or about to be.
Settled == DOMAIN client.m_pending_interests = {}
Crossing == {"add_interest", "remove_interest", "set_client_id"}

MayAsk(kind) ==
  /\ kind \in scenario.requests
  /\ requests < scenario.max
  /\ requests' = requests + 1
  /\ \/ scenario.hasty
     \/ Settled /\ \A k \in 1..Len(down) : down[k].kind \notin Crossing
  /\ ~client.terminated

\* generate_timeouts makes all timers that were asked for, whether the
\* operation is still there or not.
MakeTimers(c) ==
  [c EXCEPT !.m_pending_interests =
              [k \in DOMAIN @ |-> IF k \in posted THEN [@[k] EXCEPT !.timer = "armed"] ELSE @[k]],
            !.dangling = @ \/ ~(posted \subseteq DOMAIN c.m_pending_interests)]

\* Requests of the game come in on the main thread (OTPClient.cpp).  Their
\* contexts are the game's; negative ones keep them apart from the client's.
GameAddsInterest(id, i) ==
  /\ MayAsk("add") /\ Reads
  /\ id \in DOMAIN client.m_interests => "alter" \in scenario.requests
  /\ LET context == -requests - 1
         added == AddInterest(client, id, i, context, client.m_channel, "armed")
         opens == added.m_next_context # client.m_next_context
     IN  \E c \in {IF opens THEN MakeTimers(added) ELSE added} :
           /\ client' = [c EXCEPT !.told = <<>>, !.sent = <<>>]
           /\ game' = InTurn(Hear, [game EXCEPT !.waiting = @ \cup {context}], c.told)
           /\ up' = up \o c.sent
           /\ posted' = IF opens THEN {} ELSE posted
  /\ UNCHANGED <<scenario, world, down, changes>>

GameRemovesInterest(id) ==
  /\ MayAsk("remove") /\ Reads
  /\ Handled(IF id \in DOMAIN client.m_interests
             THEN RemoveInterest(client, id, client.m_interests[id], 0, NoCaller)
             ELSE Eject(client))
  /\ UNCHANGED <<scenario, world, down, changes>>

\* The connection is lost, or closed after an eject.
Disconnect ==
  /\ game.ejected \/ "disconnect" \in scenario.requests
  /\ ~client.terminated /\ MainIsFree
  /\ Handled(Annihilate(client))
  /\ UNCHANGED <<scenario, world, down, requests, changes>>

-----------------------------------------------------------------------------
(* The client's threads.                                                   *)

\* A datagram is routed to the client if it is subscribed to its target.
TakeDatagram ==
  /\ down # <<>>
  /\ down' = Tail(down)
  /\ IF Head(down).to \cap client.subscribed # {}
     THEN Handled(HandleDatagram(client, Head(down), IF Threaded THEN "none" ELSE "armed"))
     ELSE UNCHANGED <<client, game, up, posted>>
  /\ UNCHANGED <<scenario, world, requests, changes>>

\* The task that an operation of another thread asked the main thread for.
MakeTimer ==
  /\ posted # {} /\ MainIsFree
  /\ client' = MakeTimers(client)
  /\ posted' = {}
  /\ UNCHANGED <<scenario, game, up, down, world, requests, changes>>

\* The timer fires: with threads it may have to wait for the client's lock.
TimerFires(k) ==
  /\ "timeout" \in scenario.requests /\ MainIsFree
  /\ k \in DOMAIN client.m_pending_interests
  /\ client.m_pending_interests[k].timer = "armed"
  /\ IF Threaded
     THEN /\ client' = [client EXCEPT !.timing_out = k]
          /\ UNCHANGED <<game, up, posted>>
     ELSE Handled(Finish(client, k, TRUE))
  /\ UNCHANGED <<scenario, world, down, requests, changes>>

Timeout(k) ==
  /\ k \in DOMAIN client.m_pending_interests
  /\ Threaded /\ client.timing_out = k
  /\ Handled(Finish([client EXCEPT !.timing_out = 0], k, TRUE))
  /\ UNCHANGED <<scenario, world, down, requests, changes>>

-----------------------------------------------------------------------------
(* The state server, as StateServer shows it: one thing at a time, unless  *)
(* its director has a thread of its own.                                   *)

Routed(msg) == IF msg.to \cap heard # {} THEN <<msg>> ELSE <<>>
Emit(msg) == down' = down \o Routed(msg)
EmitBoth(msg, next) == down' = down \o Routed(msg) \o Routed(next)

Children(q) == {d \in DOMAIN objs : objs[d].location[1] = q.parent /\ objs[d].location[2] \in q.zones}

Query(msg) == [parent |-> msg.parent, zones |-> msg.zones, sender |-> msg.sender, context |-> msg.context,
               left |-> [d \in Children(msg) |-> objs[d].location]]

\* Its director takes what the client sent; a query is counted by the parent.
TakeRequest ==
  /\ up # <<>>
  /\ Threaded \/ asked = {}
  /\ up' = Tail(up)
  /\ LET msg == Head(up)
     IN  CASE msg.kind = "subscribe" ->
                heard' = heard \cup {msg.channel} /\ UNCHANGED <<objs, asked, down>>
           [] msg.kind = "unsubscribe" ->
                heard' = heard \ {msg.channel} /\ UNCHANGED <<objs, asked, down>>
           [] msg.kind = "query" ->
                /\ asked' = IF Children(msg) = {} THEN asked
                            ELSE asked \cup {Query(msg)}
                /\ Emit([kind |-> "zones_count", to |-> {msg.sender}, context |-> msg.context,
                         count |-> Cardinality(Children(msg))])
                /\ UNCHANGED <<heard, objs>>
           [] msg.kind = "delete" ->
                objs' = Without(objs, {msg.doid}) /\ UNCHANGED <<heard, asked, down>>
           [] OTHER -> UNCHANGED world /\ UNCHANGED down
  /\ UNCHANGED <<scenario, client, game, posted, requests, changes>>

\* (The context is an interest entry's.)
Entry(kind, d, to, context) ==
  [kind |-> kind, to |-> to, doid |-> d, location |-> objs[d].location, value |-> objs[d].value,
   context |-> context]

\* A counted child gets the query: it answers as one that was counted, or, if
\* it has moved, perhaps as one that has come since, or not at all.
Answer(q, d) ==
  /\ d \in DOMAIN q.left
  /\ asked' = (asked \ {q}) \cup
       (IF DOMAIN q.left = {d} THEN {} ELSE {[q EXCEPT !.left = Without(@, {d})]})
  /\ IF d \in Children(q)
     THEN \E kind \in {"enter_interest"} \cup
               (IF objs[d].location = q.left[d] THEN {} ELSE {"enter_location"}) :
            Emit(Entry(kind, d, {q.sender}, q.context))
     ELSE UNCHANGED down
  /\ UNCHANGED <<scenario, client, game, up, heard, objs, posted, requests, changes>>

Change(kind) ==
  /\ kind \in scenario.requests
  /\ changes < scenario.changes
  /\ changes' = changes + 1
  /\ Threaded \/ asked = {}
  /\ UNCHANGED <<scenario, client, game, up, heard, asked, posted, requests>>

Audience(d) == {LocationChannel(objs[d].location[1], objs[d].location[2]), objs[d].owner} \ {NoOwner}

Generate(d, loc) ==
  /\ Change("generate")
  /\ d \notin DOMAIN objs
  /\ objs' = With(objs, d, [location |-> loc, value |-> FirstValue, owner |-> NoOwner])
  /\ Emit([kind |-> "enter_location", to |-> {loc}, doid |-> d,
           location |-> loc, value |-> FirstValue, context |-> 0])

Move(d, loc) ==
  /\ Change("move")
  /\ loc # objs[d].location
  /\ objs' = [objs EXCEPT ![d].location = loc]
  /\ EmitBoth([kind |-> "changing_location", to |-> Audience(d), doid |-> d, location |-> loc],
              [Entry("enter_location", d, {loc}, 0) EXCEPT !.location = loc])

Delete(d) ==
  /\ Change("delete")
  /\ objs' = Without(objs, {d})
  /\ \E ai_deletion \in IF "delete ai" \in scenario.requests THEN BOOLEAN ELSE {FALSE} :
       Emit([kind |-> "delete_ram", to |-> Audience(d), doid |-> d, ai_deletion |-> ai_deletion])

SetField(d, v) ==
  /\ Change("set field")
  /\ v # objs[d].value
  /\ objs' = [objs EXCEPT ![d].value = v]
  /\ Emit([kind |-> "set_field", to |-> Audience(d), doid |-> d, value |-> v])

SetOwner(d, owner) ==
  /\ Change("set owner")
  /\ owner # objs[d].owner
  /\ objs' = [objs EXCEPT ![d].owner = owner]
  /\ EmitBoth([kind |-> "changing_owner", to |-> {objs[d].owner} \ {NoOwner}, doid |-> d, owner |-> owner],
              Entry("enter_owner", d, {owner} \ {NoOwner}, 0))

\* Daemons send requests of their own to the client.
ToClient == {ClientChannel(1)}

Command(kind, msg) ==
  /\ MayAsk(kind)
  /\ Threaded \/ asked = {}
  /\ Emit(msg)
  /\ UNCHANGED <<scenario, client, game, up, world, posted, changes>>

-----------------------------------------------------------------------------
Play ==
  \/ \E id \in scenario.ids :
       \/ \E i \in scenario.interests : GameAddsInterest(id, i)
       \/ GameRemovesInterest(id)
  \/ Disconnect

Run ==
  \/ TakeDatagram \/ TakeRequest \/ MakeTimer
  \/ \E k \in DOMAIN client.m_pending_interests : TimerFires(k) \/ Timeout(k)
  \/ \E q \in asked : \E d \in DOMAIN q.left : Answer(q, d)

Evolve ==
  \/ \E d \in DOMAIN objs :
       \/ \E loc \in scenario.places : Move(d, loc)
       \/ Delete(d)
       \/ \E v \in Value : SetField(d, v)
       \/ \E owner \in {NoOwner, client.m_channel} : SetOwner(d, owner)
  \/ \E d \in Doid, loc \in scenario.places : Generate(d, loc)

Direct ==
  \/ \E id \in scenario.ids :
       \/ \E i \in scenario.interests :
            Command("daemon adds", [kind |-> "add_interest", to |-> ToClient, sender |-> Caller,
                                    id |-> id, interest |-> i])
       \/ Command("daemon removes", [kind |-> "remove_interest", to |-> ToClient, sender |-> Caller, id |-> id])
  \/ \E d \in scenario.owned, add \in BOOLEAN :
       Command("session", [kind |-> "session_object", to |-> ToClient, doid |-> d, add |-> add])
  \/ Command("set channel", [kind |-> "set_client_id", to |-> ToClient, channel |-> ClientChannel(2)])

Next == Play \/ Run \/ Evolve \/ Direct

Spec == Init /\ [][Next]_vars

\* Directors route, timers fire and the main thread runs its tasks.
FairSpec == Spec /\ WF_vars(Run)

-----------------------------------------------------------------------------
(* Types; m_seen_objects and m_visible_objects speak of the same objects, and *)
(* no operation is used after it has finished while none is closed early.    *)
Regular == Orderly /\ ~Threaded /\ (scenario.hasty => "daemon adds" \notin scenario.requests)

OperationsAreThere == Regular => ~client.dangling

TypeOK ==
  /\ client.m_seen_objects = DOMAIN client.m_visible_objects
  /\ client.m_seen_objects \subseteq Doid
  /\ \A d \in client.m_seen_objects : client.m_visible_objects[d] \in Location
  /\ DOMAIN client.m_interests \subseteq InterestId
  /\ \A k \in DOMAIN client.m_pending_interests : k < client.m_next_context
  /\ client.told = <<>> /\ client.sent = <<>>
  /\ OperationsAreThere

(* The client listens on the locations of its interests and no others: no    *)
(* order of opening, altering and closing overlapping interests leaves a     *)
(* zone unheard or listened to for ever.                                     *)
Looked == UNION {{LocationChannel(client.m_interests[i].parent, z) : z \in client.m_interests[i].zones} :
                   i \in DOMAIN client.m_interests}

SubscribedWhereInterested ==
  ~client.terminated => client.subscribed \cap Location = Looked

(* When everything has arrived, the game shows exactly the objects of its    *)
(* interests (README.md:24-25: a client "will continue to be informed of     *)
(* objects (and their updates) as long as the request remains active"),      *)
(* where they are and as they are; in a world at rest already when no        *)
(* operation is open (Client.h:251: handle_interest_done is called "when all *)
(* of the objects from an opened interest have been received").              *)
Quiet == up = <<>> /\ down = <<>> /\ asked = {}

Others == Doid \ scenario.owned   \* not the client's own, which may be session objects
InView == {d \in DOMAIN objs \cap Others : objs[d].location \in Looked}

SeesTheWorld ==
  /\ Settled /\ ~Gone /\ (Quiet \/ changes = 0)
  /\ Orderly /\ "timeout" \notin scenario.requests
  => Without(game.shown, scenario.owned) =
       [d \in InView |-> [location |-> objs[d].location, value |-> objs[d].value]]

(* What the client takes for seen is seen through an interest that is open   *)
(* (Client.h:112: "m_seen_objects is a list of all objects visible through   *)
(* interests"), but for session objects, which may wander.                   *)
SeenThroughInterests ==
  \A d \in client.m_seen_objects \cap Others :
    LET loc == client.m_visible_objects[d] IN LookupInterests(client, loc[1], loc[2]) # {}

(* The game is never told of an object it knows as if it were new, nor of    *)
(* one it does not know as if it did; and an object it was ever shown is     *)
(* known or remembered, so that an update of it that is late does not end    *)
(* the session (OTPClient.cpp:563: "The client isn't disconnected in this    *)
(* case because it could be a delayed message").                             *)
LateUpdatesForgiven ==
  ~Gone => \A d \in game.met : Known(client, d) \/ d \in client.m_historical_objects

NeverConfused == ~game.confused /\ LateUpdatesForgiven

(* Every interest the game opens is reported as done, or the client is gone, *)
(* and it is reported once: an answer that completes an operation whose      *)
(* timer has already fired leaves it to the timer (Client.cpp:945).          *)
ReportedOnce ==
  /\ ~game.again
  /\ client.timing_out # 0 => client.timing_out \in DOMAIN client.m_pending_interests

InterestsFinish == []ReportedOnce /\ []<>(game.waiting = {} \/ Gone)
=============================================================================
