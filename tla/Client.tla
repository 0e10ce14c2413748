------------------------------- MODULE Client -------------------------------
(***************************************************************************)
(* A client's handlers (src/src/clientagent/Client.cpp): one operator per  *)
(* handler, from the client before to the client after.  c.told and c.sent *)
(* collect what the handler tells the game and routes into the cluster.    *)
(***************************************************************************)
EXTENDS Integers, FiniteSets, Sequences, SequencesExt, Functions

CONSTANTS
  Doid,       \* objects
  Parent,     \* their parents' doids
  Zone,
  InterestId,
  Value       \* what a field of an object can hold

ASSUME ClientAssumption ==
  /\ Parent \subseteq Nat \ {0} /\ Zone \subseteq Nat
  /\ InterestId \subseteq Nat

\* Channels of locations and of clients.
LocationChannel(p, z) == <<p, z>>
ClientChannel(k) == <<0, k>>
Location == Parent \X Zone
NoCaller == ClientChannel(0)

NoTotal == -1
Empty == [x \in {} |-> 0]
Without(f, S) == [x \in DOMAIN f \ S |-> f[x]]
With(f, x, y) == [z \in DOMAIN f \cup {x} |-> IF z = x THEN y ELSE f[z]]

\* A client that has just connected.
NewClient(channel) ==
  [m_channel |-> channel, m_allocated_channel |-> channel,
   m_seen_objects |-> {}, m_visible_objects |-> Empty, m_owned_objects |-> Empty,
   m_session_objects |-> {}, m_historical_objects |-> {},
   m_pending_objects |-> Empty, m_interests |-> Empty, m_pending_interests |-> Empty,
   m_next_context |-> 1, m_accept_messages |-> TRUE,
   subscribed |-> {channel}, terminated |-> FALSE,
   timing_out |-> 0,       \* the operation whose timer has fired and waits for the lock
   dangling |-> FALSE,     \* an operation was used that is not there
   told |-> <<>>, sent |-> <<>>]

Tell(c, msg) == [c EXCEPT !.told = Append(@, msg)]
TellAll(c, msgs) == [c EXCEPT !.told = @ \o msgs]
Send(c, msgs) == [c EXCEPT !.sent = @ \o msgs]
ForEach(S, msg(_)) == LET s == SetToSeq(S) IN [k \in 1..Len(s) |-> msg(s[k])]

SubscribeChannels(c, S) ==
  Send([c EXCEPT !.subscribed = @ \cup S],
       ForEach(S, LAMBDA ch : [kind |-> "subscribe", channel |-> ch]))
UnsubscribeChannels(c, S) ==
  Send([c EXCEPT !.subscribed = @ \ S],
       ForEach(S, LAMBDA ch : [kind |-> "unsubscribe", channel |-> ch]))

\* The handlings of messages, one after another.  (The set makes TLC evaluate
\* each result once.)
InTurn(handle(_, _), c, msgs) ==
  LET after[n \in 0..Len(msgs)] ==
        IF n = 0 THEN c
        ELSE CHOOSE y \in {handle(x, msgs[n]) : x \in {after[n - 1]}} : TRUE
  IN  after[Len(msgs)]

\* send_disconnect: the connection is closed; annihilate follows.
Eject(c) == Tell(c, [kind |-> "eject"])

\* lookup_object; UberDOGs and declared objects are left out.
Known(c, d) ==
  \/ d \in DOMAIN c.m_owned_objects
  \/ d \in c.m_seen_objects /\ d \in DOMAIN c.m_visible_objects

-----------------------------------------------------------------------------
(* Interests.                                                              *)

LookupInterests(c, p, z) ==
  {i \in DOMAIN c.m_interests : c.m_interests[i].parent = p /\ z \in c.m_interests[i].zones}

CloseZones(c, p, killed) ==
  LET V == c.m_visible_objects
      gone == {d \in DOMAIN V : V[d][1] = p /\ V[d][2] \in killed}
  IN  UnsubscribeChannels(
        TellAll([c EXCEPT !.m_seen_objects = @ \ gone,
                          !.m_historical_objects = @ \cup gone,
                          !.m_visible_objects = Without(@, gone)],
                ForEach(gone, LAMBDA d : [kind |-> "disable", doid |-> d])),
        {LocationChannel(p, z) : z \in killed})

\* handle_interest_done for the client itself, notify_interest_done for others.
Done(id, context) == [kind |-> "done", id |-> id, context |-> context]
Notify(c, id, caller) ==
  IF caller = NoCaller THEN c ELSE Send(c, <<[kind |-> "done_interest", id |-> id, channel |-> caller]>>)
InterestDone(c, id, context, caller) ==
  IF caller = c.m_channel THEN Tell(c, Done(id, context)) ELSE Notify(c, id, caller)

\* The zones of an interest that is altered that nobody looks at any more.
KilledByAltering_NotShared(c, id, new) ==
  IF id \notin DOMAIN c.m_interests THEN {}
  ELSE LET old == c.m_interests[id]
       IN  {z \in old.zones : new.parent # old.parent \/ z \notin new.zones}

KilledByAltering(c, id, new) ==
  IF id \notin DOMAIN c.m_interests THEN {}
  ELSE LET old == c.m_interests[id]
       IN  {z \in old.zones : /\ Cardinality(LookupInterests(c, old.parent, z)) <= 1
                              /\ new.parent # old.parent \/ z \notin new.zones}

Operation(id, context, i, zones, caller, timer) ==
  [id |-> id, context |-> context, parent |-> i.parent, zones |-> zones, caller |-> caller,
   total |-> NoTotal, generates |-> <<>>, queued |-> <<>>, timer |-> timer]

\* add_interest.  The timer is made by the main thread, later if this is not it.
AddInterest(c, id, i, context, caller, timer) ==
  LET zones == {z \in i.zones : LookupInterests(c, i.parent, z) = {}}
      closed == IF id \in DOMAIN c.m_interests
                THEN CloseZones(c, c.m_interests[id].parent, KilledByAltering(c, id, i))
                ELSE c
      noted == [closed EXCEPT !.m_interests = With(@, id, i)]
      request == noted.m_next_context
      opened == [noted EXCEPT
        !.m_next_context = @ + 1,
        !.m_pending_interests = With(@, request, Operation(id, context, i, zones, caller, timer))]
  IN  IF zones = {} THEN InterestDone(noted, id, context, caller)
      ELSE Send(SubscribeChannels(opened, {LocationChannel(i.parent, z) : z \in zones}),
                <<[kind |-> "query", context |-> request, sender |-> c.m_channel,
                   parent |-> i.parent, zones |-> zones]>>)

\* remove_interest; id is the interest's own.
RemoveInterest(c, id, i, context, caller) ==
  LET killed == {z \in i.zones : Cardinality(LookupInterests(c, i.parent, z)) = 1}
      done == Tell(Notify(CloseZones(c, i.parent, killed), id, caller), Done(id, context))
  IN  [done EXCEPT !.m_interests = Without(@, {id})]

-----------------------------------------------------------------------------
(* Datagrams about objects, which an operation can hold back.              *)

\* try_queue_pending, when d is pending.
QueuePending(c, d, msg) ==
  LET context == c.m_pending_objects[d]
  IN  IF context \in DOMAIN c.m_pending_interests
      THEN [c EXCEPT !.m_pending_interests[context].queued = Append(@, msg)]
      ELSE [c EXCEPT !.dangling = TRUE]

EmplacePending(c, d, context) ==
  IF d \in DOMAIN c.m_pending_objects THEN c
  ELSE [c EXCEPT !.m_pending_objects = With(@, d, context)]

HandleObjectEntrance_SeenAgain(c, msg) ==
  LET d == msg.doid
      found == [c EXCEPT !.m_pending_objects = Without(@, {d})]
  IN  IF d \in c.m_session_objects THEN found
      ELSE Tell([found EXCEPT
                   !.m_visible_objects = IF d \in DOMAIN @ THEN @ ELSE With(@, d, msg.location),
                   !.m_seen_objects = @ \cup {d}],
                [kind |-> "enter", doid |-> d, location |-> msg.location, value |-> msg.value])

HandleObjectEntrance_StillPending(c, msg) ==
  LET d == msg.doid
  IN  IF d \in c.m_seen_objects \cup c.m_session_objects THEN c
      ELSE Tell([c EXCEPT
                   !.m_visible_objects = IF d \in DOMAIN @ THEN @ ELSE With(@, d, msg.location),
                   !.m_seen_objects = @ \cup {d}],
                [kind |-> "enter", doid |-> d, location |-> msg.location, value |-> msg.value])

HandleObjectEntrance(c, msg) ==
  LET d == msg.doid
      found == [c EXCEPT !.m_pending_objects = Without(@, {d})]
  IN  IF d \in c.m_seen_objects \cup c.m_session_objects THEN found
      ELSE Tell([found EXCEPT
                   !.m_visible_objects = IF d \in DOMAIN @ THEN @ ELSE With(@, d, msg.location),
                   !.m_seen_objects = @ \cup {d}],
                [kind |-> "enter", doid |-> d, location |-> msg.location, value |-> msg.value])

HandleSetField(c, msg) ==
  IF Known(c, msg.doid)
  THEN Tell(c, [kind |-> "set_field", doid |-> msg.doid, value |-> msg.value])
  ELSE IF msg.doid \in DOMAIN c.m_pending_objects THEN QueuePending(c, msg.doid, msg)
  ELSE c

HandleDeleteRam(c, msg) ==
  LET d == msg.doid
      owned == d \in DOMAIN c.m_owned_objects
      told == (IF d \in c.m_seen_objects THEN <<[kind |-> "disable", doid |-> d]>> ELSE <<>>)
                \o (IF owned THEN <<[kind |-> "disable_owner", doid |-> d]>> ELSE <<>>)
  IN  IF msg.ai_deletion THEN Eject([c EXCEPT !.m_accept_messages = FALSE])
      ELSE IF ~Known(c, d)
      THEN IF d \in DOMAIN c.m_pending_objects THEN QueuePending(c, d, msg) ELSE c
      ELSE IF d \in c.m_session_objects THEN Eject([c EXCEPT !.m_session_objects = @ \ {d}])
      ELSE TellAll([c EXCEPT !.m_seen_objects = @ \ {d},
                             !.m_owned_objects = Without(@, {d}),
                             !.m_historical_objects = @ \cup {d},
                             !.m_visible_objects = Without(@, {d})],
                   told)

\* The operation that looks at a location.  Of several, the one that
\* m_pending_interests iterates to first: libstdc++ puts new nodes in front.
OperationAt(c, loc) ==
  LET at == {k \in DOMAIN c.m_pending_interests :
               /\ c.m_pending_interests[k].parent = loc[1]
               /\ loc[2] \in c.m_pending_interests[k].zones}
  IN  IF at = {} THEN 0 ELSE CHOOSE k \in at : \A m \in at : m <= k

HandleEnterLocation(c, msg) ==
  LET context == OperationAt(c, msg.location)
  IN  IF context = 0 THEN HandleObjectEntrance(c, msg)
      ELSE [EmplacePending(c, msg.doid, context) EXCEPT
              !.m_pending_interests[context].queued = Append(@, msg)]

\* An object that leaves what the client looks at is disabled, unless it is a
\* session object, which must be owned.
Covered(c, loc) == LookupInterests(c, loc[1], loc[2]) # {}

HandleChangingLocation(c, msg) ==
  LET d == msg.doid
      loc == msg.location
      visible == d \in DOMAIN c.m_visible_objects
      owned == d \in DOMAIN c.m_owned_objects
      moved == [c EXCEPT
        !.m_visible_objects = IF visible THEN [@ EXCEPT ![d] = loc] ELSE @,
        !.m_owned_objects = IF owned THEN [@ EXCEPT ![d] = loc] ELSE @]
      told == [kind |-> "location", doid |-> d, location |-> loc]
  IN  IF d \in DOMAIN c.m_pending_objects THEN QueuePending(c, d, msg)
      ELSE IF ~visible /\ ~owned THEN c
      ELSE IF ~visible \/ Covered(c, loc) THEN Tell(moved, told)
      ELSE IF d \in c.m_session_objects THEN IF owned THEN Tell(moved, told) ELSE Eject(moved)
      ELSE Tell([moved EXCEPT !.m_seen_objects = @ \ {d},
                              !.m_historical_objects = @ \cup {d},
                              !.m_visible_objects = Without(@, {d})],
                [kind |-> "disable", doid |-> d])

\* handle_datagram, for what an operation may have held back.
Listens(c) == ~c.terminated /\ c.m_accept_messages

HandleObjectDatagram(c, msg) ==
  IF ~Listens(c) THEN c
  ELSE CASE msg.kind = "set_field" -> HandleSetField(c, msg)
         [] msg.kind = "delete_ram" -> HandleDeleteRam(c, msg)
         [] msg.kind = "enter_location" -> HandleEnterLocation(c, msg)
         [] msg.kind = "changing_location" -> HandleChangingLocation(c, msg)

-----------------------------------------------------------------------------
(* Interest operations.                                                    *)

\* finish: the generates first (in any order: they are of different objects),
\* then the client is told, then what was held back.  When the timer's callback
\* has begun already, it will do this.
Finish_QueueFirst(c, context, is_timeout) ==
  LET op == c.m_pending_interests[context]
      entered == InTurn(HandleObjectEntrance, c, op.generates)
      done == InterestDone(entered, op.id, op.context, op.caller)
      replayed == InTurn(HandleObjectDatagram, done, op.queued)
  IN  IF ~is_timeout /\ c.timing_out = context THEN c
      ELSE [replayed EXCEPT !.m_pending_interests = Without(@, {context})]

Finish(c, context, is_timeout) ==
  LET op == c.m_pending_interests[context]
      entered == InTurn(HandleObjectEntrance, c, op.generates)
      done == InterestDone(entered, op.id, op.context, op.caller)
      closed == [done EXCEPT !.m_pending_interests = Without(@, {context})]
  IN  IF ~is_timeout /\ c.timing_out = context THEN c
      ELSE InTurn(HandleObjectDatagram, closed, op.queued)

IsReady_OffByOne(op) == op.total # NoTotal /\ Len(op.generates) > op.total

IsReady(op) == op.total # NoTotal /\ Len(op.generates) >= op.total

FinishIfReady(c, context) ==
  IF IsReady(c.m_pending_interests[context]) THEN Finish(c, context, FALSE) ELSE c

HandleEnterInterest(c, msg) ==
  IF msg.context \notin DOMAIN c.m_pending_interests THEN c
  ELSE FinishIfReady([EmplacePending(c, msg.doid, msg.context) EXCEPT
                        !.m_pending_interests[msg.context].generates = Append(@, msg)],
                     msg.context)

HandleZonesCount(c, msg) ==
  IF msg.context \notin DOMAIN c.m_pending_interests THEN c
  ELSE FinishIfReady([c EXCEPT !.m_pending_interests[msg.context].total =
                                 IF @ = NoTotal THEN msg.count ELSE @],
                     msg.context)

-----------------------------------------------------------------------------
(* Ownership, session objects and the channel.                             *)

HandleEnterOwner(c, msg) ==
  Tell([c EXCEPT !.m_owned_objects =
          IF msg.doid \in DOMAIN @ THEN @ ELSE With(@, msg.doid, msg.location)],
       [kind |-> "enter_owner", doid |-> msg.doid])

HandleChangingOwner(c, msg) ==
  IF msg.owner = c.m_channel \/ msg.doid \notin DOMAIN c.m_owned_objects THEN c
  ELSE IF msg.doid \in c.m_session_objects THEN Eject(c)
  ELSE Tell([c EXCEPT !.m_owned_objects = Without(@, {msg.doid})],
            [kind |-> "disable_owner", doid |-> msg.doid])

HandleSessionObject(c, msg) ==
  [c EXCEPT !.m_session_objects = IF msg.add THEN @ \cup {msg.doid} ELSE @ \ {msg.doid}]

HandleSetClientId(c, msg) ==
  LET left == IF c.m_channel # c.m_allocated_channel
              THEN UnsubscribeChannels(c, {c.m_channel}) ELSE c
  IN  [SubscribeChannels(left, {msg.channel}) EXCEPT !.m_channel = msg.channel]

\* CLIENTAGENT_ADD_INTEREST and CLIENTAGENT_REMOVE_INTEREST; m_interests[id]
\* makes an interest that is not there, whose id is 0.
HandleAddInterest(c, msg, timer) ==
  AddInterest(Tell([c EXCEPT !.m_next_context = @ + 1],
                   [kind |-> "add_interest", id |-> msg.id, context |-> c.m_next_context]),
              msg.id, msg.interest, c.m_next_context, msg.sender, timer)

HandleRemoveInterest(c, msg) ==
  LET there == msg.id \in DOMAIN c.m_interests
      i == IF there THEN c.m_interests[msg.id] ELSE [parent |-> 0, zones |-> {}]
      made == Tell([c EXCEPT !.m_next_context = @ + 1, !.m_interests = With(@, msg.id, i)],
                   [kind |-> "remove_interest", id |-> msg.id])
  IN  RemoveInterest(made, IF there THEN msg.id ELSE 0, i, c.m_next_context, msg.sender)

\* annihilate, when the connection is gone.  (m_pending_interests iterates
\* from the last context to the first.)
FinishOpen(c, context) ==
  IF context \in DOMAIN c.m_pending_interests THEN Finish(c, context, FALSE) ELSE c

Annihilate(c) ==
  LET quit == UnsubscribeChannels(c, c.subscribed)
      left == Send([quit EXCEPT !.m_owned_objects = Empty],
                   ForEach(DOMAIN c.m_owned_objects, LAMBDA d : [kind |-> "delete", doid |-> d]))
      contexts == [n \in 1..(c.m_next_context - 1) |-> c.m_next_context - n]
  IN  IF c.terminated THEN c ELSE [InTurn(FinishOpen, left, contexts) EXCEPT !.terminated = TRUE]

HandleDatagram(c, msg, timer) ==
  IF ~Listens(c) THEN c
  ELSE CASE msg.kind = "enter_interest" -> HandleEnterInterest(c, msg)
         [] msg.kind = "zones_count" -> HandleZonesCount(c, msg)
         [] msg.kind = "enter_owner" -> HandleEnterOwner(c, msg)
         [] msg.kind = "changing_owner" -> HandleChangingOwner(c, msg)
         [] msg.kind = "session_object" -> HandleSessionObject(c, msg)
         [] msg.kind = "set_client_id" -> HandleSetClientId(c, msg)
         [] msg.kind = "add_interest" -> HandleAddInterest(c, msg, timer)
         [] msg.kind = "remove_interest" -> HandleRemoveInterest(c, msg)
         [] OTHER -> HandleObjectDatagram(c, msg)
=============================================================================
