---------------------------- MODULE DBStateServer ----------------------------
(***************************************************************************)
(* The database state server (src/src/stateserver/DBStateServer.cpp) and   *)
(* its LoadingObjects, between whoever sends datagrams to stored objects   *)
(* and a database server.  The server subscribes to the channels of all    *)
(* its objects; a loader, and later the loaded object, subscribes to the   *)
(* channel of its own, so each of their datagrams is handled twice.        *)
(*                                                                         *)
(* The state of the server is a record, and a handler an operator from the *)
(* record before to the record after, with what it routes to the database  *)
(* in "routed" and what it answers in "told".  Objects have no children    *)
(* here and nobody else listens to them (DistributedObject.tla has that).  *)
(***************************************************************************)
EXTENDS ObjectAnswers, Naturals, Sequences, FiniteSets, SequencesExt

CONSTANTS
  Doid,       \* the objects of the server's ranges
  Value,      \* values of fields
  Blank,      \* an absent field of a stored object
  Scenarios   \* what is stored, what may be sent and how much of it

ASSUME DBStateServerAssumption ==
  /\ DbField \subseteq Field
  /\ Default \in [Field -> Value]
  /\ Missing \notin [Field -> Value]
  /\ \A s \in Scenarios :
       /\ s.max \in Nat /\ s.stored \subseteq Doid
       /\ \A op \in s.requests :
            /\ op.doid \in Doid /\ op.asked \subseteq Field
            /\ op.fields \in UNION {[S -> Value] : S \in SUBSET Field}

\* The operations of the database server.
DB == INSTANCE DBOperation WITH
        Doid <- Doid, Field <- DbField, Class <- DbField,
        Value <- Value, Blank <- Blank, Missing <- Missing

VARIABLES
  scenario,  \* bound of the model: the scenario played
  request,   \* the datagrams sent to the objects so far
  dbss,      \* the server
  db,        \* operations the database has received and not run, in order
  back,      \* its answers on their way, in order
  stored,    \* its objects
  told       \* history: the answers each request was given

vars == <<scenario, request, dbss, db, back, stored, told>>

Nothing == [x \in {} |-> x]

NewServer ==
  [m_objs |-> [d \in Doid |-> Missing], m_loading |-> Nothing,
   m_next_context |-> 0, m_context_datagrams |-> Nothing, m_inactive_loads |-> Nothing,
   routed |-> <<>>, told |-> <<>>]

With(m, x, v) == [y \in DOMAIN m \cup {x} |-> IF y = x THEN v ELSE m[y]]
Without(m, x) == [y \in DOMAIN m \ {x} |-> m[y]]

IsLoading(s, d) == d \in DOMAIN s.m_loading
IsActive(s, d) == s.m_objs[d] # Missing
IsActivatedObject(s, d) == IsActive(s, d) \/ IsLoading(s, d)

-----------------------------------------------------------------------------
(* What the server routes.  An operation of the database server carries    *)
(* the context by which its answer will be recognised.                     *)

Operation(type, d, gets, sets) ==
  [type |-> type, doid |-> d, get_fields |-> gets, set_fields |-> sets,
   criteria_fields |-> Nothing]

Route(s, context, op) ==
  [s EXCEPT !.routed = Append(@, [context |-> context, op |-> op])]

NoContext == 0 - 1

Tell(s, m, answer) == [s EXCEPT !.told = Append(@, <<m.id, answer>>)]

\* A question that the database is asked on behalf of datagram m.
Query(s, m, op) ==
  LET c == s.m_next_context
  IN  [Route(s, c, op) EXCEPT !.m_next_context = c + 1,
                              !.m_context_datagrams = With(@, c, m)]

-----------------------------------------------------------------------------
(* DBStateServer::handle_datagram.                                         *)

Activatable_WhenNotActive(s, d) == ~IsActive(s, d)

Activatable(s, d) == ~IsActivatedObject(s, d)

\* LoadingObject::begin asks unless an answer is already under way.
Begin(s, d) ==
  LET loader == s.m_loading[d]
  IN  IF loader.valid = {}
      THEN Route(s, loader.context, Operation("GET_OBJECT", d, {}, Nothing))
      ELSE s

HandleActivate(s, op) ==
  LET d == op.doid
      loader == [context |-> s.m_next_context,
                 valid |-> IF d \in DOMAIN s.m_inactive_loads THEN s.m_inactive_loads[d] ELSE {},
                 updates |-> op.fields, queue |-> <<>>]
  IN  IF ~Activatable(s, d) THEN s
      ELSE Begin([s EXCEPT !.m_next_context = @ + 1,
                           !.m_loading = With(@, d, loader)], d)

HandleGetActivated(s, m) ==
  IF IsLoading(s, m.op.doid) THEN s
  ELSE Tell(s, m, Activated(IsActive(s, m.op.doid)))

HandleDeleteDisk(s, op) ==
  IF IsLoading(s, op.doid) THEN s
  ELSE Route(s, NoContext, Operation("DELETE_OBJECT", op.doid, {}, Nothing))

HandleSetFields(s, op) ==
  LET db_fields == [f \in DOMAIN op.fields \cap DbField |-> op.fields[f]]
  IN  IF IsLoading(s, op.doid) \/ DOMAIN db_fields = {} THEN s
      ELSE Route(s, NoContext, Operation("SET_FIELDS", op.doid, {}, db_fields))

HandleGetFields_OfLoading(s, m) ==
  LET op == m.op IN
  IF IsActive(s, op.doid) THEN s
  ELSE IF op.asked \cap DbField = {} THEN Tell(s, m, Fields(Default, op.asked))
  ELSE Query(s, m, Operation("GET_FIELDS", op.doid, op.asked \cap DbField, Nothing))

HandleGetFields(s, m) ==
  LET op == m.op IN
  IF IsActivatedObject(s, op.doid) THEN s
  ELSE IF op.asked \cap DbField = {} THEN Tell(s, m, Fields(Default, op.asked))
  ELSE Query(s, m, Operation("GET_FIELDS", op.doid, op.asked \cap DbField, Nothing))

HandleGetAll(s, m) ==
  LET d == m.op.doid
      open == IF d \in DOMAIN s.m_inactive_loads THEN s.m_inactive_loads[d] ELSE {}
  IN  IF IsActivatedObject(s, d) THEN s
      ELSE [Query(s, m, Operation("GET_OBJECT", d, {}, Nothing)) EXCEPT
              !.m_inactive_loads = With(@, d, open \cup {s.m_next_context})]

HandleDatagram(s, m) ==
  LET op == m.op
  IN  CASE op.kind = "activate"                     -> HandleActivate(s, op)
        [] op.kind = "get_activated"                -> HandleGetActivated(s, m)
        [] op.kind = "delete_disk"                  -> HandleDeleteDisk(s, op)
        [] op.kind = "set"                          -> HandleSetFields(s, op)
        [] op.kind \in {"get_field", "get_fields"}  -> HandleGetFields(s, m)
        [] op.kind = "get_all"                      -> HandleGetAll(s, m)
        [] OTHER                                    -> s

\* get_all_resp: the context no longer stands for an open read.
Forget_Context(s, d, context) == s

Forget(s, d, context) ==
  LET open == s.m_inactive_loads[d]
  IN  IF Cardinality(open) > 1
      THEN [s EXCEPT !.m_inactive_loads[d] = open \ {context}]
      ELSE [s EXCEPT !.m_inactive_loads = Without(@, d)]

\* handle_get_field_resp, handle_get_fields_resp and handle_get_all_resp.
HandleResponse(s, r) ==
  LET m == s.m_context_datagrams[r.context]
      op == m.op
      t == [s EXCEPT !.m_context_datagrams = Without(@, r.context)]
      found == r.outcome # DB!Failure
      answer(S) == [f \in S |-> IF f \in DbField THEN r.outcome.fields[f] ELSE Default[f]]
  IN  IF r.context \notin DOMAIN s.m_context_datagrams THEN s
      ELSE IF op.kind = "get_field" THEN
        Tell(t, m, IF found THEN Fields(answer(op.asked), op.asked) ELSE Failure)
      ELSE IF op.kind = "get_fields" THEN
        LET S == IF found THEN op.asked ELSE op.asked \ DbField
        IN  Tell(t, m, Fields(answer(S), S))
      ELSE
        LET u == Forget(t, op.doid, r.context)
        IN  IF found THEN Tell(u, m, Fields(answer(Field), Field)) ELSE u

-----------------------------------------------------------------------------
(* The loaded object and the loader.                                       *)

\* DistributedObject::handle_datagram, for the messages that matter here.
ObjectHandle(s, m) ==
  LET op == m.op
      x == s.m_objs[op.doid]
  IN  IF x = Missing THEN s
      ELSE CASE op.kind = "set" -> [s EXCEPT !.m_objs[op.doid] = Updated(x, op.fields)]
             [] op.kind = "delete_ram" -> [s EXCEPT !.m_objs[op.doid] = Missing]
             [] op.kind \in {"get_field", "get_fields", "get_all"} ->
                  Tell(s, m, RamAnswer(op, x))
             [] OTHER -> s

\* The handlings of queued datagrams, one after another.  (The set makes
\* TLC evaluate each record once.)
InTurn(handle(_, _), s, queue) ==
  LET after[n \in 0..Len(queue)] ==
        IF n = 0 THEN s
        ELSE CHOOSE y \in {handle(x, queue[n]) : x \in {after[n - 1]}} : TRUE
  IN  after[Len(queue)]

\* replay_datagrams stops when the object is gone, as ObjectHandle does.
Replay(s, queue) == InTurn(ObjectHandle, s, queue)

ForwardDatagrams(s, queue) == InTurn(HandleDatagram, s, queue)

\* finalize: the loader is discarded, then what it queued is forwarded.
Finalize(s, d) ==
  ForwardDatagrams([s EXCEPT !.m_loading = Without(@, d)], s.m_loading[d].queue)

\* An object from the database, with the fields of the ACTIVATE.
Load(loader, x) ==
  [f \in Field |-> IF f \in DOMAIN loader.updates THEN loader.updates[f]
                   ELSE IF f \in DbField THEN x[f] ELSE Default[f]]

\* The contexts whose answer a loader takes for its own.
ValidContexts_OwnOnly(loader) == {loader.context}

ValidContexts(loader) == {loader.context} \cup loader.valid

\* DBSERVER_OBJECT_GET_ALL_RESP in LoadingObject::handle_datagram.
LoaderReceive(s, r) ==
  LET d == r.doid
      loader == s.m_loading[d]
  IN  IF ~IsLoading(s, d) \/ r.type # "GET_OBJECT" THEN s
      ELSE IF r.context \notin ValidContexts(loader) THEN s
      ELSE IF r.outcome = DB!Failure THEN Finalize(s, d)
      ELSE Finalize(Replay([s EXCEPT !.m_objs[d] = Load(loader, r.outcome.fields)], loader.queue), d)

\* Everything else is queued, activates excepted.
LoaderQueue(s, m) ==
  IF m.op.kind = "activate" THEN s
  ELSE [s EXCEPT !.m_loading[m.op.doid].queue = Append(@, m)]

-----------------------------------------------------------------------------
(* The steps.                                                              *)

Init ==
  /\ scenario \in Scenarios
  /\ request = <<>>
  /\ dbss = NewServer
  /\ db = <<>>
  /\ back = <<>>
  /\ stored = [d \in Doid |-> IF d \in scenario.stored
                              THEN [f \in DbField |-> Default[f]] ELSE Missing]
  /\ told = <<>>

\* What the director hands to the loader or the object: the one of them that
\* was subscribed when the datagram came.
HandleByParticipant(s, m) ==
  LET d == m.op.doid
  IN  IF IsLoading(dbss, d) THEN LoaderQueue(s, m)
      ELSE IF IsActive(dbss, d) THEN ObjectHandle(s, m)
      ELSE s

\* What a handler routed is on its way, what it answered is told.
Become(s) ==
  /\ dbss' = [s EXCEPT !.routed = <<>>, !.told = <<>>]
  /\ db' = db \o s.routed
  /\ told' = told \o s.told

\* A datagram arrives and is handed to both, in either order.
Receive(op) ==
  LET m == [id |-> Len(request) + 1, op |-> op]
  IN  /\ Len(request) < scenario.max
      /\ request' = Append(request, op)
      /\ \/ Become(HandleByParticipant(HandleDatagram(dbss, m), m))
         \/ Become(HandleDatagram(HandleByParticipant(dbss, m), m))
      /\ UNCHANGED <<scenario, back, stored>>

\* The database runs an operation that no earlier one forbids to run, and
\* answers a question to the channel of the object.
RunOperation(k) ==
  LET op == db[k].op
      x == stored[op.doid]
  IN  /\ \A j \in 1..(k - 1) : DB!IsIndependentOf(db[j].op, op)
      /\ stored' = [stored EXCEPT ![op.doid] = DB!Effect(op, x)]
      /\ db' = RemoveAt(db, k)
      /\ back' = IF DB!Gets(op)
                 THEN Append(back, [context |-> db[k].context, doid |-> op.doid,
                                    type |-> op.type, outcome |-> DB!Outcome(op, x)])
                 ELSE back
      /\ UNCHANGED <<scenario, request, dbss, told>>

\* An answer arrives at the server and at the loader, in either order.
ReceiveAnswer ==
  /\ back # <<>>
  /\ LET r == Head(back)
     IN  \/ Become(LoaderReceive(HandleResponse(dbss, r), r))
         \/ Become(HandleResponse(LoaderReceive(dbss, r), r))
  /\ back' = Tail(back)
  /\ UNCHANGED <<scenario, request, stored>>

Work == (\E k \in 1..Len(db) : RunOperation(k)) \/ ReceiveAnswer

Next == (\E op \in scenario.requests : Receive(op)) \/ Work

Spec == Init /\ [][Next]_vars

\* The database runs what it is asked and the director routes its answers.
FairSpec == Spec /\ WF_vars(Work)

-----------------------------------------------------------------------------
(* What the server stands for (StoredObject.tla).                          *)

\* The operations the database has still to run, up to (not including) a place.
After(x, d, ops) ==
  FoldLeft(LAMBDA y, o : IF o.op.doid = d THEN DB!Effect(o.op, y) ELSE y, x, ops)

\* The stored object as question c will find it or has found it.
FoundBy(c, d) ==
  IF \E k \in 1..Len(back) : back[k].context = c
  THEN LET r == back[CHOOSE k \in 1..Len(back) : back[k].context = c]
       IN  IF r.outcome = DB!Failure THEN Missing ELSE r.outcome.fields
  ELSE After(stored[d], d, SubSeq(db, 1, (CHOOSE k \in 1..Len(db) : db[k].context = c) - 1))

\* The question whose answer a loader will take: of those that are open, the
\* one that was asked first.
Open == {back[k].context : k \in 1..Len(back)} \cup {db[k].context : k \in 1..Len(db)}
AnswerTaken(loader) ==
  CHOOSE c \in ValidContexts(loader) \cap Open :
    \A e \in ValidContexts(loader) \cap Open : c <= e

\* What is queued on a loader changes the object (or not) in this order.
Changed(x, m) ==
  IF x = Missing \/ m.op.kind = "delete_ram" THEN Missing
  ELSE IF m.op.kind = "set" THEN Updated(x, m.op.fields) ELSE x

Rewritten(x, m) ==
  IF x = Missing \/ m.op.kind = "delete_disk" THEN Missing
  ELSE IF m.op.kind = "set" THEN Updated(x, m.op.fields) ELSE x

\* A loading object, loaded, after the first n datagrams of its queue.  (It
\* always has an answer to wait for: Awaited.)
RamAfter(d, n) ==
  LET loader == dbss.m_loading[d]
      x == IF ValidContexts(loader) \cap Open = {} THEN Missing ELSE FoundBy(AnswerTaken(loader), d)
  IN  FoldLeft(Changed, IF x = Missing THEN Missing ELSE Load(loader, x), SubSeq(loader.queue, 1, n))

Queue(d) == IF IsLoading(dbss, d) THEN dbss.m_loading[d].queue ELSE <<>>

DiskAfter(d, n) == FoldLeft(Rewritten, After(stored[d], d, db), SubSeq(Queue(d), 1, n))

Disk == [d \in Doid |-> DiskAfter(d, Len(Queue(d)))]
Ram  == [d \in Doid |-> IF IsLoading(dbss, d) THEN RamAfter(d, Len(Queue(d))) ELSE dbss.m_objs[d]]
Told == {told[k] : k \in 1..Len(told)}

\* The answers to a question that is queued on a loader, where both are possible.
AnswersInQueue(d, n) ==
  LET op == Queue(d)[n].op
  IN  {DiskAnswer(op, DiskAfter(d, n - 1))} \cup
      (IF RamAfter(d, n - 1) = Missing THEN {} ELSE {RamAnswer(op, RamAfter(d, n - 1))})

Due ==
  {<<dbss.m_context_datagrams[c].id,
          DiskAnswer(dbss.m_context_datagrams[c].op, FoundBy(c, dbss.m_context_datagrams[c].op.doid))>> :
          c \in DOMAIN dbss.m_context_datagrams}
  \cup UNION {UNION {{<<Queue(d)[n].id, a>> : a \in AnswersInQueue(d, n)} :
                       n \in {k \in 1..Len(Queue(d)) : Asks(Queue(d)[k].op)}} : d \in Doid}

Stored == INSTANCE StoredObject WITH
  Field <- Field, DbField <- DbField, Default <- Default, Missing <- Missing, Doid <- Doid,
  Requests <- UNION {s.requests : s \in Scenarios},
  request <- request, disk <- Disk, ram <- Ram, loading <- DOMAIN dbss.m_loading,
  due <- Due, told <- Told

-----------------------------------------------------------------------------
(* Types; every open question is known by the context it carries.          *)
TypeOK ==
  /\ dbss.m_objs \in [Doid -> [Field -> Value] \cup {Missing}]
  /\ stored \in [Doid -> [DbField -> Value] \cup {Missing}]
  /\ DOMAIN dbss.m_loading \subseteq Doid
  /\ DOMAIN dbss.m_inactive_loads \subseteq Doid
  /\ Open \ {NoContext} \subseteq 0..(dbss.m_next_context - 1)
  /\ DOMAIN dbss.m_context_datagrams \subseteq 0..(dbss.m_next_context - 1)
  /\ dbss.routed = <<>> /\ dbss.told = <<>>

(* Nothing waits for an answer that will not come: a loader for one that is   *)
(* under way, a caller for his own, and the reads that a new loader would     *)
(* rely on are exactly the open ones.  No object is loaded and loading.       *)
Awaited ==
  /\ TypeOK
  /\ \A d \in DOMAIN dbss.m_loading :
       /\ ValidContexts(dbss.m_loading[d]) \cap Open # {}
       /\ ~IsActive(dbss, d)
  /\ DOMAIN dbss.m_context_datagrams \subseteq Open
  /\ \A d \in Doid :
       (IF d \in DOMAIN dbss.m_inactive_loads THEN dbss.m_inactive_loads[d] ELSE {}) =
         {c \in DOMAIN dbss.m_context_datagrams :
            LET op == dbss.m_context_datagrams[c].op IN op.doid = d /\ op.kind = "get_all"}

(* The server handles the datagrams of each object as if loading it and        *)
(* asking the database took no time.                                           *)
StoredSpec == Stored!Spec

(* A question is answered once, unless the object was unloaded after it came: *)
(* a loader replays its queue and then forwards all of it.                    *)
AnsweredOnce ==
  \A j, k \in 1..Len(told) : j # k /\ told[j][1] = told[k][1] =>
    \E i \in (told[j][1] + 1)..Len(request) :
      request[i].kind = "delete_ram" /\ request[i].doid = request[told[j][1]].doid

(* Every question is answered, unless it is for all of an object that is not *)
(* there; and what is loading will be loaded, or not, but not load for ever.  *)
Longest == CHOOSE n \in {s.max : s \in Scenarios} : \A s \in Scenarios : s.max <= n
EventuallyAnswered ==
  /\ \A i \in 1..Longest :
       (\E p \in Due : p[1] = i /\ p[2] # Silence) ~> (\E p \in Told : p[1] = i)
  /\ \A d \in Doid : IsLoading(dbss, d) ~> ~IsLoading(dbss, d)
=============================================================================
