--------------------------- MODULE MessageDirector ---------------------------
(***************************************************************************)
(* A message director with an upstream (src/src/messagedirector): its      *)
(* participants subscribe and route while it routes, what they subscribe   *)
(* to is passed on as control messages, and the upstream director forwards *)
(* what matches.  Participants act between any two steps of the routing:   *)
(* from their handlers, from worker threads or, in threaded mode, from the *)
(* main thread.  The upstream director runs the same code without an       *)
(* upstream of its own; its handling of one datagram is one step.          *)
(***************************************************************************)
EXTENDS ChannelMap, Sequences, SequencesExt

CONSTANTS
  Local,       \* participants of this director
  Remote,      \* participants of the upstream director, which answer requests
  Down,        \* this director's MDNetworkParticipant there
  Service,     \* the channel each of Remote listens on
  Scenarios    \* what a behaviour may meet

Upstream == "the upstream"     \* process_datagram's null participant

ASSUME MessageDirectorAssumption ==
  /\ Subscriber = Local \cup Remote \cup {Down}
  /\ Down \notin Local /\ Down \notin Remote /\ Local \cap Remote = {}
  /\ Upstream \notin Local
  /\ Service \in Channel
  /\ \A s \in Scenarios :
       /\ s.channels \subseteq Channel \ {Service} /\ s.ranges \subseteq Interval
       /\ s.destinations \subseteq SUBSET Channel
       /\ s.threaded \in BOOLEAN
       /\ s.changes \in Nat /\ s.sends \in Nat

VARIABLES
  scenario,     \* never changes
  map,          \* this director's ChannelMap
  upmap,        \* the upstream director's
  m_initialized, \* MDNetworkUpstream: the link is connected
  unsent,       \* MDNetworkUpstream::m_messages
  link,         \* FIFO to the upstream director
  back,         \* FIFO of datagrams from it
  m_messages,   \* MessageDirector::m_messages
  m_main_is_routing,
  tasks,        \* flush_queue calls other threads posted to the main thread
  routing,      \* the datagram process_datagram is at, or Idle
  terminated,   \* m_terminated_participants
  deleted,      \* participants that were deleted
  sent,         \* every datagram so far; its index is its id
  post,         \* m_post_removes of each participant (of a single sender)
  uppost,       \* m_post_removes of Down, by the participant they are for
  leaving,      \* participants whose post_remove waits for flush_queue
  got,          \* how often each participant was handed each datagram
  changes       \* subscription changes so far

subscriptions == <<scenario, map, terminated, changes>>
upstreamLink == <<m_initialized, unsent, link>>
queues == <<m_messages, m_main_is_routing, tasks>>
upstream == <<upmap, uppost, back>>
vars == <<subscriptions, post, leaving, upstreamLink, queues, upstream, routing, deleted, sent, got>>

Channels == scenario.channels      \* channels that participants subscribe to one by one
Ranges == scenario.ranges          \* intervals that participants subscribe to
Destinations == scenario.destinations  \* the sets of channels that datagrams are sent to
Threaded == scenario.threaded      \* the "threaded" setting: routing_thread instead of flush_queue
MaxChanges == scenario.changes     \* bound of the model: subscription changes
MaxSends == scenario.sends         \* bound of the model: datagrams sent by Local

NoReply == 0
Idle == [step |-> "idle"]
Ids == 1..Len(sent)

Init ==
  /\ scenario \in Scenarios
  /\ map = EmptyMap
  /\ upmap = [EmptyMap EXCEPT
       !.channels = [p \in Subscriber |-> IF p \in Remote THEN {Service} ELSE {}],
       !.channel_subs = {Service} \X Remote]
  /\ m_initialized = FALSE
  /\ unsent = <<>> /\ link = <<>> /\ back = <<>>
  /\ m_messages = <<>>
  /\ m_main_is_routing = FALSE
  /\ tasks = 0
  /\ routing = Idle
  /\ terminated = {} /\ deleted = {}
  /\ sent = <<>> /\ got = <<>>
  /\ post = [p \in Local |-> {}] /\ uppost = [p \in Local |-> {}]
  /\ leaving = {}
  /\ changes = 0

-----------------------------------------------------------------------------
(* The link to the upstream director.                                      *)

Control(kind, span) == [kind |-> kind, span |-> span]
PostRemove(kind, p, ids) == [kind |-> kind, sender |-> p, ids |-> ids]
Forward(id) == [kind |-> "datagram", id |-> id]

\* MDNetworkUpstream::send_datagram, for each of msgs.
Send(msgs) ==
  /\ UNCHANGED m_initialized
  /\ IF m_initialized THEN link' = link \o msgs /\ UNCHANGED unsent
                      ELSE unsent' = unsent \o msgs /\ UNCHANGED link

Connect_Dropping ==
  /\ ~m_initialized
  /\ m_initialized' = TRUE
  /\ unsent' = <<>>
  /\ UNCHANGED <<link, subscriptions, post, leaving, queues, upstream, routing, deleted, sent, got>>

\* on_connect.  Without threads nothing comes between its two halves.
Connect ==
  /\ ~m_initialized
  /\ m_initialized' = TRUE
  /\ IF Threaded THEN UNCHANGED <<unsent, link>>
     ELSE link' = link \o unsent /\ unsent' = <<>>
  /\ UNCHANGED <<subscriptions, post, leaving, queues, upstream, routing, deleted, sent, got>>

\* flush_send_queue's loop, in threaded mode.
FlushSendQueue ==
  /\ Threaded
  /\ m_initialized
  /\ unsent # <<>>
  /\ link' = Append(link, Head(unsent))
  /\ unsent' = Tail(unsent)
  /\ UNCHANGED <<m_initialized, subscriptions, post, leaving, queues, upstream, routing, deleted, sent, got>>

\* MDNetworkParticipant::receive_datagram for a control message.
ApplyControl(m, msg) ==
  CASE msg.kind = "add_channel"    -> SubscribeChannel(m, Down, CHOOSE c \in msg.span : TRUE)
    [] msg.kind = "remove_channel" -> UnsubscribeChannel(m, Down, CHOOSE c \in msg.span : TRUE)
    [] msg.kind = "add_range"      -> SubscribeRange(m, Down, msg.span)
    [] msg.kind = "remove_range"   -> UnsubscribeRange(m, Down, msg.span)
    [] OTHER                       -> m

\* ... and for one about post-removes.
ApplyPostRemove(P, msg) ==
  CASE msg.kind = "add_post_remove"    -> [P EXCEPT ![msg.sender] = @ \cup msg.ids]
    [] msg.kind = "clear_post_removes" -> [P EXCEPT ![msg.sender] = {}]
    [] OTHER                           -> P

-----------------------------------------------------------------------------
(* Subscription changes.                                                   *)

\* The maximal intervals of S, in ascending order.
Intervals(S) ==
  LET Maximal == {R \in Interval : /\ R \subseteq S
                                   /\ \A T \in Interval : R \subseteq T /\ T \subseteq S => T = R}
      Below(R) == {T \in Maximal : \A c \in T, d \in R : c < d}
  IN  [k \in 1..Cardinality(Maximal) |->
         CHOOSE R \in Maximal : Cardinality(Below(R)) = k - 1]

RemoveRanges(S) ==
  LET I == Intervals(S) IN [k \in 1..Len(I) |-> Control("remove_range", I[k])]

RemoveChannels(S) ==
  LET C == SetToSeq(S) IN [k \in 1..Len(C) |-> Control("remove_channel", {C[k]})]

Recall_Never(P) == <<>>

Recall(P) ==
  LET S == SetToSeq(P) IN [k \in 1..Len(S) |-> PostRemove("clear_post_removes", S[k], {})]

\* A datagram's reply can only be expected while its sender stays subscribed.
TrackReplies(m) ==
  sent' = [i \in Ids |-> [sent[i] EXCEPT !.live =
             @ /\ sent[i].from \in Local /\ IsSubscribed(m, sent[i].from, sent[i].reply)]]

Change(m, msgs) ==
  /\ changes < MaxChanges
  /\ changes' = changes + 1
  /\ map' = m
  /\ Send(msgs)
  /\ TrackReplies(m)
  /\ UNCHANGED <<scenario, upstream, routing, got>>

\* terminate() works once: m_is_terminated.
Alive == Local \ (leaving \cup terminated \cup deleted)

SubscribeTo(p, c) ==
  /\ Change(SubscribeChannel(map, p, c),
            IF AddsChannel(map, p, c) THEN <<Control("add_channel", {c})>> ELSE <<>>)
  /\ UNCHANGED <<terminated, deleted, post, leaving, queues>>

UnsubscribeFrom(p, c) ==
  /\ Change(UnsubscribeChannel(map, p, c),
            IF RemovesChannel(map, p, c) THEN <<Control("remove_channel", {c})>> ELSE <<>>)
  /\ UNCHANGED <<terminated, deleted, post, leaving, queues>>

SubscribeToRange(p, R) ==
  /\ Change(SubscribeRange(map, p, R),
            IF AddsRange(map, p, R) THEN <<Control("add_range", R)>> ELSE <<>>)
  /\ UNCHANGED <<terminated, deleted, post, leaving, queues>>

UnsubscribeFromRange(p, R) ==
  /\ \E a, b \in {0, 1} :
       Change(UnsubscribeRange(map, p, R), RemoveRanges(SilentRanges(map, p, R, a, b)))
  /\ UNCHANGED <<terminated, deleted, post, leaving, queues>>

MarkForDeletion(P) == terminated' = terminated \cup P /\ UNCHANGED deleted

\* terminate and remove_participant.  post_remove routes the post-removes and
\* recalls them upstream; when no flush is under way, routing them means
\* flushing the queue first.
RemoveParticipant(p) ==
  LET P == SetToSeq(post[p])
      nested == Threaded \/ m_main_is_routing \/ post[p] = {}
      silenced == RemoveChannels(LastChannels(map, p))
                    \o RemoveRanges(SilentRanges(map, p, map.ranges[p], 0, 0))
  IN  /\ m_messages' = m_messages \o [k \in 1..Len(P) |-> [from |-> p, id |-> P[k]]]
      /\ UNCHANGED <<post, tasks>>
      /\ Change(UnsubscribeAll(map, p),
                silenced \o IF nested /\ post[p] # {} THEN Recall({p}) ELSE <<>>)
      /\ IF nested
         THEN MarkForDeletion({p}) /\ UNCHANGED <<leaving, m_main_is_routing>>
         ELSE /\ leaving' = leaving \cup {p}
              /\ m_main_is_routing' = TRUE
              /\ UNCHANGED <<terminated, deleted>>

-----------------------------------------------------------------------------
(* Routing.                                                                *)

Datagram(from, to, reply, bad) ==
  [from |-> from, to |-> to, reply |-> reply, live |-> reply # NoReply, bad |-> bad]

NewDatagram(dg) ==
  /\ sent' = Append(sent, dg)
  /\ got' = Append(got, [p \in Subscriber |-> 0])

Enqueue_Unposted(from, id, main) ==
  /\ m_messages' = Append(m_messages, [from |-> from, id |-> id])
  /\ m_main_is_routing' = (m_main_is_routing \/ (main /\ ~Threaded))
  /\ UNCHANGED tasks

\* route_datagram, called from the main thread or from another one.
Enqueue(from, id, main) ==
  /\ m_messages' = Append(m_messages, [from |-> from, id |-> id])
  /\ m_main_is_routing' = (m_main_is_routing \/ (main /\ ~Threaded))
  /\ tasks' = IF main \/ Threaded THEN tasks ELSE tasks + 1

\* A participant routes a datagram, perhaps one that expects an answer on a
\* channel of its own, perhaps a truncated one.
RouteDatagram(p, to, main) ==
  /\ Cardinality({i \in Ids : sent[i].from \in Local}) < MaxSends
  /\ \E reply \in {NoReply} \cup map.channels[p] \cup map.ranges[p], bad \in BOOLEAN :
       /\ bad => reply = NoReply
       /\ NewDatagram(Datagram(p, to, reply, bad))
  /\ Enqueue(p, Len(sent) + 1, main)
  /\ UNCHANGED <<subscriptions, post, leaving, upstreamLink, upstream, routing, deleted>>

\* add_post_remove and clear_post_removes, with a channel of its own as sender.
AddPostRemove(p, to) ==
  /\ Cardinality({i \in Ids : sent[i].from \in Local}) < MaxSends
  /\ NewDatagram(Datagram(p, to, NoReply, FALSE))
  /\ post' = [post EXCEPT ![p] = @ \cup {Len(sent) + 1}]
  /\ Send(<<PostRemove("add_post_remove", p, {Len(sent) + 1})>>)
  /\ UNCHANGED <<subscriptions, leaving, queues, upstream, routing, deleted>>

ClearPostRemoves(p) ==
  /\ post[p] # {}
  /\ post' = [post EXCEPT ![p] = {}]
  /\ Send(Recall({p}))
  /\ UNCHANGED <<subscriptions, leaving, queues, upstream, routing, deleted, sent, got>>

\* The task that route_datagram posted: flush_queue, which does nothing when
\* the queue is being flushed already.
FlushTask ==
  /\ tasks > 0
  /\ tasks' = tasks - 1
  /\ m_main_is_routing' = TRUE
  /\ UNCHANGED <<subscriptions, post, leaving, upstreamLink, m_messages, upstream, routing, deleted, sent, got>>

\* process_datagram never hands a datagram back to where it came from.
Receivers_Echoing(m, from, to) == LookupChannels(m, to)

Receivers(m, from, to) == LookupChannels(m, to) \ {from}

\* flush_queue and routing_thread take the next datagram; process_datagram
\* looks up who receives it.
TakeMessage ==
  /\ Threaded \/ m_main_is_routing
  /\ routing = Idle
  /\ m_messages # <<>>
  /\ LET msg == Head(m_messages)
     IN  routing' = [step |-> "deliver", from |-> msg.from, id |-> msg.id,
                     to |-> Receivers(map, msg.from, sent[msg.id].to)]
  /\ m_messages' = Tail(m_messages)
  /\ UNCHANGED <<subscriptions, post, leaving, upstreamLink, m_main_is_routing, tasks, upstream, deleted, sent, got>>

\* flush_queue finds the queue empty; who routed post-removes goes on.
StopFlushing ==
  /\ m_main_is_routing
  /\ routing = Idle
  /\ m_messages = <<>>
  /\ m_main_is_routing' = FALSE
  /\ Send(Recall(leaving))
  /\ MarkForDeletion(leaving)
  /\ leaving' = {}
  /\ UNCHANGED <<scenario, map, changes, post, m_messages, tasks, upstream, routing, sent, got>>

\* handle_datagram of one receiver; the set has no order.
Deliver(p) ==
  /\ routing # Idle
  /\ p \in routing.to
  /\ routing' = [routing EXCEPT !.to = @ \ {p}]
  /\ got' = [got EXCEPT ![routing.id][p] = @ + 1]
  /\ UNCHANGED <<subscriptions, post, leaving, upstreamLink, queues, upstream, deleted, sent>>

\* A receiver finds the datagram truncated: process_datagram returns.
DeliverTruncated(p) ==
  /\ routing # Idle
  /\ p \in routing.to
  /\ sent[routing.id].bad
  /\ got' = [got EXCEPT ![routing.id][p] = @ + 1]
  /\ routing' = Idle
  /\ UNCHANGED <<subscriptions, post, leaving, upstreamLink, queues, upstream, deleted, sent>>

\* Every receiver had it: on to the upstream, and process_terminates.
FinishMessage ==
  /\ routing # Idle
  /\ routing.to = {}
  /\ Send(IF routing.from # Upstream THEN <<Forward(routing.id)>> ELSE <<>>)
  /\ routing' = Idle
  /\ deleted' = deleted \cup terminated
  /\ terminated' = {}
  /\ UNCHANGED <<scenario, map, changes, post, leaving, queues, upstream, sent, got>>

-----------------------------------------------------------------------------
(* The upstream director.                                                  *)

\* It takes the next message from the link: a control message changes Down's
\* subscriptions, a datagram goes to its participants.
UpstreamReceives ==
  /\ link # <<>>
  /\ link' = Tail(link)
  /\ LET msg == Head(link)
     IN  /\ upmap' = ApplyControl(upmap, msg)
         /\ uppost' = ApplyPostRemove(uppost, msg)
         /\ IF msg.kind = "datagram"
            THEN LET to == Receivers(upmap, Down, sent[msg.id].to)
                 IN  /\ got' = [got EXCEPT ![msg.id] =
                                  [p \in Subscriber |-> IF p \in to THEN @[p] + 1 ELSE @[p]]]
                     /\ back' = IF Down \in to THEN Append(back, msg.id) ELSE back
            ELSE UNCHANGED <<got, back>>
  /\ UNCHANGED <<m_initialized, unsent, subscriptions, post, leaving, queues, routing, deleted, sent>>

\* One of its participants answers a request on the channel it named.
Answered(id) == \E i \in Ids : sent[i].from \in Remote /\ sent[i].reply = id

Answer(u, id) ==
  /\ sent[id].from \in Local
  /\ sent[id].reply # NoReply
  /\ got[id][u] > 0
  /\ ~Answered(id)
  /\ LET to == Receivers(upmap, u, {sent[id].reply})
     IN  /\ sent' = Append(sent, [Datagram(u, {sent[id].reply}, id, FALSE) EXCEPT !.live = FALSE])
         /\ got' = Append(got, [p \in Subscriber |-> IF p \in to \ {Down} THEN 1 ELSE 0])
         /\ back' = IF Down \in to THEN Append(back, Len(sent) + 1) ELSE back
  /\ UNCHANGED <<subscriptions, post, leaving, upstreamLink, queues, upmap, uppost, routing, deleted>>

\* MessageDirector::receive_datagram, a socket event on the main thread.
ReceiveFromUpstream ==
  /\ back # <<>>
  /\ back' = Tail(back)
  /\ Enqueue(Upstream, Head(back), TRUE)
  /\ UNCHANGED <<subscriptions, post, leaving, upstreamLink, upmap, uppost, routing, deleted, sent, got>>

-----------------------------------------------------------------------------
Participate(p) ==
  \/ \E c \in Channels : SubscribeTo(p, c) \/ UnsubscribeFrom(p, c)
  \/ \E R \in Ranges : SubscribeToRange(p, R) \/ UnsubscribeFromRange(p, R)
  \/ RemoveParticipant(p)
  \/ \E to \in Destinations : AddPostRemove(p, to)
  \/ ClearPostRemoves(p)
  \/ \E to \in Destinations, main \in BOOLEAN : RouteDatagram(p, to, main)

Route ==
  \/ FlushTask \/ TakeMessage \/ StopFlushing \/ FinishMessage
  \/ \E p \in Local : Deliver(p) \/ DeliverTruncated(p)

Link == Connect \/ FlushSendQueue \/ UpstreamReceives \/ ReceiveFromUpstream

Next ==
  \/ \E p \in Alive : Participate(p)
  \/ Route
  \/ Link
  \/ \E u \in Remote, id \in Ids : Answer(u, id)

Spec == Init /\ [][Next]_vars

\* The event loop and the routing thread keep running, TCP keeps delivering.
FairSpec == Spec /\ WF_vars(Route) /\ WF_vars(Link)

-----------------------------------------------------------------------------
(* Both directors' maps are consistent, whatever order channels and ranges   *)
(* are subscribed and dropped in.                                            *)
ConsistentMaps == MapsAgree(map) /\ MapsAgree(upmap)

(* A participant that is removed while a datagram for it is being routed     *)
(* outlives the routing; it is never both waiting for deletion and deleted.  *)
ReceiversLive ==
  /\ routing # Idle => routing.to \cap deleted = {}
  /\ terminated \cap deleted = {}

(* Types, and these two.                                                     *)
TypeOK ==
  /\ map \in Map /\ upmap \in Map
  /\ link \in Seq([kind : {"add_channel", "remove_channel", "add_range", "remove_range"},
                   span : Interval]
                  \cup [kind : {"add_post_remove", "clear_post_removes"},
                        sender : Local, ids : SUBSET Ids]
                  \cup [kind : {"datagram"}, id : Ids])
  /\ \A k \in 1..Len(m_messages) : m_messages[k].id \in Ids
  /\ routing # Idle => routing.id \in Ids /\ routing.to \subseteq Local
  /\ terminated \subseteq Local /\ deleted \subseteq Local
  /\ tasks \in Nat
  /\ uppost \in [Local -> SUBSET Ids]
  /\ Len(got) = Len(sent)
  /\ ConsistentMaps
  /\ ReceiversLive

\* The upstream's map m once it has taken msgs, and every message sent to it.
Taken(m, msgs) ==
  LET taken[k \in 0..Len(msgs)] ==
        IF k = 0 THEN m ELSE ApplyControl(taken[k - 1], msgs[k])
  IN  taken[Len(msgs)]

EventualUpmap == Taken(upmap, link \o unsent)

(* Whatever a participant here subscribes to, the upstream forwards, at the  *)
(* latest when it has taken the control messages already sent                *)
(* (README.md:130: a component "receives messages sent to its subscribed     *)
(* channels").                                                               *)
UpstreamCovers ==
  \A p \in Local, c \in Channel :
    IsSubscribed(map, p, c) => IsSubscribed(EventualUpmap, Down, c)

(* Unless a range contains a channel that is subscribed by itself, the       *)
(* upstream forwards exactly what somebody here subscribes to, once it has   *)
(* taken the control messages already sent: nothing is withdrawn that        *)
(* another participant needs and nothing is forwarded for ever.  With the    *)
(* routing thread control messages can overtake each other.                  *)
Apart == \A R \in Ranges : R \cap Channels = {}

UpstreamIsExact ==
  (Apart /\ ~Threaded) => \A c \in Channel :
    IsSubscribed(EventualUpmap, Down, c) <=> \E p \in Local : IsSubscribed(map, p, c)

(* An answer reaches the participant that asked for it, when that has been   *)
(* subscribed since before it asked: the control message and the request     *)
(* travel on one FIFO, so the upstream subscribes before it can answer.      *)
(* Dropping a range that contains the channel withdraws it for everybody,    *)
(* and with the routing thread the two may overtake each other while the     *)
(* link comes up.                                                            *)
OnItsWay(id, p) ==
  \/ got[id][p] > 0
  \/ \E k \in 1..Len(back) : back[k] = id
  \/ \E k \in 1..Len(m_messages) : m_messages[k].id = id
  \/ routing # Idle /\ routing.id = id /\ p \in routing.to

NoReplyLost ==
  (Apart /\ ~Threaded) =>
    \A i \in Ids : (sent[i].from \in Remote /\ sent[sent[i].reply].live) =>
      OnItsWay(i, sent[sent[i].reply].from)

(* No participant is handed a datagram twice or its own datagram back,       *)
(* though both directors route it.                                           *)
DeliveredOnce ==
  \A i \in Ids : \A p \in Subscriber :
    /\ got[i][p] <= 1
    /\ sent[i].from = p => got[i][p] = 0

(* When everything is delivered, the upstream holds the post-removes of the  *)
(* participants that are still there and nothing of those that are gone,     *)
(* whose post-removes it has routed, once: neither the recall nor the        *)
(* datagrams are lost or repeated, whether remove_participant is called from *)
(* inside a flush or outside.  With the routing thread the recall may        *)
(* overtake the post-remove while the link comes up.                         *)
Quiet ==
  /\ m_initialized /\ link = <<>> /\ unsent = <<>>
  /\ m_messages = <<>> /\ routing = Idle /\ leaving = {}

PostRemovesSettled ==
  ~Threaded /\ Quiet => \A p \in Local :
    IF p \in Alive THEN uppost[p] = post[p]
    ELSE /\ uppost[p] = {}
         /\ \A i \in post[p], u \in Remote : Service \in sent[i].to => got[i][u] = 1

(* Every datagram that is routed is processed: none waits for a flush that   *)
(* nobody is going to do.                                                    *)
EventuallyRouted == []<>(m_messages = <<>> /\ routing = Idle)
=============================================================================
