----------------------------- MODULE ClientAgent -----------------------------
(***************************************************************************)
(* One client agent: its connections and their channels (ChannelTracker),  *)
(* the sessions of its clients (DisneyClient) and their manager, with the  *)
(* database server, the avatars loaded by the database state server and    *)
(* the other agents of the cluster.                                        *)
(*                                                                         *)
(* A handler is one step: it holds its client's lock.  The handlers of     *)
(* different clients are taken to exclude each other (without the message  *)
(* director's routing thread they do).                                     *)
(***************************************************************************)
EXTENDS GameManager, FiniteSets

CONSTANTS Scenarios

(* Who has logged in before plays for an account of his own.                *)
ASSUME ScenariosAssumption ==
    \A s \in Scenarios :
        /\ s.channels \in Nat
        /\ s.players \in Seq([account : Doids, avatar : Doids \cup {0}])
        /\ DOMAIN s.players \subseteq Clients /\ Len(s.players) <= s.channels
        /\ \A k, l \in DOMAIN s.players :
              k # l => s.players[k].account # s.players[l].account
        /\ s.bridge \in [DOMAIN s.bridge -> Doids \cup {0}]
        /\ s.avatars \subseteq Doids
        /\ s.objects \in [DOMAIN s.objects -> Objects] /\ DOMAIN s.objects \subseteq Doids

VARIABLES
    scenario,           \* what may happen in this behaviour, chosen in Init
    budget,             \* how many more requests the clients make
    m_next, m_unused_channels,  \* ChannelTracker
    agent,              \* the clients and their manager
    objects,            \* the database
    loaded              \* the avatars in RAM, and the channel of their owner

vars == <<scenario, budget, m_next, m_unused_channels, agent, objects, loaded>>

PlayTokens == DOMAIN scenario.bridge

(* Some clients have logged in before, and may play an avatar, as client k  *)
(* that of players[k]; these avatars know of their friends.                 *)
Joined(k) == k \in DOMAIN scenario.players

Played == {p \in ToSet(scenario.players) : p.avatar # 0}

Player(k) ==
    LET a == scenario.players[k].account
        v == scenario.players[k].avatar
        client == [NoClient EXCEPT
                     !.connection = "open", !.m_state = "established",
                     !.allocated = k, !.m_channel = sender_channel(a, v),
                     !.subscriptions = {allocated_channel(k), sender_channel(a, v),
                                        get_account_connection_channel(a)}]
    IN  IF v = 0 THEN client
        ELSE [client EXCEPT
                !.m_av_id = v, !.owned = {v}, !.post_removes = <<delete_ram(k, v)>>,
                !.subscriptions = @ \cup {get_puppet_connection_channel(v)},
                !.m_declared_objects = {p.avatar : p \in Played} \cap
                                           scenario.objects[v].setFriendsList]

Init ==
    /\ scenario \in Scenarios
    /\ budget = [calls |-> scenario.calls, others |-> scenario.others,
                 deaths |-> scenario.deaths]
    /\ m_next = Len(scenario.players) + 1 /\ m_unused_channels = <<>>
    /\ agent = [clients |-> [k \in Clients |->
                                IF Joined(k) THEN Player(k) ELSE NoClient],
                operations |->
                    [k \in DOMAIN scenario.players |->
                        [NewOperation("login", k, k, "player") EXCEPT !.over = TRUE]],
                m_account2operation |-> [a \in Doids |-> 0],
                m_connection2operation |->
                    [c \in 0..scenario.channels |-> IF Joined(c) THEN c ELSE 0],
                m_bridge |-> scenario.bridge, m_game_name |-> scenario.game,
                requests |-> <<>>, mail |-> <<>>, told |-> {}, removed |-> {},
                disowned |-> {}, killed_twice |-> FALSE, crashed |-> FALSE]
    /\ objects = [d \in Doids |-> IF d \in DOMAIN scenario.objects
                                  THEN scenario.objects[d] ELSE no_object]
    /\ loaded = {[do_id |-> p.avatar,
                    owner |-> get_account_connection_channel(p.account)] : p \in Played}

Running == ~agent.crashed

Live(k) == agent.clients[k].connection \in {"open", "leaving"}

------------------------------------------------------------------------------
(* Connections. *)

(* Zero when there is no channel: the refusal is logged, no more. *)
Channel ==
    IF m_next <= scenario.channels THEN m_next
    ELSE IF m_unused_channels # <<>> THEN Head(m_unused_channels) ELSE 0

(* Connections are told apart by the order in which they come. *)
Connect(k) ==
    /\ Running
    /\ k \in 1..scenario.clients
    /\ agent.clients[k].connection = "none"
    /\ k # 1 => agent.clients[k - 1].connection # "none"
    /\ IF m_next <= scenario.channels
       THEN m_next' = m_next + 1 /\ UNCHANGED m_unused_channels
       ELSE /\ m_unused_channels' = IF m_unused_channels = <<>> THEN <<>>
                                    ELSE Tail(m_unused_channels)
            /\ UNCHANGED m_next
    /\ agent' = [agent EXCEPT
         !.clients[k] = [NoClient EXCEPT
             !.connection = "open", !.allocated = Channel,
             !.m_channel = allocated_channel(Channel),
             !.subscriptions = IF Channel = 0 THEN {}
                               ELSE {allocated_channel(Channel)}]]
    /\ UNCHANGED <<scenario, budget, objects, loaded>>

(* The peer closes the connection, or says so first. *)
PeerLeaves(k) ==
    /\ Running
    /\ scenario.leaves
    /\ agent.clients[k].connection = "open"
    /\ agent' = send_disconnect(agent, k)
    /\ UNCHANGED <<scenario, budget, m_next, m_unused_channels, objects, loaded>>

(* receive_disconnect and annihilate, once the connection is closed.  The   *)
(* owned objects go first, then terminate() routes the post-removes.        *)
Annihilate(k) ==
    LET client == agent.clients[k]
        lost == IF client.m_av_id = 0 THEN agent
                ELSE lost_object(agent, k, client.m_av_id)
        owned == SetToSeq({delete_ram(k, v) : v \in client.owned})
    IN  /\ Running
        /\ client.connection = "leaving"
        /\ agent' = [lost EXCEPT
             !.clients[k] = [NoClient EXCEPT !.connection = "gone"],
             !.mail = @ \o owned \o client.post_removes]
        /\ m_unused_channels' = Append(m_unused_channels, client.allocated)
        /\ UNCHANGED <<scenario, budget, m_next, objects, loaded>>

------------------------------------------------------------------------------
(* The clients' messages, also those on their way when a client is leaving. *)

Receive(k, m_state, message, handled) ==
    /\ Running
    /\ Live(k)
    /\ agent.clients[k].m_state = m_state
    /\ message \in scenario.messages
    /\ budget.calls > 0
    /\ budget' = [budget EXCEPT !.calls = @ - 1]
    /\ agent' = handled
    /\ UNCHANGED <<scenario, m_next, m_unused_channels, objects, loaded>>

Login(k) ==
    \E play_token \in PlayTokens :
        Receive(k, "anonymous", "login", login(agent, k, play_token))

GetAvatars(k) ==
    Receive(k, "established", "getavatars",
            run_operation(agent, "getavatars", k, 0))

CreateAvatar(k) ==
    \E slot \in scenario.slots :
        Receive(k, "established", "create", run_operation(agent, "create", k, slot))

SetAvatar(k) ==
    \E av_id \in scenario.avatars \cup {0} :
        Receive(k, "established", "setavatar",
                [request_play_avatar(agent, k, av_id) EXCEPT
                   !.clients[k].m_av_id = av_id])

(* No avatar: is the name acceptable?  (All names are.) *)
SetName(k) ==
    \/ \E av_id \in scenario.avatars, kind \in {"typed", "pattern"} :
          Receive(k, "established", "setname", run_operation(agent, kind, k, av_id))
    \/ Receive(k, "established", "setname", run_operation(agent, "typed", k, 0))

GetAvatarDetails(k) ==
    \E av_id \in scenario.avatars :
        Receive(k, "established", "details", run_operation(agent, "details", k, av_id))

(* The friends are those of the avatar that the client plays. *)
Plays(k) == get_avatar_id(agent.clients[k]) # 0

RemoveFriend(k) ==
    \E f \in scenario.avatars \ {get_avatar_id(agent.clients[k])} :
        /\ Plays(k)
        /\ Receive(k, "established", "removefriend",
                   run_operation(agent, "removefriend", k,
                                 <<get_avatar_id(agent.clients[k]), f>>))

GetFriendsList(k) ==
    /\ Plays(k)
    /\ Receive(k, "established", "friendslist",
               run_operation(agent, "friendslist", k, get_avatar_id(agent.clients[k])))

------------------------------------------------------------------------------
(* The message director delivers in the order of routing, to those who are  *)
(* subscribed by then.                                                      *)

Answer(request, kind, value) ==
    [kind |-> kind, op |-> request.op, do_id |-> request.do_id, value |-> value,
     to |-> request.to]

Receivers(message) ==
    {k \in Clients : Live(k) /\ message.to \in agent.clients[k].subscriptions}

Took(mail) == [agent EXCEPT !.mail = mail]

Rest == Took(Tail(agent.mail))

DeliverEject(message) ==
    /\ message.kind = "eject"
    /\ agent' = [Rest EXCEPT !.clients =
         [k \in Clients |->
            IF k \in Receivers(message) \ {message.from}
            THEN [@[k] EXCEPT !.connection = "leaving"] ELSE @[k]]]
    /\ UNCHANGED loaded

DeliverAnswer(message) ==
    /\ message.kind \in {"query", "create", "update", "activated"}
    /\ agent' = IF Receivers(message) = {} THEN Rest
                ELSE handle_answer(Rest, message)
    /\ UNCHANGED loaded

(* The database state server loads the avatar, whose owner is then told. *)
DeliverActivate(message) ==
    LET v == message.do_id
    IN  /\ message.kind = "activate"
        /\ IF v \in {l.do_id : l \in loaded}
           THEN agent' = Rest /\ UNCHANGED loaded
           ELSE /\ agent' = Post(Rest, [kind |-> "enter_owner", do_id |-> v,
                                        to |-> message.owner])
                /\ loaded' = loaded \cup {[do_id |-> v, owner |-> message.owner]}

DeliverDeleteRam(message) ==
    LET deleted == {l \in loaded : l.do_id = message.do_id}
    IN  /\ message.kind = "delete_ram"
        /\ agent' = [Rest EXCEPT !.mail = @ \o
             SetToSeq({[kind |-> "leave_owner", do_id |-> l.do_id, to |-> l.owner] :
                         l \in deleted})]
        /\ loaded' = loaded \ deleted

(* While the avatar is being loaded the answer waits (DBStateServer.tla).   *)
DeliverGetActivated(message) ==
    /\ message.kind = "get_activated"
    /\ agent' = Post(Rest, Answer(message, "activated",
                          message.do_id \in {l.do_id : l \in loaded}))
    /\ UNCHANGED loaded

(* In RAM or not, the field is stored. *)
DeliverUpdateField(message) ==
    /\ message.kind = "update_field"
    /\ agent' = update_object(Rest, message.do_id, message.value)
    /\ UNCHANGED loaded

Declared(client, message) ==
    IF message.kind = "declare"
    THEN [client EXCEPT !.m_declared_objects = @ \cup {message.do_id}]
    ELSE [client EXCEPT !.m_declared_objects = @ \ {message.do_id}]

DeliverDeclaration(message) ==
    /\ message.kind \in {"declare", "undeclare"}
    /\ agent' = [Rest EXCEPT !.clients =
         [k \in Clients |-> IF k \in Receivers(message)
                            THEN Declared(@[k], message) ELSE @[k]]]
    /\ UNCHANGED loaded

Owning(client, message) ==
    IF message.kind = "enter_owner"
    THEN [client EXCEPT !.owned = @ \cup {message.do_id}]
    ELSE [client EXCEPT !.owned = @ \ {message.do_id}]

DeliverOwnership(message) ==
    /\ message.kind \in {"enter_owner", "leave_owner"}
    /\ agent' = [Rest EXCEPT !.clients =
         [k \in Clients |-> IF k \in Receivers(message)
                            THEN Owning(@[k], message) ELSE @[k]]]
    /\ UNCHANGED loaded

Deliver ==
    /\ Running
    /\ agent.mail # <<>>
    /\ LET message == Head(agent.mail)
       IN  \/ DeliverEject(message)
           \/ DeliverAnswer(message)
           \/ DeliverActivate(message)
           \/ DeliverDeleteRam(message)
           \/ DeliverOwnership(message)
           \/ DeliverGetActivated(message)
           \/ DeliverUpdateField(message)
           \/ DeliverDeclaration(message)
    /\ UNCHANGED <<scenario, budget, m_next, m_unused_channels, objects>>

------------------------------------------------------------------------------
(* The database server, which keeps the order of requests on one object.    *)

Answered(i, answers) ==
    [agent EXCEPT !.requests = RemoveAt(@, i), !.mail = @ \o answers]

(* Ids of deleted objects come back later than this model looks. *)
dead_object == [class |-> "dead"]

Free == {d \in Doids : objects[d] = no_object}

Get(i, request) ==
    /\ request.ask = "get"
    /\ agent' = Answered(i, <<Answer(request, "query", objects[request.do_id])>>)
    /\ UNCHANGED objects

Create(i, request) ==
    /\ request.ask = "create"
    /\ \/ /\ Free = {}
          /\ agent' = Answered(i, <<Answer(request, "create", 0)>>)
          /\ UNCHANGED objects
       \/ \E d \in Free :
             /\ \A e \in Free : d <= e
             /\ agent' = Answered(i, <<Answer(request, "create", d)>>)
             /\ objects' = [objects EXCEPT ![d] = request.value]

Updated(object, fields) ==
    [f \in DOMAIN object |-> IF f \in DOMAIN fields THEN fields[f] ELSE object[f]]

UpdateFields(i, request) ==
    /\ request.ask = "set"
    /\ agent' = Answered(i, <<>>)
    /\ objects' = IF objects[request.do_id].class # "avatar" THEN objects
                  ELSE [objects EXCEPT ![request.do_id] = Updated(@, request.value)]

SetIfEquals(i, request) ==
    LET success == objects[request.do_id] = account_object(request.value.old)
    IN  /\ request.ask = "set_if_equals"
        /\ agent' = Answered(i, <<Answer(request, "update", success)>>)
        /\ objects' = IF ~success THEN objects
                      ELSE [objects EXCEPT ![request.do_id] =
                                account_object(request.value.new)]

Database ==
    /\ Running
    /\ \E i \in DOMAIN agent.requests :
          LET request == agent.requests[i]
          IN  /\ \A j \in 1..(i - 1) : agent.requests[j].do_id # request.do_id
              /\ \/ Get(i, request)
                 \/ Create(i, request)
                 \/ UpdateFields(i, request)
                 \/ SetIfEquals(i, request)
    /\ UNCHANGED <<scenario, budget, m_next, m_unused_channels, loaded>>

(* A client of another agent creates an avatar for an account. *)
OtherAgentCreates ==
    /\ Running
    /\ budget.others > 0
    /\ budget' = [budget EXCEPT !.others = @ - 1]
    /\ \E a \in Doids, slot \in Slots, v \in Free :
          /\ objects[a].class = "account"
          /\ objects[a].ACCOUNT_AV_SET[slot] = 0
          /\ objects' = [objects EXCEPT
               ![a].ACCOUNT_AV_SET[slot] = v, ![v] = avatar_object(a)]
          /\ agent' = [agent EXCEPT !.told = @ \cup {<<a, slot, v>>}]
    /\ UNCHANGED <<scenario, m_next, m_unused_channels, loaded>>

(* Somebody deletes an object (DBSERVER_OBJECT_DELETE). *)
ObjectDies ==
    /\ Running
    /\ budget.deaths > 0
    /\ budget' = [budget EXCEPT !.deaths = @ - 1]
    /\ \E d \in Doids \ Free : objects' = [objects EXCEPT ![d] = dead_object]
    /\ UNCHANGED <<scenario, m_next, m_unused_channels, agent, loaded>>

ClientStep(k) ==
    \/ Connect(k) \/ PeerLeaves(k) \/ Annihilate(k)
    \/ Login(k) \/ GetAvatars(k) \/ CreateAvatar(k) \/ SetAvatar(k)
    \/ SetName(k) \/ GetAvatarDetails(k) \/ RemoveFriend(k) \/ GetFriendsList(k)

Next ==
    \/ \E k \in Clients : ClientStep(k)
    \/ Deliver
    \/ Database
    \/ OtherAgentCreates
    \/ ObjectDies

Fairness ==
    /\ WF_vars(Deliver)
    /\ WF_vars(Database)
    /\ \A k \in Clients : WF_vars(Annihilate(k))

Spec == Init /\ [][Next]_vars /\ Fairness

------------------------------------------------------------------------------
(***************************************************************************)
(* An account runs one operation at a time, the registered one: whatever   *)
(* its clients send, on however many connections, no other is started      *)
(* before it has called off().  (An operation whose second avatar turns    *)
(* out invalid after it was killed calls off() for its successor, and so   *)
(* does each description of a friend that a list is made of.)              *)
(***************************************************************************)
InProgress(a) ==
    {o \in DOMAIN agent.operations :
        /\ agent.operations[o].kind # "login"
        /\ agent.operations[o].m_target = a
        /\ ~agent.operations[o].over}

OneOperation ==
    \/ agent.crashed
    \/ agent.killed_twice
    \/ \A a \in Doids \ agent.disowned :
          \A o \in InProgress(a) : agent.m_account2operation[a] = o

(***************************************************************************)
(* An avatar that a client was told it has created is in its slot of the   *)
(* account for good, though agents read the slots and write them later,    *)
(* and several at once (SET_FIELD_IF_EQUALS).                              *)
(***************************************************************************)
PromisedSlots ==
    \A t \in agent.told :
        LET account == objects[t[1]]
        IN  account.class = "account" => account.ACCOUNT_AV_SET[t[2]] = t[3]

(***************************************************************************)
(* When everything routed has been delivered, an account has one client    *)
(* that is not being disconnected, and a channel one owner: the ejection   *)
(* reaches every earlier client of the account, and never its sender.      *)
(***************************************************************************)
Established(k) ==
    /\ agent.clients[k].connection = "open"
    /\ agent.clients[k].m_state = "established"

SoleSession ==
    agent.mail = <<>> =>
        \A k, l \in Clients :
            /\ k # l /\ Established(k) /\ Established(l)
               => get_account_id(agent.clients[k]) # get_account_id(agent.clients[l])
            /\ k # l /\ Live(k) /\ Live(l) /\ agent.clients[k].allocated # 0
               => agent.clients[k].allocated # agent.clients[l].allocated

(***************************************************************************)
(* When nothing is under way and nobody is leaving, an avatar is in RAM    *)
(* only for a client that plays it: one who leaves at any moment of        *)
(* loading, or chooses another avatar, leaves none behind.                 *)
(***************************************************************************)
Settled ==
    /\ Running /\ agent.mail = <<>> /\ agent.requests = <<>>
    /\ \A k \in Clients : agent.clients[k].connection # "leaving"

NoGhosts ==
    Settled =>
        \A l \in loaded : \E k \in Clients :
            Live(k) /\ get_avatar_id(agent.clients[k]) = l.do_id

(***************************************************************************)
(* When nothing is under way, friends who both play are declared to each   *)
(* other's clients: of two that come online at once, whatever the order of *)
(* their loading, announcements and answers, at least the later one finds  *)
(* the other.  And a friend who was removed is on neither list, also when  *)
(* both remove each other, stop to play or leave meanwhile (where neither  *)
(* removes a third at the same time: lists are written without comparison).*)
(***************************************************************************)
Befriended(v, w) ==
    /\ objects[v].class = "avatar" /\ objects[w].class = "avatar"
    /\ w \in objects[v].setFriendsList /\ v \in objects[w].setFriendsList

InRam(v) == v \in {l.do_id : l \in loaded}

FriendsKnowEachOther ==
    \A k, l \in Clients :
        LET v == get_avatar_id(agent.clients[k])
            w == get_avatar_id(agent.clients[l])
        IN  /\ k # l /\ Established(k) /\ Established(l)
            /\ v # 0 /\ w # 0 /\ InRam(v) /\ InRam(w) /\ Befriended(v, w)
            => w \in agent.clients[k].m_declared_objects

OnlyTheseTwo(p) ==
    \A o \in DOMAIN agent.operations :
        LET op == agent.operations[o]
        IN  op.kind = "removefriend" /\ ToSet(op.arg) \cap ToSet(p) # {}
            => ToSet(op.arg) = ToSet(p)

RemovedOnBothSides ==
    \A p \in agent.removed :
        OnlyTheseTwo(p) =>
            /\ p[2] \notin objects[p[1]].setFriendsList
            /\ p[1] \notin objects[p[2]].setFriendsList

FriendsAgree == Settled => FriendsKnowEachOther /\ RemovedOnBothSides

(***************************************************************************)
(* Every operation ends, or its client is disconnected: again and again    *)
(* none is under way.  (A client that got no channel cannot be answered;   *)
(* nor can one that has stopped to play while its list was made.)          *)
(***************************************************************************)
Ended(o) ==
    LET op == agent.operations[o]
    IN  \/ op.over
        \/ agent.clients[op.client].connection \in {"leaving", "gone"}
        \/ agent.clients[op.client].allocated = 0
        \/ op.kind = "friendslist" /\ get_avatar_id(agent.clients[op.client]) # op.arg

EventuallyServed ==
    []<>(agent.crashed \/ \A o \in DOMAIN agent.operations : Ended(o))
=============================================================================
