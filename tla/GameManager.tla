----------------------------- MODULE GameManager -----------------------------
(***************************************************************************)
(* A client manager (OTPClientManager and its Toontown version): logging   *)
(* in, and listing, creating, naming, describing, loading and unloading an *)
(* account's avatars.  Chat is left out.                                   *)
(***************************************************************************)
EXTENDS Friends

------------------------------------------------------------------------------
(* LoginOperation *)

JoinedAccount(agent, k, a) ==
    [agent EXCEPT
       !.clients[k].m_state = "established",
       !.clients[k].m_channel = sender_channel(a, 0),
       !.clients[k].subscriptions = @ \cup {get_account_connection_channel(a),
                                            sender_channel(a, 0)}]

set_account_Unannounced(agent, o, a) ==
    off(JoinedAccount(agent, agent.operations[o].client, a), o)

(* The client joins its account's channel before the ejection of the others *)
(* is routed.  The time of this login, which is stored, is left out.        *)
set_account(agent, o, a) ==
    LET k == agent.operations[o].client
        eject == [kind |-> "eject", from |-> k,
                  to |-> get_account_connection_channel(a)]
    IN  off(JoinedAccount(Post(agent, eject), k, a), o)

NoAvatars == [i \in Slots |-> 0]

(* handle_lookup, which the developers' bridge calls at once. *)
handle_lookup(agent, o, a) ==
    IF a > 0
    THEN query_object(agent, o, a)
    ELSE create_object(agent, o, account_object(NoAvatars))

login(agent, k, play_token) ==
    LET channel == agent.clients[k].allocated
        o == Len(agent.operations) + 1
        running == [Started(agent, NewOperation("login", k, channel, play_token))
                    EXCEPT !.m_connection2operation[channel] = o]
    IN  IF agent.m_connection2operation[channel] # 0
        THEN kill_connection(agent, channel)
        ELSE handle_lookup(running, o, agent.m_bridge[play_token])
------------------------------------------------------------------------------
(* AvatarOperation: what is done with the account, and with an avatar. *)

send_avatars(agent, o) == off(agent, o)

AvatarsOf(op) == ToSet(op.m_av_set) \ {0}

query_avatars_AwaitingNone(agent, o) ==
    LET found == AvatarsOf(agent.operations[o])
    IN  query_objects([agent EXCEPT !.operations[o].m_pending_avatars = found],
                      o, found)

(* GetAvatarsOperation asks for every avatar at once. *)
query_avatars(agent, o) ==
    LET found == AvatarsOf(agent.operations[o])
        pending == [agent EXCEPT !.operations[o].m_pending_avatars = found]
    IN  IF found = {} THEN send_avatars(pending, o)
        ELSE query_objects(pending, o, found)

got_avatar(agent, o, v) ==
    LET left == [agent EXCEPT !.operations[o].m_pending_avatars = @ \ {v}]
    IN  IF left.operations[o].m_pending_avatars = {}
        THEN send_avatars(left, o)
        ELSE left

post_account_func(agent, o) ==
    LET op == agent.operations[o]
    IN  IF op.kind = "getavatars"
        THEN query_avatars(agent, o)
        ELSE IF op.arg \notin ToSet(op.m_av_set)
        THEN kill(agent, o)
        ELSE query_object(agent, o, op.arg)

set_avatar_Uncovered(agent, o) ==
    LET op == agent.operations[o]
        v == op.arg
        client == agent.clients[op.client]
        activate == [kind |-> "activate", from |-> op.client, do_id |-> v,
                     owner |-> get_account_connection_channel(op.m_target)]
    IN  off(coming_online([Post(agent, activate) EXCEPT
               !.clients[op.client].m_channel = sender_channel(op.m_target, v),
               !.clients[op.client].subscriptions =
                   (@ \ {client.m_channel}) \cup
                       {get_puppet_connection_channel(v),
                        sender_channel(op.m_target, v)},
               !.clients[op.client].m_av_id = v], op.client, v), o)

delete_ram(k, v) == [kind |-> "delete_ram", from |-> k, do_id |-> v]

(* The post-remove unloads the avatar should the client leave meanwhile.    *)
(* Activation, first location and owner are sent together.                  *)
set_avatar(agent, o) ==
    LET op == agent.operations[o]
    IN  set_avatar_Uncovered(
            [agent EXCEPT !.clients[op.client].post_removes =
                 Append(@, delete_ram(op.client, op.arg))], o)

(* Both ways of naming need the name to be open; only a pattern locks it. *)
set_name(agent, o) ==
    LET op == agent.operations[o]
        state == IF op.kind = "pattern" THEN "LOCKED" ELSE "OPEN"
    IN  off(update_object(agent, op.arg, [WishNameState |-> state]), o)

(* UnloadAvatarOperation.  wipe_post_removes names a channel under which    *)
(* there are none: the avatar's post-remove stays.  What lost_object asks   *)
(* is answered to a channel that is given up at once.                       *)
unload_avatar(agent, o) ==
    LET op == agent.operations[o]
        client == agent.clients[op.client]
        lost == lost_object(agent, op.client, op.arg)
    IN  off([Post(lost, delete_ram(op.client, op.arg)) EXCEPT
               !.clients[op.client].m_av_id = 0,
               !.clients[op.client].m_channel = sender_channel(op.m_target, 0),
               !.clients[op.client].subscriptions =
                   (@ \ {get_puppet_connection_channel(op.arg), client.m_channel})
                   \cup {sender_channel(op.m_target, 0)}], o)

------------------------------------------------------------------------------
(* CreateAvatarOperation.  arg is the slot. *)

create_avatar(agent, o) ==
    LET op == agent.operations[o]
    IN  IF op.m_av_set[op.arg] > 0
        THEN kill(agent, o)
        ELSE create_object(agent, o, avatar_object(op.m_target))

store_avatar(agent, o, v) ==
    LET op == agent.operations[o]
        m_av_set == [op.m_av_set EXCEPT ![op.arg] = v]
    IN  update_object_if_equals([agent EXCEPT !.operations[o].m_av_set = m_av_set],
                                o, op.m_target, op.m_av_set, m_av_set)

------------------------------------------------------------------------------
(* The answers, by context. *)

handle_create(agent, o, do_id) ==
    LET op == agent.operations[o]
    IN  IF do_id = 0
        THEN kill(agent, o)
        ELSE IF op.kind = "login"
        THEN set_account([agent EXCEPT !.m_bridge[op.arg] = do_id], o, do_id)
        ELSE store_avatar(agent, o, do_id)

handle_update_Unread(agent, o, success) ==
    LET op == agent.operations[o]
    IN  off([agent EXCEPT
               !.told = @ \cup {<<op.m_target, op.arg, op.m_av_set[op.arg]>>}], o)

(* A new avatar is announced to the client. *)
handle_update(agent, o, success) ==
    LET op == agent.operations[o]
    IN  IF ~success
        THEN kill(agent, o)
        ELSE off([agent EXCEPT
                    !.told = @ \cup {<<op.m_target, op.arg, op.m_av_set[op.arg]>>}], o)

handle_account(agent, o, a, object) ==
    LET op == agent.operations[o]
        got == [agent EXCEPT
                  !.operations[o].m_past_acc_query = TRUE,
                  !.operations[o].m_av_set = object.ACCOUNT_AV_SET]
    IN  IF object.class # "account"
        THEN kill(agent, o)
        ELSE CASE op.kind = "login"  -> set_account(agent, o, a)
               [] op.kind = "create" -> create_avatar(got, o)
               [] OTHER              -> post_account_func(got, o)

handle_avatar(agent, o, v, object) ==
    LET op == agent.operations[o]
    IN  IF object.class # "avatar"
        THEN kill(agent, o)
        ELSE CASE op.kind = "getavatars" -> got_avatar(agent, o, v)
               [] op.kind = "load"       -> set_avatar(agent, o)
               [] OTHER                  -> IF object.WishNameState = "OPEN"
                                            THEN set_name(agent, o)
                                            ELSE kill(agent, o)

(* Details of an avatar that is gone are looked for in an empty record. *)
handle_details(agent, o, object) ==
    IF object.class = "avatar" THEN off(agent, o) ELSE Crash(agent)

handle_query(agent, o, do_id, object) ==
    LET op == agent.operations[o]
    IN  IF op.kind \in FriendKinds THEN handle_friends_query(agent, o, do_id, object)
        ELSE IF op.kind = "details" THEN handle_details(agent, o, object)
        ELSE IF op.m_past_acc_query THEN handle_avatar(agent, o, do_id, object)
        ELSE handle_account(agent, o, do_id, object)

(* m_context_operator finds the operation, which takes the answer once. *)
handle_answer(agent, answer) ==
    LET o == answer.op
        op == agent.operations[o]
        taken == [agent EXCEPT !.operations[o].m_contexts = @ \ {answer.do_id}]
    IN  IF answer.do_id \notin op.m_contexts
        THEN agent
        ELSE IF agent.clients[op.client].connection = "gone"
        THEN Crash(agent)
        ELSE CASE answer.kind = "query"  -> handle_query(taken, o, answer.do_id, answer.value)
               [] answer.kind = "create" -> handle_create(taken, o, answer.value)
               [] answer.kind = "update" -> handle_update(taken, o, answer.value)
               [] answer.kind = "activated" ->
                      get_activated_resp(taken, o, answer.do_id, answer.value)

------------------------------------------------------------------------------
(* The clients' requests. *)

start(agent, o) ==
    LET op == agent.operations[o]
    IN  CASE op.kind = "unload"  -> unload_avatar(agent, o)
          [] op.kind \in {"details", "friendslist"} -> query_object(agent, o, op.arg)
          [] op.kind = "removefriend" -> query_object(agent, o, op.arg[1])
          [] op.kind = "typed" /\ op.arg = 0 -> off(agent, o)
          [] op.kind = "create" /\ op.arg \notin Slots -> kill(agent, o)
          [] OTHER -> query_object(agent, o, op.m_target)

run_operation_Always(agent, kind, k, arg) ==
    LET sender == get_account_id(agent.clients[k])
        o == Len(agent.operations) + 1
    IN  start([Started(agent, NewOperation(kind, k, sender, arg))
                 EXCEPT !.m_account2operation[sender] = o], o)

run_operation(agent, kind, k, arg) ==
    LET sender == get_account_id(agent.clients[k])
        o == Len(agent.operations) + 1
    IN  IF agent.m_account2operation[sender] # 0
        THEN kill_account(agent, sender)
        ELSE start([Started(agent, NewOperation(kind, k, sender, arg))
                      EXCEPT !.m_account2operation[sender] = o], o)

request_play_avatar(agent, k, av_id) ==
    LET curr_av_id == get_avatar_id(agent.clients[k])
    IN  IF curr_av_id # 0 /\ av_id # 0
        THEN kill_account(agent, get_account_id(agent.clients[k]))
        ELSE IF curr_av_id = 0 /\ av_id = 0
        THEN agent
        ELSE IF av_id # 0
        THEN run_operation(agent, "load", k, av_id)
        ELSE run_operation(agent, "unload", k, curr_av_id)
=============================================================================
