------------------------------- MODULE Friends -------------------------------
(***************************************************************************)
(* The friends of avatars (ToontownFriendOperator and the operations it    *)
(* uses): two friends who play are declared to each other's clients, which *)
(* lets these whisper; a friend is removed on both sides; a client asks    *)
(* for its list.                                                           *)
(*                                                                         *)
(* An operator and the GetAvatarInfo- and UpdateAvatarFieldOperations it   *)
(* starts are one operation here.  The cache of avatars is left out: its   *)
(* entries expire after 3600 ticks of the clock, a few microseconds.       *)
(***************************************************************************)
EXTENDS GameOperation

Declare(agent, to, v) == Post(agent, [kind |-> "declare", to |-> to, do_id |-> v])

Undeclare(agent, to, v) == Post(agent, [kind |-> "undeclare", to |-> to, do_id |-> v])

puppet(v) == get_puppet_connection_channel(v)

AskEachActivated(agent, o, friends) ==
    LET each == SetToSeq(friends)
    IN  [agent EXCEPT
           !.operations[o].m_contexts = @ \cup friends,
           !.mail = @ \o [i \in 1..Len(each) |-> IsActivated(agent, o, each[i])]]

(* An avatar's own list is read first; these two run beside the account's  *)
(* operation.  Without the game's own manager they do nothing.              *)
Announce(agent, kind, k, v) ==
    LET o == Len(agent.operations) + 1
        started == Started(agent, [NewOperation(kind, k, 0, v) EXCEPT !.over = TRUE])
    IN  IF agent.m_game_name = "toon" THEN query_object(started, o, v) ELSE agent

coming_online(agent, k, v) == Announce(agent, "online", k, v)

lost_object(agent, k, v) == Announce(agent, "offline", k, v)

tell_online_Friend(agent, o, f) ==
    Declare(agent, puppet(f), agent.operations[o].arg)

(* The friend's client also hears that the avatar is online. *)
tell_online(agent, o, f) ==
    LET v == agent.operations[o].arg
    IN  Declare(Declare(agent, puppet(f), v), puppet(v), f)

(* The avatar's own channel is no longer listened to, its account's may be. *)
tell_offline(agent, o, f) ==
    LET op == agent.operations[o]
    IN  Undeclare(Undeclare(agent, puppet(f), op.arg),
                  get_account_connection_channel(op.m_acc_id), f)

------------------------------------------------------------------------------
(* Removing: first the friend from the avatar's list, then the other way.   *)
(* arg is the avatar and its friend.                                        *)

TheOther(op, v) == IF op.arg[1] = v THEN op.arg[2] ELSE op.arg[1]

(* The account is free for other operations as soon as its own list is read. *)
handle_remove_friend(agent, o, v, friends) ==
    LET op == agent.operations[o]
        asked == get_activated([agent EXCEPT !.operations[o].m_friends_list =
                                    friends \ {TheOther(op, v)}], o, v)
    IN  IF op.m_last THEN asked ELSE off(asked, o)

handle_friend_removed(agent, o, v) ==
    LET op == agent.operations[o]
        f == TheOther(op, v)
    IN  IF ~op.m_last
        THEN query_object([agent EXCEPT !.operations[o].m_last = TRUE], o, f)
        ELSE [Undeclare(Undeclare(agent, puppet(f), v), puppet(v), f)
                EXCEPT !.removed = @ \cup {op.arg}]

(* An object in RAM stores the field itself. *)
update_avatar_field(agent, o, v, activated) ==
    LET fields == [setFriendsList |-> agent.operations[o].m_friends_list]
    IN  handle_friend_removed(IF activated THEN send_update(agent, v, fields)
                              ELSE update_object(agent, v, fields), o, v)

------------------------------------------------------------------------------
(* Listing.  arg is the avatar.  Each friend is described by an operation   *)
(* of its own, which calls off() for the account when it is done.           *)

get_friend_details(agent, o, friends) ==
    IF friends = {}
    THEN off(agent, o)
    ELSE query_objects([agent EXCEPT !.operations[o].m_friends_list = friends],
                       o, friends)

off_Friend(agent, o) ==
    LET a == agent.operations[o].m_target
    IN  [agent EXCEPT !.m_account2operation[a] = 0, !.disowned = @ \cup {a}]

got_friend(agent, o) ==
    LET op == agent.operations[o]
    IN  off_Friend(IF op.m_contexts = {}
                   THEN AskEachActivated(agent, o, op.m_friends_list)
                   ELSE agent, o)

got_friend_activated(agent, o) ==
    IF agent.operations[o].m_contexts = {} THEN off(agent, o) ELSE agent

------------------------------------------------------------------------------
FriendKinds == {"online", "offline", "removefriend", "friendslist"}

(* Of a friend who is gone an empty record is read. *)
friends_failure(agent, o, v) ==
    LET op == agent.operations[o]
    IN  CASE op.kind = "friendslist"  -> IF v = op.arg THEN off(agent, o) ELSE Crash(agent)
          [] op.kind = "removefriend" -> IF op.m_last THEN agent ELSE off(agent, o)
          [] OTHER -> agent

handle_friends_query(agent, o, v, object) ==
    LET op == agent.operations[o]
    IN  IF object.class # "avatar"
        THEN friends_failure(agent, o, v)
        ELSE CASE op.kind = "removefriend" ->
                      handle_remove_friend(agent, o, v, object.setFriendsList)
               [] op.kind = "friendslist" ->
                      IF v = op.arg
                      THEN get_friend_details(agent, o, object.setFriendsList)
                      ELSE got_friend(agent, o)
               [] OTHER ->
                      AskEachActivated(
                          [agent EXCEPT !.operations[o].m_acc_id = object.setDISLid],
                          o, object.setFriendsList)

get_activated_resp(agent, o, v, activated) ==
    LET op == agent.operations[o]
    IN  CASE op.kind = "removefriend" -> update_avatar_field(agent, o, v, activated)
          [] op.kind = "friendslist"  -> got_friend_activated(agent, o)
          [] OTHER -> IF ~activated THEN agent
                      ELSE IF op.kind = "online" THEN tell_online(agent, o, v)
                      ELSE tell_offline(agent, o, v)
=============================================================================
