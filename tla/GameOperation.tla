---------------------------- MODULE GameOperation ----------------------------
(***************************************************************************)
(* The operations of a client manager (OTPClientManager): what they ask of *)
(* the database and of the database state server, and which of them runs.  *)
(*                                                                         *)
(* Operators map an agent to an agent: its clients, the operations started *)
(* so far, which of them are registered as running, the datagrams to the   *)
(* database (requests) and to everybody else (mail).  Operation o holds a  *)
(* reference to its client; a call on a client that was deleted is         *)
(* undefined, as is one on a null entry: the agent has crashed, and no     *)
(* more is said of it.                                                     *)
(***************************************************************************)
EXTENDS Naturals, Sequences, SequencesExt

CONSTANTS Clients,      \* the connections made, in order: 1..n
          MaxDoid,      \* the database has the object ids 1..MaxDoid
          m_valid_index \* the slots for avatars of an account

ASSUME ManagerAssumption == MaxDoid \in Nat /\ m_valid_index \in Nat

Doids == 1..MaxDoid
Slots == 1..m_valid_index

(* Database objects; no_object also stands for what a request does not carry. *)
no_object == [class |-> "none"]
account_object(av_set) == [class |-> "account", ACCOUNT_AV_SET |-> av_set]
avatar_object(a) ==
    [class |-> "avatar", setDISLid |-> a, WishNameState |-> "OPEN",
     setFriendsList |-> {}]

AvatarSets == [Slots -> 0..MaxDoid]

Objects ==
    {no_object} \cup {account_object(av_set) : av_set \in AvatarSets}
    \cup [class : {"avatar"}, setDISLid : Doids, WishNameState : {"OPEN", "LOCKED"},
          setFriendsList : SUBSET Doids]

(* Channels: a connection's own, an account's, an avatar's, a sender's. *)
allocated_channel(c) == <<"client", c>>
get_account_connection_channel(a) == <<"account", a>>
get_puppet_connection_channel(v) == <<"puppet", v>>
sender_channel(a, v) == <<"sender", a, v>>

NoClient ==
    [connection |-> "none", m_state |-> "anonymous",
     allocated |-> 0, m_channel |-> allocated_channel(0),
     subscriptions |-> {}, post_removes |-> <<>>, owned |-> {},
     m_av_id |-> 0, m_declared_objects |-> {}]

get_account_id(client) ==
    IF client.m_channel[1] = "sender" THEN client.m_channel[2] ELSE 0

get_avatar_id(client) ==
    IF client.m_channel[1] = "sender" THEN client.m_channel[3] ELSE 0

Crash(agent) == [agent EXCEPT !.crashed = TRUE]

Post(agent, message) == [agent EXCEPT !.mail = Append(@, message)]

(* The connection closes later; what the client has sent is still handled. *)
send_disconnect(agent, k) ==
    IF agent.clients[k].connection = "gone"
    THEN Crash(agent)
    ELSE [agent EXCEPT !.clients[k].connection = "leaving"]

------------------------------------------------------------------------------
(* Operator: what an operation asks of the database. *)

(* context stands for m_contexts and m_context_operator: an answer is taken *)
(* once, by its context, here the object asked about.                       *)
Request(agent, o, what, do_id, value) ==
    [ask |-> what, op |-> o, do_id |-> do_id, value |-> value,
     to |-> agent.clients[agent.operations[o].client].m_channel]

Ask(agent, o, what, do_id, value) ==
    [agent EXCEPT
       !.operations[o].m_contexts = @ \cup {do_id},
       !.requests = Append(@, Request(agent, o, what, do_id, value))]

query_object(agent, o, do_id) == Ask(agent, o, "get", do_id, no_object)

(* One request for each, in whatever order.                                 *)
query_objects(agent, o, do_ids) ==
    LET each == SetToSeq(do_ids)
    IN  [agent EXCEPT
           !.operations[o].m_contexts = @ \cup do_ids,
           !.requests = @ \o [i \in 1..Len(each) |->
                                  Request(agent, o, "get", each[i], no_object)]]

create_object(agent, o, object) == Ask(agent, o, "create", 0, object)

update_object_if_equals(agent, o, do_id, old, new) ==
    Ask(agent, o, "set_if_equals", do_id, [old |-> old, new |-> new])

(* Nobody waits for this one. *)
update_object(agent, do_id, fields) ==
    [agent EXCEPT !.requests = Append(@,
        [ask |-> "set", op |-> 0, do_id |-> do_id, value |-> fields,
         to |-> allocated_channel(0)])]

(* The database state server is asked whether the object is in RAM. *)
IsActivated(agent, o, do_id) ==
    [kind |-> "get_activated", op |-> o, do_id |-> do_id,
     to |-> agent.clients[agent.operations[o].client].m_channel]

get_activated(agent, o, do_id) ==
    Post([agent EXCEPT !.operations[o].m_contexts = @ \cup {do_id}],
         IsActivated(agent, o, do_id))

send_update(agent, do_id, fields) ==
    Post(agent, [kind |-> "update_field", do_id |-> do_id, value |-> fields])

------------------------------------------------------------------------------
(* OTPClientManager: which operation runs. *)

kill_connection(agent, channel) ==
    LET o == agent.m_connection2operation[channel]
    IN  IF o = 0 THEN agent ELSE send_disconnect(agent, agent.operations[o].client)

kill_account(agent, a) ==
    LET o == agent.m_account2operation[a]
    IN  IF o = 0
        THEN Crash(agent)
        ELSE send_disconnect(agent, agent.operations[o].client)

(* m_target_connection is never set: also a login's off() erases from       *)
(* m_account2operation, where there is no connection.                       *)
off(agent, o) ==
    LET op == agent.operations[o]
    IN  [agent EXCEPT
           !.operations[o].over = TRUE,
           !.m_account2operation =
               IF op.kind = "login" THEN @ ELSE [@ EXCEPT ![op.m_target] = 0]]

(* A login is looked for among the accounts, in vain. *)
kill(agent, o) ==
    LET op == agent.operations[o]
        again == [agent EXCEPT !.killed_twice = @ \/ op.over]
    IN  IF op.kind = "login"
        THEN Crash(agent)
        ELSE off(kill_account(again, op.m_target), o)

NewOperation(kind, k, target, arg) ==
    [kind |-> kind, client |-> k, m_target |-> target, arg |-> arg,
     m_contexts |-> {}, m_past_acc_query |-> FALSE, m_av_set |-> <<>>,
     m_pending_avatars |-> {}, m_friends_list |-> {}, m_last |-> FALSE,
     m_acc_id |-> 0, over |-> FALSE]

Started(agent, op) == [agent EXCEPT !.operations = Append(@, op)]
=============================================================================
