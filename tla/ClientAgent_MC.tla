--------------------------- MODULE ClientAgent_MC ---------------------------
(* Small instances of ClientAgent: accounts with two slots.                 *)
EXTENDS ClientAgent, TLC

Quiet ==
    [game |-> "otp", players |-> <<>>, clients |-> 2, calls |-> 0, others |-> 0,
     deaths |-> 0, leaves |-> FALSE, channels |-> 3,
     messages |-> {}, slots |-> {}, avatars |-> {},
     bridge |-> "player" :> 1,
     objects |-> 1 :> account_object(<<2, 0>>) @@ 2 :> avatar_object(1)]

(* Connections for the same account play its avatar, at once and in turn. *)
Takeover ==
    [Quiet EXCEPT
       !.calls = 5, !.leaves = TRUE, !.avatars = {2, 3},
       !.messages = {"login", "setavatar"},
       !.objects = 1 :> account_object(<<2, 3>>) @@ 2 :> avatar_object(1)
                      @@ 3 :> avatar_object(1)]

(* Avatars are created, here and by another agent, until the database is full. *)
Creating ==
    [Quiet EXCEPT
       !.calls = 4, !.others = 1, !.slots = {1, 2, 3},
       !.messages = {"login", "create"},
       !.objects = 1 :> account_object(<<0, 0>>)]

(* Avatars are named and described, and one vanishes. *)
Naming ==
    [Quiet EXCEPT
       !.game = "toon", !.clients = 1, !.calls = 4, !.deaths = 1, !.avatars = {2, 3},
       !.messages = {"login", "setname", "details"}]

(* Avatars vanish while they are listed. *)
Failing ==
    [Quiet EXCEPT
       !.calls = 4, !.deaths = 2, !.messages = {"login", "getavatars"},
       !.objects = 1 :> account_object(<<2, 3>>) @@ 2 :> avatar_object(1)
                      @@ 3 :> avatar_object(1)]

(* New players, and fewer channels than connections. *)
Crowded ==
    [Quiet EXCEPT
       !.clients = 3, !.calls = 3, !.leaves = TRUE, !.channels = 2,
       !.messages = {"login", "getavatars"},
       !.bridge = "player" :> 1 @@ "newcomer" :> 0]

Plays_(a, v) == [account |-> a, avatar |-> v]

(* Two friends come and go, *)
Friendship ==
    [Quiet EXCEPT
       !.game = "toon", !.players = <<Plays_(1, 0), Plays_(2, 0)>>, !.calls = 3,
       !.avatars = {3, 4}, !.messages = {"setavatar"},
       !.objects = 1 :> account_object(<<3, 0>>) @@ 2 :> account_object(<<4, 0>>)
                      @@ 3 :> [avatar_object(1) EXCEPT !.setFriendsList = {4}]
                      @@ 4 :> [avatar_object(2) EXCEPT !.setFriendsList = {3}]]

(* one leaves while the other comes, *)
Parting ==
    [Friendship EXCEPT
       !.players = <<Plays_(1, 3), Plays_(2, 0)>>, !.calls = 1, !.leaves = TRUE]

(* one is taken over by another connection, *)
Reunion ==
    [Friendship EXCEPT
       !.players = <<Plays_(1, 3), Plays_(2, 4)>>, !.clients = 3,
       !.messages = {"login", "setavatar"}]

(* or they remove each other from their lists, and may stop to play *)
Unfriending ==
    [Reunion EXCEPT
       !.clients = 2, !.calls = 2, !.messages = {"setavatar", "removefriend"}]

(* or leave meanwhile. *)
Interrupted == [Unfriending EXCEPT !.calls = 1, !.leaves = TRUE]

(* A list is asked for, of which a friend may vanish. *)
Listing ==
    [Friendship EXCEPT
       !.players = <<Plays_(1, 2)>>, !.clients = 1, !.calls = 2, !.deaths = 1,
       !.avatars = {2}, !.messages = {"setavatar", "friendslist", "getavatars"},
       !.objects = 1 :> account_object(<<2, 0>>)
                      @@ 2 :> [avatar_object(1) EXCEPT !.setFriendsList = {3, 4}]
                      @@ 3 :> avatar_object(2) @@ 4 :> avatar_object(2)]

MCScenarios ==
    {Takeover, Creating, Naming, Failing, Crowded,
     Friendship, Parting, Reunion, Unfriending, Interrupted, Listing}
=============================================================================
