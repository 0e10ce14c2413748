-------------------------- MODULE StateServer_proofs --------------------------
(***************************************************************************)
(* The state server, for any objects, zones, roles and scenarios: who      *)
(* listens on a location, and AIs and owners, know what is there, and      *)
(* parents list their children, once everything is routed.                 *)
(***************************************************************************)
EXTENDS StateServer, NaturalsInduction, SequenceTheorems, FiniteSetTheorems, TLAPS

-----------------------------------------------------------------------------
(* What is known.  A key says that a listener sees an object, that a parent  *)
(* lists it in a zone, or that a parent's question to its children is on its *)
(* way.                                                                      *)
Sees(c, d) == [at |-> c, zone |-> NoZone, doid |-> d]
Lists(p, z, d) == [at |-> ObjectChannel(p), zone |-> z, doid |-> d]
Asking(p) == [at |-> ChildrenOf(p), zone |-> NoZone, doid |-> p]

Key == {Sees(c, d) : c \in Listeners, d \in Doid}
         \cup {Lists(p, z, d) : p \in Doid, z \in Zone, d \in Doid}
         \cup {Asking(p) : p \in Doid}

Entries == {"enter_location", "enter_ai", "enter_owner"}
Exits == {"delete_ram", "changing_ai", "changing_owner"}

\* What a datagram makes known, and what it makes no longer so.
Adds(m) ==
  {k \in Key :
    /\ k.at \in m.to
    /\ \/ m.kind \in Entries /\ k.doid = m.doid /\ k.at \in Listeners
       \/ /\ m.kind \in {"changing_location", "get_location_resp"} /\ k.doid = m.doid
          /\ k.at = ObjectChannel(m.parent) /\ k.zone = m.zone
       \/ m.kind = "get_location" /\ k = Asking(m.sender)}

Removes(m) ==
  {k \in Key :
    /\ k.at \in m.to
    /\ \/ m.kind \in Exits /\ k.doid = m.doid /\ k.at \in Listeners
       \/ /\ m.kind = "changing_location" /\ k.doid = m.doid
          /\ \/ k.at \in Listeners \ Roles(Role)
             \/ k.at = ObjectChannel(m.old_parent) /\ k.zone = m.old_zone}

Step(K, m) == (K \ Removes(m)) \cup Adds(m)

\* What will be known, when K is known, after a sequence of datagrams.
After(K, q) ==
  {k \in Key :
    \/ \E i \in 1..Len(q) : k \in Adds(q[i]) /\ \A j \in (i + 1)..Len(q) : k \notin Removes(q[j])
    \/ k \in K /\ \A j \in 1..Len(q) : k \notin Removes(q[j])}

Listed == {k \in Key : \E p \in Live, z \in Zone, d \in Doid :
                         k = Lists(p, z, d) /\ d \in ObjectsIn(objs[p], z)}

\* What is known when those who still have to handle a datagram have.
Held == {k \in Key :
           \/ \E c \in Listeners, d \in Doid : k = Sees(c, d) /\ d \in view[c]
           \/ \E p \in Live, z \in Zone, d \in Doid :
                /\ k = Lists(p, z, d)
                /\ k \in IF p \in routing.to THEN Step(Listed, routing.msg) ELSE Listed}

Ev == After(After(Held, net), making)

-----------------------------------------------------------------------------
\* The AIs that a scenario's datagrams can name.
KnownAI(s) == IF NoAIs(s) THEN {NoChannel} ELSE AI \cup {NoChannel}

-----------------------------------------------------------------------------
(* Datagrams.                                                                *)
Deletions == {"delete_ram", "delete_children", "delete_ai_objects"}

ToObjects == {"changing_ai", "get_ai_resp", "set_ai", "get_ai", "changing_location",
              "location_ack", "set_location", "get_location", "get_location_resp",
              "set_owner", "get_zones_objects"} \cup Deletions

Place(p, z) == (p \in Doid /\ z \in Zone) \/ (p = NoDoid /\ z = NoZone)

Addressed(m) ==
  /\ m.kind \notin ToObjects => \A d \in Doid : ObjectChannel(d) \notin m.to /\ ChildrenOf(d) \notin m.to
  /\ m.kind \in {"changing_location", "get_location_resp"} => \A d \in Doid : ChildrenOf(d) \notin m.to
  /\ m.kind = "get_location" => \E p \in Doid : m = WakeChildren(p)

Named(m) ==
  /\ m.kind \in Entries \cup Exits \cup {"changing_location", "get_location_resp", "create"} => m.doid \in Doid
  /\ m.kind \in {"create", "set_location", "changing_location", "get_location_resp"} => Place(m.parent, m.zone)
  /\ m.kind = "changing_location" => ~(m.parent = m.old_parent /\ m.zone = m.old_zone)
  /\ m.kind = "create" => m.generator \in AI \cup {NoChannel}
  /\ m.kind = "set_owner" => m.owner \in Client \cup {NoChannel} /\ m.entry
  /\ m.kind = "get_zones_objects" => m.zones \subseteq Zone /\ \E q : m.sender = Asker(q)

Allowed(s, m) ==
  /\ m.kind \in {"changing_ai", "get_ai_resp", "set_ai"} => m.ai \in KnownAI(s)
  /\ m.kind = "set_location" /\ m.parent = NoDoid => "move_away" \in s.requests
  /\ m.kind \in Deletions => ~Undeleted(s)

Good(s, m) == Addressed(m) /\ Named(m) /\ Allowed(s, m)
AllGood(s, q) == \A i \in 1..Len(q) : Good(s, q[i])

IsSeq(q) == \E S : q \in Seq(S)

-----------------------------------------------------------------------------
(* The inductive invariant.                                                  *)
Fine(s, o) == o \in Object /\ Place(o.parent, o.zone) /\ o.ai \in KnownAI(s)

ObjectsInv ==
  /\ scenario \in Scenarios
  /\ Live \subseteq Doid
  /\ \A d \in Live : Fine(scenario, objs[d])
  /\ m_root_object \in Doid \cup {NoDoid}
  /\ view \in [Listeners -> SUBSET Doid]

WireInv ==
  /\ IsSeq(net) /\ IsSeq(making)
  /\ AllGood(scenario, net) /\ AllGood(scenario, making)
  /\ routing = [msg |-> routing.msg, to |-> routing.to]
  /\ routing.to \subseteq Live \cup {Server}
  /\ routing.to # {} => Good(scenario, routing.msg)
  /\ \A d \in routing.to \ {Server} : Subscriptions(d, objs[d]) \cap routing.msg.to # {}

PlacesInv ==
  \A p \in Doid, z \in Zone, d \in Doid : Sees(LocationChannel(p, z), d) \in Ev <=> d \in There(p, z)

HasRole(r, d) == d \in Live /\ r \in {objs[d].ai, objs[d].owner}

RolesInv ==
  AIsStay(scenario) => \A r \in Role, d \in Doid :
    /\ Sees(RoleChannel(r), d) \in Ev => HasRole(r, d)
    /\ HasRole(r, d) /\ objs[d].generator # r => Sees(RoleChannel(r), d) \in Ev

AskedFor(d, p) ==
  Asking(p) \in Ev \/ (d \in routing.to /\ routing.msg = WakeChildren(p))

ListsInv ==
  Undeleted(scenario) => \A p \in Doid, z \in Zone, d \in Doid :
    /\ Lists(p, z, d) \in Ev => d \in There(p, z)
    /\ p \in Live /\ d \in There(p, z) => (Lists(p, z, d) \in Ev \/ AskedFor(d, p))

IInv == ObjectsInv /\ WireInv /\ PlacesInv /\ RolesInv /\ ListsInv

-----------------------------------------------------------------------------
(* Sequences of datagrams.                                                   *)
LEMMA SeqLength ==
  ASSUME NEW q, IsSeq(q)
  PROVE  Len(q) \in Nat
BY DEF IsSeq

LEMMA SeqAppend ==
  ASSUME NEW q, NEW m, IsSeq(q)
  PROVE  /\ IsSeq(Append(q, m)) /\ Len(Append(q, m)) = Len(q) + 1
         /\ Append(q, m)[Len(q) + 1] = m
         /\ \A i \in 1..Len(q) : Append(q, m)[i] = q[i]
<1>1. PICK S : q \in Seq(S)
  BY DEF IsSeq
<1>2. q \in Seq(S \cup {m})
  BY <1>1
<1>3. QED
  BY <1>2 DEF IsSeq

LEMMA SeqConcat ==
  ASSUME NEW p, NEW q, IsSeq(p), IsSeq(q)
  PROVE  /\ IsSeq(p \o q) /\ Len(p \o q) = Len(p) + Len(q)
         /\ \A i \in 1..Len(p) : (p \o q)[i] = p[i]
         /\ \A i \in 1..Len(q) : (p \o q)[Len(p) + i] = q[i]
<1>1. PICK S : p \in Seq(S)
  BY DEF IsSeq
<1>2. PICK T : q \in Seq(T)
  BY DEF IsSeq
<1>3. p \in Seq(S \cup T) /\ q \in Seq(S \cup T)
  BY <1>1, <1>2
<1>4. p \o q \in Seq(S \cup T)
  BY <1>3
<1>5. QED
  BY <1>3, <1>4 DEF IsSeq

LEMMA SeqTail ==
  ASSUME NEW q, IsSeq(q), q # <<>>
  PROVE  /\ IsSeq(Tail(q)) /\ Len(Tail(q)) = Len(q) - 1 /\ Len(q) \in Nat \ {0}
         /\ Head(q) = q[1] /\ \A i \in 1..Len(Tail(q)) : Tail(q)[i] = q[i + 1]
<1>1. PICK S : q \in Seq(S)
  BY DEF IsSeq
<1>2. Tail(q) \in Seq(S) /\ Len(q) \in Nat \ {0}
  BY <1>1
<1>3. QED
  BY <1>1, <1>2 DEF IsSeq

LEMMA SeqSend ==
  ASSUME NEW m
  PROVE  /\ IsSeq(<<>>) /\ Len(<<>>) = 0
         /\ IsSeq(<<m>>) /\ Len(<<m>>) = 1 /\ <<m>>[1] = m
         /\ IsSeq(Send(m))
         /\ \A i \in 1..Len(Send(m)) : Send(m)[i] = m
<1>1. <<>> \in Seq({m}) /\ <<m>> \in Seq({m})
  OBVIOUS
<1>2. Len(<<>>) = 0 /\ Len(<<m>>) = 1 /\ <<m>>[1] = m
  OBVIOUS
<1>3. IsSeq(<<>>) /\ IsSeq(<<m>>)
  BY <1>1 DEF IsSeq
<1>4. CASE m.to = {}
  <2>1. Send(m) = <<>>
    BY <1>4 DEF Send
  <2>2. 1..Len(Send(m)) = {}
    BY <1>2, <2>1
  <2>3. QED
    BY <1>2, <1>3, <2>1, <2>2
<1>5. CASE m.to # {}
  <2>1. Send(m) = <<m>>
    BY <1>5 DEF Send
  <2>2. \A i \in 1..Len(Send(m)) : i = 1
    BY <1>2, <2>1
  <2>3. QED
    BY <1>2, <1>3, <2>1, <2>2
<1>6. QED
  BY <1>4, <1>5

-----------------------------------------------------------------------------
(* What is known after a sequence of datagrams, for each key.                *)
LEMMA StepIs ==
  ASSUME NEW K, NEW m, NEW k
  PROVE  k \in Step(K, m) <=> (k \in Adds(m) \/ (k \in K /\ k \notin Removes(m)))
BY DEF Step

LEMMA AfterNone ==
  ASSUME NEW K, NEW k \in Key
  PROVE  k \in After(K, <<>>) <=> k \in K
<1>1. 1..Len(<<>>) = {}
  OBVIOUS
<1>2. QED
  BY <1>1 DEF After

LEMMA AfterMore ==
  ASSUME NEW K, NEW L, NEW q, NEW k \in Key, k \in K => k \in L, k \in After(K, q)
  PROVE  k \in After(L, q)
BY DEF After

LEMMA AfterAppend ==
  ASSUME NEW K, NEW q, NEW m, IsSeq(q), NEW k \in Key
  PROVE  k \in After(K, Append(q, m)) <=> k \in Step(After(K, q), m)
<1> DEFINE u == Append(q, m)
           n == Len(q)
<1>1. n \in Nat /\ Len(u) = n + 1 /\ u[n + 1] = m /\ \A i \in 1..n : u[i] = q[i]
  <2>1. n \in Nat
    BY SeqLength
  <2>2. QED
    BY <2>1, SeqAppend
<1> HIDE DEF u, n
<1>2. 1..(n + 1) = 1..n \cup {n + 1}
  BY <1>1
<1>3. \A i \in 1..n : (i + 1)..(n + 1) = (i + 1)..n \cup {n + 1}
  BY <1>1
<1>4. (n + 1 + 1)..(n + 1) = {}
  BY <1>1
<1>5. (\E i \in 1..Len(u) : k \in Adds(u[i]) /\ \A j \in (i + 1)..Len(u) : k \notin Removes(u[j]))
      <=> \/ k \in Adds(m)
          \/ /\ \E i \in 1..n : k \in Adds(q[i]) /\ \A j \in (i + 1)..n : k \notin Removes(q[j])
             /\ k \notin Removes(m)
  <2>1. ASSUME NEW i \in 1..n
        PROVE  (\A j \in (i + 1)..(n + 1) : k \notin Removes(u[j]))
               <=> (\A j \in (i + 1)..n : k \notin Removes(q[j])) /\ k \notin Removes(m)
    <3>1. \A j \in (i + 1)..n : u[j] = q[j]
      BY <1>1
    <3>2. QED
      BY <1>1, <1>3, <3>1
  <2>2. QED
    BY <1>1, <1>2, <1>4, <2>1
<1>6. (\A j \in 1..Len(u) : k \notin Removes(u[j]))
      <=> (\A j \in 1..n : k \notin Removes(q[j])) /\ k \notin Removes(m)
  BY <1>1, <1>2
<1>7. QED
  BY <1>5, <1>6 DEF After, Step, u, n

LEMMA AfterTail ==
  ASSUME NEW K, NEW q, IsSeq(q), q # <<>>, NEW k \in Key
  PROVE  k \in After(K, q) <=> k \in After(Step(K, Head(q)), Tail(q))
<1> DEFINE t == Tail(q)
           n == Len(t)
           m == Head(q)
<1>1. n \in Nat /\ Len(q) = n + 1 /\ q[1] = m /\ \A i \in 1..n : t[i] = q[i + 1]
  BY SeqTail
<1> HIDE DEF t, n, m
<1>2. \A i \in 1..n + 1 : i = 1 \/ (i - 1 \in 1..n /\ q[i] = t[i - 1])
  <2>1. \A i \in 1..n + 1 : i = 1 \/ (i - 1 \in 1..n /\ i - 1 + 1 = i)
    BY <1>1
  <2>2. QED
    BY <1>1, <2>1
<1>3. (\A j \in 1..n + 1 : k \notin Removes(q[j]))
      <=> k \notin Removes(m) /\ \A j \in 1..n : k \notin Removes(t[j])
  <2>1. \A j \in 1..n : j + 1 \in 1..n + 1
    BY <1>1
  <2>2. 1 \in 1..n + 1
    BY <1>1
  <2>3. QED
    BY <1>1, <1>2, <2>1, <2>2
<1>4. \A i \in 1..n : (\A j \in (i + 2)..(n + 1) : k \notin Removes(q[j]))
                      <=> \A j \in (i + 1)..n : k \notin Removes(t[j])
  <2> SUFFICES ASSUME NEW i \in 1..n
               PROVE  (\A j \in (i + 2)..(n + 1) : k \notin Removes(q[j]))
                      <=> \A j \in (i + 1)..n : k \notin Removes(t[j])
    OBVIOUS
  <2>1. \A j \in (i + 1)..n : j + 1 \in (i + 2)..(n + 1) /\ j \in 1..n
    BY <1>1
  <2>2. \A j \in (i + 2)..(n + 1) : j - 1 \in (i + 1)..n /\ j \in 1..n + 1 /\ j # 1
    BY <1>1
  <2>3. ASSUME \A j \in (i + 2)..(n + 1) : k \notin Removes(q[j]), NEW j \in (i + 1)..n
        PROVE  k \notin Removes(t[j])
    BY <1>1, <2>1, <2>3
  <2>4. ASSUME \A j \in (i + 1)..n : k \notin Removes(t[j]), NEW j \in (i + 2)..(n + 1)
        PROVE  k \notin Removes(q[j])
    BY <1>2, <2>2, <2>4
  <2>5. QED
    BY <2>3, <2>4
<1>5. (\E i \in 1..n + 1 : k \in Adds(q[i]) /\ \A j \in (i + 1)..(n + 1) : k \notin Removes(q[j]))
      <=> \/ k \in Adds(m) /\ \A j \in 1..n : k \notin Removes(t[j])
          \/ \E i \in 1..n : k \in Adds(t[i]) /\ \A j \in (i + 1)..n : k \notin Removes(t[j])
  <2>1. (\A j \in (1 + 1)..(n + 1) : k \notin Removes(q[j])) <=> \A j \in 1..n : k \notin Removes(t[j])
    <3>1. \A j \in 1..n : j + 1 \in (1 + 1)..(n + 1)
      BY <1>1
    <3>2. \A j \in (1 + 1)..(n + 1) : j - 1 \in 1..n /\ j \in 1..n + 1 /\ j # 1
      BY <1>1
    <3>3. QED
      BY <1>1, <1>2, <3>1, <3>2
  <2>2. \A i \in 1..n : i + 1 \in 1..n + 1 /\ i + 1 + 1 = i + 2
    BY <1>1
  <2>3. \A i \in 2..n + 1 : i - 1 \in 1..n /\ i - 1 + 2 = i + 1 /\ i - 1 + 1 = i
    BY <1>1
  <2>4. 1 \in 1..n + 1 /\ \A i \in 1..n + 1 : i = 1 \/ i \in 2..n + 1
    BY <1>1
  <2>5. ASSUME NEW i \in 1..n + 1, k \in Adds(q[i]), \A j \in (i + 1)..(n + 1) : k \notin Removes(q[j])
        PROVE  \/ k \in Adds(m) /\ \A j \in 1..n : k \notin Removes(t[j])
               \/ \E h \in 1..n : k \in Adds(t[h]) /\ \A j \in (h + 1)..n : k \notin Removes(t[j])
    <3>1. CASE i = 1
      BY <1>1, <2>1, <2>5, <3>1
    <3>2. CASE i \in 2..n + 1
      <4>1. i - 1 \in 1..n /\ q[i] = t[i - 1]
        BY <1>1, <2>3, <3>2
      <4>2. \A j \in (i - 1 + 1)..n : k \notin Removes(t[j])
        BY <1>4, <2>3, <2>5, <3>2, <4>1
      <4>3. QED
        BY <2>5, <4>1, <4>2
    <3>3. QED
      BY <2>4, <3>1, <3>2
  <2>6. ASSUME NEW i \in 1..n, k \in Adds(t[i]), \A j \in (i + 1)..n : k \notin Removes(t[j])
        PROVE  \E h \in 1..n + 1 : k \in Adds(q[h]) /\ \A j \in (h + 1)..(n + 1) : k \notin Removes(q[j])
    <3>1. \A j \in (i + 1 + 1)..(n + 1) : k \notin Removes(q[j])
      BY <1>4, <2>2, <2>6
    <3>2. QED
      BY <1>1, <2>2, <2>6, <3>1
  <2>7. QED
    BY <1>1, <2>1, <2>4, <2>5, <2>6
<1>6. QED
  BY <1>1, <1>3, <1>5 DEF After, Step, t, n, m

-----------------------------------------------------------------------------
(* Channels and keys.                                                        *)
LEMMA ChannelsDiffer ==
  ASSUME NEW d, NEW e, NEW y, NEW z, NEW r, NEW s
  PROVE  /\ ObjectChannel(d) = ObjectChannel(e) => d = e
         /\ ChildrenOf(d) = ChildrenOf(e) => d = e
         /\ LocationChannel(d, y) = LocationChannel(e, z) => d = e /\ y = z
         /\ RoleChannel(r) = RoleChannel(s) => r = s
         /\ ObjectChannel(d) # ChildrenOf(e) /\ ObjectChannel(d) # LocationChannel(e, z)
         /\ ObjectChannel(d) # RoleChannel(r) /\ ObjectChannel(d) # ServerChannel
         /\ ChildrenOf(d) # LocationChannel(e, z) /\ ChildrenOf(d) # RoleChannel(r)
         /\ ChildrenOf(d) # ServerChannel
         /\ LocationChannel(d, y) # RoleChannel(r) /\ LocationChannel(d, y) # ServerChannel
         /\ RoleChannel(r) # ServerChannel
         /\ Asker(d) # ObjectChannel(e) /\ Asker(d) # ChildrenOf(e) /\ Asker(d) # ServerChannel
         /\ Asker(d) # RoleChannel(r) /\ Asker(d) # LocationChannel(e, z)
BY DEF ObjectChannel, ChildrenOf, LocationChannel, RoleChannel, ServerChannel, Asker

LEMMA KeysDiffer ==
  ASSUME NEW b, NEW c, NEW d, NEW e, NEW p, NEW q, NEW y, NEW z
  PROVE  /\ Sees(b, d) = Sees(c, e) => b = c /\ d = e
         /\ Lists(p, y, d) = Lists(q, z, e) => p = q /\ y = z /\ d = e
         /\ Asking(p) = Asking(q) => p = q
         /\ Lists(p, y, d) # Asking(q)
         /\ Sees(b, d) = Lists(q, z, e) => b = ObjectChannel(q)
         /\ Sees(b, d) = Asking(q) => b = ChildrenOf(q)
<1>1. /\ Sees(b, d).at = b /\ Sees(b, d).doid = d /\ Sees(c, e).at = c /\ Sees(c, e).doid = e
      /\ Lists(p, y, d).at = ObjectChannel(p) /\ Lists(p, y, d).zone = y /\ Lists(p, y, d).doid = d
      /\ Lists(q, z, e).at = ObjectChannel(q) /\ Lists(q, z, e).zone = z /\ Lists(q, z, e).doid = e
      /\ Asking(p).at = ChildrenOf(p) /\ Asking(q).at = ChildrenOf(q)
  BY DEF Sees, Lists, Asking
<1>2. QED
  BY <1>1, ChannelsDiffer

LEMMA ListenersAre ==
  /\ \A p \in Doid, z \in Zone : LocationChannel(p, z) \in Listeners /\ LocationChannel(p, z) \notin Roles(Role)
  /\ \A r \in Role : RoleChannel(r) \in Listeners /\ RoleChannel(r) \in Roles(Role)
  /\ \A d : ObjectChannel(d) \notin Listeners /\ ChildrenOf(d) \notin Listeners /\ Asker(d) \notin Listeners
  /\ ServerChannel \notin Listeners
<1>1. NoChannel \notin Role
  BY DistributedObjectAssumption
<1>2. \A c \in Listeners : \/ \E p \in Doid, z \in Zone : c = LocationChannel(p, z)
                           \/ \E r \in Role : c = RoleChannel(r)
  BY DEF Listeners, Roles
<1>3. \A p \in Doid, z \in Zone : LocationChannel(p, z) \in Listeners /\ LocationChannel(p, z) \notin Roles(Role)
  BY ChannelsDiffer DEF Listeners, Roles
<1>4. \A r \in Role : RoleChannel(r) \in Listeners /\ RoleChannel(r) \in Roles(Role)
  BY <1>1 DEF Listeners, Roles
<1>5. \A d : ObjectChannel(d) \notin Listeners /\ ChildrenOf(d) \notin Listeners /\ Asker(d) \notin Listeners
  BY <1>2, ChannelsDiffer
<1>6. ServerChannel \notin Listeners
  BY <1>2, ChannelsDiffer
<1>7. QED
  BY <1>3, <1>4, <1>5, <1>6

LEMMA LocationKey ==
  ASSUME NEW p \in Doid, NEW z \in Zone, NEW d \in Doid, NEW m
  PROVE  /\ Sees(LocationChannel(p, z), d) \in Key
         /\ Sees(LocationChannel(p, z), d) \in Adds(m) <=>
              m.kind \in Entries /\ m.doid = d /\ LocationChannel(p, z) \in m.to
         /\ Sees(LocationChannel(p, z), d) \in Removes(m) <=>
              /\ m.kind \in Exits \cup {"changing_location"}
              /\ m.doid = d /\ LocationChannel(p, z) \in m.to
<1> DEFINE c == LocationChannel(p, z)
           k == Sees(c, d)
<1>1. c \in Listeners \ Roles(Role) /\ \A e : c # ObjectChannel(e) /\ c # ChildrenOf(e)
  BY ListenersAre, ChannelsDiffer
<1> HIDE DEF c
<1>2. k \in Key /\ k.at = c /\ k.doid = d
  BY <1>1 DEF Key, Sees
<1>3. \A e : k # Asking(e)
  BY <1>1, <1>2 DEF Asking
<1> HIDE DEF k
<1>4. k \in Adds(m) <=> m.kind \in Entries /\ m.doid = d /\ c \in m.to
  BY <1>1, <1>2, <1>3 DEF Adds
<1>5. k \in Removes(m) <=> m.kind \in Exits \cup {"changing_location"} /\ m.doid = d /\ c \in m.to
  BY <1>1, <1>2 DEF Removes
<1>6. QED
  BY <1>2, <1>4, <1>5 DEF k, c

LEMMA RoleKey ==
  ASSUME NEW r \in Role, NEW d \in Doid, NEW m
  PROVE  /\ Sees(RoleChannel(r), d) \in Key
         /\ Sees(RoleChannel(r), d) \in Adds(m) <=>
              m.kind \in Entries /\ m.doid = d /\ RoleChannel(r) \in m.to
         /\ Sees(RoleChannel(r), d) \in Removes(m) <=>
              m.kind \in Exits /\ m.doid = d /\ RoleChannel(r) \in m.to
<1> DEFINE c == RoleChannel(r)
           k == Sees(c, d)
<1>1. c \in Listeners /\ c \in Roles(Role) /\ \A e : c # ObjectChannel(e) /\ c # ChildrenOf(e)
  BY ListenersAre, ChannelsDiffer
<1> HIDE DEF c
<1>2. k \in Key /\ k.at = c /\ k.doid = d
  BY <1>1 DEF Key, Sees
<1>3. \A e : k # Asking(e)
  BY <1>1, <1>2 DEF Asking
<1> HIDE DEF k
<1>4. k \in Adds(m) <=> m.kind \in Entries /\ m.doid = d /\ c \in m.to
  BY <1>1, <1>2, <1>3 DEF Adds
<1>5. k \in Removes(m) <=> m.kind \in Exits /\ m.doid = d /\ c \in m.to
  BY <1>1, <1>2 DEF Removes
<1>6. QED
  BY <1>2, <1>4, <1>5 DEF k, c

LEMMA ListsKey ==
  ASSUME NEW p \in Doid, NEW z \in Zone, NEW d \in Doid, NEW m
  PROVE  /\ Lists(p, z, d) \in Key
         /\ Lists(p, z, d) \in Adds(m) <=>
              /\ m.kind \in {"changing_location", "get_location_resp"} /\ m.doid = d
              /\ ObjectChannel(p) \in m.to /\ m.parent = p /\ m.zone = z
         /\ Lists(p, z, d) \in Removes(m) <=>
              /\ m.kind = "changing_location" /\ m.doid = d
              /\ ObjectChannel(p) \in m.to /\ m.old_parent = p /\ m.old_zone = z
<1> DEFINE c == ObjectChannel(p)
           k == Lists(p, z, d)
<1>1. c \notin Listeners /\ \A e : (c = ObjectChannel(e) => e = p) /\ c # ChildrenOf(e)
  BY ListenersAre, ChannelsDiffer
<1>2. k \in Key /\ k.at = c /\ k.doid = d /\ k.zone = z
  BY DEF Key, Lists
<1>3. \A e : k # Asking(e)
  BY <1>1, <1>2 DEF Asking
<1>4. \A e : c = ObjectChannel(e) <=> e = p
  BY <1>1
<1> HIDE DEF k, c
<1>5. k \in Adds(m) <=> /\ m.kind \in {"changing_location", "get_location_resp"} /\ m.doid = d
                        /\ c \in m.to /\ m.parent = p /\ m.zone = z
  BY <1>1, <1>2, <1>3, <1>4 DEF Adds
<1>6. k \in Removes(m) <=> /\ m.kind = "changing_location" /\ m.doid = d
                           /\ c \in m.to /\ m.old_parent = p /\ m.old_zone = z
  BY <1>1, <1>2, <1>4 DEF Removes
<1>7. QED
  BY <1>2, <1>5, <1>6 DEF k, c

LEMMA AskingKey ==
  ASSUME NEW p \in Doid, NEW m
  PROVE  /\ Asking(p) \in Key
         /\ Asking(p) \in Adds(m) <=> m.kind = "get_location" /\ ChildrenOf(p) \in m.to /\ m.sender = p
         /\ Asking(p) \notin Removes(m)
<1> DEFINE c == ChildrenOf(p)
           k == Asking(p)
<1>1. c \notin Listeners /\ \A e : c # ObjectChannel(e)
  BY ListenersAre, ChannelsDiffer
<1>2. k \in Key /\ k.at = c
  BY DEF Key, Asking
<1>3. \A e : k = Asking(e) <=> e = p
  BY KeysDiffer
<1> HIDE DEF k, c
<1>4. k \in Adds(m) <=> m.kind = "get_location" /\ c \in m.to /\ m.sender = p
  BY <1>1, <1>2, <1>3 DEF Adds, Entries
<1>5. k \notin Removes(m)
  BY <1>1, <1>2 DEF Removes
<1>6. QED
  BY <1>2, <1>4, <1>5 DEF k, c

SeesHeld == \A c \in Listeners, d \in Doid : Sees(c, d) \in Held <=> d \in view[c]

ListsHeld ==
  \A p \in Doid, z \in Zone, d \in Doid :
    /\ Lists(p, z, d) \in Listed <=> p \in Live /\ d \in ObjectsIn(objs[p], z)
    /\ Lists(p, z, d) \in Held <=>
         /\ p \in Live
         /\ Lists(p, z, d) \in IF p \in routing.to THEN Step(Listed, routing.msg) ELSE Listed

AskingHeld == \A p \in Doid : Asking(p) \notin Held

HeldFacts == SeesHeld /\ ListsHeld /\ AskingHeld

LEMMA HeldIs == HeldFacts
<1>1. ASSUME NEW c \in Listeners, NEW d \in Doid PROVE Sees(c, d) \in Held <=> d \in view[c]
  <2>1. \A q, y, e : Sees(c, d) # Lists(q, y, e)
    BY KeysDiffer, ListenersAre
  <2>2. \A b, e : Sees(c, d) = Sees(b, e) => b = c /\ e = d
    BY KeysDiffer
  <2>3. Sees(c, d) \in Key
    BY DEF Key
  <2>4. QED
    BY <2>1, <2>2, <2>3 DEF Held
<1>2. ASSUME NEW p \in Doid, NEW z \in Zone, NEW d \in Doid
      PROVE  /\ Lists(p, z, d) \in Listed <=> p \in Live /\ d \in ObjectsIn(objs[p], z)
             /\ Lists(p, z, d) \in Held <=>
                  /\ p \in Live
                  /\ Lists(p, z, d) \in IF p \in routing.to THEN Step(Listed, routing.msg) ELSE Listed
  <2>1. \A q, y, e : Lists(p, z, d) = Lists(q, y, e) => q = p /\ y = z /\ e = d
    BY KeysDiffer
  <2>2. \A c \in Listeners, e \in Doid : Lists(p, z, d) # Sees(c, e)
    BY KeysDiffer, ListenersAre
  <2>3. Lists(p, z, d) \in Key
    BY DEF Key
  <2>4. Lists(p, z, d) \in Listed <=> p \in Live /\ d \in ObjectsIn(objs[p], z)
    BY <2>1, <2>3 DEF Listed
  <2>5. Lists(p, z, d) \in Held <=>
          /\ p \in Live
          /\ Lists(p, z, d) \in IF p \in routing.to THEN Step(Listed, routing.msg) ELSE Listed
    BY <2>1, <2>2, <2>3 DEF Held
  <2>6. QED
    BY <2>4, <2>5
<1>3. ASSUME NEW p \in Doid PROVE Asking(p) \notin Held
  <2>1. \A c \in Listeners, e \in Doid : Asking(p) # Sees(c, e)
    BY KeysDiffer, ListenersAre
  <2>2. \A q, y, e : Asking(p) # Lists(q, y, e)
    BY KeysDiffer
  <2>3. QED
    BY <2>1, <2>2 DEF Held
<1>4. QED
  BY <1>1, <1>2, <1>3 DEF HeldFacts, SeesHeld, ListsHeld, AskingHeld

LEMMA HeldNext == HeldFacts'
BY HeldIs, PTL

-----------------------------------------------------------------------------
(* What a handler routes.                                                    *)
Heard == Entries \cup Exits \cup {"changing_location", "get_location_resp", "get_location"}

\* A datagram tells of object d only.
About(d, m) == \A k \in Key : k \in Adds(m) \cup Removes(m) => k.doid = d

Wire(s, d, q) == IsSeq(q) /\ AllGood(s, q) /\ \A i \in 1..Len(q) : About(d, q[i])

LEMMA NotHeard ==
  ASSUME NEW m, m.kind \notin Heard
  PROVE  Adds(m) = {} /\ Removes(m) = {}
BY DEF Adds, Removes, Heard

LEMMA AboutIs ==
  ASSUME NEW d, NEW m, m.kind \in Heard => IF m.kind = "get_location" THEN m.sender = d ELSE m.doid = d
  PROVE  About(d, m)
<1> SUFFICES ASSUME NEW k \in Key, k \in Adds(m) \cup Removes(m) PROVE k.doid = d
  BY DEF About
<1>1. CASE m.kind \notin Heard
  BY <1>1, NotHeard
<1>2. CASE m.kind = "get_location"
  <2>1. \A p : Asking(p).doid = p
    BY DEF Asking
  <2>2. QED
    BY <1>2, <2>1 DEF Adds, Removes, Entries, Exits, Heard
<1>3. CASE m.kind \in Heard \ {"get_location"}
  BY <1>3 DEF Adds, Removes
<1>4. QED
  BY <1>1, <1>2, <1>3

LEMMA WireSend ==
  ASSUME NEW s, NEW d, NEW m, m.to # {} => Good(s, m) /\ About(d, m)
  PROVE  Wire(s, d, Send(m))
<1>1. CASE m.to = {}
  <2>1. Send(m) = <<>>
    BY <1>1 DEF Send
  <2>2. 1..Len(Send(m)) = {}
    BY <2>1
  <2>3. QED
    BY <2>2, SeqSend DEF Wire, AllGood
<1>2. CASE m.to # {}
  BY <1>2, SeqSend DEF Wire, AllGood
<1>3. QED
  BY <1>1, <1>2

LEMMA WireNone ==
  ASSUME NEW s, NEW d PROVE Wire(s, d, <<>>)
<1>1. 1..Len(<<>>) = {}
  OBVIOUS
<1>2. IsSeq(<<>>)
  <2>1. <<>> \in Seq({})
    OBVIOUS
  <2>2. QED
    BY <2>1 DEF IsSeq
<1>3. QED
  BY <1>1, <1>2 DEF Wire, AllGood

LEMMA WireOne ==
  ASSUME NEW s, NEW d, NEW m, Good(s, m), About(d, m)
  PROVE  Wire(s, d, <<m>>)
<1>1. IsSeq(<<m>>)
  <2>1. <<m>> \in Seq({m})
    OBVIOUS
  <2>2. QED
    BY <2>1 DEF IsSeq
<1>2. Len(<<m>>) = 1 /\ <<m>>[1] = m
  OBVIOUS
<1>3. \A i \in 1..Len(<<m>>) : i = 1
  BY <1>2
<1>4. QED
  BY <1>1, <1>2, <1>3 DEF Wire, AllGood

LEMMA WireWhen ==
  ASSUME NEW s, NEW d, NEW m, NEW condition, condition /\ m.to # {} => Good(s, m) /\ About(d, m)
  PROVE  Wire(s, d, When(condition, m))
<1>1. CASE condition
  BY <1>1, WireSend DEF When
<1>2. CASE ~condition
  BY <1>2, WireNone DEF When
<1>3. QED
  BY <1>1, <1>2

LEMMA SplitConcat ==
  ASSUME NEW p, NEW q, IsSeq(p), IsSeq(q), NEW i \in 1..Len(p \o q)
  PROVE  \/ i \in 1..Len(p) /\ (p \o q)[i] = p[i]
         \/ i - Len(p) \in 1..Len(q) /\ (p \o q)[i] = q[i - Len(p)]
<1>1. Len(p) \in Nat /\ Len(q) \in Nat /\ Len(p \o q) = Len(p) + Len(q)
  BY SeqLength, SeqConcat
<1>2. i \in 1..Len(p) \/ (i - Len(p) \in 1..Len(q) /\ Len(p) + (i - Len(p)) = i)
  BY <1>1
<1>3. QED
  BY <1>2, SeqConcat

LEMMA WireConcat ==
  ASSUME NEW s, NEW d, NEW p, NEW q, Wire(s, d, p), Wire(s, d, q)
  PROVE  Wire(s, d, p \o q)
<1>1. IsSeq(p) /\ IsSeq(q) /\ IsSeq(p \o q)
  BY SeqConcat DEF Wire
<1>2. ASSUME NEW i \in 1..Len(p \o q) PROVE Good(s, (p \o q)[i]) /\ About(d, (p \o q)[i])
  BY <1>1, SplitConcat DEF Wire, AllGood
<1>3. QED
  BY <1>1, <1>2 DEF Wire, AllGood

LEMMA WireAppend ==
  ASSUME NEW s, NEW d, NEW q, NEW m, Wire(s, d, q), Good(s, m), About(d, m)
  PROVE  Wire(s, d, Append(q, m))
<1>1. IsSeq(q) /\ Len(q) \in Nat
  BY SeqLength DEF Wire
<1>2. \A i \in 1..Len(q) + 1 : i \in 1..Len(q) \/ i = Len(q) + 1
  BY <1>1
<1>3. IsSeq(Append(q, m)) /\ Len(Append(q, m)) = Len(q) + 1
  BY <1>1, SeqAppend
<1>4. \A i \in 1..Len(q) + 1 : Append(q, m)[i] = m \/ (i \in 1..Len(q) /\ Append(q, m)[i] = q[i])
  BY <1>1, <1>2, SeqAppend
<1>5. QED
  BY <1>3, <1>4 DEF Wire, AllGood

(* What is known of other objects stays.                                     *)
LEMMA AfterOthers ==
  ASSUME NEW s, NEW d, NEW q, Wire(s, d, q), NEW K, NEW k \in Key, k.doid # d
  PROVE  k \in After(K, q) <=> k \in K
<1>1. \A i \in 1..Len(q) : k \notin Adds(q[i]) /\ k \notin Removes(q[i])
  BY DEF Wire, About
<1>2. QED
  BY <1>1 DEF After

LEMMA AfterSend ==
  ASSUME NEW K, NEW m, NEW k \in Key
  PROVE  k \in After(K, Send(m)) <=> k \in Step(K, m)
<1>1. CASE m.to = {}
  <2>1. k \notin Adds(m) /\ k \notin Removes(m)
    BY <1>1 DEF Adds, Removes
  <2>2. Send(m) = <<>>
    BY <1>1 DEF Send
  <2>3. QED
    BY <2>1, <2>2, AfterNone, StepIs
<1>2. CASE m.to # {}
  <2>1. Send(m) = <<m>> /\ <<m>> = Append(<<>>, m)
    BY <1>2 DEF Send
  <2>2. k \in After(K, <<m>>) <=> k \in Step(After(K, <<>>), m)
    BY <2>1, SeqSend, AfterAppend
  <2>3. QED
    BY <2>1, <2>2, AfterNone, StepIs
<1>3. QED
  BY <1>1, <1>2

LEMMA AfterOne ==
  ASSUME NEW K, NEW m, NEW k \in Key
  PROVE  k \in After(K, <<m>>) <=> k \in Step(K, m)
<1>1. <<m>> = Append(<<>>, m)
  OBVIOUS
<1>2. k \in After(K, <<m>>) <=> k \in Step(After(K, <<>>), m)
  BY <1>1, SeqSend, AfterAppend
<1>3. QED
  BY <1>2, AfterNone, StepIs

LEMMA AfterWhen ==
  ASSUME NEW K, NEW m, NEW k \in Key, NEW condition
  PROVE  k \in After(K, When(condition, m)) <=> k \in (IF condition THEN Step(K, m) ELSE K)
<1>1. CASE condition
  BY <1>1, AfterSend DEF When
<1>2. CASE ~condition
  BY <1>2, AfterNone DEF When
<1>3. QED
  BY <1>1, <1>2

LEMMA AfterConcat ==
  ASSUME NEW K, NEW p, NEW q, IsSeq(p), IsSeq(q), NEW k \in Key
  PROVE  k \in After(K, p \o q) <=> k \in After(After(K, p), q)
<1> DEFINE u == p \o q
           n == Len(p)
           l == Len(q)
<1>1. /\ n \in Nat /\ l \in Nat /\ Len(u) = n + l
      /\ \A i \in 1..n : u[i] = p[i]
      /\ \A i \in 1..l : u[n + i] = q[i]
  BY SeqLength, SeqConcat
<1> HIDE DEF u, n, l
<1>2. \A i \in 1..(n + l) : i \in 1..n \/ (i - n \in 1..l /\ n + (i - n) = i)
  BY <1>1
<1>3. \A i \in 1..l : n + i \in 1..(n + l) /\ n + i - n = i
  BY <1>1
<1>4. (\A j \in 1..(n + l) : k \notin Removes(u[j]))
      <=> (\A j \in 1..n : k \notin Removes(p[j])) /\ (\A j \in 1..l : k \notin Removes(q[j]))
  <2>1. 1..n \subseteq 1..(n + l)
    BY <1>1
  <2>2. QED
    BY <1>1, <1>2, <1>3, <2>1
<1>5. ASSUME NEW i \in 1..n
      PROVE  (\A j \in (i + 1)..(n + l) : k \notin Removes(u[j]))
             <=> (\A j \in (i + 1)..n : k \notin Removes(p[j])) /\ (\A j \in 1..l : k \notin Removes(q[j]))
  <2>1. \A j \in (i + 1)..(n + l) : j \in 1..(n + l)
    BY <1>1
  <2>2. \A j \in (i + 1)..n : j \in 1..n /\ j \in (i + 1)..(n + l)
    BY <1>1
  <2>3. \A j \in 1..l : n + j \in (i + 1)..(n + l)
    BY <1>1
  <2>4. \A j \in (i + 1)..(n + l) : j \in (i + 1)..n \/ j - n \in 1..l
    BY <1>1
  <2>5. ASSUME \A j \in (i + 1)..(n + l) : k \notin Removes(u[j])
        PROVE  (\A j \in (i + 1)..n : k \notin Removes(p[j])) /\ (\A j \in 1..l : k \notin Removes(q[j]))
    BY <1>1, <2>2, <2>3, <2>5
  <2>6. ASSUME \A j \in (i + 1)..n : k \notin Removes(p[j]), \A j \in 1..l : k \notin Removes(q[j]),
               NEW j \in (i + 1)..(n + l)
        PROVE  k \notin Removes(u[j])
    <3>1. CASE j \in (i + 1)..n
      BY <1>1, <2>2, <2>6, <3>1
    <3>2. CASE j - n \in 1..l
      <4>1. u[j] = q[j - n]
        BY <1>1, <3>2
      <4>2. QED
        BY <2>6, <3>2, <4>1
    <3>3. QED
      BY <2>4, <2>6, <3>1, <3>2
  <2>7. QED
    BY <2>5, <2>6
<1>6. ASSUME NEW i \in 1..l
      PROVE  (\A j \in (n + i + 1)..(n + l) : k \notin Removes(u[j]))
             <=> (\A j \in (i + 1)..l : k \notin Removes(q[j]))
  <2>1. \A j \in (n + i + 1)..(n + l) : j - n \in (i + 1)..l /\ j - n \in 1..l /\ n + (j - n) = j
    BY <1>1
  <2>2. \A j \in (i + 1)..l : n + j \in (n + i + 1)..(n + l) /\ j \in 1..l
    BY <1>1
  <2>3. \A j \in (n + i + 1)..(n + l) : u[j] = q[j - n]
    BY <1>1, <2>1
  <2>4. QED
    BY <1>1, <2>1, <2>2, <2>3
<1>7. (\E i \in 1..(n + l) : k \in Adds(u[i]) /\ \A j \in (i + 1)..(n + l) : k \notin Removes(u[j]))
      <=> \/ \E i \in 1..l : k \in Adds(q[i]) /\ \A j \in (i + 1)..l : k \notin Removes(q[j])
          \/ /\ \E i \in 1..n : k \in Adds(p[i]) /\ \A j \in (i + 1)..n : k \notin Removes(p[j])
             /\ \A j \in 1..l : k \notin Removes(q[j])
  <2>1. ASSUME NEW i \in 1..(n + l), k \in Adds(u[i]), \A j \in (i + 1)..(n + l) : k \notin Removes(u[j])
        PROVE  \/ \E h \in 1..l : k \in Adds(q[h]) /\ \A j \in (h + 1)..l : k \notin Removes(q[j])
               \/ /\ \E h \in 1..n : k \in Adds(p[h]) /\ \A j \in (h + 1)..n : k \notin Removes(p[j])
                  /\ \A j \in 1..l : k \notin Removes(q[j])
    <3>1. CASE i \in 1..n
      BY <1>1, <1>5, <2>1, <3>1
    <3>2. CASE i - n \in 1..l /\ n + (i - n) = i
      <4>1. k \in Adds(q[i - n])
        BY <1>1, <2>1, <3>2
      <4>2. \A j \in (n + (i - n) + 1)..(n + l) : k \notin Removes(u[j])
        BY <2>1, <3>2
      <4>3. \A j \in (i - n + 1)..l : k \notin Removes(q[j])
        BY <1>6, <3>2, <4>2
      <4>4. QED
        BY <3>2, <4>1, <4>3
    <3>3. QED
      BY <1>2, <3>1, <3>2
  <2>2. ASSUME NEW i \in 1..l, k \in Adds(q[i]), \A j \in (i + 1)..l : k \notin Removes(q[j])
        PROVE  \E h \in 1..(n + l) : k \in Adds(u[h]) /\ \A j \in (h + 1)..(n + l) : k \notin Removes(u[j])
    BY <1>1, <1>3, <1>6, <2>2
  <2>3. ASSUME NEW i \in 1..n, k \in Adds(p[i]), \A j \in (i + 1)..n : k \notin Removes(p[j]),
               \A j \in 1..l : k \notin Removes(q[j])
        PROVE  \E h \in 1..(n + l) : k \in Adds(u[h]) /\ \A j \in (h + 1)..(n + l) : k \notin Removes(u[j])
    <3>1. i \in 1..(n + l)
      BY <1>1
    <3>2. QED
      BY <1>1, <1>5, <2>3, <3>1
  <2>4. QED
    BY <2>1, <2>2, <2>3
<1>8. QED
  BY <1>1, <1>4, <1>7 DEF After, u, n, l

-----------------------------------------------------------------------------
(* Objects.                                                                  *)
ZoneObjects == UNION {[zones -> SUBSET Doid] : zones \in SUBSET Zone}

LEMMA NullIsNoDoid == NoDoid \notin Doid /\ NoZone \notin Zone
BY DistributedObjectAssumption DEF NoDoid, NoZone

LEMMA KnownAIs ==
  ASSUME NEW s PROVE NoChannel \in KnownAI(s) /\ KnownAI(s) \subseteq AI \cup {NoChannel}
BY DEF KnownAI

LEMMA ZoneObjectsAre ==
  /\ \A f \in ZoneObjects : /\ DOMAIN f \subseteq Zone /\ f = [z \in DOMAIN f |-> f[z]]
                            /\ \A z \in DOMAIN f : f[z] \subseteq Doid
  /\ \A S \in SUBSET Zone : \A f \in [S -> SUBSET Doid] : f \in ZoneObjects
BY DEF ZoneObjects

LEMMA FineSync ==
  ASSUME NEW s, NEW o, Fine(s, o), NEW b \in BOOLEAN
  PROVE  Fine(s, [o EXCEPT !.sync = b])
BY DEF Fine, Object

LEMMA FineMoved ==
  ASSUME NEW s, NEW o, Fine(s, o), NEW p, NEW z, Place(p, z)
  PROVE  Fine(s, Relocated(o, p, z))
<1> DEFINE ai == IF p # o.parent /\ p = NoDoid /\ ~o.explicit THEN NoChannel ELSE o.ai
<1>1. ai \in KnownAI(s) /\ ai \in AI \cup {NoChannel}
  BY KnownAIs DEF Fine
<1>2. Relocated(o, p, z) = [o EXCEPT !.parent = p, !.zone = z, !.sync = FALSE, !.ai = ai]
  BY DEF Relocated
<1> HIDE DEF ai
<1>3. p \in Doid \cup {NoDoid} /\ z \in Zone \cup {NoZone}
  BY DEF Place
<1>4. QED
  BY <1>1, <1>2, <1>3 DEF Fine, Object

LEMMA FineAI ==
  ASSUME NEW s, NEW o, Fine(s, o), NEW a \in KnownAI(s), NEW b \in BOOLEAN
  PROVE  Fine(s, [o EXCEPT !.ai = a, !.explicit = b])
BY KnownAIs DEF Fine, Object

LEMMA FineOwner ==
  ASSUME NEW s, NEW o, Fine(s, o), NEW c \in Client \cup {NoChannel}
  PROVE  Fine(s, [o EXCEPT !.owner = c])
BY DEF Fine, Object

LEMMA FineDeleting ==
  ASSUME NEW s, NEW o, Fine(s, o), NEW n \in Nat
  PROVE  Fine(s, [o EXCEPT !.deleting = TRUE, !.count = n]) /\ Fine(s, [o EXCEPT !.deleted = o.deleted + 1])
<1>1. o.deleted + 1 \in Nat
  BY DEF Fine, Object
<1>2. QED
  BY <1>1 DEF Fine, Object

LEMMA FineChildren ==
  ASSUME NEW s, NEW o, Fine(s, o), NEW f \in ZoneObjects
  PROVE  Fine(s, [o EXCEPT !.zone_objects = f])
BY DEF Fine, Object, ZoneObjects

LEMMA FineHas ==
  ASSUME NEW s, NEW o, Fine(s, o)
  PROVE  /\ o.zone_objects \in ZoneObjects
         /\ \A z : ObjectsIn(o, z) \subseteq Doid
         /\ o.ai \in KnownAI(s) /\ o.owner \in Client \cup {NoChannel}
         /\ o.generator \in AI \cup {NoChannel} /\ o.explicit \in BOOLEAN
         /\ Place(o.parent, o.zone)
<1>1. /\ o.zone_objects \in ZoneObjects
      /\ o.ai \in KnownAI(s) /\ o.owner \in Client \cup {NoChannel}
      /\ o.generator \in AI \cup {NoChannel} /\ o.explicit \in BOOLEAN
      /\ Place(o.parent, o.zone)
  BY DEF Fine, Object, ZoneObjects
<1>2. \A z : ObjectsIn(o, z) \subseteq Doid
  BY <1>1, ZoneObjectsAre DEF ObjectsIn
<1>3. QED
  BY <1>1, <1>2

(* What a parent lists after a child was added, removed or counted.          *)
LEMMA FineVisited ==
  ASSUME NEW s, NEW o, Fine(s, o), NEW zones \in SUBSET Zone
  PROVE  /\ Fine(s, Visited(o, zones))
         /\ \A y : ObjectsIn(Visited(o, zones), y) = ObjectsIn(o, y)
<1> DEFINE f == [y \in DOMAIN o.zone_objects \cup zones |-> ObjectsIn(o, y)]
<1>1. DOMAIN o.zone_objects \subseteq Zone /\ \A y : ObjectsIn(o, y) \subseteq Doid
  BY FineHas, ZoneObjectsAre
<1>2. f \in [DOMAIN o.zone_objects \cup zones -> SUBSET Doid]
  BY <1>1
<1>3. f \in ZoneObjects
  BY <1>1, <1>2, ZoneObjectsAre
<1>4. Visited(o, zones).zone_objects = f
  BY DEF Visited, Fine, Object
<1>5. ASSUME NEW y PROVE ObjectsIn(Visited(o, zones), y) = ObjectsIn(o, y)
  BY <1>4 DEF ObjectsIn
<1>6. Fine(s, Visited(o, zones))
  <2> HIDE DEF f
  <2>1. Visited(o, zones) = [o EXCEPT !.zone_objects = f]
    BY DEF Visited, f
  <2>2. QED
    BY <1>3, <2>1, FineChildren
<1>7. QED
  BY <1>5, <1>6

LEMMA FineAdd ==
  ASSUME NEW s, NEW o, Fine(s, o), NEW z \in Zone, NEW c \in Doid
  PROVE  /\ Fine(s, AddChild(o, z, c))
         /\ \A y : ObjectsIn(AddChild(o, z, c), y) = IF y = z THEN ObjectsIn(o, z) \cup {c} ELSE ObjectsIn(o, y)
<1> DEFINE f == [y \in DOMAIN o.zone_objects \cup {z} |->
                   IF y = z THEN ObjectsIn(o, z) \cup {c} ELSE o.zone_objects[y]]
<1>1. /\ DOMAIN o.zone_objects \subseteq Zone /\ ObjectsIn(o, z) \subseteq Doid
      /\ \A y \in DOMAIN o.zone_objects : o.zone_objects[y] \subseteq Doid
  BY FineHas, ZoneObjectsAre
<1>2. f \in [DOMAIN o.zone_objects \cup {z} -> SUBSET Doid]
  BY <1>1
<1>3. f \in ZoneObjects
  BY <1>1, <1>2, ZoneObjectsAre
<1>4. AddChild(o, z, c).zone_objects = f
  BY DEF AddChild, Fine, Object
<1>5. ASSUME NEW y
      PROVE  ObjectsIn(AddChild(o, z, c), y) = IF y = z THEN ObjectsIn(o, z) \cup {c} ELSE ObjectsIn(o, y)
  BY <1>4 DEF ObjectsIn
<1>6. Fine(s, AddChild(o, z, c))
  <2> HIDE DEF f
  <2>1. AddChild(o, z, c) = [o EXCEPT !.zone_objects = f]
    BY DEF AddChild, f
  <2>2. QED
    BY <1>3, <2>1, FineChildren
<1>7. QED
  BY <1>5, <1>6

LEMMA ListsAdded ==
  ASSUME NEW s, NEW o, Fine(s, o), NEW z, NEW c, z \in Zone, c \in Doid, NEW y
  PROVE  ObjectsIn(AddChild(o, z, c), y) = IF y = z THEN ObjectsIn(o, z) \cup {c} ELSE ObjectsIn(o, y)
BY FineAdd

LEMMA FineRemove ==
  ASSUME NEW s, NEW o, Fine(s, o), NEW z, NEW c
  PROVE  /\ Fine(s, RemoveChild(o, z, c))
         /\ \A y : ObjectsIn(RemoveChild(o, z, c), y) = IF y = z THEN ObjectsIn(o, z) \ {c} ELSE ObjectsIn(o, y)
<1> DEFINE left == ObjectsIn(o, z) \ {c}
           zones == IF left = {} THEN DOMAIN o.zone_objects \ {z} ELSE DOMAIN o.zone_objects
           f == [y \in zones |-> IF y = z THEN left ELSE o.zone_objects[y]]
<1>1. /\ DOMAIN o.zone_objects \subseteq Zone /\ left \subseteq Doid
      /\ \A y \in DOMAIN o.zone_objects : o.zone_objects[y] \subseteq Doid
  BY FineHas, ZoneObjectsAre
<1>2. zones \subseteq DOMAIN o.zone_objects
  OBVIOUS
<1>3. z \notin DOMAIN o.zone_objects => left = {}
  BY DEF ObjectsIn
<1>4. DOMAIN f = zones /\ \A y \in zones : f[y] = IF y = z THEN left ELSE o.zone_objects[y]
  OBVIOUS
<1>5. z \in zones <=> left # {}
  BY <1>3
<1>6. \A y : y # z => (y \in zones <=> y \in DOMAIN o.zone_objects)
  OBVIOUS
<1>7. RemoveChild(o, z, c) = [o EXCEPT !.zone_objects = f]
  BY DEF RemoveChild
<1>8. f \in [zones -> SUBSET Doid]
  <2> HIDE DEF zones, left
  <2>1. QED
    BY <1>1, <1>2
<1> HIDE DEF f, zones
<1>9. f \in ZoneObjects
  BY <1>1, <1>2, <1>8, ZoneObjectsAre
<1>10. RemoveChild(o, z, c).zone_objects = f
  BY <1>7 DEF Fine, Object
<1>11. ASSUME NEW y
       PROVE  ObjectsIn(RemoveChild(o, z, c), y) = IF y = z THEN ObjectsIn(o, z) \ {c} ELSE ObjectsIn(o, y)
  <2> HIDE DEF left
  <2>1. CASE y = z
    <3>1. ObjectsIn(RemoveChild(o, z, c), z) = left
      BY <1>4, <1>5, <1>10 DEF ObjectsIn
    <3>2. QED
      BY <2>1, <3>1 DEF left
  <2>2. CASE y # z
    BY <1>4, <1>6, <1>10, <2>2 DEF ObjectsIn
  <2>3. QED
    BY <2>1, <2>2
<1>12. Fine(s, RemoveChild(o, z, c))
  BY <1>7, <1>9, FineChildren
<1>13. QED
  BY <1>11, <1>12

LEMMA FineCount ==
  ASSUME NEW s, NEW o, Fine(s, o) PROVE Cardinality(Children(o)) \in Nat
<1>1. Children(o) \subseteq Doid
  BY FineHas, ZoneObjectsAre DEF Children
<1>2. IsFiniteSet(Doid)
  BY DistributedObjectAssumption
<1>3. QED
  BY <1>1, <1>2, FS_Subset, FS_CardinalityType

-----------------------------------------------------------------------------
(* What a handler of object d makes known of it: from what the object was to *)
(* what it is.                                                               *)
At(o, p, z) == o.parent = p /\ o.zone = z

TellsPlaces(K, d, o, r) ==
  \A p \in Doid, z \in Zone :
    (Sees(LocationChannel(p, z), d) \in K <=> At(o, p, z))
      => (Sees(LocationChannel(p, z), d) \in After(K, r.out) <=> ~r.gone /\ At(r.obj, p, z))

RoleKnown(K, d, o, x) ==
  /\ Sees(RoleChannel(x), d) \in K => x \in {o.ai, o.owner}
  /\ x \in {o.ai, o.owner} /\ o.generator # x => Sees(RoleChannel(x), d) \in K

TellsRoles(K, d, o, r) ==
  \A x \in Role :
    RoleKnown(K, d, o, x)
      => IF r.gone THEN Sees(RoleChannel(x), d) \notin After(K, r.out)
         ELSE RoleKnown(After(K, r.out), d, r.obj, x)

TellsLists(K, d, o, r) ==
  \A p \in Doid, z \in Zone :
    /\ (Lists(p, z, d) \in K => At(o, p, z)) => (Lists(p, z, d) \in After(K, r.out) => At(r.obj, p, z))
    /\ (At(o, p, z) => Lists(p, z, d) \in K) => (At(r.obj, p, z) => Lists(p, z, d) \in After(K, r.out))

Proper(s, K, d, o, r) ==
  /\ Wire(s, d, r.out)
  /\ ~r.gone => Fine(s, r.obj) /\ r.obj.generator = o.generator
  /\ TellsPlaces(K, d, o, r)
  /\ AIsStay(s) => TellsRoles(K, d, o, r)
  /\ Undeleted(s) => ~r.gone /\ TellsLists(K, d, o, r)

Same(o, n) ==
  /\ n.parent = o.parent /\ n.zone = o.zone
  /\ n.ai = o.ai /\ n.owner = o.owner /\ n.generator = o.generator

Silent(K, q) == \A k \in Key : k \in After(K, q) <=> k \in K

LEMMA ProperSame ==
  ASSUME NEW s, NEW K, NEW d \in Doid, NEW o, NEW r, ~r.gone, Same(o, r.obj), Fine(s, r.obj),
         Silent(K, r.out), Wire(s, d, r.out)
  PROVE  Proper(s, K, d, o, r)
<1>1. TellsPlaces(K, d, o, r)
  BY LocationKey DEF Silent, TellsPlaces, Same, At
<1>2. TellsRoles(K, d, o, r)
  BY RoleKey DEF Silent, TellsRoles, RoleKnown, Same
<1>3. TellsLists(K, d, o, r)
  BY ListsKey DEF Silent, TellsLists, Same, At
<1>4. QED
  BY <1>1, <1>2, <1>3 DEF Proper, Same

LEMMA SilentNone ==
  ASSUME NEW K PROVE Silent(K, <<>>)
BY AfterNone DEF Silent

LEMMA SilentOne ==
  ASSUME NEW K, NEW m, m.kind \notin Heard PROVE Silent(K, <<m>>) /\ Silent(K, Send(m))
<1>1. \A k \in Key : k \in Step(K, m) <=> k \in K
  BY NotHeard, StepIs
<1>2. QED
  BY <1>1, AfterOne, AfterSend DEF Silent

LEMMA SilentConcat ==
  ASSUME NEW K, NEW p, NEW q, IsSeq(p), IsSeq(q), Silent(K, p), \A k \in Key : k \in After(After(K, p), q) <=> k \in After(K, p)
  PROVE  Silent(K, p \o q)
BY AfterConcat DEF Silent

LEMMA ProperStay ==
  ASSUME NEW s, NEW K, NEW d \in Doid, NEW o, NEW n, Same(o, n), Fine(s, n)
  PROVE  Proper(s, K, d, o, Stay(n))
<1> DEFINE r == Stay(n)
<1>1. r.obj = n /\ r.out = <<>> /\ ~r.gone
  BY DEF Stay
<1>2. Wire(s, d, r.out) /\ Silent(K, r.out)
  BY <1>1, WireNone, SilentNone
<1> HIDE DEF r
<1>3. Proper(s, K, d, o, r)
  BY <1>1, <1>2, ProperSame
<1>4. QED
  BY <1>3 DEF r

-----------------------------------------------------------------------------
(* handle_location_change                                                    *)
LEMMA RolesAre ==
  ASSUME NEW S, NEW x \in Role PROVE RoleChannel(x) \in Roles(S) <=> x \in S
<1>1. NoChannel \notin Role
  BY DistributedObjectAssumption
<1>2. \A y : RoleChannel(x) = RoleChannel(y) => x = y
  BY ChannelsDiffer
<1>3. QED
  BY <1>1, <1>2 DEF Roles

LEMMA RolesOnly ==
  ASSUME NEW S, NEW e, NEW y
  PROVE  /\ ObjectChannel(e) \notin Roles(S) /\ ChildrenOf(e) \notin Roles(S)
         /\ LocationChannel(e, y) \notin Roles(S) /\ ServerChannel \notin Roles(S)
BY ChannelsDiffer DEF Roles

LocationMessage(d, o, p, z) ==
  ChangingLocation(Roles({o.ai, o.owner}) \cup Left(o) \cup Entered(o, p), d, p, z, o.parent, o.zone)
EntryMessage(d, p, z) ==
  [kind |-> "enter_location", to |-> {LocationChannel(p, z)}, doid |-> d]
AIQuestion(d, p) == [kind |-> "get_ai", to |-> {ObjectChannel(p)}, sender |-> d]

LEMMA LocationMessageIs ==
  ASSUME NEW d, NEW o, NEW p, NEW z, NEW e \in Doid, NEW y, NEW m, m = LocationMessage(d, o, p, z)
  PROVE  /\ m.kind = "changing_location" /\ m.doid = d /\ m.parent = p /\ m.zone = z
         /\ m.old_parent = o.parent /\ m.old_zone = o.zone
         /\ LocationChannel(e, y) \in m.to <=> At(o, e, y)
         /\ ObjectChannel(e) \in m.to <=> e \in {o.parent, p}
         /\ ChildrenOf(e) \notin m.to
<1> DEFINE to == Roles({o.ai, o.owner}) \cup Left(o) \cup Entered(o, p)
<1>1. /\ m.kind = "changing_location" /\ m.doid = d /\ m.parent = p /\ m.zone = z
      /\ m.old_parent = o.parent /\ m.old_zone = o.zone /\ m.to = to
  BY DEF LocationMessage, ChangingLocation
<1>2. LocationChannel(e, y) \in to <=> At(o, e, y)
  <2>1. LocationChannel(e, y) \in to <=> LocationChannel(e, y) \in Left(o)
    BY RolesOnly, ChannelsDiffer DEF Entered
  <2>2. LocationChannel(e, y) \in Left(o) <=> o.parent # NoDoid /\ LocationChannel(e, y) = LocationChannel(o.parent, o.zone)
    BY ChannelsDiffer DEF Left
  <2>3. LocationChannel(e, y) = LocationChannel(o.parent, o.zone) <=> At(o, e, y)
    BY ChannelsDiffer DEF At
  <2>4. At(o, e, y) => o.parent # NoDoid
    BY NullIsNoDoid DEF At
  <2>5. QED
    BY <2>1, <2>2, <2>3, <2>4
<1>3. ObjectChannel(e) \in to <=> e \in {o.parent, p}
  <2>1. e # NoDoid
    BY NullIsNoDoid
  <2>2. \A f : ObjectChannel(e) = ObjectChannel(f) <=> e = f
    BY ChannelsDiffer
  <2>3. \A f, g : ObjectChannel(e) # LocationChannel(f, g)
    BY ChannelsDiffer
  <2>4. ObjectChannel(e) \in Left(o) <=> e = o.parent
    BY <2>1, <2>2, <2>3 DEF Left
  <2>5. ObjectChannel(e) \in Entered(o, p) <=> e = p /\ p # o.parent
    BY <2>1, <2>2 DEF Entered
  <2>6. QED
    BY <2>4, <2>5, RolesOnly
<1>4. ChildrenOf(e) \notin to
  BY RolesOnly, ChannelsDiffer DEF Left, Entered
<1>5. QED
  BY <1>1, <1>2, <1>3, <1>4

LEMMA ChangeLocationIs ==
  ASSUME NEW d, NEW o, NEW p, NEW z, ~(p = d \/ (p = o.parent /\ z = o.zone))
  PROVE  ChangeLocation(d, o, p, z) =
           Become(Relocated(o, p, z),
             When(p \notin {o.parent, NoDoid} /\ ~o.explicit, AIQuestion(d, p))
             \o Send(LocationMessage(d, o, p, z))
             \o When(p # NoDoid, EntryMessage(d, p, z)))
BY DEF ChangeLocation, AIQuestion, LocationMessage, EntryMessage

LEMMA GoodLocation ==
  ASSUME NEW s, NEW d \in Doid, NEW o, NEW p, NEW z, Place(p, z),
         ~(p = o.parent /\ z = o.zone)
  PROVE  /\ Good(s, LocationMessage(d, o, p, z)) /\ About(d, LocationMessage(d, o, p, z))
         /\ p # NoDoid => Good(s, EntryMessage(d, p, z)) /\ About(d, EntryMessage(d, p, z))
         /\ Good(s, AIQuestion(d, p)) /\ About(d, AIQuestion(d, p))
<1>1. Good(s, LocationMessage(d, o, p, z)) /\ About(d, LocationMessage(d, o, p, z))
  <2> DEFINE m == LocationMessage(d, o, p, z)
  <2>1. /\ m.kind = "changing_location" /\ m.doid = d /\ m.parent = p /\ m.zone = z
        /\ m.old_parent = o.parent /\ m.old_zone = o.zone
    BY DEF LocationMessage, ChangingLocation
  <2>2. \A e \in Doid : ChildrenOf(e) \notin m.to
    BY LocationMessageIs
  <2> HIDE DEF m
  <2>3. Addressed(m) /\ Named(m) /\ Allowed(s, m)
    BY <2>1, <2>2 DEF Addressed, Named, Allowed, ToObjects, Deletions, Entries, Exits
  <2>4. About(d, m)
    BY <2>1, AboutIs
  <2>5. QED
    BY <2>3, <2>4 DEF m, Good
<1>2. ASSUME p # NoDoid PROVE Good(s, EntryMessage(d, p, z)) /\ About(d, EntryMessage(d, p, z))
  <2> DEFINE m == EntryMessage(d, p, z)
  <2>1. m.kind = "enter_location" /\ m.doid = d /\ m.to = {LocationChannel(p, z)}
    BY DEF EntryMessage
  <2>2. \A e \in Doid : ObjectChannel(e) \notin m.to /\ ChildrenOf(e) \notin m.to
    BY <2>1, ChannelsDiffer
  <2> HIDE DEF m
  <2>3. Addressed(m) /\ Named(m) /\ Allowed(s, m)
    BY <2>1, <2>2 DEF Addressed, Named, Allowed, ToObjects, Deletions, Entries, Exits
  <2>4. About(d, m)
    BY <2>1, AboutIs
  <2>5. QED
    BY <2>3, <2>4 DEF m, Good
<1>3. Good(s, AIQuestion(d, p)) /\ About(d, AIQuestion(d, p))
  <2> DEFINE m == AIQuestion(d, p)
  <2>1. m.kind = "get_ai"
    BY DEF AIQuestion
  <2> HIDE DEF m
  <2>2. Addressed(m) /\ Named(m) /\ Allowed(s, m)
    BY <2>1 DEF Addressed, Named, Allowed, ToObjects, Deletions, Entries, Exits
  <2>3. About(d, m)
    BY <2>1, AboutIs DEF Heard, Entries, Exits
  <2>4. QED
    BY <2>2, <2>3 DEF m, Good
<1>4. QED
  BY <1>1, <1>2, <1>3

LEMMA ProperLocation ==
  ASSUME NEW s, NEW K, NEW d \in Doid, NEW o, NEW p, NEW z, Fine(s, o), Place(p, z),
         p = NoDoid => o.parent = NoDoid \/ "move_away" \in s.requests
  PROVE  Proper(s, K, d, o, ChangeLocation(d, o, p, z))
<1>1. CASE p = d \/ (p = o.parent /\ z = o.zone)
  <2>1. ChangeLocation(d, o, p, z) = Stay(o)
    BY <1>1 DEF ChangeLocation
  <2>2. QED
    BY <2>1, ProperStay DEF Same
<1>2. CASE ~(p = d \/ (p = o.parent /\ z = o.zone))
  <2> DEFINE asks == p \notin {o.parent, NoDoid} /\ ~o.explicit
             a == AIQuestion(d, p)
             b == LocationMessage(d, o, p, z)
             c == EntryMessage(d, p, z)
             n == Relocated(o, p, z)
             r == ChangeLocation(d, o, p, z)
  <2>1. r.obj = n /\ ~r.gone /\ r.out = When(asks, a) \o Send(b) \o When(p # NoDoid, c)
    BY <1>2, ChangeLocationIs DEF Become
  <2>2. /\ Good(s, b) /\ About(d, b) /\ Good(s, a) /\ About(d, a)
        /\ p # NoDoid => Good(s, c) /\ About(d, c)
    BY <1>2, GoodLocation
  <2>3. a.kind = "get_ai" /\ c.kind = "enter_location" /\ c.doid = d /\ c.to = {LocationChannel(p, z)}
    BY DEF AIQuestion, EntryMessage
  <2>4. /\ b.kind = "changing_location" /\ b.doid = d /\ b.parent = p /\ b.zone = z
        /\ b.old_parent = o.parent /\ b.old_zone = o.zone
    BY DEF LocationMessage, ChangingLocation
  <2>5. ASSUME NEW e \in Doid, NEW y
        PROVE  /\ LocationChannel(e, y) \in b.to <=> At(o, e, y)
               /\ ObjectChannel(e) \in b.to <=> e \in {o.parent, p}
    <3>1. b = LocationMessage(d, o, p, z)
      OBVIOUS
    <3> HIDE DEF b
    <3>2. QED
      BY <3>1, LocationMessageIs
  <2>6. \A e \in Doid : ObjectChannel(e) \in b.to <=> e \in {o.parent, p}
    BY <2>5
  <2>7. Fine(s, n) /\ n.parent = p /\ n.zone = z /\ n.owner = o.owner /\ n.generator = o.generator
    <3>1. Fine(s, n)
      BY FineMoved
    <3>2. QED
      BY <3>1 DEF Fine, Object, Relocated
  <2>8. n.ai = IF p # o.parent /\ p = NoDoid /\ ~o.explicit THEN NoChannel ELSE o.ai
    BY DEF Relocated, Fine, Object
  <2> HIDE DEF asks, a, b, c, n, r
  <2>9. Wire(s, d, When(asks, a)) /\ Wire(s, d, Send(b)) /\ Wire(s, d, When(p # NoDoid, c))
    BY <2>2, WireWhen, WireSend
  <2>10. Wire(s, d, r.out)
    BY <2>1, <2>9, WireConcat
  <2>11. ASSUME NEW k \in Key
         PROVE  k \in After(K, r.out) <=>
                  \/ p # NoDoid /\ k \in Adds(c)
                  \/ (p # NoDoid => k \notin Removes(c)) /\ (k \in Adds(b) \/ (k \in K /\ k \notin Removes(b)))
    <3>1. k \in After(K, When(asks, a)) <=> k \in K
      <4>1. Adds(a) = {} /\ Removes(a) = {}
        BY <2>3, NotHeard DEF Heard, Entries, Exits
      <4>2. QED
        BY <4>1, AfterWhen, StepIs
    <3>2. k \in After(After(K, When(asks, a)), Send(b)) <=> (k \in Adds(b) \/ (k \in K /\ k \notin Removes(b)))
      BY <3>1, AfterSend, StepIs
    <3>3. k \in After(K, When(asks, a) \o Send(b)) <=> k \in After(After(K, When(asks, a)), Send(b))
      BY <2>9, AfterConcat DEF Wire
    <3>4. IsSeq(When(asks, a) \o Send(b)) /\ IsSeq(When(p # NoDoid, c))
      BY <2>9, SeqConcat DEF Wire
    <3>5. k \in After(K, r.out) <=> k \in After(After(K, When(asks, a) \o Send(b)), When(p # NoDoid, c))
      BY <2>1, <3>4, AfterConcat
    <3> DEFINE E == After(K, When(asks, a) \o Send(b))
    <3>6. k \in E <=> (k \in Adds(b) \/ (k \in K /\ k \notin Removes(b)))
      BY <3>2, <3>3
    <3>7. k \in After(E, When(p # NoDoid, c)) <=> k \in (IF p # NoDoid THEN Step(E, c) ELSE E)
      BY AfterWhen
    <3> HIDE DEF E
    <3>8. k \in After(E, When(p # NoDoid, c)) <=>
            \/ p # NoDoid /\ k \in Adds(c)
            \/ (p # NoDoid => k \notin Removes(c)) /\ k \in E
      BY <3>7, StepIs
    <3>9. k \in After(K, r.out) <=> k \in After(E, When(p # NoDoid, c))
      BY <3>5 DEF E
    <3>10. QED
      BY <3>6, <3>8, <3>9
  <2>12. TellsPlaces(K, d, o, r)
    <3> SUFFICES ASSUME NEW q \in Doid, NEW y \in Zone, Sees(LocationChannel(q, y), d) \in K <=> At(o, q, y)
                 PROVE  Sees(LocationChannel(q, y), d) \in After(K, r.out) <=> At(n, q, y)
      BY <2>1 DEF TellsPlaces
    <3> DEFINE k == Sees(LocationChannel(q, y), d)
    <3>1. /\ k \in Key /\ k \notin Removes(c) /\ k \notin Adds(b)
          /\ k \in Removes(b) <=> At(o, q, y)
          /\ k \in Adds(c) <=> LocationChannel(q, y) = LocationChannel(p, z)
      BY <2>3, <2>4, <2>5, LocationKey DEF Entries, Exits
    <3>2. LocationChannel(q, y) = LocationChannel(p, z) <=> q = p /\ y = z
      BY ChannelsDiffer
    <3>3. q # NoDoid
      BY NullIsNoDoid
    <3>4. At(n, q, y) <=> q = p /\ y = z
      BY <2>7 DEF At
    <3> HIDE DEF k
    <3>5. k \in K <=> At(o, q, y)
      BY DEF k
    <3>6. k \in After(K, r.out) <=> At(n, q, y)
      BY <2>11, <3>1, <3>2, <3>3, <3>4, <3>5
    <3>7. QED
      BY <3>6 DEF k
  <2>13. ASSUME AIsStay(s) PROVE TellsRoles(K, d, o, r)
    <3>1. n.ai = o.ai
      <4>1. CASE p # o.parent /\ p = NoDoid /\ ~o.explicit
        <5>1. NoAIs(s)
          BY <2>13, <4>1 DEF AIsStay
        <5>2. o.ai = NoChannel
          BY <5>1 DEF Fine, KnownAI
        <5>3. QED
          BY <2>8, <5>2
      <4>2. CASE ~(p # o.parent /\ p = NoDoid /\ ~o.explicit)
        BY <2>8, <4>2
      <4>3. QED
        BY <4>1, <4>2
    <3> SUFFICES ASSUME NEW x \in Role, RoleKnown(K, d, o, x) PROVE RoleKnown(After(K, r.out), d, n, x)
      BY <2>1 DEF TellsRoles
    <3> DEFINE k == Sees(RoleChannel(x), d)
    <3>2. k \in Key /\ k \notin Removes(c) /\ k \notin Adds(b) /\ k \notin Removes(b)
      BY <2>3, <2>4, RoleKey DEF Entries, Exits
    <3>3. k \notin Adds(c)
      BY <2>3, RoleKey, ChannelsDiffer
    <3> HIDE DEF k
    <3>4. k \in After(K, r.out) <=> k \in K
      BY <2>11, <3>2, <3>3
    <3>5. QED
      BY <2>7, <3>1, <3>4 DEF RoleKnown, k
  <2>14. TellsLists(K, d, o, r)
    <3> SUFFICES ASSUME NEW q \in Doid, NEW y \in Zone
                 PROVE  Lists(q, y, d) \in After(K, r.out)
                        <=> At(n, q, y) \/ (Lists(q, y, d) \in K /\ ~At(o, q, y))
      BY <2>1 DEF TellsLists
    <3> DEFINE k == Lists(q, y, d)
    <3>1. /\ k \in Key /\ k \notin Removes(c) /\ k \notin Adds(c)
          /\ k \in Adds(b) <=> ObjectChannel(q) \in b.to /\ q = p /\ y = z
          /\ k \in Removes(b) <=> ObjectChannel(q) \in b.to /\ q = o.parent /\ y = o.zone
      BY <2>3, <2>4, ListsKey
    <3>2. k \in Adds(b) <=> At(n, q, y)
      BY <2>6, <2>7, <3>1 DEF At
    <3>3. k \in Removes(b) <=> At(o, q, y)
      BY <2>6, <3>1 DEF At
    <3> HIDE DEF k
    <3>4. k \in After(K, r.out) <=> At(n, q, y) \/ (k \in K /\ ~At(o, q, y))
      BY <2>11, <3>1, <3>2, <3>3
    <3>5. QED
      BY <3>4 DEF k
  <2>15. Proper(s, K, d, o, r)
    BY <2>1, <2>7, <2>10, <2>12, <2>13, <2>14 DEF Proper
  <2>16. QED
    BY <2>15 DEF r
<1>3. QED
  BY <1>1, <1>2

-----------------------------------------------------------------------------
(* handle_ai_change and the change of an owner.                              *)
LEMMA AfterTwo ==
  ASSUME NEW K, NEW a, NEW b, NEW ca, NEW cb, NEW k \in Key
  PROVE  k \in After(K, When(ca, a) \o When(cb, b)) <=>
           \/ cb /\ k \in Adds(b)
           \/ /\ cb => k \notin Removes(b)
              /\ (ca /\ k \in Adds(a)) \/ (k \in K /\ (ca => k \notin Removes(a)))
<1> DEFINE E == After(K, When(ca, a))
<1>1. IsSeq(When(ca, a)) /\ IsSeq(When(cb, b))
  <2>1. \A m : IsSeq(Send(m))
    BY SeqSend
  <2>2. IsSeq(<<>>)
    BY WireNone DEF Wire
  <2>3. QED
    BY <2>1, <2>2 DEF When
<1>4. k \in After(K, When(ca, a) \o When(cb, b)) <=> k \in After(E, When(cb, b))
  BY <1>1, AfterConcat
<1>5. k \in E <=> (ca /\ k \in Adds(a)) \/ (k \in K /\ (ca => k \notin Removes(a)))
  <2>1. CASE ca
    <3>1. E = After(K, Send(a))
      BY <2>1 DEF When
    <3>2. k \in E <=> k \in Step(K, a)
      BY <3>1, AfterSend
    <3>3. QED
      BY <2>1, <3>2, StepIs
  <2>2. CASE ~ca
    <3>1. E = After(K, <<>>)
      BY <2>2 DEF When
    <3>2. QED
      BY <2>2, <3>1, AfterNone
  <2>3. QED
    BY <2>1, <2>2
<1> HIDE DEF E
<1>6. k \in After(E, When(cb, b)) <=> (cb /\ k \in Adds(b)) \/ (k \in E /\ (cb => k \notin Removes(b)))
  <2>1. CASE cb
    <3>1. After(E, When(cb, b)) = After(E, Send(b))
      BY <2>1 DEF When
    <3>2. k \in After(E, When(cb, b)) <=> k \in Step(E, b)
      BY <3>1, AfterSend
    <3>3. QED
      BY <2>1, <3>2, StepIs
  <2>2. CASE ~cb
    <3>1. After(E, When(cb, b)) = After(E, <<>>)
      BY <2>2 DEF When
    <3>2. QED
      BY <2>2, <3>1, AfterNone
  <2>3. QED
    BY <2>1, <2>2
<1>7. QED
  BY <1>4, <1>5, <1>6

LEMMA SendIsWhen ==
  ASSUME NEW m PROVE Send(m) = When(TRUE, m)
BY DEF When

AIMessage(d, o, ai) ==
  [kind |-> "changing_ai", doid |-> d, ai |-> ai, old_ai |-> o.ai,
   to |-> Roles({o.ai}) \cup IF DOMAIN o.zone_objects # {} THEN {ChildrenOf(d)} ELSE {}]
AIEntry(d, ai) == [kind |-> "enter_ai", to |-> Roles({ai}), doid |-> d]

LEMMA ProperAI ==
  ASSUME NEW s, NEW K, NEW d \in Doid, NEW o, Fine(s, o), NEW ai \in KnownAI(s), NEW explicit \in BOOLEAN
  PROVE  Proper(s, K, d, o, ChangeAI(d, o, ai, explicit))
<1>1. CASE ai = o.ai
  <2>1. ChangeAI(d, o, ai, explicit) = Stay(o)
    BY <1>1 DEF ChangeAI
  <2>2. QED
    BY <2>1, ProperStay DEF Same
<1>2. CASE ai # o.ai
  <2> DEFINE told == ai # o.generator \/ o.ai # NoChannel
             a == AIMessage(d, o, ai)
             b == AIEntry(d, ai)
             n == [o EXCEPT !.ai = ai, !.explicit = explicit]
             r == ChangeAI(d, o, ai, explicit)
  <2>1. r.obj = n /\ ~r.gone /\ r.out = When(TRUE, a) \o When(told, b)
    <3>1. r = Become(n, Send(a) \o When(told, b))
      BY <1>2 DEF ChangeAI, AIMessage, AIEntry
    <3>2. Send(a) = When(TRUE, a)
      BY SendIsWhen
    <3> HIDE DEF told, a, b, n, r
    <3>3. QED
      BY <3>1, <3>2 DEF Become
  <2>2. /\ a.kind = "changing_ai" /\ a.doid = d /\ a.ai = ai
        /\ a.to = Roles({o.ai}) \cup IF DOMAIN o.zone_objects # {} THEN {ChildrenOf(d)} ELSE {}
        /\ b.kind = "enter_ai" /\ b.doid = d /\ b.to = Roles({ai})
    BY DEF AIMessage, AIEntry
  <2>3. \A x \in Role : (RoleChannel(x) \in a.to <=> x = o.ai) /\ (RoleChannel(x) \in b.to <=> x = ai)
    BY <2>2, RolesAre, ChannelsDiffer
  <2>4. \A p, z : LocationChannel(p, z) \notin a.to /\ LocationChannel(p, z) \notin b.to
    BY <2>2, RolesOnly, ChannelsDiffer
  <2>5. \A e : ObjectChannel(e) \notin b.to /\ ChildrenOf(e) \notin b.to
    BY <2>2, RolesOnly
  <2>6. Fine(s, n)
    BY FineAI
  <2>7. n.parent = o.parent /\ n.zone = o.zone /\ n.owner = o.owner /\ n.generator = o.generator /\ n.ai = ai
    BY DEF Fine, Object
  <2>8. o.owner \in Client \cup {NoChannel} /\ o.ai \in AI \cup {NoChannel} /\ ai \in AI \cup {NoChannel}
    BY FineHas, KnownAIs
  <2> HIDE DEF told, a, b, n, r
  <2>9. Wire(s, d, r.out)
    <3>1. Good(s, a) /\ About(d, a)
      <4>1. Addressed(a) /\ Named(a) /\ Allowed(s, a)
        BY <2>2 DEF Addressed, Named, Allowed, ToObjects, Deletions, Entries, Exits
      <4>2. QED
        BY <2>2, <4>1, AboutIs DEF Good
    <3>2. Good(s, b) /\ About(d, b)
      <4>1. Addressed(b) /\ Named(b) /\ Allowed(s, b)
        BY <2>2, <2>5 DEF Addressed, Named, Allowed, ToObjects, Deletions, Entries, Exits
      <4>2. QED
        BY <2>2, <4>1, AboutIs DEF Good
    <3>3. QED
      BY <2>1, <3>1, <3>2, WireWhen, WireConcat
  <2>10. \A k \in Key : k \in After(K, r.out) <=>
            \/ told /\ k \in Adds(b)
            \/ /\ told => k \notin Removes(b)
               /\ k \in Adds(a) \/ (k \in K /\ k \notin Removes(a))
    BY <2>1, AfterTwo
  <2>11. TellsPlaces(K, d, o, r)
    <3>1. \A p \in Doid, z \in Zone :
            Sees(LocationChannel(p, z), d) \in After(K, r.out) <=> Sees(LocationChannel(p, z), d) \in K
      <4> SUFFICES ASSUME NEW p \in Doid, NEW z \in Zone
                   PROVE  Sees(LocationChannel(p, z), d) \in After(K, r.out)
                          <=> Sees(LocationChannel(p, z), d) \in K
        OBVIOUS
      <4> DEFINE k == Sees(LocationChannel(p, z), d)
      <4>1. k \in Key /\ k \notin Adds(a) /\ k \notin Removes(a) /\ k \notin Adds(b) /\ k \notin Removes(b)
        BY <2>4, LocationKey
      <4> HIDE DEF k
      <4>2. k \in After(K, r.out) <=> k \in K
        BY <2>10, <4>1
      <4>3. QED
        BY <4>2 DEF k
    <3>2. QED
      BY <2>1, <2>7, <3>1 DEF TellsPlaces, At
  <2>12. TellsRoles(K, d, o, r)
    <3> SUFFICES ASSUME NEW x \in Role, RoleKnown(K, d, o, x) PROVE RoleKnown(After(K, r.out), d, n, x)
      BY <2>1 DEF TellsRoles
    <3> DEFINE k == Sees(RoleChannel(x), d)
    <3> HIDE DEF k
    <3>1. /\ k \in Key /\ k \notin Adds(a) /\ k \notin Removes(b)
          /\ k \in Removes(a) <=> x = o.ai
          /\ k \in Adds(b) <=> x = ai
      <4>1. /\ k \in Key
            /\ k \in Adds(a) <=> a.kind \in Entries /\ a.doid = d /\ RoleChannel(x) \in a.to
            /\ k \in Removes(a) <=> a.kind \in Exits /\ a.doid = d /\ RoleChannel(x) \in a.to
            /\ k \in Adds(b) <=> b.kind \in Entries /\ b.doid = d /\ RoleChannel(x) \in b.to
            /\ k \in Removes(b) <=> b.kind \in Exits /\ b.doid = d /\ RoleChannel(x) \in b.to
        BY RoleKey DEF k
      <4>2. a.kind \in Exits /\ a.kind \notin Entries /\ b.kind \in Entries /\ b.kind \notin Exits
        BY <2>2 DEF Entries, Exits
      <4>3. QED
        BY <2>2, <2>3, <4>1, <4>2
    <3>2. x \notin AI \cap Client /\ x # NoChannel
      BY DistributedObjectAssumption
    <3> HIDE DEF k
    <3>3. k \in After(K, r.out) <=> (told /\ x = ai) \/ (k \in K /\ x # o.ai)
      BY <2>10, <3>1
    <3>4. k \in K => x \in {o.ai, o.owner}
      BY DEF RoleKnown, k
    <3>5. x \in {o.ai, o.owner} /\ o.generator # x => k \in K
      BY DEF RoleKnown, k
    <3>6. x = ai /\ o.generator # x => told
      BY DEF told
    <3>7. k \in After(K, r.out) => x \in {ai, o.owner}
      BY <3>3, <3>4
    <3>8. x \in {ai, o.owner} /\ o.generator # x => k \in After(K, r.out)
      BY <2>8, <3>2, <3>3, <3>5, <3>6
    <3>9. QED
      BY <2>7, <3>7, <3>8 DEF RoleKnown, k
  <2>13. TellsLists(K, d, o, r)
    <3>1. \A p \in Doid, z \in Zone : Lists(p, z, d) \in After(K, r.out) <=> Lists(p, z, d) \in K
      <4> SUFFICES ASSUME NEW p \in Doid, NEW z \in Zone
                   PROVE  Lists(p, z, d) \in After(K, r.out) <=> Lists(p, z, d) \in K
        OBVIOUS
      <4> DEFINE k == Lists(p, z, d)
      <4>1. k \in Key /\ k \notin Adds(a) /\ k \notin Removes(a) /\ k \notin Adds(b) /\ k \notin Removes(b)
        BY <2>2, ListsKey
      <4> HIDE DEF k
      <4>2. k \in After(K, r.out) <=> k \in K
        BY <2>10, <4>1
      <4>3. QED
        BY <4>2 DEF k
    <3>2. QED
      BY <2>1, <2>7, <3>1 DEF TellsLists, At
  <2>14. Proper(s, K, d, o, r)
    BY <2>1, <2>6, <2>7, <2>9, <2>11, <2>12, <2>13 DEF Proper
  <2>15. QED
    BY <2>14 DEF r
<1>3. QED
  BY <1>1, <1>2

OwnerMessage(d, o) == [kind |-> "changing_owner", to |-> Roles({o.owner}), doid |-> d]
OwnerEntry(d, c) == [kind |-> "enter_owner", to |-> Roles({c}), doid |-> d]

LEMMA ProperOwner ==
  ASSUME NEW s, NEW K, NEW d \in Doid, NEW o, Fine(s, o), NEW m, m.owner \in Client \cup {NoChannel}, m.entry
  PROVE  Proper(s, K, d, o, HandleSetOwner(d, o, m))
<1> DEFINE c == m.owner
<1>1. CASE c = o.owner
  <2>1. HandleSetOwner(d, o, m) = Stay(o)
    BY <1>1 DEF HandleSetOwner
  <2>2. QED
    BY <2>1, ProperStay DEF Same
<1>2. CASE c # o.owner
  <2> DEFINE left == o.owner # NoChannel
             told == c # NoChannel /\ m.entry
             a == OwnerMessage(d, o)
             b == OwnerEntry(d, c)
             n == [o EXCEPT !.owner = c]
             r == HandleSetOwner(d, o, m)
  <2>1. r.obj = n /\ ~r.gone /\ r.out = When(left, a) \o When(told, b)
    BY <1>2 DEF HandleSetOwner, OwnerMessage, OwnerEntry, Become
  <2>2. /\ a.kind = "changing_owner" /\ a.doid = d /\ a.to = Roles({o.owner})
        /\ b.kind = "enter_owner" /\ b.doid = d /\ b.to = Roles({c})
    BY DEF OwnerMessage, OwnerEntry
  <2>3. \A x \in Role : (RoleChannel(x) \in a.to <=> x = o.owner) /\ (RoleChannel(x) \in b.to <=> x = c)
    BY <2>2, RolesAre
  <2>4. \A p, z : LocationChannel(p, z) \notin a.to /\ LocationChannel(p, z) \notin b.to
    BY <2>2, RolesOnly
  <2>5. \A e : /\ ObjectChannel(e) \notin b.to /\ ChildrenOf(e) \notin b.to
               /\ ObjectChannel(e) \notin a.to /\ ChildrenOf(e) \notin a.to
    BY <2>2, RolesOnly
  <2>6. Fine(s, n)
    BY FineOwner
  <2>7. n.parent = o.parent /\ n.zone = o.zone /\ n.owner = c /\ n.generator = o.generator /\ n.ai = o.ai
    BY DEF Fine, Object
  <2>8. o.owner \in Client \cup {NoChannel} /\ o.ai \in AI \cup {NoChannel} /\ c \in Client \cup {NoChannel}
    BY FineHas, KnownAIs
  <2>9. \A x \in Role : x # NoChannel /\ (x = o.owner => left) /\ (x = c => told)
    BY DistributedObjectAssumption
  <2> HIDE DEF told, left, a, b, n, r, c
  <2>10. Wire(s, d, r.out)
    <3>1. Good(s, a) /\ About(d, a)
      <4>1. Addressed(a) /\ Named(a) /\ Allowed(s, a)
        BY <2>2, <2>5 DEF Addressed, Named, Allowed, ToObjects, Deletions, Entries, Exits
      <4>2. QED
        BY <2>2, <4>1, AboutIs DEF Good
    <3>2. Good(s, b) /\ About(d, b)
      <4>1. Addressed(b) /\ Named(b) /\ Allowed(s, b)
        BY <2>2, <2>5 DEF Addressed, Named, Allowed, ToObjects, Deletions, Entries, Exits
      <4>2. QED
        BY <2>2, <4>1, AboutIs DEF Good
    <3>3. QED
      BY <2>1, <3>1, <3>2, WireWhen, WireConcat
  <2>11. \A k \in Key : k \in After(K, r.out) <=>
            \/ told /\ k \in Adds(b)
            \/ /\ told => k \notin Removes(b)
               /\ (left /\ k \in Adds(a)) \/ (k \in K /\ (left => k \notin Removes(a)))
    BY <2>1, AfterTwo
  <2>12. TellsPlaces(K, d, o, r)
    <3>1. \A p \in Doid, z \in Zone :
            Sees(LocationChannel(p, z), d) \in After(K, r.out) <=> Sees(LocationChannel(p, z), d) \in K
      <4> SUFFICES ASSUME NEW p \in Doid, NEW z \in Zone
                   PROVE  Sees(LocationChannel(p, z), d) \in After(K, r.out)
                          <=> Sees(LocationChannel(p, z), d) \in K
        OBVIOUS
      <4> DEFINE k == Sees(LocationChannel(p, z), d)
      <4>1. k \in Key /\ k \notin Adds(a) /\ k \notin Removes(a) /\ k \notin Adds(b) /\ k \notin Removes(b)
        BY <2>4, LocationKey
      <4> HIDE DEF k
      <4>2. k \in After(K, r.out) <=> k \in K
        BY <2>11, <4>1
      <4>3. QED
        BY <4>2 DEF k
    <3>2. QED
      BY <2>1, <2>7, <3>1 DEF TellsPlaces, At
  <2>13. TellsRoles(K, d, o, r)
    <3> SUFFICES ASSUME NEW x \in Role, RoleKnown(K, d, o, x) PROVE RoleKnown(After(K, r.out), d, n, x)
      BY <2>1 DEF TellsRoles
    <3> DEFINE k == Sees(RoleChannel(x), d)
    <3>1. /\ k \in Key /\ k \notin Adds(a) /\ k \notin Removes(b)
          /\ k \in Removes(a) <=> x = o.owner
          /\ k \in Adds(b) <=> x = c
      <4>1. k \in Key /\ k \notin Adds(a) /\ (k \in Removes(a) <=> RoleChannel(x) \in a.to)
        BY <2>2, RoleKey DEF Entries, Exits
      <4>2. k \notin Removes(b) /\ (k \in Adds(b) <=> RoleChannel(x) \in b.to)
        BY <2>2, RoleKey DEF Entries, Exits
      <4>3. QED
        BY <2>2, <2>3, <4>1, <4>2
    <3>2. x \notin AI \cap Client
      BY DistributedObjectAssumption
    <3> HIDE DEF k
    <3>3. k \in After(K, r.out) <=> x = c \/ (k \in K /\ x # o.owner)
      BY <2>9, <2>11, <3>1
    <3>4. k \in K => x \in {o.ai, o.owner}
      BY DEF RoleKnown, k
    <3>5. x \in {o.ai, o.owner} /\ o.generator # x => k \in K
      BY DEF RoleKnown, k
    <3>6. k \in After(K, r.out) => x \in {o.ai, c}
      BY <3>3, <3>4
    <3>7. x \in {o.ai, c} /\ o.generator # x => k \in After(K, r.out)
      BY <2>8, <2>9, <3>2, <3>3, <3>5
    <3>8. QED
      BY <2>7, <3>6, <3>7 DEF RoleKnown, k
  <2>14. TellsLists(K, d, o, r)
    <3>1. \A p \in Doid, z \in Zone : Lists(p, z, d) \in After(K, r.out) <=> Lists(p, z, d) \in K
      <4> SUFFICES ASSUME NEW p \in Doid, NEW z \in Zone
                   PROVE  Lists(p, z, d) \in After(K, r.out) <=> Lists(p, z, d) \in K
        OBVIOUS
      <4> DEFINE k == Lists(p, z, d)
      <4>1. k \in Key /\ k \notin Adds(a) /\ k \notin Removes(a) /\ k \notin Adds(b) /\ k \notin Removes(b)
        BY <2>2, ListsKey
      <4> HIDE DEF k
      <4>2. k \in After(K, r.out) <=> k \in K
        BY <2>11, <4>1
      <4>3. QED
        BY <4>2 DEF k
    <3>2. QED
      BY <2>1, <2>7, <3>1 DEF TellsLists, At
  <2>15. Proper(s, K, d, o, r)
    BY <2>1, <2>6, <2>7, <2>10, <2>12, <2>13, <2>14 DEF Proper
  <2>16. QED
    BY <2>15 DEF r
<1>3. QED
  BY <1>1, <1>2

-----------------------------------------------------------------------------
(* Deletion.                                                                 *)
ToParent(d, o, f) == DeleteRam({ObjectChannel(o.parent)}, d, f)
ToOthers(d, o, f) ==
  DeleteRam(Roles({o.owner, o.ai}) \cup
              IF o.parent = NoDoid THEN {} ELSE {LocationChannel(o.parent, o.zone)}, d, f)

LEMMA FarewellTells ==
  ASSUME NEW s, NEW K, NEW d \in Doid, NEW o, Fine(s, o), NEW f, ~Undeleted(s)
  PROVE  /\ Wire(s, d, Farewell(d, o, f))
         /\ \A p \in Doid, z \in Zone :
              Sees(LocationChannel(p, z), d) \in After(K, Farewell(d, o, f))
              <=> Sees(LocationChannel(p, z), d) \in K /\ ~At(o, p, z)
         /\ \A x \in Role :
              Sees(RoleChannel(x), d) \in After(K, Farewell(d, o, f))
              <=> Sees(RoleChannel(x), d) \in K /\ x \notin {o.owner, o.ai}
<1> DEFINE placed == o.parent # NoDoid
           a == ToParent(d, o, f)
           b == ToOthers(d, o, f)
<1>1. Farewell(d, o, f) = When(placed, a) \o When(TRUE, b)
  BY SendIsWhen DEF Farewell, ToParent, ToOthers
<1>2. /\ a.kind = "delete_ram" /\ a.doid = d /\ a.to = {ObjectChannel(o.parent)}
      /\ b.kind = "delete_ram" /\ b.doid = d
      /\ b.to = Roles({o.owner, o.ai}) \cup
                  IF o.parent = NoDoid THEN {} ELSE {LocationChannel(o.parent, o.zone)}
  BY DEF ToParent, ToOthers, DeleteRam
<1>3. \A x \in Role : RoleChannel(x) \in b.to <=> x \in {o.owner, o.ai}
  BY <1>2, RolesAre, ChannelsDiffer
<1>4. \A p \in Doid, z \in Zone : LocationChannel(p, z) \in b.to <=> At(o, p, z)
  BY <1>2, RolesOnly, ChannelsDiffer, NullIsNoDoid DEF At
<1>5. \A p, z, x : LocationChannel(p, z) \notin a.to /\ RoleChannel(x) \notin a.to
  BY <1>2, ChannelsDiffer
<1>6. Good(s, a) /\ About(d, a) /\ Good(s, b) /\ About(d, b)
  <2> HIDE DEF a, b
  <2>1. Addressed(a) /\ Named(a) /\ Allowed(s, a)
    BY <1>2 DEF Addressed, Named, Allowed, ToObjects, Deletions, Entries, Exits
  <2>2. Addressed(b) /\ Named(b) /\ Allowed(s, b)
    BY <1>2 DEF Addressed, Named, Allowed, ToObjects, Deletions, Entries, Exits
  <2>3. QED
    BY <1>2, <2>1, <2>2, AboutIs DEF Good
<1> HIDE DEF placed, a, b
<1>7. Wire(s, d, Farewell(d, o, f))
  BY <1>1, <1>6, WireWhen, WireConcat
<1>8. ASSUME NEW k \in Key
      PROVE  k \in After(K, Farewell(d, o, f)) <=>
               \/ k \in Adds(b)
               \/ /\ k \notin Removes(b)
                  /\ (placed /\ k \in Adds(a)) \/ (k \in K /\ (placed => k \notin Removes(a)))
  <2>1. k \in After(K, When(placed, a) \o When(TRUE, b)) <=>
          \/ TRUE /\ k \in Adds(b)
          \/ /\ TRUE => k \notin Removes(b)
             /\ (placed /\ k \in Adds(a)) \/ (k \in K /\ (placed => k \notin Removes(a)))
    BY AfterTwo
  <2>2. QED
    BY <1>1, <2>1
<1>9. ASSUME NEW p \in Doid, NEW z \in Zone
      PROVE  Sees(LocationChannel(p, z), d) \in After(K, Farewell(d, o, f))
             <=> Sees(LocationChannel(p, z), d) \in K /\ ~At(o, p, z)
  <2> DEFINE k == Sees(LocationChannel(p, z), d)
  <2>1. k \in Key /\ k \notin Adds(a) /\ k \notin Removes(a) /\ k \notin Adds(b)
    BY <1>2, <1>5, LocationKey DEF Entries
  <2>2. k \in Removes(b) <=> At(o, p, z)
    BY <1>2, <1>4, LocationKey DEF Exits
  <2> HIDE DEF k
  <2>3. k \in After(K, Farewell(d, o, f)) <=> k \in K /\ ~At(o, p, z)
    BY <1>8, <2>1, <2>2
  <2>4. QED
    BY <2>3 DEF k
<1>10. ASSUME NEW x \in Role
       PROVE  Sees(RoleChannel(x), d) \in After(K, Farewell(d, o, f))
              <=> Sees(RoleChannel(x), d) \in K /\ x \notin {o.owner, o.ai}
  <2> DEFINE k == Sees(RoleChannel(x), d)
  <2>1. k \in Key /\ k \notin Adds(a) /\ k \notin Removes(a) /\ k \notin Adds(b)
    BY <1>2, <1>5, RoleKey DEF Entries
  <2>2. k \in Removes(b) <=> x \in {o.owner, o.ai}
    BY <1>2, <1>3, RoleKey DEF Exits
  <2> HIDE DEF k
  <2>3. k \in After(K, Farewell(d, o, f)) <=> k \in K /\ x \notin {o.owner, o.ai}
    BY <1>8, <2>1, <2>2
  <2>4. QED
    BY <2>3 DEF k
<1>11. QED
  BY <1>7, <1>9, <1>10

LeaveMessage(d, o) ==
  ChangingLocation({ObjectChannel(o.parent)}, d, NoDoid, NoZone, o.parent, o.zone)

LEMMA LeaveTells ==
  ASSUME NEW s, NEW K, NEW d \in Doid, NEW o
  PROVE  /\ Wire(s, d, Leave(d, o))
         /\ \A p \in Doid, z \in Zone :
              Sees(LocationChannel(p, z), d) \in After(K, Leave(d, o))
              <=> Sees(LocationChannel(p, z), d) \in K
         /\ \A x \in Role :
              Sees(RoleChannel(x), d) \in After(K, Leave(d, o)) <=> Sees(RoleChannel(x), d) \in K
<1> DEFINE placed == o.parent # NoDoid
           a == LeaveMessage(d, o)
<1>1. Leave(d, o) = When(placed, a)
  BY DEF Leave, LeaveMessage
<1>2. /\ a.kind = "changing_location" /\ a.doid = d /\ a.to = {ObjectChannel(o.parent)}
      /\ a.parent = NoDoid /\ a.zone = NoZone /\ a.old_parent = o.parent /\ a.old_zone = o.zone
  BY DEF LeaveMessage, ChangingLocation
<1>3. \A p, z, x : LocationChannel(p, z) \notin a.to /\ RoleChannel(x) \notin a.to /\ ChildrenOf(p) \notin a.to
  BY <1>2, ChannelsDiffer
<1>4. placed => Good(s, a) /\ About(d, a)
  <2> SUFFICES ASSUME placed PROVE Good(s, a) /\ About(d, a)
    OBVIOUS
  <2>1. Place(a.parent, a.zone) /\ a.parent # a.old_parent
    BY <1>2 DEF Place
  <2> HIDE DEF a
  <2>2. Addressed(a) /\ Named(a) /\ Allowed(s, a)
    BY <1>2, <1>3, <2>1 DEF Addressed, Named, Allowed, ToObjects, Deletions, Entries, Exits
  <2>3. QED
    BY <1>2, <2>2, AboutIs DEF Good
<1>5. Wire(s, d, Leave(d, o))
  BY <1>1, <1>4, WireWhen
<1>6. ASSUME NEW k \in Key, k \notin Adds(a), k \notin Removes(a)
      PROVE  k \in After(K, Leave(d, o)) <=> k \in K
  <2> HIDE DEF a
  <2>1. CASE placed
    <3>1. k \in After(K, Leave(d, o)) <=> k \in Step(K, a)
      <4>1. Leave(d, o) = Send(a)
        BY <1>1, <2>1 DEF When
      <4>2. QED
        BY <4>1, AfterSend
    <3>2. QED
      BY <1>6, <3>1, StepIs
  <2>2. CASE ~placed
    <3>1. Leave(d, o) = <<>>
      BY <1>1, <2>2 DEF When
    <3>2. QED
      BY <3>1, AfterNone
  <2>3. QED
    BY <2>1, <2>2
<1>7. ASSUME NEW p \in Doid, NEW z \in Zone
      PROVE  /\ Sees(LocationChannel(p, z), d) \in Key
             /\ Sees(LocationChannel(p, z), d) \notin Adds(a)
             /\ Sees(LocationChannel(p, z), d) \notin Removes(a)
  BY <1>3, LocationKey
<1>8. ASSUME NEW x \in Role
      PROVE  /\ Sees(RoleChannel(x), d) \in Key
             /\ Sees(RoleChannel(x), d) \notin Adds(a)
             /\ Sees(RoleChannel(x), d) \notin Removes(a)
  BY <1>3, RoleKey
<1>9. QED
  BY <1>5, <1>6, <1>7, <1>8

LEMMA ProperFinish ==
  ASSUME NEW s, NEW K, NEW d \in Doid, NEW o, NEW n, Fine(s, o), Fine(s, n), Same(o, n), NEW f, ~Undeleted(s)
  PROVE  Proper(s, K, d, o, FinishDelete(d, n, f))
<1> DEFINE r == FinishDelete(d, n, f)
<1>1. r.out = Farewell(d, n, f) /\ r.gone
  BY DEF FinishDelete
<1>2. Wire(s, d, r.out)
  BY <1>1, FarewellTells
<1>3. TellsPlaces(K, d, o, r)
  <2>1. \A p, z : At(o, p, z) <=> At(n, p, z)
    BY DEF At, Same
  <2>2. \A p \in Doid, z \in Zone :
          Sees(LocationChannel(p, z), d) \in After(K, r.out)
          <=> Sees(LocationChannel(p, z), d) \in K /\ ~At(n, p, z)
    BY <1>1, FarewellTells
  <2> HIDE DEF r
  <2>3. QED
    BY <1>1, <2>1, <2>2 DEF TellsPlaces
<1>4. TellsRoles(K, d, o, r)
  <2>1. \A x \in Role :
          Sees(RoleChannel(x), d) \in After(K, r.out)
          <=> Sees(RoleChannel(x), d) \in K /\ x \notin {n.owner, n.ai}
    BY <1>1, FarewellTells
  <2> HIDE DEF r
  <2>2. QED
    BY <1>1, <2>1 DEF TellsRoles, RoleKnown, Same
<1>5. QED
  BY <1>1, <1>2, <1>3, <1>4 DEF Proper

LEMMA ProperDelete ==
  ASSUME NEW s, NEW K, NEW d \in Doid, NEW o, Fine(s, o), NEW f, ~Undeleted(s)
  PROVE  Proper(s, K, d, o, BeginDelete(d, o, f))
<1> DEFINE r == BeginDelete(d, o, f)
           l == Leave(d, o)
<1>1. /\ Wire(s, d, l) /\ IsSeq(l)
      /\ \A p \in Doid, z \in Zone :
           Sees(LocationChannel(p, z), d) \in After(K, l) <=> Sees(LocationChannel(p, z), d) \in K
      /\ \A x \in Role :
           Sees(RoleChannel(x), d) \in After(K, l) <=> Sees(RoleChannel(x), d) \in K
  BY LeaveTells DEF Wire
<1>2. CASE Children(o) = {}
  <2> DEFINE w == Farewell(d, o, f)
             E == After(K, l)
  <2>1. r.out = l \o w /\ r.gone
    BY <1>2 DEF BeginDelete
  <2>2. /\ Wire(s, d, w) /\ IsSeq(w)
        /\ \A p \in Doid, z \in Zone :
             Sees(LocationChannel(p, z), d) \in After(E, w)
             <=> Sees(LocationChannel(p, z), d) \in E /\ ~At(o, p, z)
        /\ \A x \in Role :
             Sees(RoleChannel(x), d) \in After(E, w)
             <=> Sees(RoleChannel(x), d) \in E /\ x \notin {o.owner, o.ai}
    BY FarewellTells DEF Wire
  <2>3. \A k \in Key : k \in After(K, r.out) <=> k \in After(E, w)
    BY <1>1, <2>1, <2>2, AfterConcat
  <2>4. Wire(s, d, r.out)
    BY <1>1, <2>1, <2>2, WireConcat
  <2> HIDE DEF r, l, w
  <2>5. TellsPlaces(K, d, o, r)
    <3>1. \A p \in Doid, z \in Zone : Sees(LocationChannel(p, z), d) \in Key
      BY LocationKey
    <3>2. QED
      BY <1>1, <2>1, <2>2, <2>3, <3>1 DEF TellsPlaces
  <2>6. TellsRoles(K, d, o, r)
    <3>1. \A x \in Role : Sees(RoleChannel(x), d) \in Key
      BY RoleKey
    <3>2. QED
      BY <1>1, <2>1, <2>2, <2>3, <3>1 DEF TellsRoles, RoleKnown
  <2>7. Proper(s, K, d, o, r)
    BY <2>1, <2>4, <2>5, <2>6 DEF Proper
  <2>8. QED
    BY <2>7 DEF r
<1>3. CASE Children(o) # {}
  <2> DEFINE c == [kind |-> "delete_children", to |-> {ChildrenOf(d)}, ai_deletion |-> f]
             n == [o EXCEPT !.deleting = TRUE, !.count = Cardinality(Children(o))]
  <2>1. r.out = l \o <<c>> /\ ~r.gone /\ r.obj = n
    BY <1>3 DEF BeginDelete, Become
  <2>2. Fine(s, n) /\ Same(o, n)
    <3>1. Fine(s, n)
      BY FineCount, FineDeleting
    <3>2. QED
      BY <3>1 DEF Same, Fine, Object
  <2>3. c.kind = "delete_children"
    OBVIOUS
  <2> HIDE DEF c, n, r, l
  <2>4. Good(s, c) /\ About(d, c)
    <3>1. Addressed(c) /\ Named(c) /\ Allowed(s, c)
      BY <2>3 DEF Addressed, Named, Allowed, ToObjects, Deletions, Entries, Exits
    <3>2. QED
      BY <2>3, <3>1, AboutIs DEF Good, Heard, Entries, Exits
  <2>5. Wire(s, d, <<c>>) /\ Wire(s, d, r.out)
    BY <1>1, <2>1, <2>4, WireOne, WireConcat
  <2>6. \A k \in Key : k \in After(K, r.out) <=> k \in After(K, l)
    <3>1. \A k \in Key : k \in After(After(K, l), <<c>>) <=> k \in After(K, l)
      BY <2>3, SilentOne DEF Silent, Heard, Entries, Exits
    <3>2. QED
      BY <1>1, <2>1, <2>5, <3>1, AfterConcat DEF Wire
  <2>7. TellsPlaces(K, d, o, r)
    <3>1. \A p \in Doid, z \in Zone : Sees(LocationChannel(p, z), d) \in Key
      BY LocationKey
    <3>2. QED
      BY <1>1, <2>1, <2>2, <2>6, <3>1 DEF TellsPlaces, Same, At
  <2>8. TellsRoles(K, d, o, r)
    <3>1. \A x \in Role : Sees(RoleChannel(x), d) \in Key
      BY RoleKey
    <3>2. QED
      BY <1>1, <2>1, <2>2, <2>6, <3>1 DEF TellsRoles, RoleKnown, Same
  <2>9. Proper(s, K, d, o, r)
    BY <2>1, <2>2, <2>5, <2>7, <2>8 DEF Proper, Same
  <2>10. QED
    BY <2>9 DEF r
<1>4. QED
  BY <1>2, <1>3

-----------------------------------------------------------------------------
(* Handlers that only answer.                                                *)
LEMMA ProperAnswer ==
  ASSUME NEW s, NEW K, NEW d \in Doid, NEW o, NEW n, Same(o, n), Fine(s, n), NEW m, Good(s, m), m.kind \notin Heard
  PROVE  Proper(s, K, d, o, Become(n, <<m>>))
<1> DEFINE r == Become(n, <<m>>)
<1>1. r.obj = n /\ r.out = <<m>> /\ ~r.gone
  BY DEF Become
<1>2. About(d, m)
  BY AboutIs
<1>3. Wire(s, d, <<m>>) /\ Silent(K, <<m>>)
  BY <1>2, WireOne, SilentOne
<1> HIDE DEF r
<1>4. Proper(s, K, d, o, r)
  BY <1>1, <1>3, ProperSame
<1>5. QED
  BY <1>4 DEF r

LEMMA ProperGetAI ==
  ASSUME NEW s, NEW K, NEW d \in Doid, NEW o, Fine(s, o), NEW m
  PROVE  Proper(s, K, d, o, HandleGetAI(d, o, m))
<1> DEFINE a == [kind |-> "get_ai_resp", to |-> {ObjectChannel(m.sender)}, doid |-> d, ai |-> o.ai]
<1>1. HandleGetAI(d, o, m) = Become(o, <<a>>)
  BY DEF HandleGetAI
<1>2. a.kind = "get_ai_resp" /\ a.ai \in KnownAI(s)
  BY FineHas
<1> HIDE DEF a
<1>3. Good(s, a) /\ a.kind \notin Heard
  BY <1>2 DEF Good, Addressed, Named, Allowed, ToObjects, Deletions, Entries, Exits, Heard
<1>4. QED
  BY <1>1, <1>3, ProperAnswer DEF Same

LocationReply(d, o, m) ==
  [kind |-> "get_location_resp", to |-> {ObjectChannel(m.sender)}, doid |-> d,
   parent |-> o.parent, zone |-> o.zone]

LEMMA ProperGetLocation ==
  ASSUME NEW s, NEW K, NEW d \in Doid, NEW o, Fine(s, o), NEW m
  PROVE  /\ Proper(s, K, d, o, HandleGetLocation(d, o, m))
         /\ \A p \in Doid, z \in Zone :
              m = WakeChildren(p) /\ At(o, p, z)
                => Lists(p, z, d) \in After(K, HandleGetLocation(d, o, m).out)
<1> DEFINE a == LocationReply(d, o, m)
           r == HandleGetLocation(d, o, m)
<1>1. r.out = <<a>> /\ r.obj = o /\ ~r.gone
  BY DEF HandleGetLocation, LocationReply, Become
<1>2. /\ a.kind = "get_location_resp" /\ a.doid = d /\ a.parent = o.parent /\ a.zone = o.zone
      /\ a.to = {ObjectChannel(m.sender)}
  BY DEF LocationReply
<1>3. Place(o.parent, o.zone)
  BY FineHas
<1>4. \A e : ChildrenOf(e) \notin a.to
  BY <1>2, ChannelsDiffer
<1> HIDE DEF a, r
<1>5. Good(s, a) /\ About(d, a)
  <2>1. Addressed(a) /\ Named(a) /\ Allowed(s, a)
    BY <1>2, <1>3, <1>4 DEF Addressed, Named, Allowed, ToObjects, Deletions, Entries, Exits
  <2>2. QED
    BY <1>2, <2>1, AboutIs DEF Good
<1>6. Wire(s, d, r.out)
  BY <1>1, <1>5, WireOne
<1>7. \A k \in Key : k \in After(K, r.out) <=> (k \in Adds(a) \/ (k \in K /\ k \notin Removes(a)))
  BY <1>1, AfterOne, StepIs
<1>8. TellsPlaces(K, d, o, r)
  <2>1. \A p \in Doid, z \in Zone :
          /\ Sees(LocationChannel(p, z), d) \in Key
          /\ Sees(LocationChannel(p, z), d) \notin Adds(a) /\ Sees(LocationChannel(p, z), d) \notin Removes(a)
    BY <1>2, LocationKey DEF Entries, Exits
  <2>2. QED
    BY <1>1, <1>7, <2>1 DEF TellsPlaces
<1>9. TellsRoles(K, d, o, r)
  <2>1. \A x \in Role :
          /\ Sees(RoleChannel(x), d) \in Key
          /\ Sees(RoleChannel(x), d) \notin Adds(a) /\ Sees(RoleChannel(x), d) \notin Removes(a)
    BY <1>2, RoleKey DEF Entries, Exits
  <2>2. QED
    BY <1>1, <1>7, <2>1 DEF TellsRoles, RoleKnown
<1>10. \A p \in Doid, z \in Zone :
         /\ Lists(p, z, d) \in Key /\ Lists(p, z, d) \notin Removes(a)
         /\ Lists(p, z, d) \in Adds(a) <=> p = m.sender /\ At(o, p, z)
  <2>1. \A p : ObjectChannel(p) \in a.to <=> p = m.sender
    BY <1>2, ChannelsDiffer
  <2>2. QED
    BY <1>2, <2>1, ListsKey DEF At
<1>11. TellsLists(K, d, o, r)
  BY <1>1, <1>7, <1>10 DEF TellsLists
<1>12. Proper(s, K, d, o, r)
  BY <1>1, <1>6, <1>8, <1>9, <1>11 DEF Proper
<1>13. \A p \in Doid : m = WakeChildren(p) => m.sender = p
  BY DEF WakeChildren
<1>14. \A p \in Doid, z \in Zone : m = WakeChildren(p) /\ At(o, p, z) => Lists(p, z, d) \in After(K, r.out)
  BY <1>7, <1>10, <1>13
<1>15. QED
  BY <1>12, <1>14 DEF r

LEMMA ToAsker ==
  ASSUME NEW s, NEW m, NEW q, m.to = {Asker(q)},
         m.kind \in {"enter_interest", "enter_location", "zones_count"},
         m.kind = "enter_location" => m.doid \in Doid
  PROVE  Good(s, m) /\ Adds(m) = {} /\ Removes(m) = {}
<1>1. \A e : ObjectChannel(e) \notin m.to /\ ChildrenOf(e) \notin m.to
  BY ChannelsDiffer
<1>2. Good(s, m)
  BY <1>1 DEF Good, Addressed, Named, Allowed, ToObjects, Deletions, Entries, Exits
<1>3. Asker(q) \notin Listeners
  BY ListenersAre
<1>4. Adds(m) = {} /\ Removes(m) = {}
  BY <1>3 DEF Adds, Removes, Exits
<1>5. QED
  BY <1>2, <1>4

LEMMA ProperZones ==
  ASSUME NEW s, NEW K, NEW d \in Doid, NEW o, Fine(s, o), NEW m, m.zones \subseteq Zone,
         NEW q, m.sender = Asker(q)
  PROVE  Proper(s, K, d, o, HandleGetZonesObjects(d, o, m))
<1> DEFINE r == HandleGetZonesObjects(d, o, m)
<1>1. CASE m.parent = o.parent
  <2> DEFINE a == [kind |-> IF o.sync THEN "enter_interest" ELSE "enter_location",
                   to |-> {m.sender}, doid |-> d, zone |-> o.zone]
             in == o.zone \in m.zones
  <2>1. r.out = When(in, a) /\ r.obj = o /\ ~r.gone
    BY <1>1 DEF HandleGetZonesObjects, Become
  <2>2. a.to = {Asker(q)} /\ a.kind \in {"enter_interest", "enter_location", "zones_count"} /\ a.doid = d
    OBVIOUS
  <2> HIDE DEF a, in, r
  <2>3. Good(s, a) /\ Adds(a) = {} /\ Removes(a) = {}
    BY <2>2, ToAsker
  <2>4. Wire(s, d, r.out)
    BY <2>1, <2>3, WireWhen DEF About
  <2>5. Silent(K, r.out)
    <3>1. CASE in
      BY <2>1, <2>3, <3>1, AfterSend, StepIs DEF Silent, When
    <3>2. CASE ~in
      BY <2>1, <3>2, SilentNone DEF When
    <3>3. QED
      BY <3>1, <3>2
  <2>6. Proper(s, K, d, o, r)
    BY <2>1, <2>4, <2>5, ProperSame DEF Same
  <2>7. QED
    BY <2>6 DEF r
<1>2. CASE m.parent # o.parent /\ m.parent = d
  <2> DEFINE a == [kind |-> "zones_count", to |-> {m.sender},
                   count |-> Cardinality(Counted(o, m.zones))]
             b == GetZonesObjects({ChildrenOf(d)}, d, m.zones, m.sender)
             any == Counted(o, m.zones) # {}
             n == Visited(o, m.zones)
  <2>1. r.out = <<a>> \o When(any, b) /\ r.obj = n /\ ~r.gone
    BY <1>2 DEF HandleGetZonesObjects, Become
  <2>2. a.to = {Asker(q)} /\ a.kind = "zones_count"
    OBVIOUS
  <2>3. b.kind = "get_zones_objects" /\ b.zones = m.zones /\ b.sender = Asker(q)
    BY DEF GetZonesObjects
  <2>4. Fine(s, n) /\ Same(o, n)
    <3>1. Fine(s, n)
      BY FineVisited
    <3>2. QED
      BY <3>1 DEF Same, Fine, Object, Visited
  <2> HIDE DEF a, b, any, n, r
  <2>5. Good(s, a) /\ Adds(a) = {} /\ Removes(a) = {}
    BY <2>2, ToAsker
  <2>6. Good(s, b) /\ Adds(b) = {} /\ Removes(b) = {}
    <3>1. Good(s, b)
      BY <2>3 DEF Good, Addressed, Named, Allowed, ToObjects, Deletions, Entries, Exits
    <3>2. QED
      BY <2>3, <3>1, NotHeard DEF Heard, Entries, Exits
  <2>7. Wire(s, d, <<a>>) /\ Wire(s, d, When(any, b))
    BY <2>5, <2>6, WireOne, WireWhen DEF About
  <2>8. Wire(s, d, r.out)
    BY <2>1, <2>7, WireConcat
  <2>9. Silent(K, r.out)
    <3> DEFINE E == After(K, <<a>>)
    <3>1. \A k \in Key : k \in E <=> k \in K
      BY <2>5, AfterOne, StepIs
    <3>2. \A k \in Key : k \in After(K, r.out) <=> k \in After(E, When(any, b))
      BY <2>1, <2>7, AfterConcat DEF Wire
    <3> HIDE DEF E
    <3>3. CASE any
      <4>1. \A k \in Key : k \in After(E, When(any, b)) <=> k \in E
        BY <2>6, <3>3, AfterSend, StepIs DEF When
      <4>2. QED
        BY <3>1, <3>2, <4>1 DEF Silent
    <3>4. CASE ~any
      <4>1. \A k \in Key : k \in After(E, When(any, b)) <=> k \in E
        BY <3>4, AfterNone DEF When
      <4>2. QED
        BY <3>1, <3>2, <4>1 DEF Silent
    <3>5. QED
      BY <3>3, <3>4
  <2>10. Proper(s, K, d, o, r)
    BY <2>1, <2>4, <2>8, <2>9, ProperSame
  <2>11. QED
    BY <2>10 DEF r
<1>3. CASE m.parent # o.parent /\ m.parent # d
  <2>1. r = Stay(o)
    BY <1>3 DEF HandleGetZonesObjects
  <2>2. QED
    BY <2>1, ProperStay DEF Same
<1>4. QED
  BY <1>1, <1>2, <1>3

-----------------------------------------------------------------------------
(* What a parent lists after a datagram about a child.                       *)
OwnList(d, o, m, n) ==
  \A z \in Zone, c \in Doid :
    c \in ObjectsIn(n, z)
    <=> (Lists(d, z, c) \in Adds(m) \/ (c \in ObjectsIn(o, z) /\ Lists(d, z, c) \notin Removes(m)))

SameChildren(o, n) == \A z : ObjectsIn(n, z) = ObjectsIn(o, z)

LEMMA OwnSame ==
  ASSUME NEW d \in Doid, NEW o, NEW m, NEW n, SameChildren(o, n),
         m.kind \notin {"changing_location", "get_location_resp"}
  PROVE  OwnList(d, o, m, n)
<1>1. \A z \in Zone, c \in Doid : Lists(d, z, c) \notin Adds(m) /\ Lists(d, z, c) \notin Removes(m)
  BY ListsKey
<1>2. QED
  BY <1>1 DEF OwnList, SameChildren

LEMMA OwnChangingLocation ==
  ASSUME NEW s, NEW K, NEW d \in Doid, NEW o, Fine(s, o), NEW m, Good(s, m),
         m.kind = "changing_location", ObjectChannel(d) \in m.to
  PROVE  /\ Proper(s, K, d, o, HandleChangingLocation(d, o, m))
         /\ OwnList(d, o, m, HandleChangingLocation(d, o, m).obj)
<1> DEFINE left == IF m.old_parent = d THEN RemoveChild(o, m.old_zone, m.doid) ELSE o
           n == AddChild(left, m.zone, m.doid)
           a == LocationAck(d, m)
           r == HandleChangingLocation(d, o, m)
<1>1. m.doid \in Doid /\ Place(m.parent, m.zone) /\ ~(m.parent = m.old_parent /\ m.zone = m.old_zone)
  BY DEF Good, Named
<1>2. Fine(s, left) /\ Same(o, left)
  <2>1. CASE m.old_parent = d
    <3>1. Fine(s, RemoveChild(o, m.old_zone, m.doid))
      BY FineRemove
    <3>2. Same(o, RemoveChild(o, m.old_zone, m.doid))
      BY DEF Same, Fine, Object, RemoveChild
    <3>3. QED
      BY <2>1, <3>1, <3>2
  <2>2. CASE m.old_parent # d
    BY <2>2 DEF Same
  <2>3. QED
    BY <2>1, <2>2
<1>3. \A z : ObjectsIn(left, z) =
        IF m.old_parent = d /\ z = m.old_zone THEN ObjectsIn(o, z) \ {m.doid} ELSE ObjectsIn(o, z)
  <2>1. CASE m.old_parent = d
    <3>1. left = RemoveChild(o, m.old_zone, m.doid)
      BY <2>1
    <3>2. \A z : ObjectsIn(left, z) = IF z = m.old_zone THEN ObjectsIn(o, m.old_zone) \ {m.doid} ELSE ObjectsIn(o, z)
      BY <3>1, FineRemove
    <3> HIDE DEF left
    <3>3. QED
      BY <2>1, <3>2
  <2>2. CASE m.old_parent # d
    BY <2>2
  <2>3. QED
    BY <2>1, <2>2
<1>4. ASSUME NEW z \in Zone, NEW c \in Doid
      PROVE  /\ Lists(d, z, c) \in Adds(m) <=> c = m.doid /\ m.parent = d /\ z = m.zone
             /\ Lists(d, z, c) \in Removes(m) <=> c = m.doid /\ m.old_parent = d /\ z = m.old_zone
  BY ListsKey
<1>5. CASE m.parent # d
  <2>1. r = Stay(left)
    BY <1>5 DEF HandleChangingLocation
  <2>2. r.obj = left
    BY <2>1 DEF Stay
  <2> HIDE DEF left, r
  <2>3. OwnList(d, o, m, left)
    BY <1>3, <1>4, <1>5 DEF OwnList
  <2>4. Proper(s, K, d, o, r) /\ OwnList(d, o, m, r.obj)
    BY <1>2, <2>1, <2>2, <2>3, ProperStay
  <2>5. QED
    BY <2>4 DEF r
<1>6. CASE m.parent = d
  <2>1. r = Become(n, <<a>>)
    BY <1>1, <1>6 DEF HandleChangingLocation
  <2>2. r.obj = n
    BY <2>1 DEF Become
  <2>3. m.zone \in Zone
    BY <1>1, <1>6, NullIsNoDoid DEF Place
  <2>4. a.kind = "location_ack"
    BY DEF LocationAck
  <2> HIDE DEF left
  <2>5. Fine(s, n) /\ \A z : ObjectsIn(n, z) = IF z = m.zone THEN ObjectsIn(left, m.zone) \cup {m.doid}
                                               ELSE ObjectsIn(left, z)
    <3>1. Fine(s, AddChild(left, m.zone, m.doid))
      BY <1>1, <1>2, <2>3, FineAdd
    <3>2. \A z : ObjectsIn(AddChild(left, m.zone, m.doid), z) =
                   IF z = m.zone THEN ObjectsIn(left, m.zone) \cup {m.doid} ELSE ObjectsIn(left, z)
      BY <1>1, <1>2, <2>3, ListsAdded
    <3>3. QED
      BY <3>1, <3>2
  <2>6. Same(o, n)
    BY <1>2 DEF Same, Fine, Object, AddChild
  <2> HIDE DEF n, a, r
  <2>7. OwnList(d, o, m, n)
    <3> SUFFICES ASSUME NEW z \in Zone, NEW c \in Doid
                 PROVE  c \in ObjectsIn(n, z)
                        <=> (Lists(d, z, c) \in Adds(m) \/ (c \in ObjectsIn(o, z) /\ Lists(d, z, c) \notin Removes(m)))
      BY DEF OwnList
    <3>1. c \in ObjectsIn(n, z) <=> (z = m.zone /\ c = m.doid) \/ c \in ObjectsIn(left, z)
      BY <2>5
    <3>2. c \in ObjectsIn(left, z) <=> c \in ObjectsIn(o, z) /\ ~(c = m.doid /\ m.old_parent = d /\ z = m.old_zone)
      BY <1>3
    <3>3. QED
      BY <1>4, <1>6, <3>1, <3>2
  <2>8. Good(s, a) /\ a.kind \notin Heard
    BY <2>4 DEF Good, Addressed, Named, Allowed, ToObjects, Deletions, Entries, Exits, Heard
  <2>9. Proper(s, K, d, o, r) /\ OwnList(d, o, m, r.obj)
    BY <2>1, <2>2, <2>5, <2>6, <2>7, <2>8, ProperAnswer
  <2>10. QED
    BY <2>9 DEF r
<1>7. QED
  BY <1>5, <1>6

LEMMA OwnLocationResp ==
  ASSUME NEW s, NEW K, NEW d \in Doid, NEW o, Fine(s, o), NEW m, Good(s, m),
         m.kind = "get_location_resp", ObjectChannel(d) \in m.to
  PROVE  /\ Proper(s, K, d, o, HandleGetLocationResp(d, o, m))
         /\ OwnList(d, o, m, HandleGetLocationResp(d, o, m).obj)
<1> DEFINE n == IF m.parent = d THEN AddChild(o, m.zone, m.doid) ELSE o
           r == HandleGetLocationResp(d, o, m)
<1>1. m.doid \in Doid /\ Place(m.parent, m.zone)
  BY DEF Good, Named
<1>2. m.parent = d => m.zone \in Zone
  BY <1>1, NullIsNoDoid DEF Place
<1>3. Fine(s, n) /\ Same(o, n)
  <2>1. CASE m.parent = d
    <3>1. Fine(s, AddChild(o, m.zone, m.doid))
      BY <1>1, <1>2, <2>1, FineAdd
    <3>2. Same(o, AddChild(o, m.zone, m.doid))
      BY DEF Same, Fine, Object, AddChild
    <3>3. QED
      BY <2>1, <3>1, <3>2
  <2>2. CASE m.parent # d
    BY <2>2 DEF Same
  <2>3. QED
    BY <2>1, <2>2
<1>4. m.parent = d => \A z : ObjectsIn(n, z) = IF z = m.zone THEN ObjectsIn(o, m.zone) \cup {m.doid} ELSE ObjectsIn(o, z)
  <2> SUFFICES ASSUME m.parent = d
               PROVE  \A z : ObjectsIn(n, z) = IF z = m.zone THEN ObjectsIn(o, m.zone) \cup {m.doid} ELSE ObjectsIn(o, z)
    OBVIOUS
  <2>1. n = AddChild(o, m.zone, m.doid)
    OBVIOUS
  <2> HIDE DEF n
  <2>2. QED
    BY <1>1, <1>2, <2>1, ListsAdded
<1>5. m.parent # d => \A z : ObjectsIn(n, z) = ObjectsIn(o, z)
  OBVIOUS
<1>6. ASSUME NEW z \in Zone, NEW c \in Doid
      PROVE  /\ Lists(d, z, c) \in Adds(m) <=> c = m.doid /\ m.parent = d /\ z = m.zone
             /\ Lists(d, z, c) \notin Removes(m)
  BY ListsKey
<1>7. r = Stay(n)
  BY DEF HandleGetLocationResp
<1>8. r.obj = n
  BY <1>7 DEF Stay
<1> HIDE DEF n, r
<1>9. OwnList(d, o, m, n)
  <2>1. CASE m.parent = d
    BY <1>4, <1>6, <2>1 DEF OwnList
  <2>2. CASE m.parent # d
    BY <1>5, <1>6, <2>2 DEF OwnList
  <2>3. QED
    BY <2>1, <2>2
<1>10. Proper(s, K, d, o, r) /\ OwnList(d, o, m, r.obj)
  BY <1>3, <1>7, <1>8, <1>9, ProperStay
<1>11. QED
  BY <1>10 DEF r

-----------------------------------------------------------------------------
(* Each handler, by the kind of its datagram.                                *)
LEMMA Kept ==
  ASSUME NEW o, NEW n, n.zone_objects = o.zone_objects PROVE SameChildren(o, n)
BY DEF SameChildren, ObjectsIn

LEMMA ReceivedAsObject ==
  ASSUME NEW s, NEW d, NEW o, Fine(s, o), NEW m, Good(s, m),
         m.kind \in {"changing_location", "get_location_resp"}, Subscriptions(d, o) \cap m.to # {}
  PROVE  ObjectChannel(d) \in m.to
<1>1. o.parent = NoDoid \/ o.parent \in Doid
  BY FineHas DEF Place
<1>2. o.parent \in Doid => ChildrenOf(o.parent) \notin m.to
  BY DEF Good, Addressed
<1>3. QED
  BY <1>1, <1>2 DEF Subscriptions

Handled(s, K, d, o, m) ==
  /\ Proper(s, K, d, o, Handle(d, o, m))
  /\ Handle(d, o, m).gone \/ OwnList(d, o, m, Handle(d, o, m).obj)

LEMMA HandledBy ==
  ASSUME NEW s, NEW K, NEW d \in Doid, NEW o, NEW m, NEW r, r = Handle(d, o, m),
         Proper(s, K, d, o, r), m.kind \notin {"changing_location", "get_location_resp"},
         r.gone \/ SameChildren(o, r.obj)
  PROVE  Handled(s, K, d, o, m)
BY OwnSame DEF Handled

LEMMA DeleteKeeps ==
  ASSUME NEW s, NEW d \in Doid, NEW o, Fine(s, o), NEW f
  PROVE  SameChildren(o, BeginDelete(d, o, f).obj) /\ SameChildren(o, Stay(o).obj)
<1>1. BeginDelete(d, o, f).obj.zone_objects = o.zone_objects
  BY DEF BeginDelete, Become, Fine, Object
<1>2. Stay(o).obj.zone_objects = o.zone_objects
  BY DEF Stay
<1>3. QED
  BY <1>1, <1>2, Kept

LEMMA ChangeKeeps ==
  ASSUME NEW s, NEW d \in Doid, NEW o, Fine(s, o)
  PROVE  /\ \A p, z : SameChildren(o, ChangeLocation(d, o, p, z).obj)
         /\ \A a, e : SameChildren(o, ChangeAI(d, o, a, e).obj)
         /\ \A m : SameChildren(o, HandleSetOwner(d, o, m).obj)
<1>1. ASSUME NEW p, NEW z PROVE SameChildren(o, ChangeLocation(d, o, p, z).obj)
  <2>1. Relocated(o, p, z).zone_objects = o.zone_objects
    BY DEF Relocated, Fine, Object
  <2>2. ChangeLocation(d, o, p, z).obj \in {o, Relocated(o, p, z)}
    BY DEF ChangeLocation, Stay, Become
  <2>3. QED
    BY <2>1, <2>2, Kept
<1>2. ASSUME NEW a, NEW e PROVE SameChildren(o, ChangeAI(d, o, a, e).obj)
  <2>1. ChangeAI(d, o, a, e).obj \in {o, [o EXCEPT !.ai = a, !.explicit = e]}
    BY DEF ChangeAI, Stay, Become
  <2>2. [o EXCEPT !.ai = a, !.explicit = e].zone_objects = o.zone_objects
    BY DEF Fine, Object
  <2>3. QED
    BY <2>1, <2>2, Kept
<1>3. ASSUME NEW m PROVE SameChildren(o, HandleSetOwner(d, o, m).obj)
  <2>1. HandleSetOwner(d, o, m).obj \in {o, [o EXCEPT !.owner = m.owner]}
    BY DEF HandleSetOwner, Stay, Become
  <2>2. [o EXCEPT !.owner = m.owner].zone_objects = o.zone_objects
    BY DEF Fine, Object
  <2>3. QED
    BY <2>1, <2>2, Kept
<1>4. QED
  BY <1>1, <1>2, <1>3

LEMMA HandleDeletes ==
  ASSUME NEW s, NEW K, NEW d \in Doid, NEW o, Fine(s, o), NEW m, Good(s, m), m.kind \in Deletions
  PROVE  Handled(s, K, d, o, m)
<1>1. ~Undeleted(s)
  BY DEF Good, Allowed
<1>2. Proper(s, K, d, o, Stay(o)) /\ SameChildren(o, Stay(o).obj)
  BY ProperStay, DeleteKeeps DEF Same
<1>3. \A f : Proper(s, K, d, o, BeginDelete(d, o, f)) /\ SameChildren(o, BeginDelete(d, o, f).obj)
  BY <1>1, ProperDelete, DeleteKeeps
<1> DEFINE r == Handle(d, o, m)
           n == [o EXCEPT !.deleted = o.deleted + 1]
<1>4. Fine(s, n) /\ Same(o, n) /\ SameChildren(o, n)
  <2>1. Fine(s, n)
    BY FineDeleting
  <2>2. Same(o, n) /\ n.zone_objects = o.zone_objects
    BY DEF Same, Fine, Object
  <2>3. QED
    BY <2>1, <2>2, Kept
<1>5. Proper(s, K, d, o, FinishDelete(d, n, FALSE)) /\ FinishDelete(d, n, FALSE).gone
  <2> HIDE DEF n
  <2>1. QED
    BY <1>1, <1>4, ProperFinish DEF FinishDelete
<1>6. Proper(s, K, d, o, Stay(n)) /\ SameChildren(o, Stay(n).obj)
  <2> HIDE DEF n
  <2>1. QED
    BY <1>4, ProperStay DEF Stay
<1>7. CASE m.kind = "delete_ai_objects"
  <2>1. r = Stay(o) \/ r = BeginDelete(d, o, TRUE)
    BY <1>7 DEF Handle
  <2> HIDE DEF r
  <2>2. Proper(s, K, d, o, r) /\ SameChildren(o, r.obj)
    BY <1>2, <1>3, <2>1
  <2>3. QED
    BY <1>7, <2>2, HandledBy DEF r
<1>8. CASE m.kind = "delete_children"
  <2>1. r = BeginDelete(d, o, m.ai_deletion)
    BY <1>8 DEF Handle
  <2> HIDE DEF r
  <2>2. Proper(s, K, d, o, r) /\ SameChildren(o, r.obj)
    BY <1>3, <2>1
  <2>3. QED
    BY <1>8, <2>2, HandledBy DEF r
<1>9. CASE m.kind = "delete_ram"
  <2>1. \/ r = BeginDelete(d, o, m.ai_deletion) \/ r = Stay(o)
        \/ r = FinishDelete(d, n, FALSE) \/ r = Stay(n)
    <3>1. r = HandleDeleteRam(d, o, m)
      BY <1>9 DEF Handle
    <3>2. QED
      BY <3>1 DEF HandleDeleteRam
  <2> HIDE DEF r, n
  <2>2. Proper(s, K, d, o, r) /\ (r.gone \/ SameChildren(o, r.obj))
    BY <1>2, <1>3, <1>5, <1>6, <2>1
  <2>3. QED
    BY <1>9, <2>2, HandledBy DEF r
<1>10. QED
  BY <1>7, <1>8, <1>9 DEF Deletions

LEMMA ProperHandle ==
  ASSUME NEW s, NEW K, NEW d \in Doid, NEW o, Fine(s, o), NEW m, Good(s, m),
         m.kind \in ToObjects, Subscriptions(d, o) \cap m.to # {}
  PROVE  Handled(s, K, d, o, m)
<1> DEFINE r == Handle(d, o, m)
<1>1. CASE m.kind \in Deletions
  BY <1>1, HandleDeletes
<1>2. CASE m.kind \in {"changing_ai", "get_ai_resp", "set_ai"}
  <2>1. m.ai \in KnownAI(s)
    BY <1>2 DEF Good, Allowed
  <2>2. r = Stay(o) \/ r = ChangeAI(d, o, m.ai, FALSE) \/ r = ChangeAI(d, o, m.ai, TRUE)
    <3>1. r = InheritAI(d, o, m) \/ r = ChangeAI(d, o, m.ai, TRUE)
      BY <1>2 DEF Handle
    <3>2. QED
      BY <3>1 DEF InheritAI
  <2> HIDE DEF r
  <2>3. Proper(s, K, d, o, r)
    BY <2>1, <2>2, ProperAI, ProperStay DEF Same
  <2>4. SameChildren(o, r.obj)
    BY <2>2, ChangeKeeps, DeleteKeeps
  <2>5. QED
    BY <1>2, <2>3, <2>4, HandledBy DEF r
<1>3. CASE m.kind = "set_location"
  <2>1. r = ChangeLocation(d, o, m.parent, m.zone)
    BY <1>3 DEF Handle
  <2>2. Place(m.parent, m.zone) /\ (m.parent = NoDoid => "move_away" \in s.requests)
    BY <1>3 DEF Good, Named, Allowed
  <2> HIDE DEF r
  <2>3. Proper(s, K, d, o, r) /\ SameChildren(o, r.obj)
    BY <2>1, <2>2, ProperLocation, ChangeKeeps
  <2>4. QED
    BY <1>3, <2>3, HandledBy DEF r
<1>4. CASE m.kind = "set_owner"
  <2>1. r = HandleSetOwner(d, o, m)
    BY <1>4 DEF Handle
  <2>2. m.owner \in Client \cup {NoChannel} /\ m.entry
    BY <1>4 DEF Good, Named
  <2> HIDE DEF r
  <2>3. Proper(s, K, d, o, r) /\ SameChildren(o, r.obj)
    BY <2>1, <2>2, ProperOwner, ChangeKeeps
  <2>4. QED
    BY <1>4, <2>3, HandledBy DEF r
<1>5. CASE m.kind = "get_ai"
  <2>1. r = HandleGetAI(d, o, m)
    BY <1>5 DEF Handle
  <2>2. SameChildren(o, r.obj)
    BY <2>1, Kept DEF HandleGetAI, Become
  <2> HIDE DEF r
  <2>3. Proper(s, K, d, o, r)
    BY <2>1, ProperGetAI
  <2>4. QED
    BY <1>5, <2>2, <2>3, HandledBy DEF r
<1>6. CASE m.kind = "get_location"
  <2>1. r = HandleGetLocation(d, o, m)
    BY <1>6 DEF Handle
  <2>2. SameChildren(o, r.obj)
    BY <2>1, Kept DEF HandleGetLocation, Become
  <2> HIDE DEF r
  <2>3. Proper(s, K, d, o, r)
    BY <2>1, ProperGetLocation
  <2>4. QED
    BY <1>6, <2>2, <2>3, HandledBy DEF r
<1>7. CASE m.kind = "location_ack"
  <2> DEFINE n == [o EXCEPT !.sync = o.sync \/ (m.parent = o.parent /\ m.zone = o.zone)]
  <2>1. r = Stay(n)
    <3>1. r = HandleLocationAck(o, m)
      BY <1>7 DEF Handle
    <3>2. QED
      BY <3>1 DEF HandleLocationAck
  <2>2. Same(o, n) /\ n.zone_objects = o.zone_objects
    BY DEF Same, Fine, Object
  <2>3. Fine(s, n)
    <3>1. (o.sync \/ (m.parent = o.parent /\ m.zone = o.zone)) \in BOOLEAN
      BY DEF Fine, Object
    <3>2. QED
      BY <3>1, FineSync
  <2> HIDE DEF n, r
  <2>4. Proper(s, K, d, o, r)
    BY <2>1, <2>2, <2>3, ProperStay
  <2>5. SameChildren(o, r.obj)
    BY <2>1, <2>2, Kept DEF Stay
  <2>6. QED
    BY <1>7, <2>4, <2>5, HandledBy DEF r
<1>8. CASE m.kind = "get_zones_objects"
  <2>1. r = HandleGetZonesObjects(d, o, m)
    BY <1>8 DEF Handle
  <2>2. m.zones \subseteq Zone
    BY <1>8 DEF Good, Named
  <2>3. PICK q : m.sender = Asker(q)
    BY <1>8 DEF Good, Named
  <2>4. Proper(s, K, d, o, r)
    BY <2>1, <2>2, <2>3, ProperZones
  <2>5. r.obj \in {o, Visited(o, m.zones)}
    BY <2>1 DEF HandleGetZonesObjects, Become, Stay
  <2>6. SameChildren(o, Visited(o, m.zones)) /\ SameChildren(o, o)
    BY <2>2, FineVisited DEF SameChildren
  <2> HIDE DEF r
  <2>7. QED
    BY <1>8, <2>4, <2>5, <2>6, HandledBy DEF r
<1>9. CASE m.kind = "changing_location"
  <2>1. Handle(d, o, m) = HandleChangingLocation(d, o, m)
    BY <1>9 DEF Handle
  <2>2. ObjectChannel(d) \in m.to
    BY <1>9, ReceivedAsObject
  <2>3. QED
    BY <1>9, <2>1, <2>2, OwnChangingLocation DEF Handled
<1>10. CASE m.kind = "get_location_resp"
  <2>1. Handle(d, o, m) = HandleGetLocationResp(d, o, m)
    BY <1>10 DEF Handle
  <2>2. ObjectChannel(d) \in m.to
    BY <1>10, ReceivedAsObject
  <2>3. QED
    BY <1>10, <2>1, <2>2, OwnLocationResp DEF Handled
<1>11. QED
  BY <1>1, <1>2, <1>3, <1>4, <1>5, <1>6, <1>7, <1>8, <1>9, <1>10 DEF ToObjects

-----------------------------------------------------------------------------
(* Steps, and what will be known.                                            *)
LEMMA AfterSame ==
  ASSUME NEW K, NEW L, NEW q, NEW k \in Key, k \in K <=> k \in L
  PROVE  k \in After(K, q) <=> k \in After(L, q)
BY AfterMore

LEMMA AskingStays ==
  ASSUME NEW K, NEW q, NEW p \in Doid, Asking(p) \in K
  PROVE  Asking(p) \in After(K, q)
BY AskingKey DEF After

LEMMA AfterUnheard ==
  ASSUME NEW K, NEW q, NEW r, IsSeq(q), NEW m, Adds(m) = {}, Removes(m) = {}, NEW k \in Key
  PROVE  k \in After(After(K, Append(q, m)), r) <=> k \in After(After(K, q), r)
<1>1. k \in After(K, Append(q, m)) <=> k \in After(K, q)
  BY AfterAppend, StepIs
<1>2. QED
  BY <1>1, AfterSame

LEMMA AfterPushed ==
  ASSUME NEW K, NEW q, NEW r, IsSeq(q), IsSeq(r), r # <<>>, NEW k \in Key
  PROVE  k \in After(After(K, Append(q, Head(r))), Tail(r)) <=> k \in After(After(K, q), r)
<1>1. k \in After(K, Append(q, Head(r))) <=> k \in Step(After(K, q), Head(r))
  BY AfterAppend
<1>2. k \in After(After(K, q), r) <=> k \in After(Step(After(K, q), Head(r)), Tail(r))
  BY AfterTail
<1>3. QED
  BY <1>1, <1>2, AfterSame

LEMMA GoodAppend ==
  ASSUME NEW s, NEW q, NEW m, IsSeq(q), AllGood(s, q), Good(s, m)
  PROVE  IsSeq(Append(q, m)) /\ AllGood(s, Append(q, m))
<1>1. /\ IsSeq(Append(q, m)) /\ Len(Append(q, m)) = Len(q) + 1 /\ Len(q) \in Nat
      /\ Append(q, m)[Len(q) + 1] = m
      /\ \A i \in 1..Len(q) : Append(q, m)[i] = q[i]
  BY SeqAppend, SeqLength
<1>2. ASSUME NEW i \in 1..Len(Append(q, m)) PROVE Good(s, Append(q, m)[i])
  <2>1. i \in 1..Len(q) \/ i = Len(q) + 1
    BY <1>1
  <2>2. QED
    BY <1>1, <2>1 DEF AllGood
<1>3. QED
  BY <1>1, <1>2 DEF AllGood

LEMMA GoodConcat ==
  ASSUME NEW s, NEW p, NEW q, IsSeq(p), IsSeq(q), AllGood(s, p), AllGood(s, q)
  PROVE  IsSeq(p \o q) /\ AllGood(s, p \o q)
<1>1. ASSUME NEW i \in 1..Len(p \o q) PROVE Good(s, (p \o q)[i])
  BY SplitConcat DEF AllGood
<1>2. QED
  BY <1>1, SeqConcat DEF AllGood

LEMMA GoodTail ==
  ASSUME NEW s, NEW q, IsSeq(q), AllGood(s, q), q # <<>>
  PROVE  IsSeq(Tail(q)) /\ AllGood(s, Tail(q)) /\ Good(s, Head(q))
<1>1. /\ IsSeq(Tail(q)) /\ Len(Tail(q)) = Len(q) - 1 /\ Len(q) \in Nat \ {0}
      /\ Head(q) = q[1] /\ \A i \in 1..Len(Tail(q)) : Tail(q)[i] = q[i + 1]
  BY SeqTail
<1>2. ASSUME NEW i \in 1..Len(Tail(q)) PROVE Good(s, Tail(q)[i])
  <2>1. i + 1 \in 1..Len(q) /\ Tail(q)[i] = q[i + 1]
    BY <1>1
  <2>2. QED
    BY <2>1 DEF AllGood
<1>3. 1 \in 1..Len(q)
  BY <1>1
<1>4. QED
  BY <1>1, <1>2, <1>3 DEF AllGood

\* Whichever thread routes it, what a handler routes comes after what waits.
LEMMA RouteIs ==
  ASSUME NEW out, WireInv, making = <<>>, Route(out), IsSeq(out), AllGood(scenario, out)
  PROVE  /\ IsSeq(net') /\ IsSeq(making') /\ AllGood(scenario, net') /\ AllGood(scenario, making')
         /\ \A k \in Key : k \in Ev' <=> k \in After(After(Held', net), out)
<1>1. IsSeq(net) /\ AllGood(scenario, net) /\ IsSeq(making) /\ AllGood(scenario, making)
  BY DEF WireInv
<1>2. CASE Threaded
  <2>1. making' = out /\ net' = net
    BY <1>2 DEF Route
  <2>2. QED
    BY <1>1, <2>1 DEF Ev
<1>3. CASE ~Threaded
  <2>1. making' = <<>> /\ net' = net \o out
    BY <1>3 DEF Route
  <2>2. IsSeq(net \o out) /\ AllGood(scenario, net \o out)
    BY <1>1, GoodConcat
  <2>3. ASSUME NEW k \in Key PROVE k \in Ev' <=> k \in After(After(Held', net), out)
    <3>1. k \in Ev' <=> k \in After(Held', net \o out)
      BY <2>1, AfterNone DEF Ev
    <3>2. QED
      BY <1>1, <3>1, AfterConcat
  <2>4. QED
    BY <1>1, <2>1, <2>2, <2>3
<1>4. QED
  BY <1>2, <1>3

LEMMA DoneIs ==
  ASSUME NEW r, WireInv, Done(r)
  PROVE  /\ routing' = [msg |-> routing'.msg, to |-> routing'.to]
         /\ routing'.to = routing.to \ {r}
         /\ routing'.to # {} => routing'.msg = routing.msg
<1>1. routing = [msg |-> routing.msg, to |-> routing.to]
  BY DEF WireInv
<1>2. CASE routing.to = {r}
  BY <1>2 DEF Done, Idle
<1>3. CASE routing.to # {r}
  <2>1. routing' = [msg |-> routing.msg, to |-> routing.to \ {r}]
    BY <1>1, <1>3 DEF Done
  <2>2. QED
    BY <2>1
<1>4. QED
  BY <1>2, <1>3

-----------------------------------------------------------------------------
(* Steps that change no object.                                              *)
Waiting(d, p) == d \in routing.to /\ routing.msg = WakeChildren(p)

LEMMA StillKnown ==
  ASSUME IInv, scenario' = scenario, objs' = objs,
         \A k \in Key : k \in Ev' <=> k \in Ev,
         \A d \in Doid, p \in Doid : Waiting(d, p) => Waiting(d, p)'
  PROVE  PlacesInv' /\ RolesInv' /\ ListsInv'
<1>1. \A p, z : There(p, z)' = There(p, z)
  BY DEF There, Live
<1>2. PlacesInv'
  <2>1. ASSUME NEW p \in Doid, NEW z \in Zone, NEW d \in Doid
        PROVE  Sees(LocationChannel(p, z), d) \in Ev' <=> d \in There(p, z)'
    BY <1>1, LocationKey DEF IInv, PlacesInv
  <2>2. QED
    BY <2>1 DEF PlacesInv
<1>3. RolesInv'
  <2>1. \A r, d : HasRole(r, d)' <=> HasRole(r, d)
    BY DEF HasRole, Live
  <2>2. ASSUME AIsStay(scenario), NEW r \in Role, NEW d \in Doid
        PROVE  /\ Sees(RoleChannel(r), d) \in Ev' => HasRole(r, d)'
               /\ HasRole(r, d)' /\ objs'[d].generator # r => Sees(RoleChannel(r), d) \in Ev'
    BY <2>1, <2>2, RoleKey DEF IInv, RolesInv
  <2>3. QED
    BY <2>2 DEF RolesInv
<1>4. ListsInv'
  <2>1. ASSUME Undeleted(scenario), NEW p \in Doid, NEW z \in Zone, NEW d \in Doid
        PROVE  /\ Lists(p, z, d) \in Ev' => d \in There(p, z)'
               /\ p \in Live' /\ d \in There(p, z)' => (Lists(p, z, d) \in Ev' \/ AskedFor(d, p)')
    <3>1. /\ Lists(p, z, d) \in Ev => d \in There(p, z)
          /\ p \in Live /\ d \in There(p, z) => (Lists(p, z, d) \in Ev \/ AskedFor(d, p))
      BY <2>1 DEF IInv, ListsInv
    <3>2. AskedFor(d, p) => AskedFor(d, p)'
      BY AskingKey DEF AskedFor, Waiting
    <3>3. Live' = Live /\ Lists(p, z, d) \in Key
      BY ListsKey DEF Live
    <3>4. QED
      BY <1>1, <3>1, <3>2, <3>3
  <2>2. QED
    BY <2>1 DEF ListsInv
<1>5. QED
  BY <1>2, <1>3, <1>4

LEMMA RequestKeeps ==
  ASSUME IInv, NEW kind, NEW m, Request(kind, m), Good(scenario, m), Adds(m) = {}, Removes(m) = {}
  PROVE  IInv'
<1>1. /\ net' = Append(net, m)
      /\ scenario' = scenario /\ objs' = objs /\ m_root_object' = m_root_object
      /\ making' = making /\ routing' = routing /\ view' = view
  BY DEF Request
<1>2. ObjectsInv'
  BY <1>1 DEF IInv, ObjectsInv, Live
<1>3. WireInv'
  <2>1. IsSeq(net') /\ AllGood(scenario', net')
    BY <1>1, GoodAppend DEF IInv, WireInv
  <2>2. QED
    BY <1>1, <2>1 DEF IInv, WireInv, Live
<1>4. \A k \in Key : k \in Ev' <=> k \in Ev
  <2>1. Held' = Held
    BY <1>1 DEF Held, Listed, Live
  <2>2. QED
    BY <1>1, <2>1, AfterUnheard DEF Ev, IInv, WireInv
<1>5. \A d \in Doid, p \in Doid : Waiting(d, p) => Waiting(d, p)'
  BY <1>1 DEF Waiting
<1>6. QED
  BY <1>1, <1>2, <1>3, <1>4, <1>5, StillKnown DEF IInv

LEMMA PushKeeps ==
  ASSUME IInv, Push
  PROVE  IInv'
<1>1. /\ making # <<>> /\ net' = Append(net, Head(making)) /\ making' = Tail(making)
      /\ scenario' = scenario /\ objs' = objs /\ m_root_object' = m_root_object
      /\ routing' = routing /\ view' = view
  BY DEF Push
<1>2. ObjectsInv'
  BY <1>1 DEF IInv, ObjectsInv, Live
<1>3. WireInv'
  <2>1. IsSeq(net') /\ AllGood(scenario', net') /\ IsSeq(making') /\ AllGood(scenario', making')
    BY <1>1, GoodAppend, GoodTail DEF IInv, WireInv
  <2>2. QED
    BY <1>1, <2>1 DEF IInv, WireInv, Live
<1>4. \A k \in Key : k \in Ev' <=> k \in Ev
  <2>1. Held' = Held
    BY <1>1 DEF Held, Listed, Live
  <2>2. QED
    BY <1>1, <2>1, AfterPushed DEF Ev, IInv, WireInv
<1>5. \A d \in Doid, p \in Doid : Waiting(d, p) => Waiting(d, p)'
  BY <1>1 DEF Waiting
<1>6. QED
  BY <1>1, <1>2, <1>3, <1>4, <1>5, StillKnown DEF IInv

-----------------------------------------------------------------------------
(* The next datagram is taken.                                               *)
LEMMA ListenIs ==
  ASSUME NEW c \in Listeners, NEW d \in Doid, NEW known, NEW K, NEW m,
         Sees(c, d) \in K <=> d \in known
  PROVE  d \in Listen(c, known, m) <=> Sees(c, d) \in Step(K, m)
<1>1. Sees(c, d) \in Key /\ Sees(c, d).at = c /\ Sees(c, d).doid = d
  BY DEF Key, Sees
<1>2. \A p : c # ObjectChannel(p) /\ c # ChildrenOf(p)
  BY ListenersAre
<1>3. \A p : Sees(c, d) # Asking(p)
  BY <1>2, KeysDiffer
<1>4. Sees(c, d) \in Adds(m) <=> c \in m.to /\ m.kind \in Entries /\ m.doid = d
  BY <1>1, <1>2, <1>3 DEF Adds
<1>5. Sees(c, d) \in Removes(m) <=>
        c \in m.to /\ m.doid = d
          /\ (m.kind \in Exits \/ (m.kind = "changing_location" /\ c \notin Roles(Role)))
  BY <1>1, <1>2 DEF Removes
<1>6. CASE c \notin m.to
  BY <1>4, <1>5, <1>6, StepIs DEF Listen
<1>7. CASE c \in m.to /\ m.kind \in Entries
  <2>1. Listen(c, known, m) = known \cup {m.doid}
    BY <1>7 DEF Listen, Entries
  <2>2. Sees(c, d) \notin Removes(m)
    BY <1>5, <1>7 DEF Entries, Exits
  <2>3. QED
    BY <1>4, <1>7, <2>1, <2>2, StepIs
<1>8. CASE c \in m.to /\ m.kind \notin Entries
           /\ (m.kind \in Exits \/ (m.kind = "changing_location" /\ c \notin Roles(Role)))
  <2>1. Listen(c, known, m) = known \ {m.doid}
    BY <1>8 DEF Listen, Entries, Exits
  <2>2. QED
    BY <1>4, <1>5, <1>8, <2>1, StepIs
<1>9. CASE c \in m.to /\ m.kind \notin Entries
           /\ ~(m.kind \in Exits \/ (m.kind = "changing_location" /\ c \notin Roles(Role)))
  <2>1. Listen(c, known, m) = known
    BY <1>9 DEF Listen, Entries, Exits
  <2>2. QED
    BY <1>4, <1>5, <1>9, <2>1, StepIs
<1>10. QED
  BY <1>6, <1>7, <1>8, <1>9

LEMMA ListenTypes ==
  ASSUME NEW c, NEW known, known \subseteq Doid, NEW m, Named(m)
  PROVE  Listen(c, known, m) \subseteq Doid
<1>1. CASE m.kind \in Entries
  <2>1. m.doid \in Doid
    BY <1>1 DEF Named
  <2>2. QED
    BY <2>1 DEF Listen
<1>2. CASE m.kind \notin Entries
  <2>1. Listen(c, known, m) \in {known, known \ {m.doid}}
    BY <1>2 DEF Listen, Entries
  <2>2. QED
    BY <2>1
<1>3. QED
  BY <1>1, <1>2

Taken ==
  LET msg == Head(net) IN
  /\ routing.to = {} /\ making = <<>> /\ net # <<>>
  /\ routing' = IF Receivers(msg.to) = {} THEN Idle ELSE [msg |-> msg, to |-> Receivers(msg.to)]
  /\ view' = [c \in Listeners |-> Listen(c, view[c], msg)]
  /\ net' = Tail(net)
  /\ scenario' = scenario /\ objs' = objs /\ m_root_object' = m_root_object /\ making' = making

LEMMA TakenIs == TakeMessage => Taken
BY DEF TakeMessage, Taken

LEMMA TakenRouting ==
  ASSUME IInv, Taken
  PROVE  /\ routing' = [msg |-> routing'.msg, to |-> routing'.to]
         /\ routing'.to = Receivers(Head(net).to)
         /\ routing'.to # {} => routing'.msg = Head(net)
<1>1. CASE Receivers(Head(net).to) = {}
  BY <1>1 DEF Taken, Idle
<1>2. CASE Receivers(Head(net).to) # {}
  BY <1>2 DEF Taken
<1>3. QED
  BY <1>1, <1>2

LEMMA ServerIs == Server \notin Doid
BY DistributedObjectAssumption DEF Server

LEMMA TakenWire ==
  ASSUME IInv, Taken
  PROVE  WireInv' /\ ObjectsInv' /\ Good(scenario, Head(net))
<1>1. /\ IsSeq(net') /\ AllGood(scenario', net') /\ IsSeq(making') /\ AllGood(scenario', making')
      /\ Good(scenario, Head(net))
  BY GoodTail DEF IInv, WireInv, Taken
<1>2. WireInv'
  <2>1. Live' = Live /\ scenario' = scenario /\ objs' = objs
    BY DEF Live, Taken
  <2>2. routing'.to \subseteq Live \cup {Server}
    BY TakenRouting DEF Receivers
  <2>3. ASSUME NEW d \in routing'.to \ {Server}
        PROVE  Subscriptions(d, objs'[d]) \cap routing'.msg.to # {}
    <3>1. d \in Receivers(Head(net).to) /\ routing'.msg = Head(net)
      BY TakenRouting, <2>3
    <3>2. QED
      BY <2>1, <2>3, <3>1 DEF Receivers
  <2>4. routing'.to # {} => Good(scenario', routing'.msg)
    BY <1>1, <2>1, TakenRouting
  <2>5. QED
    BY <1>1, <2>1, <2>2, <2>3, <2>4, TakenRouting DEF WireInv
<1>3. ObjectsInv'
  <2>1. ASSUME NEW c \in Listeners PROVE Listen(c, view[c], Head(net)) \subseteq Doid
    BY <1>1, ListenTypes DEF Good, IInv, ObjectsInv
  <2>2. view' \in [Listeners -> SUBSET Doid]
    BY <2>1 DEF Taken
  <2>3. QED
    BY <2>2 DEF Taken, IInv, ObjectsInv, Live
<1>4. QED
  BY <1>1, <1>2, <1>3

LEMMA TakenEv ==
  ASSUME IInv, Taken, NEW k \in Key
  PROVE  /\ k \in Ev <=> k \in After(Step(Held, Head(net)), Tail(net))
         /\ k \in Ev' <=> k \in After(Held', Tail(net))
         /\ (k \in Held' => k \in Step(Held, Head(net))) => (k \in Ev' => k \in Ev)
         /\ (k \in Step(Held, Head(net)) => k \in Held') => (k \in Ev => k \in Ev')
<1>1. making = <<>> /\ making' = <<>> /\ net' = Tail(net) /\ IsSeq(net) /\ net # <<>>
  BY DEF Taken, IInv, WireInv
<1>2. k \in Ev <=> k \in After(Step(Held, Head(net)), Tail(net))
  BY <1>1, AfterNone, AfterTail DEF Ev
<1>3. k \in Ev' <=> k \in After(Held', Tail(net))
  BY <1>1, AfterNone DEF Ev
<1>4. QED
  BY <1>2, <1>3, AfterMore

LEMMA TakenSees ==
  ASSUME IInv, Taken, NEW c \in Listeners, NEW d \in Doid
  PROVE  Sees(c, d) \in Ev' <=> Sees(c, d) \in Ev
<1>1. Sees(c, d) \in Held <=> d \in view[c]
  BY HeldIs DEF HeldFacts, SeesHeld
<1>2. Sees(c, d) \in Held' <=> d \in view'[c]
  BY HeldNext DEF HeldFacts, SeesHeld
<1>3. view'[c] = Listen(c, view[c], Head(net))
  BY DEF Taken
<1>4. Sees(c, d) \in Held' <=> Sees(c, d) \in Step(Held, Head(net))
  BY <1>1, <1>2, <1>3, ListenIs
<1>5. Sees(c, d) \in Key
  BY DEF Key
<1>6. QED
  BY <1>4, <1>5, TakenEv

LEMMA TakenLists ==
  ASSUME IInv, Taken, NEW p \in Doid, NEW z \in Zone, NEW d \in Doid
  PROVE  /\ Lists(p, z, d) \in Ev' => Lists(p, z, d) \in Ev
         /\ p \in Live => (Lists(p, z, d) \in Ev => Lists(p, z, d) \in Ev')
<1> DEFINE k == Lists(p, z, d)
           m == Head(net)
<1>1. k \in Key /\ Live' = Live /\ objs' = objs
  BY ListsKey DEF Taken, Live
<1>2. k \in Held <=> p \in Live /\ k \in Listed
  <2>1. p \notin routing.to
    BY DEF Taken
  <2>2. QED
    BY <2>1, HeldIs DEF HeldFacts, ListsHeld
<1>3. k \in Listed' <=> k \in Listed
  BY <1>1, HeldIs, HeldNext DEF HeldFacts, ListsHeld
<1>4. k \in Held' <=>
        p \in Live /\ k \in IF p \in routing'.to THEN Step(Listed', routing'.msg) ELSE Listed'
  BY <1>1, HeldNext DEF HeldFacts, ListsHeld
<1>5. k \in Step(Listed', m) <=> k \in Step(Listed, m)
  BY <1>3, StepIs
<1>6. p \in Live => (k \in Step(Held, m) <=> k \in Step(Listed, m))
  BY <1>2, StepIs
<1>7. p \in Live => (k \in Held' <=> k \in Step(Listed, m))
  <2>1. CASE p \in routing'.to
    BY <1>4, <1>5, <2>1, TakenRouting
  <2>2. CASE p \in Live /\ p \notin routing'.to
    <3>1. p \notin Receivers(m.to)
      BY <2>2, TakenRouting
    <3>2. ObjectChannel(p) \notin m.to
      BY <2>2, <3>1 DEF Receivers, Subscriptions
    <3>3. k \notin Adds(m) /\ k \notin Removes(m)
      BY <3>2, ListsKey
    <3>4. QED
      BY <1>3, <1>4, <2>2, <3>3, StepIs
  <2>3. QED
    BY <2>1, <2>2
<1>8. p \notin Live => k \notin Held'
  BY <1>4
<1> HIDE DEF k
<1>9. k \in Held' => k \in Step(Held, m)
  BY <1>6, <1>7, <1>8
<1>10. p \in Live /\ k \in Step(Held, m) => k \in Held'
  BY <1>6, <1>7
<1>11. (k \in Ev' => k \in Ev) /\ (p \in Live => (k \in Ev => k \in Ev'))
  BY <1>1, <1>9, <1>10, TakenEv
<1>12. QED
  BY <1>11 DEF k

LEMMA TakenAsked ==
  ASSUME IInv, Taken, NEW p \in Doid, NEW z \in Zone, NEW d \in Doid, d \in There(p, z), AskedFor(d, p)
  PROVE  AskedFor(d, p)'
<1> DEFINE m == Head(net)
<1>1. Asking(p) \in Ev
  BY DEF AskedFor, Taken
<1>2. Asking(p) \in Key /\ Asking(p) \notin Held
  BY AskingKey, HeldIs DEF HeldFacts, AskingHeld
<1>3. CASE Asking(p) \notin Adds(m)
  <2>1. Asking(p) \in Ev'
    BY <1>1, <1>2, <1>3, StepIs, TakenEv
  <2>2. QED
    BY <2>1 DEF AskedFor
<1>4. CASE Asking(p) \in Adds(m)
  <2>1. Good(scenario, m)
    BY TakenWire
  <2>2. m = WakeChildren(p)
    <3>1. m.kind = "get_location" /\ m.sender = p
      BY <1>4, AskingKey
    <3>2. PICK q \in Doid : m = WakeChildren(q)
      BY <2>1, <3>1 DEF Good, Addressed
    <3>3. QED
      BY <3>1, <3>2 DEF WakeChildren
  <2>3. p # NoDoid
    BY NullIsNoDoid
  <2>4. d \in Live /\ objs[d].parent = p
    BY DEF There
  <2>5. ChildrenOf(p) \in Subscriptions(d, objs[d]) /\ ChildrenOf(p) \in m.to
    BY <2>2, <2>3, <2>4 DEF Subscriptions, WakeChildren
  <2> HIDE DEF m
  <2>6. d \in Receivers(m.to)
    BY <2>4, <2>5 DEF Receivers
  <2>7. d \in routing'.to /\ routing'.msg = m
    BY <2>6, TakenRouting DEF m
  <2>8. QED
    BY <2>2, <2>7 DEF AskedFor
<1>5. QED
  BY <1>3, <1>4

LEMMA TakeMessageKeeps ==
  ASSUME IInv, TakeMessage
  PROVE  IInv'
<1>1. Taken
  BY TakenIs
<1>2. scenario' = scenario /\ objs' = objs /\ Live' = Live
  BY <1>1 DEF Taken, Live
<1>3. \A p, z : There(p, z)' = There(p, z)
  BY <1>2 DEF There
<1>4. PlacesInv'
  <2>1. ASSUME NEW p \in Doid, NEW z \in Zone, NEW d \in Doid
        PROVE  Sees(LocationChannel(p, z), d) \in Ev' <=> d \in There(p, z)'
    BY <1>1, <1>3, TakenSees, ListenersAre DEF IInv, PlacesInv
  <2>2. QED
    BY <2>1 DEF PlacesInv
<1>5. RolesInv'
  <2>1. ASSUME AIsStay(scenario), NEW r \in Role, NEW d \in Doid
        PROVE  /\ Sees(RoleChannel(r), d) \in Ev' => HasRole(r, d)'
               /\ HasRole(r, d)' /\ objs'[d].generator # r => Sees(RoleChannel(r), d) \in Ev'
    <3>1. HasRole(r, d)' <=> HasRole(r, d)
      BY <1>2 DEF HasRole
    <3>2. Sees(RoleChannel(r), d) \in Ev' <=> Sees(RoleChannel(r), d) \in Ev
      BY <1>1, TakenSees, ListenersAre
    <3>3. QED
      BY <1>2, <2>1, <3>1, <3>2 DEF IInv, RolesInv
  <2>2. QED
    BY <1>2, <2>1 DEF RolesInv
<1>6. ListsInv'
  <2>1. ASSUME Undeleted(scenario), NEW p \in Doid, NEW z \in Zone, NEW d \in Doid
        PROVE  /\ Lists(p, z, d) \in Ev' => d \in There(p, z)'
               /\ p \in Live' /\ d \in There(p, z)' => (Lists(p, z, d) \in Ev' \/ AskedFor(d, p)')
    <3>1. /\ Lists(p, z, d) \in Ev => d \in There(p, z)
          /\ p \in Live /\ d \in There(p, z) => (Lists(p, z, d) \in Ev \/ AskedFor(d, p))
      BY <2>1 DEF IInv, ListsInv
    <3>2. /\ Lists(p, z, d) \in Ev' => Lists(p, z, d) \in Ev
          /\ p \in Live => (Lists(p, z, d) \in Ev => Lists(p, z, d) \in Ev')
      BY <1>1, TakenLists
    <3>3. d \in There(p, z) /\ AskedFor(d, p) => AskedFor(d, p)'
      BY <1>1, TakenAsked
    <3>4. QED
      BY <1>2, <1>3, <3>1, <3>2, <3>3
  <2>2. QED
    BY <1>2, <2>1 DEF ListsInv
<1>7. QED
  BY <1>1, <1>4, <1>5, <1>6, TakenWire DEF IInv

-----------------------------------------------------------------------------
(* An object handles a datagram.                                             *)
Object_handles(d, r) ==
  /\ making = <<>> /\ d \in routing.to
  /\ r = Handle(d, objs[d], routing.msg)
  /\ Route(r.out)
  /\ objs' = IF r.gone THEN [c \in Live \ {d} |-> objs[c]] ELSE [objs EXCEPT ![d] = r.obj]
  /\ Done(d)
  /\ scenario' = scenario /\ m_root_object' = m_root_object /\ view' = view

LEMMA HandlesIs ==
  ASSUME NEW d, HandleObject(d)
  PROVE  Object_handles(d, Handle(d, objs[d], routing.msg))
BY DEF HandleObject, Object_handles

\* What is known once the datagram is handled, and before what the handler routes.
Rest == After(Held', net)

LEMMA Received ==
  ASSUME IInv, NEW d \in Doid, d \in routing.to
  PROVE  /\ d \in Live /\ Fine(scenario, objs[d]) /\ Good(scenario, routing.msg)
         /\ routing.msg.kind \in ToObjects
         /\ Subscriptions(d, objs[d]) \cap routing.msg.to # {}
<1>1. d # Server
  BY ServerIs
<1>2. d \in Live /\ Fine(scenario, objs[d]) /\ Good(scenario, routing.msg)
  BY <1>1 DEF IInv, ObjectsInv, WireInv
<1>3. Subscriptions(d, objs[d]) \cap routing.msg.to # {}
  BY <1>1 DEF IInv, WireInv
<1>4. routing.msg.kind \in ToObjects
  <2>1. objs[d].parent = NoDoid \/ objs[d].parent \in Doid
    BY <1>2, FineHas DEF Place
  <2>2. ObjectChannel(d) \in routing.msg.to
          \/ (objs[d].parent \in Doid /\ ChildrenOf(objs[d].parent) \in routing.msg.to)
    BY <1>3, <2>1 DEF Subscriptions
  <2>3. QED
    BY <1>2, <2>2 DEF Good, Addressed
<1>5. QED
  BY <1>2, <1>3, <1>4

LEMMA IsHandled ==
  ASSUME IInv, NEW d \in Doid, NEW r, Object_handles(d, r)
  PROVE  /\ Proper(scenario, Rest, d, objs[d], r)
         /\ r.gone \/ OwnList(d, objs[d], routing.msg, r.obj)
<1>1. Handled(scenario, Rest, d, objs[d], routing.msg)
  BY Received, ProperHandle DEF Object_handles
<1>2. QED
  BY <1>1 DEF Handled, Object_handles

LEMMA HandlesEv ==
  ASSUME IInv, NEW d \in Doid, NEW r, Object_handles(d, r)
  PROVE  /\ IsSeq(net') /\ IsSeq(making') /\ AllGood(scenario, net') /\ AllGood(scenario, making')
         /\ \A k \in Key : k \in Ev' <=> k \in After(Rest, r.out)
         /\ \A k \in Key : (k \in Held' <=> k \in Held) => (k \in Rest <=> k \in Ev)
<1>1. IsSeq(r.out) /\ AllGood(scenario, r.out)
  BY IsHandled DEF Proper, Wire
<1>2. WireInv /\ making = <<>> /\ Route(r.out)
  BY DEF IInv, Object_handles
<1>3. ASSUME NEW k \in Key, k \in Held' <=> k \in Held PROVE k \in Rest <=> k \in Ev
  BY <1>2, <1>3, AfterNone, AfterSame DEF Ev, Rest
<1>4. QED
  BY <1>1, <1>2, <1>3, RouteIs DEF Rest

LEMMA HandlesObjects ==
  ASSUME IInv, NEW d \in Doid, NEW r, Object_handles(d, r)
  PROVE  /\ Live' = IF r.gone THEN Live \ {d} ELSE Live
         /\ \A c \in Live' \ {d} : objs'[c] = objs[c]
         /\ ~r.gone => objs'[d] = r.obj
         /\ d \in Live
<1>1. d \in Live
  BY Received DEF Object_handles
<1>2. CASE r.gone
  <2>1. objs' = [c \in Live \ {d} |-> objs[c]]
    BY <1>2 DEF Object_handles
  <2>2. QED
    BY <1>1, <1>2, <2>1 DEF Live
<1>3. CASE ~r.gone
  <2>1. objs' = [objs EXCEPT ![d] = r.obj]
    BY <1>3 DEF Object_handles
  <2>2. QED
    BY <1>1, <1>3, <2>1 DEF Live
<1>4. QED
  BY <1>2, <1>3

LEMMA HandlesRouting ==
  ASSUME IInv, NEW d \in Doid, NEW r, Object_handles(d, r)
  PROVE  /\ routing' = [msg |-> routing'.msg, to |-> routing'.to]
         /\ routing'.to = routing.to \ {d}
         /\ routing'.to # {} => routing'.msg = routing.msg
BY DoneIs DEF Object_handles, IInv

LEMMA HandlesSees ==
  ASSUME IInv, NEW d \in Doid, NEW r, Object_handles(d, r), NEW c \in Listeners, NEW e \in Doid
  PROVE  Sees(c, e) \in Key /\ (Sees(c, e) \in Rest <=> Sees(c, e) \in Ev)
<1>1. Sees(c, e) \in Held' <=> Sees(c, e) \in Held
  BY HeldIs, HeldNext DEF HeldFacts, SeesHeld, Object_handles
<1>2. Sees(c, e) \in Key
  BY DEF Key
<1>3. QED
  BY <1>1, <1>2, HandlesEv

LEMMA HandlesAsking ==
  ASSUME IInv, NEW d \in Doid, NEW r, Object_handles(d, r), NEW p \in Doid, Asking(p) \in Ev
  PROVE  Asking(p) \in Ev'
<1>1. Asking(p) \in Key /\ Asking(p) \notin Held /\ Asking(p) \notin Held'
  BY HeldIs, HeldNext, AskingKey DEF HeldFacts, AskingHeld
<1>2. Asking(p) \in Rest
  BY <1>1, HandlesEv
<1>3. QED
  BY <1>1, <1>2, AskingStays, HandlesEv

LEMMA HandlesLists ==
  ASSUME IInv, NEW d \in Doid, NEW r, Object_handles(d, r), ~r.gone,
         NEW p \in Doid, NEW z \in Zone, NEW e \in Doid
  PROVE  Lists(p, z, e) \in Key /\ (Lists(p, z, e) \in Rest <=> Lists(p, z, e) \in Ev)
<1> DEFINE k == Lists(p, z, e)
<1>1. k \in Key /\ Live' = Live /\ objs'[d] = r.obj /\ d \in Live
  BY ListsKey, HandlesObjects
<1>2. k \in Held <=> p \in Live /\ k \in IF p \in routing.to THEN Step(Listed, routing.msg) ELSE Listed
  BY HeldIs DEF HeldFacts, ListsHeld
<1>3. k \in Held' <=> p \in Live /\ k \in IF p \in routing'.to THEN Step(Listed', routing'.msg) ELSE Listed'
  BY <1>1, HeldNext DEF HeldFacts, ListsHeld
<1>4. k \in Listed <=> p \in Live /\ e \in ObjectsIn(objs[p], z)
  BY HeldIs DEF HeldFacts, ListsHeld
<1>5. k \in Listed' <=> p \in Live /\ e \in ObjectsIn(objs'[p], z)
  BY <1>1, HeldNext DEF HeldFacts, ListsHeld
<1>6. CASE p = d
  <2>1. p \in routing.to /\ p \notin routing'.to
    BY <1>6, HandlesRouting DEF Object_handles
  <2>2. e \in ObjectsIn(r.obj, z) <=>
          k \in Adds(routing.msg) \/ (e \in ObjectsIn(objs[d], z) /\ k \notin Removes(routing.msg))
    BY <1>6, IsHandled DEF OwnList
  <2>3. k \in Listed' <=> k \in Step(Listed, routing.msg)
    BY <1>1, <1>4, <1>5, <1>6, <2>2, StepIs
  <2>4. QED
    BY <1>1, <1>2, <1>3, <2>1, <2>3, HandlesEv
<1>7. CASE p # d
  <2>1. p \in Live => objs'[p] = objs[p]
    BY <1>1, <1>7, HandlesObjects
  <2>2. k \in Listed' <=> k \in Listed
    BY <1>4, <1>5, <2>1
  <2>3. p \in routing'.to <=> p \in routing.to
    BY <1>7, HandlesRouting
  <2>4. p \in routing.to => routing'.msg = routing.msg
    BY <2>3, HandlesRouting
  <2>5. k \in Step(Listed', routing.msg) <=> k \in Step(Listed, routing.msg)
    BY <2>2, StepIs
  <2>6. k \in Held' <=> k \in Held
    BY <1>2, <1>3, <2>2, <2>3, <2>4, <2>5
  <2>7. QED
    BY <1>1, <2>6, HandlesEv
<1>8. QED
  BY <1>6, <1>7

LEMMA HandlesWire ==
  ASSUME IInv, NEW d \in Doid, NEW r, Object_handles(d, r)
  PROVE  WireInv' /\ ObjectsInv'
<1>1. scenario' = scenario /\ m_root_object' = m_root_object /\ view' = view
  BY DEF Object_handles
<1>2. routing.to \subseteq Live \cup {Server} /\ (routing.to # {} => Good(scenario, routing.msg))
  BY DEF IInv, WireInv
<1>3. routing'.to \subseteq Live' \cup {Server}
  BY <1>2, HandlesRouting, HandlesObjects
<1>4. ASSUME NEW e \in routing'.to \ {Server} PROVE Subscriptions(e, objs'[e]) \cap routing'.msg.to # {}
  <2>1. e \in Live' \ {d} /\ e \in routing.to \ {Server} /\ routing'.msg = routing.msg
    BY <1>3, <1>4, HandlesRouting
  <2>2. objs'[e] = objs[e]
    BY <2>1, HandlesObjects
  <2>3. Subscriptions(e, objs[e]) \cap routing.msg.to # {}
    BY <2>1 DEF IInv, WireInv
  <2>4. QED
    BY <2>1, <2>2, <2>3
<1>5. WireInv'
  <2>1. routing'.to # {} => Good(scenario', routing'.msg)
    BY <1>1, <1>2, HandlesRouting
  <2>2. QED
    BY <1>1, <1>3, <1>4, <2>1, HandlesRouting, HandlesEv DEF WireInv
<1>6. ObjectsInv'
  <2>1. ASSUME NEW e \in Live' PROVE e \in Doid /\ Fine(scenario, objs'[e])
    <3>1. CASE e = d
      <4>1. ~r.gone
        BY <2>1, <3>1, HandlesObjects
      <4>2. objs'[e] = r.obj /\ Fine(scenario, r.obj)
        BY <3>1, <4>1, HandlesObjects, IsHandled DEF Proper
      <4>3. QED
        BY <3>1, <4>2
    <3>2. CASE e # d
      <4>1. e \in Live /\ objs'[e] = objs[e]
        BY <2>1, <3>2, HandlesObjects
      <4>2. QED
        BY <4>1 DEF IInv, ObjectsInv
    <3>3. QED
      BY <3>1, <3>2
  <2>2. QED
    BY <1>1, <2>1 DEF IInv, ObjectsInv
<1>7. QED
  BY <1>5, <1>6

LEMMA HandlesOther ==
  ASSUME IInv, NEW d \in Doid, NEW r, Object_handles(d, r), NEW k \in Key, k.doid # d
  PROVE  k \in Ev' <=> k \in Rest
<1>1. Wire(scenario, d, r.out)
  BY IsHandled DEF Proper
<1>2. QED
  BY <1>1, AfterOthers, HandlesEv

LEMMA KeysDoid ==
  \A c, d, p, z : Sees(c, d).doid = d /\ Lists(p, z, d).doid = d /\ Asking(p).doid = p
BY DEF Sees, Lists, Asking

LEMMA HandlesPlaces ==
  ASSUME IInv, NEW d \in Doid, NEW r, Object_handles(d, r)
  PROVE  PlacesInv'
<1>1. ASSUME NEW p \in Doid, NEW z \in Zone, NEW e \in Doid
      PROVE  Sees(LocationChannel(p, z), e) \in Ev' <=> e \in There(p, z)'
  <2> DEFINE k == Sees(LocationChannel(p, z), e)
  <2>1. k \in Key /\ (k \in Rest <=> k \in Ev)
    BY HandlesSees, ListenersAre
  <2>2. k \in Ev <=> e \in There(p, z)
    BY DEF IInv, PlacesInv
  <2>3. CASE e # d
    <3>1. k \in Ev' <=> k \in Rest
      BY <2>1, <2>3, HandlesOther, KeysDoid
    <3>2. e \in There(p, z)' <=> e \in There(p, z)
      BY <2>3, HandlesObjects DEF There
    <3>3. QED
      BY <2>1, <2>2, <3>1, <3>2
  <2>4. CASE e = d
    <3>1. e \in There(p, z) <=> At(objs[d], p, z)
      BY <2>4, HandlesObjects DEF There, At
    <3>2. e \in There(p, z)' <=> ~r.gone /\ At(r.obj, p, z)
      BY <2>4, HandlesObjects DEF There, At
    <3>3. TellsPlaces(Rest, d, objs[d], r)
      BY IsHandled DEF Proper
    <3>4. k \in Rest <=> At(objs[d], p, z)
      BY <2>1, <2>2, <3>1
    <3>5. k \in After(Rest, r.out) <=> ~r.gone /\ At(r.obj, p, z)
      BY <2>4, <3>3, <3>4 DEF TellsPlaces
    <3>6. QED
      BY <2>1, <3>2, <3>5, HandlesEv
  <2>5. QED
    BY <2>3, <2>4
<1>2. QED
  BY <1>1 DEF PlacesInv

LEMMA HandlesRoles ==
  ASSUME IInv, NEW d \in Doid, NEW r, Object_handles(d, r)
  PROVE  RolesInv'
<1>1. ASSUME AIsStay(scenario), NEW x \in Role, NEW e \in Doid
      PROVE  /\ Sees(RoleChannel(x), e) \in Ev' => HasRole(x, e)'
             /\ HasRole(x, e)' /\ objs'[e].generator # x => Sees(RoleChannel(x), e) \in Ev'
  <2> DEFINE k == Sees(RoleChannel(x), e)
  <2>1. k \in Key /\ (k \in Rest <=> k \in Ev)
    BY HandlesSees, ListenersAre
  <2>2. /\ k \in Ev => HasRole(x, e)
        /\ HasRole(x, e) /\ objs[e].generator # x => k \in Ev
    BY <1>1 DEF IInv, RolesInv
  <2>3. CASE e # d
    <3>1. k \in Ev' <=> k \in Rest
      BY <2>1, <2>3, HandlesOther, KeysDoid
    <3>2. HasRole(x, e)' <=> HasRole(x, e)
      BY <2>3, HandlesObjects DEF HasRole
    <3>3. HasRole(x, e)' => objs'[e] = objs[e]
      BY <2>3, HandlesObjects DEF HasRole
    <3>4. QED
      BY <2>1, <2>2, <3>1, <3>2, <3>3
  <2>4. CASE e = d
    <3>1. HasRole(x, e) <=> x \in {objs[d].ai, objs[d].owner}
      BY <2>4, HandlesObjects DEF HasRole
    <3>2. HasRole(x, e)' <=> ~r.gone /\ x \in {r.obj.ai, r.obj.owner}
      BY <2>4, HandlesObjects DEF HasRole
    <3>3. ~r.gone => objs'[e] = r.obj
      BY <2>4, HandlesObjects
    <3>4. TellsRoles(Rest, d, objs[d], r)
      BY <1>1, IsHandled DEF Proper
    <3>5. RoleKnown(Rest, d, objs[d], x)
      BY <2>1, <2>2, <2>4, <3>1 DEF RoleKnown
    <3>6. IF r.gone THEN k \notin After(Rest, r.out) ELSE RoleKnown(After(Rest, r.out), d, r.obj, x)
      BY <2>4, <3>4, <3>5 DEF TellsRoles
    <3>7. k \in Ev' <=> k \in After(Rest, r.out)
      BY <2>1, HandlesEv
    <3>8. CASE r.gone
      BY <3>2, <3>6, <3>7, <3>8
    <3>9. CASE ~r.gone
      BY <2>4, <3>2, <3>3, <3>6, <3>7, <3>9 DEF RoleKnown
    <3>10. QED
      BY <3>8, <3>9
  <2>5. QED
    BY <2>3, <2>4
<1>2. scenario' = scenario
  BY DEF Object_handles
<1>3. QED
  BY <1>1, <1>2 DEF RolesInv

\* A child that is still to be asked will be; one that is asked answers.
LEMMA HandlesAsked ==
  ASSUME IInv, NEW d \in Doid, NEW r, Object_handles(d, r), ~r.gone,
         NEW p \in Doid, NEW z \in Zone, NEW e \in Doid, AskedFor(e, p)
  PROVE  \/ AskedFor(e, p)'
         \/ e = d /\ (At(objs[d], p, z) => Lists(p, z, d) \in Ev')
<1>1. CASE Asking(p) \in Ev
  BY <1>1, HandlesAsking DEF AskedFor
<1>2. CASE Waiting(e, p) /\ e # d
  <2>1. e \in routing'.to /\ routing'.msg = routing.msg
    BY <1>2, HandlesRouting DEF Waiting
  <2>2. QED
    BY <1>2, <2>1 DEF Waiting, AskedFor
<1>3. CASE Waiting(e, p) /\ e = d
  <2>1. routing.msg.kind = "get_location" /\ routing.msg = WakeChildren(p)
    BY <1>3 DEF Waiting, WakeChildren
  <2>2. r = HandleGetLocation(d, objs[d], routing.msg)
    BY <2>1 DEF Handle, Object_handles
  <2>3. Fine(scenario, objs[d])
    BY Received DEF Object_handles
  <2>4. At(objs[d], p, z) => Lists(p, z, d) \in After(Rest, r.out)
    BY <2>1, <2>2, <2>3, ProperGetLocation
  <2>5. Lists(p, z, d) \in Key
    BY ListsKey
  <2>6. QED
    BY <1>3, <2>4, <2>5, HandlesEv
<1>4. QED
  BY <1>1, <1>2, <1>3 DEF AskedFor, Waiting

LEMMA HandlesListed ==
  ASSUME IInv, NEW d \in Doid, NEW r, Object_handles(d, r), Undeleted(scenario),
         NEW p \in Doid, NEW z \in Zone, NEW e \in Doid
  PROVE  /\ Lists(p, z, e) \in Ev' => e \in There(p, z)'
         /\ p \in Live' /\ e \in There(p, z)' => (Lists(p, z, e) \in Ev' \/ AskedFor(e, p)')
<1> DEFINE k == Lists(p, z, e)
<1>1. ~r.gone /\ TellsLists(Rest, d, objs[d], r)
  BY IsHandled DEF Proper
<1>2. k \in Key /\ (k \in Rest <=> k \in Ev)
  BY <1>1, HandlesLists
<1>3. /\ k \in Ev => e \in There(p, z)
      /\ p \in Live /\ e \in There(p, z) => (k \in Ev \/ AskedFor(e, p))
  BY DEF IInv, ListsInv
<1>4. Live' = Live /\ d \in Live /\ objs'[d] = r.obj
  BY <1>1, HandlesObjects
<1>5. CASE e # d
  <2>1. k \in Ev' <=> k \in Rest
    BY <1>2, <1>5, HandlesOther, KeysDoid
  <2>2. e \in There(p, z)' <=> e \in There(p, z)
    BY <1>4, <1>5, HandlesObjects DEF There
  <2>3. AskedFor(e, p) => AskedFor(e, p)'
    BY <1>1, <1>5, HandlesAsked
  <2>4. QED
    BY <1>2, <1>3, <1>4, <2>1, <2>2, <2>3
<1>6. CASE e = d
  <2>1. e \in There(p, z) <=> At(objs[d], p, z)
    BY <1>4, <1>6 DEF There, At
  <2>2. e \in There(p, z)' <=> At(r.obj, p, z)
    BY <1>4, <1>6 DEF There, At
  <2>3. k \in Ev' <=> k \in After(Rest, r.out)
    BY <1>2, HandlesEv
  <2>4. k \in Rest => At(objs[d], p, z)
    BY <1>2, <1>3, <2>1
  <2>5. k \in Ev' => At(r.obj, p, z)
    BY <1>1, <1>6, <2>3, <2>4 DEF TellsLists
  <2>6. (At(objs[d], p, z) => k \in Rest) => (At(r.obj, p, z) => k \in Ev')
    BY <1>1, <1>6, <2>3 DEF TellsLists
  <2>7. p \in Live /\ At(objs[d], p, z) => k \in Rest \/ AskedFor(e, p)
    BY <1>2, <1>3, <2>1
  <2>8. AskedFor(e, p) /\ At(objs[d], p, z) => AskedFor(e, p)' \/ k \in Ev'
    BY <1>1, <1>6, HandlesAsked
  <2>9. QED
    BY <1>4, <2>2, <2>5, <2>6, <2>7, <2>8
<1>7. QED
  BY <1>5, <1>6

LEMMA HandleObjectKeeps ==
  ASSUME IInv, NEW d \in Doid, HandleObject(d)
  PROVE  IInv'
<1>1. PICK r : Object_handles(d, r)
  BY HandlesIs
<1>2. scenario' = scenario
  BY <1>1 DEF Object_handles
<1>3. ListsInv'
  BY <1>1, <1>2, HandlesListed DEF ListsInv
<1>4. QED
  BY <1>1, <1>3, HandlesWire, HandlesPlaces, HandlesRoles DEF IInv

-----------------------------------------------------------------------------
(* The server handles a datagram.                                            *)
Server_done ==
  /\ making = <<>> /\ Server \in routing.to /\ Done(Server)
  /\ scenario' = scenario /\ view' = view
  /\ m_root_object' \in Doid \cup {NoDoid}

Generates(d, n) ==
  /\ Server_done
  /\ routing.msg.kind = "create" /\ d = routing.msg.doid /\ d \notin Live
  /\ n = ChangeLocation(d, NewObject(routing.msg.generator), routing.msg.parent, routing.msg.zone)
  /\ objs' = [c \in Live \cup {d} |-> IF c = d THEN n.obj ELSE objs[c]]
  /\ Route(Append(n.out, WakeChildren(d)))

LEMMA ServerGood ==
  ASSUME IInv, Server \in routing.to
  PROVE  Good(scenario, routing.msg)
BY DEF IInv, WireInv

LEMMA GeneratesIs ==
  ASSUME IInv, HandleGenerate
  PROVE  /\ Server_done
         /\ \/ UNCHANGED <<objs, making, net>>
            \/ \E d \in Doid : \E n : Generates(d, n)
<1> DEFINE m == routing.msg
           d == m.doid
           n == ChangeLocation(d, NewObject(m.generator), m.parent, m.zone)
<1>1. d \in Doid
  <2>1. Good(scenario, m) /\ m.kind = "create"
    BY ServerGood DEF HandleGenerate
  <2>2. QED
    BY <2>1 DEF Good, Named
<1>2. m_root_object' \in Doid \cup {NoDoid}
  BY <1>1 DEF HandleGenerate, IInv, ObjectsInv
<1>3. Server_done
  BY <1>2 DEF HandleGenerate, Server_done
<1>4. CASE Accepts(m) /\ ~m.truncated
  <2>1. d \notin Live
    BY <1>4 DEF Accepts
  <2>2. /\ objs' = [c \in Live \cup {d} |-> IF c = d THEN n.obj ELSE objs[c]]
        /\ Route(Append(n.out, WakeChildren(d))) /\ m.kind = "create"
    BY <1>4 DEF HandleGenerate
  <2>3. Generates(d, n)
    BY <1>3, <2>1, <2>2 DEF Generates
  <2>4. QED
    BY <1>1, <1>3, <2>3
<1>5. CASE ~(Accepts(m) /\ ~m.truncated)
  BY <1>3, <1>5 DEF HandleGenerate
<1>6. QED
  BY <1>4, <1>5

LEMMA ServerRouting ==
  ASSUME IInv, Server_done
  PROVE  /\ routing' = [msg |-> routing'.msg, to |-> routing'.to]
         /\ routing'.to = routing.to \ {Server}
         /\ routing'.to # {} => routing'.msg = routing.msg
BY DoneIs DEF Server_done, IInv

LEMMA ServerWaiting ==
  ASSUME IInv, Server_done, NEW d \in Doid, NEW p, Waiting(d, p)
  PROVE  Waiting(d, p)'
<1>1. d \in routing'.to
  BY ServerRouting, ServerIs DEF Waiting
<1>2. QED
  BY <1>1, ServerRouting DEF Waiting

\* What was known is, when the objects that were there are as they were.
LEMMA ServerHeld ==
  ASSUME IInv, Server_done, \A c \in Live : c \in Live' /\ objs'[c] = objs[c],
         \A c \in Live' \ Live : \A z : ObjectsIn(objs'[c], z) = {},
         NEW k \in Key
  PROVE  k \in Held' <=> k \in Held
<1>1. ASSUME NEW c \in Listeners, NEW d \in Doid, k = Sees(c, d) PROVE k \in Held' <=> k \in Held
  BY <1>1, HeldIs, HeldNext DEF HeldFacts, SeesHeld, Server_done
<1>2. ASSUME NEW p \in Doid, k = Asking(p) PROVE k \in Held' <=> k \in Held
  BY <1>2, HeldIs, HeldNext DEF HeldFacts, AskingHeld
<1>3. ASSUME NEW p \in Doid, NEW z \in Zone, NEW d \in Doid, k = Lists(p, z, d)
      PROVE  k \in Held' <=> k \in Held
  <2>1. k \in Held <=> p \in Live /\ k \in IF p \in routing.to THEN Step(Listed, routing.msg) ELSE Listed
    BY <1>3, HeldIs DEF HeldFacts, ListsHeld
  <2>2. k \in Held' <=> p \in Live' /\ k \in IF p \in routing'.to THEN Step(Listed', routing'.msg) ELSE Listed'
    BY <1>3, HeldNext DEF HeldFacts, ListsHeld
  <2>3. k \in Listed <=> p \in Live /\ d \in ObjectsIn(objs[p], z)
    BY <1>3, HeldIs DEF HeldFacts, ListsHeld
  <2>4. k \in Listed' <=> p \in Live' /\ d \in ObjectsIn(objs'[p], z)
    BY <1>3, HeldNext DEF HeldFacts, ListsHeld
  <2>5. k \in Listed' <=> k \in Listed
    BY <2>3, <2>4
  <2>6. p \in routing'.to <=> p \in routing.to
    BY ServerRouting, ServerIs
  <2>7. p \in routing.to => routing'.msg = routing.msg
    BY <2>6, ServerRouting
  <2>8. k \in Step(Listed', routing.msg) <=> k \in Step(Listed, routing.msg)
    BY <2>5, StepIs
  <2>9. p \notin Live => p \notin routing.to /\ k \notin Listed'
    <3>1. p \notin Live => p \notin routing.to
      BY ServerIs DEF IInv, WireInv
    <3>2. QED
      BY <3>1, <2>3, <2>5
  <2>10. p \in Live => p \in Live'
    OBVIOUS
  <2>11. QED
    BY <2>1, <2>2, <2>5, <2>6, <2>7, <2>8, <2>9, <2>10
<1>4. QED
  BY <1>1, <1>2, <1>3 DEF Key

LEMMA ServerEv ==
  ASSUME IInv, Server_done, NEW k \in Key, k \in Held' <=> k \in Held
  PROVE  k \in Rest <=> k \in Ev
<1>1. making = <<>>
  BY DEF Server_done
<1>2. QED
  BY <1>1, AfterNone, AfterSame DEF Ev, Rest

LEMMA ServerWire ==
  ASSUME IInv, Server_done, \A c \in Live : c \in Live' /\ objs'[c] = objs[c],
         IsSeq(net'), IsSeq(making'), AllGood(scenario, net'), AllGood(scenario, making')
  PROVE  WireInv'
<1>1. routing.to \subseteq Live \cup {Server} /\ (routing.to # {} => Good(scenario, routing.msg))
  BY DEF IInv, WireInv
<1>2. routing'.to \subseteq Live' \cup {Server}
  BY <1>1, ServerRouting
<1>3. ASSUME NEW e \in routing'.to \ {Server} PROVE Subscriptions(e, objs'[e]) \cap routing'.msg.to # {}
  <2>1. e \in Live /\ e \in routing.to \ {Server} /\ routing'.msg = routing.msg
    BY <1>1, <1>3, ServerRouting
  <2>2. Subscriptions(e, objs[e]) \cap routing.msg.to # {}
    BY <2>1 DEF IInv, WireInv
  <2>3. QED
    BY <2>1, <2>2
<1>4. routing'.to # {} => Good(scenario, routing'.msg)
  BY <1>1, ServerRouting
<1>5. scenario' = scenario
  BY DEF Server_done
<1>6. QED
  BY <1>2, <1>3, <1>4, <1>5, ServerRouting DEF WireInv

\* Nothing is generated, or an AI's objects are told to go.
LEMMA ServerKeeps ==
  ASSUME IInv, Server_done, objs' = objs, NEW out, IsSeq(out), AllGood(scenario, out), Route(out),
         \A K : Silent(K, out)
  PROVE  IInv'
<1>1. Live' = Live /\ scenario' = scenario /\ making = <<>> /\ WireInv
  BY DEF Live, Server_done, IInv
<1>2. \A k \in Key : k \in Rest <=> k \in Ev
  BY <1>1, ServerHeld, ServerEv
<1>3. /\ IsSeq(net') /\ IsSeq(making') /\ AllGood(scenario, net') /\ AllGood(scenario, making')
      /\ \A k \in Key : k \in Ev' <=> k \in After(Rest, out)
  BY <1>1, RouteIs DEF Rest
<1>4. \A k \in Key : k \in Ev' <=> k \in Ev
  BY <1>2, <1>3 DEF Silent
<1>5. WireInv'
  BY <1>1, <1>3, ServerWire
<1>6. ObjectsInv'
  BY <1>1 DEF ObjectsInv, IInv, Server_done
<1>7. \A d \in Doid, p \in Doid : Waiting(d, p) => Waiting(d, p)'
  BY ServerWaiting
<1>8. QED
  BY <1>1, <1>4, <1>5, <1>6, <1>7, StillKnown DEF IInv

LEMMA HandleDeleteAIKeeps ==
  ASSUME IInv, HandleDeleteAI
  PROVE  IInv'
<1> DEFINE m == routing.msg
           to == {ObjectChannel(d) : d \in ManagedBy(m.ai)}
           n == DeleteAIObjects(to, m.ai)
<1>1. Server_done
  BY DEF HandleDeleteAI, Server_done, IInv, ObjectsInv
<1>2. Good(scenario, m) /\ m.kind = "delete_ai_objects"
  BY ServerGood DEF HandleDeleteAI
<1>3. ~Undeleted(scenario)
  BY <1>2 DEF Good, Allowed, Deletions
<1>4. n.kind = "delete_ai_objects"
  BY DEF DeleteAIObjects
<1>5. Good(scenario, n) /\ n.kind \notin Heard
  BY <1>3, <1>4 DEF Good, Addressed, Named, Allowed, ToObjects, Deletions, Heard, Entries, Exits
<1>6. Route(Send(n)) /\ objs' = objs
  BY DEF HandleDeleteAI
<1> HIDE DEF n
<1>7. IsSeq(Send(n)) /\ AllGood(scenario, Send(n)) /\ \A K : Silent(K, Send(n))
  BY <1>5, SeqSend, SilentOne DEF AllGood
<1>8. QED
  BY <1>1, <1>6, <1>7, ServerKeeps

LEMMA NewIsFine ==
  ASSUME NEW s, NEW a \in AI \cup {NoChannel}
  PROVE  /\ Fine(s, NewObject(a))
         /\ NewObject(a).parent = NoDoid /\ NewObject(a).ai = NoChannel /\ NewObject(a).owner = NoChannel
         /\ \A z : ObjectsIn(NewObject(a), z) = {}
<1> DEFINE o == NewObject(a)
<1>1. o.parent = NoDoid /\ o.zone = NoZone /\ o.ai = NoChannel /\ o.owner = NoChannel
  BY DEF NewObject
<1>2. o \in Object
  <2>1. [z \in {} |-> {}] \in [{} -> SUBSET Doid]
    OBVIOUS
  <2>2. [z \in {} |-> {}] \in ZoneObjects
    BY <2>1, ZoneObjectsAre
  <2>3. QED
    BY <2>2 DEF NewObject, Object, ZoneObjects
<1>3. \A z : ObjectsIn(o, z) = {}
  BY DEF NewObject, ObjectsIn
<1> HIDE DEF o
<1>4. Fine(s, o)
  BY <1>1, <1>2, KnownAIs DEF Fine, Place
<1>5. QED
  BY <1>1, <1>3, <1>4 DEF o

\* What a generated object tells of itself; its question to its children comes last.
LEMMA GeneratesTells ==
  ASSUME IInv, NEW d \in Doid, NEW n, Generates(d, n)
  PROVE  LET o == NewObject(routing.msg.generator) IN
         /\ Proper(scenario, Rest, d, o, n) /\ ~n.gone /\ Fine(scenario, o)
         /\ o.parent = NoDoid /\ o.ai = NoChannel /\ o.owner = NoChannel
         /\ \A z : ObjectsIn(n.obj, z) = {}
         /\ Wire(scenario, d, Append(n.out, WakeChildren(d)))
<1> DEFINE m == routing.msg
           o == NewObject(m.generator)
<1>1. m.generator \in AI \cup {NoChannel} /\ Place(m.parent, m.zone)
  BY ServerGood DEF Generates, Server_done, Good, Named
<1>2. /\ Fine(scenario, o) /\ o.parent = NoDoid /\ o.ai = NoChannel /\ o.owner = NoChannel
      /\ \A z : ObjectsIn(o, z) = {}
  BY <1>1, NewIsFine
<1>3. n = ChangeLocation(d, o, m.parent, m.zone)
  BY DEF Generates
<1> HIDE DEF o
<1>4. Proper(scenario, Rest, d, o, n)
  BY <1>1, <1>2, <1>3, ProperLocation
<1>5. SameChildren(o, n.obj)
  BY <1>2, <1>3, ChangeKeeps
<1>6. ~n.gone
  BY <1>3 DEF ChangeLocation, Stay, Become
<1>7. Wire(scenario, d, Append(n.out, WakeChildren(d)))
  <2>1. /\ WakeChildren(d).kind = "get_location" /\ WakeChildren(d).sender = d
    BY DEF WakeChildren
  <2>2. Good(scenario, WakeChildren(d))
    BY <2>1 DEF Good, Addressed, Named, Allowed, ToObjects, Deletions, Entries, Exits
  <2>3. About(d, WakeChildren(d))
    BY <2>1, AboutIs
  <2>4. QED
    BY <1>4, <2>2, <2>3, WireAppend DEF Proper
<1>8. QED
  BY <1>2, <1>4, <1>5, <1>6, <1>7 DEF o, SameChildren

LEMMA GeneratesObjects ==
  ASSUME IInv, NEW d \in Doid, NEW n, Generates(d, n)
  PROVE  /\ Live' = Live \cup {d} /\ d \notin Live /\ objs'[d] = n.obj
         /\ \A c \in Live : c # d /\ c \in Live' /\ objs'[c] = objs[c]
         /\ \A c \in Live' \ Live : \A z : ObjectsIn(objs'[c], z) = {}
<1>1. objs' = [c \in Live \cup {d} |-> IF c = d THEN n.obj ELSE objs[c]] /\ d \notin Live
  BY DEF Generates
<1>2. Live' = Live \cup {d} /\ objs'[d] = n.obj
  BY <1>1 DEF Live
<1>3. \A c \in Live : c # d /\ c \in Live' /\ objs'[c] = objs[c]
  BY <1>1, <1>2
<1>4. \A z : ObjectsIn(objs'[d], z) = {}
  BY <1>2, GeneratesTells
<1>5. \A c \in Live' \ Live : c = d
  BY <1>2
<1>6. QED
  BY <1>1, <1>2, <1>3, <1>4, <1>5

LEMMA GeneratesEv ==
  ASSUME IInv, NEW d \in Doid, NEW n, Generates(d, n)
  PROVE  /\ IsSeq(net') /\ IsSeq(making') /\ AllGood(scenario, net') /\ AllGood(scenario, making')
         /\ \A k \in Key : k \in Rest <=> k \in Ev
         /\ \A k \in Key : k \in Ev' <=> k \in Step(After(Rest, n.out), WakeChildren(d))
         /\ \A k \in Key : k.doid # d => (k \in Ev' <=> k \in Ev)
<1> DEFINE out == Append(n.out, WakeChildren(d))
<1>1. Server_done /\ Route(out) /\ making = <<>> /\ WireInv
  BY DEF Generates, Server_done, IInv
<1>2. Wire(scenario, d, out) /\ IsSeq(n.out)
  BY GeneratesTells DEF Proper, Wire
<1>3. \A k \in Key : k \in After(Rest, out) <=> k \in Step(After(Rest, n.out), WakeChildren(d))
  BY <1>2, AfterAppend
<1> HIDE DEF out
<1>4. IsSeq(out) /\ AllGood(scenario, out)
  BY <1>2 DEF Wire
<1>5. /\ IsSeq(net') /\ IsSeq(making') /\ AllGood(scenario, net') /\ AllGood(scenario, making')
      /\ \A k \in Key : k \in Ev' <=> k \in After(Rest, out)
  BY <1>1, <1>4, RouteIs DEF Rest
<1>6. \A k \in Key : k \in Rest <=> k \in Ev
  BY <1>1, GeneratesObjects, ServerHeld, ServerEv
<1>7. ASSUME NEW k \in Key, k.doid # d PROVE k \in Ev' <=> k \in Ev
  BY <1>2, <1>5, <1>6, <1>7, AfterOthers
<1>8. QED
  BY <1>3, <1>5, <1>6, <1>7

LEMMA WakeHeard ==
  ASSUME NEW K, NEW d \in Doid
  PROVE  /\ \A c \in Listeners, e \in Doid : Sees(c, e) \in Step(K, WakeChildren(d)) <=> Sees(c, e) \in K
         /\ \A p \in Doid, z \in Zone, e \in Doid :
              Lists(p, z, e) \in Step(K, WakeChildren(d)) <=> Lists(p, z, e) \in K
         /\ Asking(d) \in Step(K, WakeChildren(d))
         /\ \A p \in Doid : Asking(p) \in K => Asking(p) \in Step(K, WakeChildren(d))
<1> DEFINE m == WakeChildren(d)
<1>1. m.kind = "get_location" /\ m.sender = d /\ m.to = {ChildrenOf(d)}
  BY DEF WakeChildren
<1> HIDE DEF m
<1>2. ASSUME NEW c \in Listeners, NEW e \in Doid PROVE Sees(c, e) \in Step(K, m) <=> Sees(c, e) \in K
  <2>1. Sees(c, e).at \notin m.to
    BY <1>1, ListenersAre DEF Sees
  <2>2. QED
    BY <2>1, StepIs DEF Adds, Removes
<1>3. ASSUME NEW p \in Doid, NEW z \in Zone, NEW e \in Doid
      PROVE  Lists(p, z, e) \in Step(K, m) <=> Lists(p, z, e) \in K
  BY <1>1, ListsKey, StepIs
<1>4. Asking(d) \in Step(K, m)
  BY <1>1, AskingKey, StepIs
<1>5. \A p \in Doid : Asking(p) \in K => Asking(p) \in Step(K, m)
  BY AskingKey, StepIs
<1>6. QED
  BY <1>2, <1>3, <1>4, <1>5 DEF m

LEMMA GeneratesPlaces ==
  ASSUME IInv, NEW d \in Doid, NEW n, Generates(d, n)
  PROVE  PlacesInv'
<1>1. ASSUME NEW p \in Doid, NEW z \in Zone, NEW e \in Doid
      PROVE  Sees(LocationChannel(p, z), e) \in Ev' <=> e \in There(p, z)'
  <2> DEFINE k == Sees(LocationChannel(p, z), e)
  <2>1. k \in Key /\ (k \in Rest <=> k \in Ev)
    BY LocationKey, GeneratesEv
  <2>2. k \in Ev <=> e \in There(p, z)
    BY DEF IInv, PlacesInv
  <2>3. CASE e # d
    <3>1. k \in Ev' <=> k \in Ev
      BY <2>1, <2>3, GeneratesEv, KeysDoid
    <3>2. e \in There(p, z)' <=> e \in There(p, z)
      BY <2>3, GeneratesObjects DEF There
    <3>3. QED
      BY <2>2, <3>1, <3>2
  <2>4. CASE e = d
    <3>1. e \notin There(p, z)
      BY <2>4, GeneratesObjects DEF There
    <3>2. e \in There(p, z)' <=> At(n.obj, p, z)
      BY <2>4, GeneratesObjects DEF There, At
    <3>3. PICK o : Proper(scenario, Rest, d, o, n) /\ ~n.gone /\ o.parent = NoDoid
      BY GeneratesTells
    <3>4. k \in Rest <=> At(o, p, z)
      BY <2>1, <2>2, <3>1, <3>3, NullIsNoDoid DEF At
    <3>5. k \in After(Rest, n.out) <=> At(n.obj, p, z)
      BY <2>4, <3>3, <3>4 DEF Proper, TellsPlaces
    <3>6. k \in Ev' <=> k \in After(Rest, n.out)
      BY <2>1, GeneratesEv, WakeHeard, ListenersAre
    <3>7. QED
      BY <3>2, <3>5, <3>6
  <2>5. QED
    BY <2>3, <2>4
<1>2. QED
  BY <1>1 DEF PlacesInv

LEMMA GeneratesRoles ==
  ASSUME IInv, NEW d \in Doid, NEW n, Generates(d, n)
  PROVE  RolesInv'
<1>1. ASSUME AIsStay(scenario), NEW x \in Role, NEW e \in Doid
      PROVE  /\ Sees(RoleChannel(x), e) \in Ev' => HasRole(x, e)'
             /\ HasRole(x, e)' /\ objs'[e].generator # x => Sees(RoleChannel(x), e) \in Ev'
  <2> DEFINE k == Sees(RoleChannel(x), e)
  <2>1. k \in Key /\ (k \in Rest <=> k \in Ev)
    BY RoleKey, GeneratesEv
  <2>2. /\ k \in Ev => HasRole(x, e)
        /\ HasRole(x, e) /\ objs[e].generator # x => k \in Ev
    BY <1>1 DEF IInv, RolesInv
  <2>3. CASE e # d
    <3>1. k \in Ev' <=> k \in Ev
      BY <2>1, <2>3, GeneratesEv, KeysDoid
    <3>2. HasRole(x, e)' <=> HasRole(x, e)
      BY <2>3, GeneratesObjects DEF HasRole
    <3>3. HasRole(x, e) => objs'[e] = objs[e]
      BY GeneratesObjects DEF HasRole
    <3>4. QED
      BY <2>2, <3>1, <3>2, <3>3
  <2>4. CASE e = d
    <3>1. ~HasRole(x, e)
      BY <2>4, GeneratesObjects DEF HasRole
    <3>2. HasRole(x, e)' <=> x \in {n.obj.ai, n.obj.owner}
      BY <2>4, GeneratesObjects DEF HasRole
    <3>3. PICK o : Proper(scenario, Rest, d, o, n) /\ ~n.gone /\ o.ai = NoChannel /\ o.owner = NoChannel
      BY GeneratesTells
    <3>4. x # NoChannel
      BY DistributedObjectAssumption
    <3>5. RoleKnown(Rest, d, o, x)
      BY <2>1, <2>2, <2>4, <3>1, <3>3, <3>4 DEF RoleKnown
    <3>6. RoleKnown(After(Rest, n.out), d, n.obj, x)
      BY <1>1, <3>3, <3>5 DEF Proper, TellsRoles
    <3>7. k \in Ev' <=> k \in After(Rest, n.out)
      BY <2>1, GeneratesEv, WakeHeard, ListenersAre
    <3>8. objs'[e] = n.obj
      BY <2>4, GeneratesObjects
    <3>9. QED
      BY <2>4, <3>2, <3>6, <3>7, <3>8 DEF RoleKnown
  <2>5. QED
    BY <2>3, <2>4
<1>2. scenario' = scenario
  BY DEF Generates, Server_done
<1>3. QED
  BY <1>1, <1>2 DEF RolesInv

LEMMA GeneratesAsked ==
  ASSUME IInv, NEW d \in Doid, NEW n, Generates(d, n), NEW p \in Doid, NEW e \in Doid
  PROVE  (p = d \/ AskedFor(e, p)) => AskedFor(e, p)'
<1>1. Asking(p) \in Key /\ (Asking(p) \in Rest <=> Asking(p) \in Ev)
  BY AskingKey, GeneratesEv
<1>2. CASE p = d
  BY <1>1, <1>2, WakeHeard, GeneratesEv DEF AskedFor
<1>3. CASE Asking(p) \in Ev
  BY <1>1, <1>3, AskingStays, WakeHeard, GeneratesEv DEF AskedFor
<1>4. CASE Waiting(e, p)
  BY <1>4, ServerWaiting DEF Generates, Waiting, AskedFor
<1>5. QED
  BY <1>2, <1>3, <1>4 DEF AskedFor, Waiting

LEMMA GeneratesListed ==
  ASSUME IInv, NEW d \in Doid, NEW n, Generates(d, n), Undeleted(scenario),
         NEW p \in Doid, NEW z \in Zone, NEW e \in Doid
  PROVE  /\ Lists(p, z, e) \in Ev' => e \in There(p, z)'
         /\ p \in Live' /\ e \in There(p, z)' => (Lists(p, z, e) \in Ev' \/ AskedFor(e, p)')
<1> DEFINE k == Lists(p, z, e)
<1>1. k \in Key /\ (k \in Rest <=> k \in Ev)
  BY ListsKey, GeneratesEv
<1>2. /\ k \in Ev => e \in There(p, z)
      /\ p \in Live /\ e \in There(p, z) => (k \in Ev \/ AskedFor(e, p))
  BY DEF IInv, ListsInv
<1>3. CASE e # d
  <2>1. k \in Ev' <=> k \in Ev
    BY <1>1, <1>3, GeneratesEv, KeysDoid
  <2>2. e \in There(p, z)' <=> e \in There(p, z)
    BY <1>3, GeneratesObjects DEF There
  <2>3. p \in Live' => p = d \/ p \in Live
    BY GeneratesObjects
  <2>4. QED
    BY <1>2, <2>1, <2>2, <2>3, GeneratesAsked
<1>4. CASE e = d
  <2>1. e \notin There(p, z)
    BY <1>4, GeneratesObjects DEF There
  <2>2. e \in There(p, z)' <=> At(n.obj, p, z)
    BY <1>4, GeneratesObjects DEF There, At
  <2>3. PICK o : Proper(scenario, Rest, d, o, n) /\ o.parent = NoDoid
    BY GeneratesTells
  <2>4. ~At(o, p, z) /\ k \notin Rest
    BY <1>1, <1>2, <2>1, <2>3, NullIsNoDoid DEF At
  <2>5. TellsLists(Rest, d, o, n)
    BY <2>3 DEF Proper
  <2>6. k \in After(Rest, n.out) <=> At(n.obj, p, z)
    BY <1>4, <2>4, <2>5 DEF TellsLists
  <2>7. k \in Ev' <=> k \in After(Rest, n.out)
    BY <1>1, GeneratesEv, WakeHeard
  <2>8. QED
    BY <2>2, <2>6, <2>7
<1>5. QED
  BY <1>3, <1>4

LEMMA GeneratesKeeps ==
  ASSUME IInv, NEW d \in Doid, NEW n, Generates(d, n)
  PROVE  IInv'
<1>1. Server_done /\ scenario' = scenario
  BY DEF Generates, Server_done
<1>2. WireInv'
  BY <1>1, GeneratesObjects, GeneratesEv, ServerWire
<1>3. ObjectsInv'
  <2>1. Fine(scenario, n.obj)
    <3>1. PICK o : Proper(scenario, Rest, d, o, n) /\ ~n.gone
      BY GeneratesTells
    <3>2. QED
      BY <3>1 DEF Proper
  <2>2. ASSUME NEW e \in Live' PROVE e \in Doid /\ Fine(scenario, objs'[e])
    BY <2>1, GeneratesObjects DEF IInv, ObjectsInv
  <2>3. QED
    BY <1>1, <2>2 DEF IInv, ObjectsInv, Server_done
<1>4. ListsInv'
  BY <1>1, GeneratesListed DEF ListsInv
<1>5. QED
  BY <1>2, <1>3, <1>4, GeneratesPlaces, GeneratesRoles DEF IInv

LEMMA HandleGenerateKeeps ==
  ASSUME IInv, HandleGenerate
  PROVE  IInv'
<1>1. CASE UNCHANGED <<objs, making, net>>
  <2>1. Server_done /\ objs' = objs /\ making = <<>> /\ making' = <<>> /\ net' = net
    BY <1>1, GeneratesIs DEF Server_done
  <2>2. net \o <<>> = net
    BY ConcatEmptySeq DEF IInv, WireInv, IsSeq
  <2>3. Route(<<>>)
    BY <2>1, <2>2 DEF Route
  <2>4. IsSeq(<<>>) /\ AllGood(scenario, <<>>) /\ \A K : Silent(K, <<>>)
    <3>1. IsSeq(<<>>) /\ AllGood(scenario, <<>>)
      BY WireNone DEF Wire
    <3>2. \A K : Silent(K, <<>>)
      BY SilentNone
    <3>3. QED
      BY <3>1, <3>2
  <2>5. QED
    BY <2>1, <2>3, <2>4, ServerKeeps
<1>2. CASE \E d \in Doid : \E n : Generates(d, n)
  BY <1>2, GeneratesKeeps
<1>3. QED
  BY <1>1, <1>2, GeneratesIs

-----------------------------------------------------------------------------
(* The start.                                                                *)
StartedFrom(o, p, z, a, e, w, y, f) ==
  [o EXCEPT !.parent = p, !.zone = z, !.ai = a, !.explicit = e, !.owner = w, !.sync = y,
            !.zone_objects = f]

LEMMA StartFields ==
  ASSUME NEW o \in Object, NEW p, NEW z, NEW a, NEW e, NEW w, NEW y, NEW f,
         NEW n, n = StartedFrom(o, p, z, a, e, w, y, f)
  PROVE  /\ n.parent = p /\ n.zone = z /\ n.ai = a /\ n.owner = w /\ n.zone_objects = f
         /\ (/\ p \in Doid \cup {NoDoid} /\ z \in Zone \cup {NoZone} /\ a \in AI \cup {NoChannel}
             /\ e \in BOOLEAN /\ w \in Client \cup {NoChannel} /\ y \in BOOLEAN /\ f \in ZoneObjects)
              => n \in Object
<1>1. /\ n.parent = p /\ n.zone = z /\ n.ai = a /\ n.owner = w /\ n.zone_objects = f
  BY DEF StartedFrom, Object
<1>2. (/\ p \in Doid \cup {NoDoid} /\ z \in Zone \cup {NoZone} /\ a \in AI \cup {NoChannel}
       /\ e \in BOOLEAN /\ w \in Client \cup {NoChannel} /\ y \in BOOLEAN /\ f \in ZoneObjects)
        => n \in Object
  <2> SUFFICES ASSUME p \in Doid \cup {NoDoid}, z \in Zone \cup {NoZone}, a \in AI \cup {NoChannel},
                      e \in BOOLEAN, w \in Client \cup {NoChannel}, y \in BOOLEAN, f \in ZoneObjects
               PROVE  n \in Object
    OBVIOUS
  <2> DEFINE placed == [o EXCEPT !.parent = p, !.zone = z]
             managed == [placed EXCEPT !.ai = a, !.explicit = e]
             owned == [managed EXCEPT !.owner = w, !.sync = y]
  <2>1. n = [owned EXCEPT !.zone_objects = f]
    BY DEF StartedFrom
  <2>2. placed \in Object
    BY DEF Object
  <2> HIDE DEF placed
  <2>3. managed \in Object
    BY <2>2 DEF Object
  <2> HIDE DEF managed
  <2>4. owned \in Object
    BY <2>3 DEF Object
  <2> HIDE DEF owned
  <2>5. QED
    BY <2>1, <2>4 DEF Object, ZoneObjects
<1>3. QED
  BY <1>1, <1>2

LEMMA InitObjects ==
  ASSUME Init
  PROVE  /\ ObjectsInv /\ Live = DOMAIN Tree
         /\ \A d \in Live : /\ objs[d].parent = Tree[d].parent /\ objs[d].zone = Tree[d].zone
                            /\ objs[d].ai = TreeAI /\ objs[d].owner = Owners[d]
                            /\ \A p \in Doid, z \in Zone, c \in Doid :
                                 d = p => (c \in ObjectsIn(objs[d], z) <=> c \in There(p, z))
<1>1. scenario \in Scenarios /\ Live = DOMAIN Tree
  BY DEF Init, Live
<1>2. /\ DOMAIN Tree \subseteq Doid
      /\ TreeAI \in AI \cup {NoChannel}
      /\ \A d \in DOMAIN Tree : /\ Owners[d] \in Client \cup {NoChannel}
                                /\ Tree[d].parent \in Doid \cup {NoDoid}
                                /\ Tree[d].zone \in Zone \cup {NoZone}
                                /\ Tree[d].parent = NoDoid <=> Tree[d].zone = NoZone
  <2>1. /\ Tree \in [DOMAIN Tree -> [parent : Doid \cup {NoDoid}, zone : Zone \cup {NoZone}]]
        /\ DOMAIN Tree \subseteq Doid
        /\ \A d \in DOMAIN Tree : Tree[d].parent = NoDoid <=> Tree[d].zone = NoZone
        /\ Owners \in [DOMAIN Tree -> Client \cup {NoChannel}]
        /\ TreeAI \in AI \cup {NoChannel}
    BY <1>1, StateServerAssumption DEF Tree, Owners, TreeAI
  <2>2. QED
    BY <2>1
<1> DEFINE Zones(d) == {Tree[c].zone : c \in {c \in DOMAIN Tree : Tree[c].parent = d}}
           Lies(d) == [z \in Zones(d) |-> ChildrenIn(Tree, d, z)]
<1> HIDE DEF Lies
<1>3. ASSUME NEW d \in Live
      PROVE  objs[d] = StartedFrom(NewObject(NoChannel), Tree[d].parent, Tree[d].zone, TreeAI,
                                (Tree[d].parent = NoDoid) /\ TreeAI # NoChannel,
                                Owners[d], Tree[d].parent # NoDoid, Lies(d))
  <2>1. objs[d] = Settled(d)
    BY <1>1, <1>3 DEF Init
  <2>2. QED
    BY <2>1 DEF Settled, StartedFrom, Lies
<1>4. NewObject(NoChannel) \in Object
  BY NewIsFine DEF Fine
<1>5. ASSUME NEW d \in Live
       PROVE  /\ objs[d].parent = Tree[d].parent /\ objs[d].zone = Tree[d].zone
              /\ objs[d].ai = TreeAI /\ objs[d].owner = Owners[d] /\ objs[d].zone_objects = Lies(d)
  BY <1>3, <1>4, <1>5, StartFields
<1>6. ASSUME NEW d \in Live PROVE Lies(d) \in ZoneObjects
  <2>1. d # NoDoid
    BY <1>1, <1>2, NullIsNoDoid
  <2>2. Zones(d) \subseteq Zone
    BY <1>1, <1>2, <1>6, <2>1
  <2>3. \A z : ChildrenIn(Tree, d, z) \subseteq Doid
    BY <1>2 DEF ChildrenIn
  <2>4. Lies(d) \in [Zones(d) -> SUBSET Doid]
    BY <2>3 DEF Lies
  <2> HIDE DEF Zones
  <2>5. QED
    BY <2>2, <2>4, ZoneObjectsAre
<1>7. ASSUME NEW d \in Live, NEW z, NEW c
      PROVE  c \in ObjectsIn(objs[d], z) <=> c \in There(d, z)
  <2>1. c \in ObjectsIn(objs[d], z) <=> c \in ChildrenIn(Tree, d, z)
    <3>1. objs[d].zone_objects = Lies(d)
      BY <1>5, <1>7
    <3>2. CASE z \in Zones(d)
      <4>1. z \in DOMAIN Lies(d) /\ Lies(d)[z] = ChildrenIn(Tree, d, z)
        BY <3>2 DEF Lies
      <4>2. QED
        BY <3>1, <4>1 DEF ObjectsIn
    <3>3. CASE z \notin Zones(d)
      <4>1. z \notin DOMAIN Lies(d)
        BY <3>3 DEF Lies
      <4>2. c \notin ChildrenIn(Tree, d, z)
        BY <3>3 DEF ChildrenIn
      <4>3. QED
        BY <3>1, <4>1, <4>2 DEF ObjectsIn
    <3>4. QED
      BY <3>2, <3>3
  <2>2. c \in There(d, z) <=> c \in ChildrenIn(Tree, d, z)
    BY <1>1, <1>5, <1>7 DEF There, ChildrenIn
  <2>3. QED
    BY <2>1, <2>2
<1> HIDE DEF Zones
<1>8. ASSUME NEW d \in Live PROVE Fine(scenario, objs[d])
  <2>1. objs[d] \in Object
    <3>1. Lies(d) \in ZoneObjects
      BY <1>6, <1>8
    <3>2. /\ Tree[d].parent \in Doid \cup {NoDoid} /\ Tree[d].zone \in Zone \cup {NoZone}
          /\ TreeAI \in AI \cup {NoChannel} /\ Owners[d] \in Client \cup {NoChannel}
      BY <1>1, <1>2, <1>8
    <3> DEFINE e == (Tree[d].parent = NoDoid) /\ TreeAI # NoChannel
               y == Tree[d].parent # NoDoid
    <3>3. objs[d] = StartedFrom(NewObject(NoChannel), Tree[d].parent, Tree[d].zone, TreeAI, e, Owners[d], y, Lies(d))
      BY <1>3, <1>8
    <3>4. e \in BOOLEAN /\ y \in BOOLEAN
      OBVIOUS
    <3> HIDE DEF e, y
    <3>5. QED
      BY <1>4, <3>1, <3>2, <3>3, <3>4, StartFields
  <2>2. Place(objs[d].parent, objs[d].zone)
    BY <1>1, <1>2, <1>5, <1>8, NullIsNoDoid DEF Place
  <2>3. objs[d].ai \in KnownAI(scenario)
    BY <1>2, <1>5, <1>8 DEF KnownAI, NoAIs, TreeAI
  <2>4. QED
    BY <2>1, <2>2, <2>3 DEF Fine
<1>9. m_root_object \in Doid \cup {NoDoid}
  <2>1. CASE DOMAIN Tree = {}
    BY <2>1 DEF Init
  <2>2. CASE DOMAIN Tree # {}
    <3>1. \E d \in DOMAIN Tree : Tree[d].parent = NoDoid
      BY <1>1, <2>2, StateServerAssumption DEF Tree
    <3>2. m_root_object = CHOOSE d \in DOMAIN Tree : Tree[d].parent = NoDoid
      BY <2>2 DEF Init
    <3>3. m_root_object \in DOMAIN Tree
      BY <3>1, <3>2
    <3>4. QED
      BY <1>2, <3>3
  <2>3. QED
    BY <2>1, <2>2
<1>10. view \in [Listeners -> SUBSET Doid]
  <2> DEFINE W(c) == {d \in DOMAIN Tree : c = LocationChannel(Tree[d].parent, Tree[d].zone)
                                           \/ c \in Roles({TreeAI, Owners[d]})}
  <2>1. view = [c \in Listeners |-> W(c)]
    BY DEF Init
  <2>2. \A c : W(c) \subseteq Doid
    BY <1>2
  <2>3. QED
    BY <2>1, <2>2
<1>11. ObjectsInv
  BY <1>1, <1>2, <1>8, <1>9, <1>10 DEF ObjectsInv
<1>12. QED
  BY <1>1, <1>5, <1>7, <1>11

LEMMA InitEv ==
  ASSUME Init
  PROVE  /\ \A k \in Key : k \in Ev <=> k \in Held
         /\ \A p \in Doid, z \in Zone, d \in Doid :
              Lists(p, z, d) \in Ev <=> p \in Live /\ d \in ObjectsIn(objs[p], z)
         /\ \A c \in Listeners, d \in Doid : Sees(c, d) \in Ev <=> d \in view[c]
<1>1. net = <<>> /\ making = <<>> /\ routing.to = {}
  BY DEF Init, Idle
<1>2. \A k \in Key : k \in Ev <=> k \in Held
  BY <1>1, AfterNone DEF Ev
<1>3. \A p \in Doid, z \in Zone, d \in Doid :
        Lists(p, z, d) \in Ev <=> p \in Live /\ d \in ObjectsIn(objs[p], z)
  BY <1>1, <1>2, ListsKey, HeldIs DEF HeldFacts, ListsHeld
<1>4. ASSUME NEW c \in Listeners, NEW d \in Doid PROVE Sees(c, d) \in Ev <=> d \in view[c]
  <2>1. Sees(c, d) \in Key
    BY DEF Key
  <2>2. QED
    BY <1>2, <2>1, HeldIs DEF HeldFacts, SeesHeld
<1>5. QED
  BY <1>2, <1>3, <1>4

LEMMA InitHolds ==
  ASSUME Init
  PROVE  IInv
<1>1. ObjectsInv /\ Live = DOMAIN Tree
  BY InitObjects
<1>2. \A d \in Live : /\ objs[d].parent = Tree[d].parent /\ objs[d].zone = Tree[d].zone
                      /\ objs[d].ai = TreeAI /\ objs[d].owner = Owners[d]
  BY InitObjects
<1>3. WireInv
  <2>1. net = <<>> /\ making = <<>> /\ routing = [msg |-> [kind |-> "none"], to |-> {}]
    BY DEF Init, Idle
  <2>2. IsSeq(<<>>) /\ AllGood(scenario, <<>>)
    BY WireNone DEF Wire
  <2>3. QED
    BY <2>1, <2>2 DEF WireInv
<1>4. ASSUME NEW c \in Listeners, NEW d \in Doid
      PROVE  d \in view[c] <=> /\ d \in Live
                               /\ \/ c = LocationChannel(objs[d].parent, objs[d].zone)
                                  \/ c \in Roles({objs[d].ai, objs[d].owner})
  <2>1. view[c] = {e \in DOMAIN Tree : c = LocationChannel(Tree[e].parent, Tree[e].zone)
                                         \/ c \in Roles({TreeAI, Owners[e]})}
    BY DEF Init
  <2>2. QED
    BY <1>1, <1>2, <2>1
<1>5. PlacesInv
  <2>1. ASSUME NEW p \in Doid, NEW z \in Zone, NEW d \in Doid
        PROVE  Sees(LocationChannel(p, z), d) \in Ev <=> d \in There(p, z)
    <3>1. LocationChannel(p, z) \in Listeners /\ \A S : LocationChannel(p, z) \notin Roles(S)
      BY ListenersAre, RolesOnly
    <3>2. Sees(LocationChannel(p, z), d) \in Ev <=>
            d \in Live /\ LocationChannel(p, z) = LocationChannel(objs[d].parent, objs[d].zone)
      BY <1>4, <3>1, InitEv
    <3>3. QED
      BY <3>2, ChannelsDiffer DEF There
  <2>2. QED
    BY <2>1 DEF PlacesInv
<1>6. RolesInv
  <2>1. ASSUME NEW x \in Role, NEW d \in Doid
        PROVE  Sees(RoleChannel(x), d) \in Ev <=> HasRole(x, d)
    <3>1. RoleChannel(x) \in Listeners
      BY ListenersAre
    <3>2. \A p, z : RoleChannel(x) # LocationChannel(p, z)
      BY ChannelsDiffer
    <3>3. Sees(RoleChannel(x), d) \in Ev <=>
            d \in Live /\ RoleChannel(x) \in Roles({objs[d].ai, objs[d].owner})
      BY <1>4, <3>1, <3>2, InitEv
    <3>4. QED
      BY <3>3, RolesAre DEF HasRole
  <2>2. QED
    BY <2>1 DEF RolesInv
<1>7. ListsInv
  <2>1. ASSUME NEW p \in Doid, NEW z \in Zone, NEW d \in Doid
        PROVE  /\ Lists(p, z, d) \in Ev <=> p \in Live /\ d \in ObjectsIn(objs[p], z)
               /\ p \in Live => (d \in ObjectsIn(objs[p], z) <=> d \in There(p, z))
    BY InitEv, InitObjects
  <2>2. QED
    BY <2>1 DEF ListsInv
<1>8. QED
  BY <1>1, <1>3, <1>5, <1>6, <1>7 DEF IInv

-----------------------------------------------------------------------------
(* Requests.                                                                 *)
LEMMA RequestAllowed ==
  ASSUME NEW kind, NEW m, Request(kind, m)
  PROVE  kind \in scenario.requests
BY DEF Request, Requests

\* What requests may name.
LEMMA ScenarioIs ==
  ASSUME IInv
  PROVE  /\ DOMAIN Parents \subseteq Doid
         /\ \A d \in DOMAIN Parents : Parents[d] \subseteq Doid \cup {NoDoid}
         /\ scenario.zones \subseteq Zone /\ scenario.generators \subseteq AI \cup {NoChannel}
         /\ \A q \in Queries : q.parent \in Doid /\ q.zones \subseteq Zone
<1>1. /\ Parents \in [DOMAIN Parents -> SUBSET (Doid \cup {NoDoid})]
      /\ DOMAIN Parents \subseteq Doid
      /\ scenario.zones \subseteq Zone /\ scenario.generators \subseteq AI \cup {NoChannel}
      /\ \A q \in Queries : q.parent \in Doid /\ q.zones \subseteq Zone
  BY StateServerAssumption DEF IInv, ObjectsInv, Parents, Queries
<1>2. QED
  BY <1>1

LEMMA CreateKeeps ==
  ASSUME IInv, NEW kind, NEW m, Request(kind, m), m.kind = "create", m.to = ToServer, m.doid \in Doid,
         Place(m.parent, m.zone), m.generator \in AI \cup {NoChannel}
  PROVE  IInv'
<1>1. \A e : ObjectChannel(e) \notin m.to /\ ChildrenOf(e) \notin m.to
  BY ChannelsDiffer DEF ToServer
<1>2. Good(scenario, m)
  BY <1>1 DEF Good, Addressed, Named, Allowed, Deletions, Entries, Exits
<1>3. Adds(m) = {} /\ Removes(m) = {}
  BY NotHeard DEF Heard, Entries, Exits
<1>4. QED
  BY <1>2, <1>3, RequestKeeps

LEMMA GenerateKeeps ==
  ASSUME IInv, NEW d \in Doid, NEW p \in Doid \cup {NoDoid}, NEW z \in Zone, NEW g \in AI \cup {NoChannel},
         RequestGenerate(d, p, z, g)
  PROVE  IInv'
<1> DEFINE kind == IF p \in Live \cup {NoDoid} THEN "generate" ELSE "generate_early"
           m == [kind |-> "create", to |-> ToServer, doid |-> d, parent |-> p,
                 zone |-> IF p = NoDoid THEN NoZone ELSE z,
                 generator |-> g, truncated |-> FALSE]
<1>1. Request(kind, m)
  BY DEF RequestGenerate
<1>2. m.kind = "create" /\ m.to = ToServer /\ m.doid = d /\ Place(m.parent, m.zone) /\ m.generator = g
  BY DEF Place
<1> HIDE DEF kind, m
<1>3. QED
  BY <1>1, <1>2, CreateKeeps

LEMMA TruncatedKeeps ==
  ASSUME IInv, NEW d \in Doid, RequestTruncatedGenerate(d)
  PROVE  IInv'
<1> DEFINE m == [kind |-> "create", to |-> ToServer, doid |-> d, parent |-> NoDoid, zone |-> NoZone,
                 generator |-> NoChannel, truncated |-> TRUE]
<1>1. Request("truncated_generate", m)
  BY DEF RequestTruncatedGenerate
<1>2. /\ m.kind = "create" /\ m.to = ToServer /\ m.doid = d /\ Place(m.parent, m.zone)
      /\ m.generator = NoChannel
  BY DEF Place
<1> HIDE DEF m
<1>3. QED
  BY <1>1, <1>2, CreateKeeps

LEMMA MoveKeeps ==
  ASSUME IInv, NEW d \in Doid, NEW p \in Doid \cup {NoDoid}, NEW z \in Zone, RequestMove(d, p, z)
  PROVE  IInv'
<1>1. PICK kind, m :
        /\ Request(kind, m) /\ m.kind = "set_location" /\ Place(m.parent, m.zone)
        /\ m.parent = NoDoid => kind = "move_away"
  <2> DEFINE kind == IF p = NoDoid THEN "move_away" ELSE IF p \in Live THEN "move" ELSE "move_early"
             m == [kind |-> "set_location", to |-> To(d), parent |-> p,
                   zone |-> IF p = NoDoid THEN NoZone ELSE z]
  <2>1. Request(kind, m)
    BY DEF RequestMove
  <2>2. m.kind = "set_location" /\ Place(m.parent, m.zone) /\ (m.parent = NoDoid => kind = "move_away")
    BY DEF Place
  <2> HIDE DEF kind, m
  <2>3. QED
    BY <2>1, <2>2
<1>2. kind \in scenario.requests
  BY <1>1, RequestAllowed
<1>3. Good(scenario, m)
  BY <1>1, <1>2 DEF Good, Addressed, Named, Allowed, ToObjects, Deletions, Entries, Exits
<1>4. Adds(m) = {} /\ Removes(m) = {}
  BY <1>1, NotHeard DEF Heard, Entries, Exits
<1>5. QED
  BY <1>1, <1>3, <1>4, RequestKeeps

LEMMA RequestChangeKeeps ==
  ASSUME IInv, NEW d \in Doid,
         \/ \E a \in AI : RequestAI(d, a)
         \/ \E c \in Client \cup {NoChannel} : RequestOwner(d, c)
  PROVE  IInv'
<1>1. ASSUME NEW a \in AI, RequestAI(d, a) PROVE IInv'
  <2> DEFINE m == [kind |-> "set_ai", to |-> To(d), ai |-> a]
  <2>1. Request("set_ai", m)
    BY <1>1 DEF RequestAI
  <2>2. m.kind = "set_ai" /\ m.ai = a
    OBVIOUS
  <2> HIDE DEF m
  <2>3. a \in KnownAI(scenario)
    BY <2>1, RequestAllowed DEF KnownAI, NoAIs
  <2>4. Good(scenario, m)
    BY <2>2, <2>3 DEF Good, Addressed, Named, Allowed, ToObjects, Deletions, Entries, Exits
  <2>5. Adds(m) = {} /\ Removes(m) = {}
    BY <2>2, NotHeard DEF Heard, Entries, Exits
  <2>6. QED
    BY <2>1, <2>4, <2>5, RequestKeeps
<1>2. ASSUME NEW c \in Client \cup {NoChannel}, RequestOwner(d, c) PROVE IInv'
  <2> DEFINE m == [kind |-> "set_owner", to |-> To(d), owner |-> c, entry |-> TRUE]
  <2>1. Request("set_owner", m)
    BY <1>2 DEF RequestOwner
  <2>2. m.kind = "set_owner" /\ m.owner = c /\ m.entry
    OBVIOUS
  <2> HIDE DEF m
  <2>3. Good(scenario, m)
    BY <2>2 DEF Good, Addressed, Named, Allowed, ToObjects, Deletions, Entries, Exits
  <2>4. Adds(m) = {} /\ Removes(m) = {}
    BY <2>2, NotHeard DEF Heard, Entries, Exits
  <2>5. QED
    BY <2>1, <2>3, <2>4, RequestKeeps
<1>3. QED
  BY <1>1, <1>2

LEMMA RequestDeleteKeeps ==
  ASSUME IInv, NEW d \in Doid, RequestDelete(d)
  PROVE  IInv'
<1> DEFINE m == DeleteRam(To(d), d, FALSE)
<1>1. Request("delete", m)
  BY DEF RequestDelete
<1>2. m.kind = "delete_ram" /\ m.doid = d /\ m.to = {ObjectChannel(d)}
  BY DEF DeleteRam, To
<1> HIDE DEF m
<1>3. ~Undeleted(scenario)
  BY <1>1, RequestAllowed DEF Undeleted
<1>4. Good(scenario, m)
  BY <1>2, <1>3 DEF Good, Addressed, Named, Allowed, ToObjects, Deletions, Entries, Exits
<1>5. ASSUME NEW k \in Key PROVE k \notin Adds(m) /\ k \notin Removes(m)
  <2>1. k.at \in m.to => k.at \notin Listeners
    BY <1>2, ListenersAre
  <2>2. QED
    BY <1>2, <2>1 DEF Adds, Removes, Entries
<1>6. Adds(m) = {} /\ Removes(m) = {}
  BY <1>5 DEF Adds, Removes
<1>7. QED
  BY <1>1, <1>4, <1>6, RequestKeeps

LEMMA RequestDeleteAIKeeps ==
  ASSUME IInv, NEW a \in AI, RequestDeleteAI(a)
  PROVE  IInv'
<1> DEFINE m == DeleteAIObjects(ToServer, a)
<1>1. Request("delete_ai", m)
  BY DEF RequestDeleteAI
<1>2. m.kind = "delete_ai_objects"
  BY DEF DeleteAIObjects
<1> HIDE DEF m
<1>3. ~Undeleted(scenario)
  BY <1>1, RequestAllowed DEF Undeleted
<1>4. Good(scenario, m)
  BY <1>2, <1>3 DEF Good, Addressed, Named, Allowed, ToObjects, Deletions, Entries, Exits
<1>5. Adds(m) = {} /\ Removes(m) = {}
  BY <1>2, NotHeard DEF Heard, Entries, Exits
<1>6. QED
  BY <1>1, <1>4, <1>5, RequestKeeps

LEMMA ZonesKeeps ==
  ASSUME IInv, NEW q \in Queries, RequestZones(q)
  PROVE  IInv'
<1> DEFINE x == Len(queries) + 1
           m == GetZonesObjects(To(q.parent), q.parent, q.zones, Asker(x))
<1>1. Request("query", m)
  BY DEF RequestZones
<1>2. m.kind = "get_zones_objects" /\ m.zones = q.zones /\ m.sender = Asker(x)
  BY DEF GetZonesObjects
<1>3. q.zones \subseteq Zone
  BY ScenarioIs
<1> HIDE DEF m, x
<1>4. Good(scenario, m)
  BY <1>2, <1>3 DEF Good, Addressed, Named, Allowed, ToObjects, Deletions, Entries, Exits
<1>5. Adds(m) = {} /\ Removes(m) = {}
  BY <1>2, NotHeard DEF Heard, Entries, Exits
<1>6. QED
  BY <1>1, <1>4, <1>5, RequestKeeps

LEMMA AskKeeps ==
  ASSUME IInv, Ask
  PROVE  IInv'
<1>1. ASSUME NEW d \in DOMAIN Parents, NEW z \in scenario.zones, NEW p \in Parents[d],
             \/ \E g \in scenario.generators : RequestGenerate(d, p, z, g)
             \/ RequestMove(d, p, z)
      PROVE  IInv'
  <2>1. /\ d \in Doid /\ z \in Zone /\ p \in Doid \cup {NoDoid}
        /\ scenario.generators \subseteq AI \cup {NoChannel}
    BY <1>1, ScenarioIs
  <2>2. QED
    BY <1>1, <2>1, GenerateKeeps, MoveKeeps
<1>2. ASSUME NEW d \in DOMAIN Parents,
             \/ RequestDelete(d)
             \/ \E a \in AI : RequestAI(d, a)
             \/ \E c \in Client \cup {NoChannel} : RequestOwner(d, c)
      PROVE  IInv'
  <2>1. d \in Doid
    BY <1>2, ScenarioIs
  <2>2. QED
    BY <1>2, <2>1, RequestDeleteKeeps, RequestChangeKeeps
<1>3. ASSUME NEW d \in DOMAIN Parents, RequestTruncatedGenerate(d) PROVE IInv'
  <2>1. d \in Doid
    BY <1>3, ScenarioIs
  <2>2. QED
    BY <1>3, <2>1, TruncatedKeeps
<1>4. ASSUME NEW a \in AI, RequestDeleteAI(a) PROVE IInv'
  BY <1>4, RequestDeleteAIKeeps
<1>5. ASSUME NEW q \in Queries, RequestZones(q) PROVE IInv'
  BY <1>5, ZonesKeeps
<1>6. QED
  BY <1>1, <1>2, <1>3, <1>4, <1>5 DEF Ask

-----------------------------------------------------------------------------
(* The invariant, and what follows.                                          *)
LEMMA NextKeeps ==
  ASSUME IInv, [Next]_vars
  PROVE  IInv'
<1>1. CASE UNCHANGED vars
  <2>1. /\ scenario' = scenario /\ objs' = objs /\ m_root_object' = m_root_object /\ net' = net
        /\ making' = making /\ routing' = routing /\ view' = view
    BY <1>1 DEF vars
  <2>2. Live' = Live
    BY <2>1 DEF Live
  <2>3. Held' = Held
    BY <2>1, <2>2 DEF Held, Listed
  <2>4. \A k \in Key : k \in Ev' <=> k \in Ev
    BY <2>1, <2>3 DEF Ev
  <2>5. ObjectsInv' /\ WireInv'
    BY <2>1, <2>2 DEF IInv, ObjectsInv, WireInv
  <2>6. \A d \in Doid, p \in Doid : Waiting(d, p) => Waiting(d, p)'
    BY <2>1 DEF Waiting
  <2>7. QED
    BY <2>1, <2>4, <2>5, <2>6, StillKnown DEF IInv
<1>2. CASE Ask
  BY <1>2, AskKeeps
<1>3. CASE TakeMessage
  BY <1>3, TakeMessageKeeps
<1>4. CASE Push
  BY <1>4, PushKeeps
<1>5. CASE HandleGenerate
  BY <1>5, HandleGenerateKeeps
<1>6. CASE HandleDeleteAI
  BY <1>6, HandleDeleteAIKeeps
<1>7. CASE \E d \in Doid : HandleObject(d)
  BY <1>7, HandleObjectKeeps
<1>8. QED
  BY <1>1, <1>2, <1>3, <1>4, <1>5, <1>6, <1>7 DEF Next, Serve

(* The objects, their relations and what is under way always fit together,   *)
(* as IInv says: whoever takes a change finds what the change supposes.      *)
THEOREM WhatIsKnown == Spec => []IInv
<1>1. Init => IInv
  BY InitHolds
<1>2. IInv /\ [Next]_vars => IInv'
  BY NextKeeps
<1>3. QED
  BY <1>1, <1>2, PTL DEF Spec

LEMMA QuietEv ==
  ASSUME IInv, Quiet
  PROVE  /\ \A c \in Listeners, d \in Doid : Sees(c, d) \in Ev <=> d \in view[c]
         /\ \A p \in Doid, z \in Zone, d \in Doid :
              Lists(p, z, d) \in Ev <=> p \in Live /\ d \in ObjectsIn(objs[p], z)
         /\ \A p \in Doid : Asking(p) \notin Ev
<1>1. net = <<>> /\ making = <<>> /\ routing.to = {}
  BY DEF Quiet
<1>2. \A k \in Key : k \in Ev <=> k \in Held
  BY <1>1, AfterNone DEF Ev
<1>3. \A p \in Doid, z \in Zone, d \in Doid :
        Lists(p, z, d) \in Ev <=> p \in Live /\ d \in ObjectsIn(objs[p], z)
  BY <1>1, <1>2, ListsKey, HeldIs DEF HeldFacts, ListsHeld
<1>4. \A p \in Doid : Asking(p) \notin Ev
  BY <1>2, AskingKey, HeldIs DEF HeldFacts, AskingHeld
<1>5. ASSUME NEW c \in Listeners, NEW d \in Doid PROVE Sees(c, d) \in Ev <=> d \in view[c]
  <2>1. Sees(c, d) \in Key
    BY DEF Key
  <2>2. QED
    BY <1>2, <2>1, HeldIs DEF HeldFacts, SeesHeld
<1>6. QED
  BY <1>3, <1>4, <1>5

\* Every variable has its type: no handler makes an object of another shape, and
\* a datagram is handled only by an object that is still there.
THEOREM StateServerTypes == Spec => []TypeOK
<1>1. IInv => TypeOK
  BY DEF IInv, ObjectsInv, WireInv, Fine, TypeOK
<1>2. QED
  BY <1>1, WhatIsKnown, PTL

LEMMA PlacesFollow == IInv => PlacesKnown
<1>1. ASSUME IInv, Quiet, NEW p \in Doid, NEW z \in Zone
      PROVE  view[LocationChannel(p, z)] = There(p, z)
  <2>1. LocationChannel(p, z) \in Listeners
    BY ListenersAre
  <2>2. view[LocationChannel(p, z)] \subseteq Doid /\ There(p, z) \subseteq Doid
    BY <1>1, <2>1 DEF IInv, ObjectsInv, There
  <2>3. \A d \in Doid : d \in view[LocationChannel(p, z)] <=> d \in There(p, z)
    BY <1>1, <2>1, QuietEv DEF IInv, PlacesInv
  <2>4. QED
    BY <2>2, <2>3
<1>2. QED
  BY <1>1 DEF PlacesKnown

\* Whoever listens on a location knows, when all is routed, what is there: whatever
\* was generated, moved and deleted, in whatever order, with or without the routing thread.
THEOREM ListenersKnow == Spec => []PlacesKnown
BY PlacesFollow, WhatIsKnown, PTL

\* AIs and owners know what is theirs, as long as nothing that has an AI is moved out
\* of the world, which takes its AI from it without a word.
THEOREM RolesAreTold == Spec => []RolesKnown
<1>1. IInv => RolesKnown
  <2>1. ASSUME IInv, AIsStay(scenario), Quiet, NEW r \in Role
        PROVE  /\ view[RoleChannel(r)] \subseteq Live
               /\ \A c \in Live : objs[c].generator # r =>
                    (c \in view[RoleChannel(r)] <=> r \in {objs[c].ai, objs[c].owner})
    <3>1. RoleChannel(r) \in Listeners
      BY ListenersAre
    <3>2. view[RoleChannel(r)] \subseteq Doid /\ Live \subseteq Doid
      BY <2>1, <3>1 DEF IInv, ObjectsInv
    <3>3. \A d \in Doid : /\ d \in view[RoleChannel(r)] => HasRole(r, d)
                          /\ HasRole(r, d) /\ objs[d].generator # r => d \in view[RoleChannel(r)]
      BY <2>1, <3>1, QuietEv DEF IInv, RolesInv
    <3>4. QED
      BY <3>2, <3>3 DEF HasRole
  <2>2. QED
    BY <2>1 DEF RolesKnown
<1>2. QED
  BY <1>1, WhatIsKnown, PTL

\* Every parent lists exactly its children, and every listener knows what is there,
\* as long as nothing is deleted.
THEOREM ParentsAgree == Spec => [](Undeleted(scenario) => LocationsAgree)
<1>1. IInv => (Undeleted(scenario) => LocationsAgree)
  <2>1. ASSUME IInv, Undeleted(scenario), Quiet, NEW p \in Live, NEW z \in Zone
        PROVE  ObjectsIn(objs[p], z) = There(p, z)
    <3>1. p \in Doid /\ ObjectsIn(objs[p], z) \subseteq Doid /\ There(p, z) \subseteq Doid
      BY <2>1, FineHas DEF IInv, ObjectsInv, There
    <3>2. ASSUME NEW d \in Doid PROVE d \in ObjectsIn(objs[p], z) <=> d \in There(p, z)
      <4>1. Lists(p, z, d) \in Ev <=> d \in ObjectsIn(objs[p], z)
        BY <2>1, <3>1, QuietEv
      <4>2. ~AskedFor(d, p)
        BY <2>1, <3>1, QuietEv DEF AskedFor, Quiet
      <4>3. QED
        BY <2>1, <3>1, <4>1, <4>2 DEF IInv, ListsInv
    <3>3. QED
      BY <3>1, <3>2
  <2>2. IInv /\ Undeleted(scenario) => ChildrenListed
    BY <2>1 DEF ChildrenListed, Rested
  <2>3. QED
    BY <2>2, PlacesFollow DEF LocationsAgree
<1>2. QED
  BY <1>1, WhatIsKnown, PTL
=============================================================================
