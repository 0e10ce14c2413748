----------------------- MODULE ClientVisibility_proofs -----------------------
(***************************************************************************)
(* A client's subscriptions follow its interests, the game is told nothing *)
(* that contradicts what it was told, and no operation is used after it    *)
(* has finished.                                                           *)
(***************************************************************************)
EXTENDS ClientVisibility, NaturalsInduction, SequenceTheorems, FiniteSetTheorems, TLAPS

-----------------------------------------------------------------------------
(* Inductions.                                                               *)
LEMMA LeastElement ==
  ASSUME NEW N \in SUBSET Nat, N # {}
  PROVE  \E n \in N : \A m \in N : n <= m
<1>1. IsWellFoundedOn(OpToRel(<, Nat), Nat)
  BY NatLessThanWellFounded
<1>2. PICK n \in N : \A m \in N : ~ (<<m, n>> \in OpToRel(<, Nat))
  BY <1>1, WFMin
<1>3. \A m \in N : ~ (m < n)
  BY <1>2 DEF OpToRel
<1>4. QED
  BY <1>3

(* What holds at first and is kept by every step holds at last.              *)
LEMMA Upwards ==
  ASSUME NEW n \in Nat, NEW G, 0 \in G, \A k \in 1..n : k - 1 \in G => k \in G
  PROVE  \A k \in 0..n : k \in G
<1> SUFFICES ASSUME (0..n) \ G # {} PROVE FALSE
  OBVIOUS
<1> DEFINE N == (0..n) \ G
<1>1. PICK k \in N : \A m \in N : k <= m
  <2>1. N \in SUBSET Nat /\ N # {}
    OBVIOUS
  <2> HIDE DEF N
  <2>2. QED
    BY <2>1, LeastElement
<1>2. k \in 1..n /\ k - 1 \in 0..n /\ ~(k <= k - 1)
  BY <1>1
<1>3. QED
  BY <1>1, <1>2

LEMMA ChooseOnly ==
  ASSUME NEW y PROVE (CHOOSE z \in {y} : TRUE) = y
OBVIOUS

(* The handlings of messages one after another, step by step: of generates,  *)
(* of datagrams held back, of operations on annihilation, of what a game is  *)
(* told.  (The four differ in the handler only, which no lemma can have as a *)
(* parameter.)                                                               *)
Entering(c, s) == InTurn(HandleObjectEntrance, c, s)
Replaying(c, s) == InTurn(HandleObjectDatagram, c, s)
Finishing(c, s) == InTurn(FinishOpen, c, s)
Hearing(g, s) == InTurn(Hear, g, s)

LEMMA EntrancesInTurn ==
  ASSUME NEW c, NEW s, Len(s) \in Nat
  PROVE  \E f : /\ Entering(c, s) = f[Len(s)]
                /\ f[0] = c
                /\ \A k \in 1..Len(s) : f[k] = HandleObjectEntrance(f[k - 1], s[k])
<1> DEFINE After(f, k) == IF k = 0 THEN c
                          ELSE CHOOSE y \in {HandleObjectEntrance(x, s[k]) : x \in {f[k - 1]}} : TRUE
           Upto(f, n) == f = [k \in 0..n |-> After(f, k)]
           G == {n \in 0..Len(s) : \E f : Upto(f, n)}
<1>1. \A f : \A k \in 1..Len(s) : After(f, k) = HandleObjectEntrance(f[k - 1], s[k])
  <2> SUFFICES ASSUME NEW f, NEW k \in 1..Len(s) PROVE After(f, k) = HandleObjectEntrance(f[k - 1], s[k])
    OBVIOUS
  <2>1. {HandleObjectEntrance(x, s[k]) : x \in {f[k - 1]}} = {HandleObjectEntrance(f[k - 1], s[k])}
    OBVIOUS
  <2>2. k # 0
    OBVIOUS
  <2>3. QED
    BY <2>1, <2>2, ChooseOnly
<1>2. \A f : After(f, 0) = c
  OBVIOUS
<1>3. 0 \in G
  <2> HIDE DEF After
  <2>1. PICK f : f = [k \in 0..0 |-> c]
    OBVIOUS
  <2>2. f = [k \in 0..0 |-> After(f, k)]
    BY <1>2, <2>1
  <2>3. QED
    BY <2>2
<1>4. ASSUME NEW n \in 1..Len(s), n - 1 \in G PROVE n \in G
  <2>1. PICK f : Upto(f, n - 1)
    BY <1>4
  <2> DEFINE last == HandleObjectEntrance(f[n - 1], s[n])
  <2> HIDE DEF After, last
  <2>2. PICK g : g = [k \in 0..n |-> IF k = n THEN last ELSE f[k]]
    OBVIOUS
  <2>3. n \in Nat /\ \A k \in 0..(n - 1) : k \in 0..n /\ k # n /\ g[k] = f[k]
    BY <2>2
  <2>4. ASSUME NEW k \in 0..n PROVE g[k] = After(g, k)
    <3>1. CASE k = n
      <4>1. g[k] = last /\ g[k - 1] = f[n - 1]
        BY <2>2, <2>3, <3>1
      <4>2. QED
        BY <1>1, <3>1, <4>1 DEF last
    <3>2. CASE k # n /\ k # 0
      <4>1. k \in 1..Len(s) /\ k \in 0..(n - 1) /\ k - 1 \in 0..(n - 1)
        BY <3>2
      <4>2. f[k] = After(f, k)
        BY <2>1, <4>1
      <4>3. After(f, k) = After(g, k)
        BY <1>1, <2>3, <4>1
      <4>4. QED
        BY <2>3, <4>1, <4>2, <4>3
    <3>3. CASE k = 0
      <4>1. 0 \in 0..(n - 1)
        OBVIOUS
      <4>2. g[0] = f[0] /\ f[0] = After(f, 0)
        BY <2>1, <2>3, <4>1
      <4>3. QED
        BY <1>2, <3>3, <4>2
    <3>4. QED
      BY <3>1, <3>2, <3>3
  <2>5. g = [k \in 0..n |-> After(g, k)]
    BY <2>2, <2>4
  <2>6. QED
    BY <2>5
<1>5. \E f : Upto(f, Len(s))
  <2> HIDE DEF G
  <2>1. \A k \in 0..Len(s) : k \in G
    BY <1>3, <1>4, Upwards
  <2>2. QED
    BY <2>1 DEF G
<1>6. PICK f : f = CHOOSE x : Upto(x, Len(s))
  OBVIOUS
<1>7. Upto(f, Len(s))
  BY <1>5, <1>6
<1>8. Entering(c, s) = f[Len(s)]
  BY <1>6 DEF InTurn, Entering
<1> HIDE DEF After
<1>9. \A k \in 0..Len(s) : f[k] = After(f, k)
  BY <1>7
<1>10. QED
  BY <1>1, <1>2, <1>8, <1>9

LEMMA DatagramsInTurn ==
  ASSUME NEW c, NEW s, Len(s) \in Nat
  PROVE  \E f : /\ Replaying(c, s) = f[Len(s)]
                /\ f[0] = c
                /\ \A k \in 1..Len(s) : f[k] = HandleObjectDatagram(f[k - 1], s[k])
<1> DEFINE After(f, k) == IF k = 0 THEN c
                          ELSE CHOOSE y \in {HandleObjectDatagram(x, s[k]) : x \in {f[k - 1]}} : TRUE
           Upto(f, n) == f = [k \in 0..n |-> After(f, k)]
           G == {n \in 0..Len(s) : \E f : Upto(f, n)}
<1>1. \A f : \A k \in 1..Len(s) : After(f, k) = HandleObjectDatagram(f[k - 1], s[k])
  <2> SUFFICES ASSUME NEW f, NEW k \in 1..Len(s) PROVE After(f, k) = HandleObjectDatagram(f[k - 1], s[k])
    OBVIOUS
  <2>1. {HandleObjectDatagram(x, s[k]) : x \in {f[k - 1]}} = {HandleObjectDatagram(f[k - 1], s[k])}
    OBVIOUS
  <2>2. k # 0
    OBVIOUS
  <2>3. QED
    BY <2>1, <2>2, ChooseOnly
<1>2. \A f : After(f, 0) = c
  OBVIOUS
<1>3. 0 \in G
  <2> HIDE DEF After
  <2>1. PICK f : f = [k \in 0..0 |-> c]
    OBVIOUS
  <2>2. f = [k \in 0..0 |-> After(f, k)]
    BY <1>2, <2>1
  <2>3. QED
    BY <2>2
<1>4. ASSUME NEW n \in 1..Len(s), n - 1 \in G PROVE n \in G
  <2>1. PICK f : Upto(f, n - 1)
    BY <1>4
  <2> DEFINE last == HandleObjectDatagram(f[n - 1], s[n])
  <2> HIDE DEF After, last
  <2>2. PICK g : g = [k \in 0..n |-> IF k = n THEN last ELSE f[k]]
    OBVIOUS
  <2>3. n \in Nat /\ \A k \in 0..(n - 1) : k \in 0..n /\ k # n /\ g[k] = f[k]
    BY <2>2
  <2>4. ASSUME NEW k \in 0..n PROVE g[k] = After(g, k)
    <3>1. CASE k = n
      <4>1. g[k] = last /\ g[k - 1] = f[n - 1]
        BY <2>2, <2>3, <3>1
      <4>2. QED
        BY <1>1, <3>1, <4>1 DEF last
    <3>2. CASE k # n /\ k # 0
      <4>1. k \in 1..Len(s) /\ k \in 0..(n - 1) /\ k - 1 \in 0..(n - 1)
        BY <3>2
      <4>2. f[k] = After(f, k)
        BY <2>1, <4>1
      <4>3. After(f, k) = After(g, k)
        BY <1>1, <2>3, <4>1
      <4>4. QED
        BY <2>3, <4>1, <4>2, <4>3
    <3>3. CASE k = 0
      <4>1. 0 \in 0..(n - 1)
        OBVIOUS
      <4>2. g[0] = f[0] /\ f[0] = After(f, 0)
        BY <2>1, <2>3, <4>1
      <4>3. QED
        BY <1>2, <3>3, <4>2
    <3>4. QED
      BY <3>1, <3>2, <3>3
  <2>5. g = [k \in 0..n |-> After(g, k)]
    BY <2>2, <2>4
  <2>6. QED
    BY <2>5
<1>5. \E f : Upto(f, Len(s))
  <2> HIDE DEF G
  <2>1. \A k \in 0..Len(s) : k \in G
    BY <1>3, <1>4, Upwards
  <2>2. QED
    BY <2>1 DEF G
<1>6. PICK f : f = CHOOSE x : Upto(x, Len(s))
  OBVIOUS
<1>7. Upto(f, Len(s))
  BY <1>5, <1>6
<1>8. Replaying(c, s) = f[Len(s)]
  BY <1>6 DEF InTurn, Replaying
<1> HIDE DEF After
<1>9. \A k \in 0..Len(s) : f[k] = After(f, k)
  BY <1>7
<1>10. QED
  BY <1>1, <1>2, <1>8, <1>9

LEMMA FinishesInTurn ==
  ASSUME NEW c, NEW s, Len(s) \in Nat
  PROVE  \E f : /\ Finishing(c, s) = f[Len(s)]
                /\ f[0] = c
                /\ \A k \in 1..Len(s) : f[k] = FinishOpen(f[k - 1], s[k])
<1> DEFINE After(f, k) == IF k = 0 THEN c
                          ELSE CHOOSE y \in {FinishOpen(x, s[k]) : x \in {f[k - 1]}} : TRUE
           Upto(f, n) == f = [k \in 0..n |-> After(f, k)]
           G == {n \in 0..Len(s) : \E f : Upto(f, n)}
<1>1. \A f : \A k \in 1..Len(s) : After(f, k) = FinishOpen(f[k - 1], s[k])
  <2> SUFFICES ASSUME NEW f, NEW k \in 1..Len(s) PROVE After(f, k) = FinishOpen(f[k - 1], s[k])
    OBVIOUS
  <2>1. {FinishOpen(x, s[k]) : x \in {f[k - 1]}} = {FinishOpen(f[k - 1], s[k])}
    OBVIOUS
  <2>2. k # 0
    OBVIOUS
  <2>3. QED
    BY <2>1, <2>2, ChooseOnly
<1>2. \A f : After(f, 0) = c
  OBVIOUS
<1>3. 0 \in G
  <2> HIDE DEF After
  <2>1. PICK f : f = [k \in 0..0 |-> c]
    OBVIOUS
  <2>2. f = [k \in 0..0 |-> After(f, k)]
    BY <1>2, <2>1
  <2>3. QED
    BY <2>2
<1>4. ASSUME NEW n \in 1..Len(s), n - 1 \in G PROVE n \in G
  <2>1. PICK f : Upto(f, n - 1)
    BY <1>4
  <2> DEFINE last == FinishOpen(f[n - 1], s[n])
  <2> HIDE DEF After, last
  <2>2. PICK g : g = [k \in 0..n |-> IF k = n THEN last ELSE f[k]]
    OBVIOUS
  <2>3. n \in Nat /\ \A k \in 0..(n - 1) : k \in 0..n /\ k # n /\ g[k] = f[k]
    BY <2>2
  <2>4. ASSUME NEW k \in 0..n PROVE g[k] = After(g, k)
    <3>1. CASE k = n
      <4>1. g[k] = last /\ g[k - 1] = f[n - 1]
        BY <2>2, <2>3, <3>1
      <4>2. QED
        BY <1>1, <3>1, <4>1 DEF last
    <3>2. CASE k # n /\ k # 0
      <4>1. k \in 1..Len(s) /\ k \in 0..(n - 1) /\ k - 1 \in 0..(n - 1)
        BY <3>2
      <4>2. f[k] = After(f, k)
        BY <2>1, <4>1
      <4>3. After(f, k) = After(g, k)
        BY <1>1, <2>3, <4>1
      <4>4. QED
        BY <2>3, <4>1, <4>2, <4>3
    <3>3. CASE k = 0
      <4>1. 0 \in 0..(n - 1)
        OBVIOUS
      <4>2. g[0] = f[0] /\ f[0] = After(f, 0)
        BY <2>1, <2>3, <4>1
      <4>3. QED
        BY <1>2, <3>3, <4>2
    <3>4. QED
      BY <3>1, <3>2, <3>3
  <2>5. g = [k \in 0..n |-> After(g, k)]
    BY <2>2, <2>4
  <2>6. QED
    BY <2>5
<1>5. \E f : Upto(f, Len(s))
  <2> HIDE DEF G
  <2>1. \A k \in 0..Len(s) : k \in G
    BY <1>3, <1>4, Upwards
  <2>2. QED
    BY <2>1 DEF G
<1>6. PICK f : f = CHOOSE x : Upto(x, Len(s))
  OBVIOUS
<1>7. Upto(f, Len(s))
  BY <1>5, <1>6
<1>8. Finishing(c, s) = f[Len(s)]
  BY <1>6 DEF InTurn, Finishing
<1> HIDE DEF After
<1>9. \A k \in 0..Len(s) : f[k] = After(f, k)
  BY <1>7
<1>10. QED
  BY <1>1, <1>2, <1>8, <1>9

LEMMA HearingsInTurn ==
  ASSUME NEW c, NEW s, Len(s) \in Nat
  PROVE  \E f : /\ Hearing(c, s) = f[Len(s)]
                /\ f[0] = c
                /\ \A k \in 1..Len(s) : f[k] = Hear(f[k - 1], s[k])
<1> DEFINE After(f, k) == IF k = 0 THEN c
                          ELSE CHOOSE y \in {Hear(x, s[k]) : x \in {f[k - 1]}} : TRUE
           Upto(f, n) == f = [k \in 0..n |-> After(f, k)]
           G == {n \in 0..Len(s) : \E f : Upto(f, n)}
<1>1. \A f : \A k \in 1..Len(s) : After(f, k) = Hear(f[k - 1], s[k])
  <2> SUFFICES ASSUME NEW f, NEW k \in 1..Len(s) PROVE After(f, k) = Hear(f[k - 1], s[k])
    OBVIOUS
  <2>1. {Hear(x, s[k]) : x \in {f[k - 1]}} = {Hear(f[k - 1], s[k])}
    OBVIOUS
  <2>2. k # 0
    OBVIOUS
  <2>3. QED
    BY <2>1, <2>2, ChooseOnly
<1>2. \A f : After(f, 0) = c
  OBVIOUS
<1>3. 0 \in G
  <2> HIDE DEF After
  <2>1. PICK f : f = [k \in 0..0 |-> c]
    OBVIOUS
  <2>2. f = [k \in 0..0 |-> After(f, k)]
    BY <1>2, <2>1
  <2>3. QED
    BY <2>2
<1>4. ASSUME NEW n \in 1..Len(s), n - 1 \in G PROVE n \in G
  <2>1. PICK f : Upto(f, n - 1)
    BY <1>4
  <2> DEFINE last == Hear(f[n - 1], s[n])
  <2> HIDE DEF After, last
  <2>2. PICK g : g = [k \in 0..n |-> IF k = n THEN last ELSE f[k]]
    OBVIOUS
  <2>3. n \in Nat /\ \A k \in 0..(n - 1) : k \in 0..n /\ k # n /\ g[k] = f[k]
    BY <2>2
  <2>4. ASSUME NEW k \in 0..n PROVE g[k] = After(g, k)
    <3>1. CASE k = n
      <4>1. g[k] = last /\ g[k - 1] = f[n - 1]
        BY <2>2, <2>3, <3>1
      <4>2. QED
        BY <1>1, <3>1, <4>1 DEF last
    <3>2. CASE k # n /\ k # 0
      <4>1. k \in 1..Len(s) /\ k \in 0..(n - 1) /\ k - 1 \in 0..(n - 1)
        BY <3>2
      <4>2. f[k] = After(f, k)
        BY <2>1, <4>1
      <4>3. After(f, k) = After(g, k)
        BY <1>1, <2>3, <4>1
      <4>4. QED
        BY <2>3, <4>1, <4>2, <4>3
    <3>3. CASE k = 0
      <4>1. 0 \in 0..(n - 1)
        OBVIOUS
      <4>2. g[0] = f[0] /\ f[0] = After(f, 0)
        BY <2>1, <2>3, <4>1
      <4>3. QED
        BY <1>2, <3>3, <4>2
    <3>4. QED
      BY <3>1, <3>2, <3>3
  <2>5. g = [k \in 0..n |-> After(g, k)]
    BY <2>2, <2>4
  <2>6. QED
    BY <2>5
<1>5. \E f : Upto(f, Len(s))
  <2> HIDE DEF G
  <2>1. \A k \in 0..Len(s) : k \in G
    BY <1>3, <1>4, Upwards
  <2>2. QED
    BY <2>1 DEF G
<1>6. PICK f : f = CHOOSE x : Upto(x, Len(s))
  OBVIOUS
<1>7. Upto(f, Len(s))
  BY <1>5, <1>6
<1>8. Hearing(c, s) = f[Len(s)]
  BY <1>6 DEF InTurn, Hearing
<1> HIDE DEF After
<1>9. \A k \in 0..Len(s) : f[k] = After(f, k)
  BY <1>7
<1>10. QED
  BY <1>1, <1>2, <1>8, <1>9

-----------------------------------------------------------------------------
(* What a client is made of.                                                 *)
ClientFields ==
  {"m_channel", "m_allocated_channel", "m_seen_objects", "m_visible_objects",
   "m_owned_objects", "m_session_objects", "m_historical_objects", "m_pending_objects",
   "m_interests", "m_pending_interests", "m_next_context", "m_accept_messages",
   "subscribed", "terminated", "timing_out", "dangling", "told", "sent"}

OperationFields ==
  {"id", "context", "parent", "zones", "caller", "total", "generates", "queued", "timer"}

\* What an operation can hold back, and what it generates.
ObjectKinds == {"set_field", "delete_ram", "enter_location", "changing_location"}
ObjectMsg(m) ==
  /\ m.kind \in ObjectKinds
  /\ m.doid \in Doid
  /\ m.kind \in {"enter_location", "changing_location"} => m.location \in Location
EntryMsg(m) == m.doid \in Doid /\ m.location \in Location

IsSequence(q) == \E S : q \in Seq(S)
HeldBack(q) == \E S : q \in Seq(S) /\ \A m \in S : ObjectMsg(m)
Entries(q) == \E S : q \in Seq(S) /\ \A m \in S : EntryMsg(m)

IsOperation(op) == DOMAIN op = OperationFields /\ HeldBack(op.queued) /\ Entries(op.generates)

Sound(c) ==
  /\ DOMAIN c = ClientFields
  /\ c.m_seen_objects = DOMAIN c.m_visible_objects
  /\ c.m_seen_objects \subseteq Doid
  /\ IsFiniteSet(c.m_seen_objects)
  /\ \A d \in c.m_seen_objects : c.m_visible_objects[d] \in Location
  /\ c.m_next_context \in Nat \ {0}
  /\ \A k \in DOMAIN c.m_pending_interests :
       k \in 1..(c.m_next_context - 1) /\ IsOperation(c.m_pending_interests[k])
  /\ IsSequence(c.told)

\* What no datagram about an object changes.
SameInterests(c, e) ==
  /\ e.m_interests = c.m_interests /\ e.subscribed = c.subscribed
  /\ e.m_channel = c.m_channel /\ e.m_allocated_channel = c.m_allocated_channel
  /\ e.m_next_context = c.m_next_context /\ e.terminated = c.terminated

LEMMA HeldBackMore ==
  ASSUME NEW q, HeldBack(q), NEW m, ObjectMsg(m)
  PROVE  /\ HeldBack(Append(q, m))
         /\ Len(q) \in Nat /\ Len(Append(q, m)) = Len(q) + 1
         /\ Append(q, m)[Len(q) + 1] = m
         /\ \A j \in 1..Len(q) : Append(q, m)[j] = q[j]
<1>1. PICK S : q \in Seq(S) /\ \A x \in S : ObjectMsg(x)
  BY DEF HeldBack
<1>2. q \in Seq(S \cup {m}) /\ \A x \in S \cup {m} : ObjectMsg(x)
  BY <1>1, SeqMonotonic
<1>3. Append(q, m) \in Seq(S \cup {m})
  BY <1>2
<1>4. QED
  BY <1>2, <1>3 DEF HeldBack

LEMMA EntriesMore ==
  ASSUME NEW q, Entries(q), NEW m, EntryMsg(m)
  PROVE  /\ Entries(Append(q, m))
         /\ Len(q) \in Nat /\ Len(Append(q, m)) = Len(q) + 1
         /\ Append(q, m)[Len(q) + 1] = m
         /\ \A j \in 1..Len(q) : Append(q, m)[j] = q[j]
<1>1. PICK S : q \in Seq(S) /\ \A x \in S : EntryMsg(x)
  BY DEF Entries
<1>2. q \in Seq(S \cup {m}) /\ \A x \in S \cup {m} : EntryMsg(x)
  BY <1>1, SeqMonotonic
<1>3. Append(q, m) \in Seq(S \cup {m})
  BY <1>2
<1>4. QED
  BY <1>2, <1>3 DEF Entries

LEMMA SequenceMore ==
  ASSUME NEW q, IsSequence(q), NEW m
  PROVE  /\ IsSequence(Append(q, m))
         /\ Len(q) \in Nat /\ Len(Append(q, m)) = Len(q) + 1
         /\ Append(q, m)[Len(q) + 1] = m
         /\ \A j \in 1..Len(q) : Append(q, m)[j] = q[j]
<1>1. PICK S : q \in Seq(S)
  BY DEF IsSequence
<1>2. q \in Seq(S \cup {m})
  BY <1>1, SeqMonotonic
<1>3. Append(q, m) \in Seq(S \cup {m})
  BY <1>2
<1>4. QED
  BY <1>2, <1>3 DEF IsSequence

LEMMA TellingSound ==
  ASSUME NEW c, Sound(c), NEW m
  PROVE  /\ Sound(Tell(c, m)) /\ SameInterests(c, Tell(c, m))
         /\ Tell(c, m).told = Append(c.told, m)
BY SequenceMore DEF Sound, Tell, SameInterests, ClientFields

LEMMA EntranceSound ==
  ASSUME NEW c, Sound(c), NEW m, EntryMsg(m)
  PROVE  Sound(HandleObjectEntrance(c, m)) /\ SameInterests(c, HandleObjectEntrance(c, m))
<1> DEFINE found == [c EXCEPT !.m_pending_objects = Without(@, {m.doid})]
           shown == [found EXCEPT
                   !.m_visible_objects = IF m.doid \in DOMAIN @ THEN @ ELSE With(@, m.doid, m.location),
                   !.m_seen_objects = @ \cup {m.doid}]
<1>1. Sound(found) /\ SameInterests(c, found)
  BY DEF Sound, SameInterests, ClientFields
<1>2. Sound(shown) /\ SameInterests(c, shown)
  <2>1. IsFiniteSet(c.m_seen_objects \cup {m.doid})
    BY FS_AddElement DEF Sound
  <2>2. QED
    BY <2>1 DEF Sound, SameInterests, ClientFields, EntryMsg, With
<1>3. HandleObjectEntrance(c, m) = found \/ \E x : HandleObjectEntrance(c, m) = Tell(shown, x)
  BY DEF HandleObjectEntrance
<1> HIDE DEF found, shown
<1>4. QED
  BY <1>1, <1>2, <1>3, TellingSound DEF SameInterests

-----------------------------------------------------------------------------
(* Datagrams about objects keep a client sound and its interests as they are. *)

\* The operations that look at a location.
Looking(c, loc) ==
  {k \in DOMAIN c.m_pending_interests :
     /\ c.m_pending_interests[k].parent = loc[1]
     /\ loc[2] \in c.m_pending_interests[k].zones}

LEMMA OperationLooks ==
  ASSUME NEW c, Sound(c), NEW loc
  PROVE  IF Looking(c, loc) = {} THEN OperationAt(c, loc) = 0 ELSE OperationAt(c, loc) \in Looking(c, loc)
<1> DEFINE at == Looking(c, loc)
           n == c.m_next_context
           N == {n - k : k \in at}
<1>1. n \in Nat /\ \A k \in at : k \in 1..(n - 1)
  BY DEF Sound, Looking
<1>2. at # {} => \E k \in at : \A m \in at : m <= k
  <2> SUFFICES ASSUME at # {} PROVE \E k \in at : \A m \in at : m <= k
    OBVIOUS
  <2> HIDE DEF at
  <2>1. N \in SUBSET Nat /\ N # {}
    BY <1>1
  <2>2. PICK l \in N : \A j \in N : l <= j
    <3> HIDE DEF N
    <3>1. QED
      BY <2>1, LeastElement
  <2>3. PICK k \in at : l = n - k
    BY <2>2
  <2>4. ASSUME NEW m \in at PROVE m <= k
    <3>1. n - k <= n - m
      BY <2>2, <2>3, <2>4
    <3>2. k \in Nat /\ m \in Nat /\ n \in Nat
      BY <1>1
    <3>3. QED
      BY <3>1, <3>2
  <2>5. QED
    BY <2>4
<1>3. OperationAt(c, loc) = IF at = {} THEN 0 ELSE CHOOSE k \in at : \A m \in at : m <= k
  BY DEF OperationAt, Looking
<1> HIDE DEF at
<1>4. QED
  BY <1>2, <1>3 DEF at

\* An operation holds a datagram back.
HoldBack(c, k, m) == [c EXCEPT !.m_pending_interests[k].queued = Append(@, m)]

LEMMA HoldingSound ==
  ASSUME NEW c, Sound(c), NEW k \in DOMAIN c.m_pending_interests, NEW m, ObjectMsg(m)
  PROVE  Sound(HoldBack(c, k, m)) /\ SameInterests(c, HoldBack(c, k, m))
<1> DEFINE q == c.m_pending_interests[k].queued
<1>1. IsOperation(c.m_pending_interests[k]) /\ DOMAIN c = ClientFields
  BY DEF Sound
<1>2. HeldBack(Append(q, m))
  BY <1>1, HeldBackMore DEF IsOperation
<1> DEFINE op == [c.m_pending_interests[k] EXCEPT !.queued = Append(q, m)]
           e == HoldBack(c, k, m)
<1>3. IsOperation(op)
  BY <1>1, <1>2 DEF IsOperation, OperationFields
<1>4. e.m_pending_interests = [c.m_pending_interests EXCEPT ![k] = op]
  BY <1>1 DEF HoldBack, ClientFields
<1>5. DOMAIN e = ClientFields /\ \A x \in ClientFields \ {"m_pending_interests"} : e[x] = c[x]
  BY <1>1 DEF HoldBack
<1> HIDE DEF op, e
<1>6. \A j \in DOMAIN e.m_pending_interests : 
         j \in DOMAIN c.m_pending_interests /\ IsOperation(e.m_pending_interests[j])
  BY <1>3, <1>4 DEF Sound
<1>7. SameInterests(c, e)
  BY <1>5 DEF SameInterests, ClientFields
<1>8. Sound(e)
  BY <1>5, <1>6 DEF Sound, ClientFields
<1>9. QED
  BY <1>7, <1>8 DEF e

LEMMA QueueingSound ==
  ASSUME NEW c, Sound(c), NEW m, ObjectMsg(m), NEW d
  PROVE  Sound(QueuePending(c, d, m)) /\ SameInterests(c, QueuePending(c, d, m))
<1>1. CASE c.m_pending_objects[d] \in DOMAIN c.m_pending_interests
  <2>1. QueuePending(c, d, m) = HoldBack(c, c.m_pending_objects[d], m)
    BY <1>1 DEF QueuePending, HoldBack
  <2>2. QED
    BY <1>1, <2>1, HoldingSound
<1>2. CASE c.m_pending_objects[d] \notin DOMAIN c.m_pending_interests
  BY <1>2 DEF QueuePending, Sound, SameInterests, ClientFields
<1>3. QED
  BY <1>1, <1>2

LEMMA SetFieldSound ==
  ASSUME NEW c, Sound(c), NEW m, ObjectMsg(m)
  PROVE  Sound(HandleSetField(c, m)) /\ SameInterests(c, HandleSetField(c, m))
BY QueueingSound, TellingSound DEF HandleSetField, SameInterests

LEMMA TellingAllSound ==
  ASSUME NEW c, Sound(c), NEW s, IsSequence(s)
  PROVE  /\ Sound(TellAll(c, s)) /\ SameInterests(c, TellAll(c, s))
         /\ TellAll(c, s).told = c.told \o s
<1>1. PICK S : c.told \in Seq(S)
  BY DEF Sound, IsSequence
<1>2. PICK T : s \in Seq(T)
  BY DEF IsSequence
<1>3. c.told \o s \in Seq(S \cup T)
  <2>1. c.told \in Seq(S \cup T) /\ s \in Seq(S \cup T)
    BY <1>1, <1>2, SeqMonotonic
  <2>2. QED
    BY <2>1, ConcatProperties
<1>4. QED
  BY <1>3 DEF Sound, SameInterests, TellAll, ClientFields, IsSequence

LEMMA DeleteRamSound ==
  ASSUME NEW c, Sound(c), NEW m, ObjectMsg(m)
  PROVE  Sound(HandleDeleteRam(c, m)) /\ SameInterests(c, HandleDeleteRam(c, m))
<1> DEFINE d == m.doid
           e == [c EXCEPT !.m_seen_objects = @ \ {d},
                          !.m_owned_objects = Without(@, {d}),
                          !.m_historical_objects = @ \cup {d},
                          !.m_visible_objects = Without(@, {d})]
           told == (IF d \in c.m_seen_objects THEN <<[kind |-> "disable", doid |-> d]>> ELSE <<>>)
                     \o (IF d \in DOMAIN c.m_owned_objects THEN <<[kind |-> "disable_owner", doid |-> d]>> ELSE <<>>)
           deaf == [c EXCEPT !.m_accept_messages = FALSE]
           left == [c EXCEPT !.m_session_objects = @ \ {d}]
<1>1. Sound(e) /\ SameInterests(c, e)
  <2>1. IsFiniteSet(c.m_seen_objects \ {d})
    BY FS_RemoveElement DEF Sound
  <2>2. QED
    BY <2>1 DEF Sound, SameInterests, ClientFields, Without
<1>2. IsSequence(told)
  <2> DEFINE S == {[kind |-> "disable", doid |-> d], [kind |-> "disable_owner", doid |-> d]}
           first == IF d \in c.m_seen_objects THEN <<[kind |-> "disable", doid |-> d]>> ELSE <<>>
           second == IF d \in DOMAIN c.m_owned_objects THEN <<[kind |-> "disable_owner", doid |-> d]>> ELSE <<>>
  <2>1. told \in Seq(S)
    <3>1. /\ <<>> \in Seq(S) /\ <<[kind |-> "disable", doid |-> d]>> \in Seq(S)
          /\ <<[kind |-> "disable_owner", doid |-> d]>> \in Seq(S)
      <4> DEFINE a == [kind |-> "disable", doid |-> d]
                 b == [kind |-> "disable_owner", doid |-> d]
      <4>1. a \in S /\ b \in S
        OBVIOUS
      <4> HIDE DEF a, b, S
      <4>2. <<>> \in Seq(S) /\ <<a>> \in Seq(S) /\ <<b>> \in Seq(S)
        BY <4>1
      <4>3. QED
        BY <4>2 DEF a, b
    <3>a. first \in Seq(S) /\ second \in Seq(S)
      <4> HIDE DEF S
      <4>1. QED
        BY <3>1
    <3> HIDE DEF S, first, second
    <3>2. first \o second \in Seq(S)
      BY <3>a, ConcatProperties
    <3>3. QED
      BY <3>2 DEF first, second
  <2>2. QED
    BY <2>1 DEF IsSequence
<1>3. Sound(deaf) /\ SameInterests(c, deaf)
  BY DEF Sound, SameInterests, ClientFields
<1>4. Sound(left) /\ SameInterests(c, left)
  BY DEF Sound, SameInterests, ClientFields
<1>5. \/ HandleDeleteRam(c, m) = Eject(deaf)
      \/ HandleDeleteRam(c, m) = QueuePending(c, d, m)
      \/ HandleDeleteRam(c, m) = c
      \/ HandleDeleteRam(c, m) = Eject(left)
      \/ HandleDeleteRam(c, m) = TellAll(e, told)
  BY DEF HandleDeleteRam
<1> HIDE DEF e, told, deaf, left
<1>6. SameInterests(c, c)
  BY DEF SameInterests
<1>7. QED
  BY <1>1, <1>2, <1>3, <1>4, <1>5, <1>6, QueueingSound, TellingSound, TellingAllSound DEF Eject, SameInterests

LEMMA EmplacingSound ==
  ASSUME NEW c, Sound(c), NEW d, NEW k
  PROVE  /\ Sound(EmplacePending(c, d, k)) /\ SameInterests(c, EmplacePending(c, d, k))
         /\ EmplacePending(c, d, k).m_pending_interests = c.m_pending_interests
BY DEF EmplacePending, Sound, SameInterests, ClientFields

LEMMA EnterLocationSound ==
  ASSUME NEW c, Sound(c), NEW m, ObjectMsg(m), m.kind = "enter_location"
  PROVE  Sound(HandleEnterLocation(c, m)) /\ SameInterests(c, HandleEnterLocation(c, m))
<1> DEFINE k == OperationAt(c, m.location)
           e == EmplacePending(c, m.doid, k)
<1>1. EntryMsg(m)
  BY DEF ObjectMsg, EntryMsg
<1>2. Sound(e) /\ SameInterests(c, e) /\ e.m_pending_interests = c.m_pending_interests
  BY EmplacingSound
<1>3. k = 0 \/ k \in DOMAIN c.m_pending_interests
  BY OperationLooks DEF Looking
<1>4. HandleEnterLocation(c, m) = IF k = 0 THEN HandleObjectEntrance(c, m) ELSE HoldBack(e, k, m)
  BY DEF HandleEnterLocation, HoldBack
<1> HIDE DEF k, e
<1>5. QED
  BY <1>1, <1>2, <1>3, <1>4, EntranceSound, HoldingSound DEF SameInterests

LEMMA ChangingLocationSound ==
  ASSUME NEW c, Sound(c), NEW m, ObjectMsg(m), m.kind = "changing_location"
  PROVE  Sound(HandleChangingLocation(c, m)) /\ SameInterests(c, HandleChangingLocation(c, m))
<1> DEFINE d == m.doid
           moved == [c EXCEPT
             !.m_visible_objects = IF d \in DOMAIN c.m_visible_objects THEN [@ EXCEPT ![d] = m.location] ELSE @,
             !.m_owned_objects = IF d \in DOMAIN c.m_owned_objects THEN [@ EXCEPT ![d] = m.location] ELSE @]
           gone == [moved EXCEPT !.m_seen_objects = @ \ {d},
                                 !.m_historical_objects = @ \cup {d},
                                 !.m_visible_objects = Without(@, {d})]
<1>1. Sound(moved) /\ SameInterests(c, moved)
  BY DEF Sound, SameInterests, ClientFields, ObjectMsg
<1>2. Sound(gone) /\ SameInterests(c, gone)
  <2> HIDE DEF moved
  <2>1. IsFiniteSet(moved.m_seen_objects \ {d})
    BY <1>1, FS_RemoveElement DEF Sound
  <2>2. QED
    BY <1>1, <2>1 DEF Sound, SameInterests, ClientFields, Without
<1>3. \/ HandleChangingLocation(c, m) = QueuePending(c, d, m)
      \/ HandleChangingLocation(c, m) = c
      \/ \E x : HandleChangingLocation(c, m) \in {Tell(moved, x), Tell(gone, x)}
  BY DEF HandleChangingLocation, Eject
<1>4. SameInterests(c, c)
  BY DEF SameInterests
<1> HIDE DEF moved, gone
<1>5. QED
  BY <1>1, <1>2, <1>3, <1>4, QueueingSound, TellingSound DEF SameInterests

LEMMA ObjectDatagramSound ==
  ASSUME NEW c, Sound(c), NEW m, ObjectMsg(m)
  PROVE  Sound(HandleObjectDatagram(c, m)) /\ SameInterests(c, HandleObjectDatagram(c, m))
<1>1. SameInterests(c, c)
  BY DEF SameInterests
<1>2. \/ HandleObjectDatagram(c, m) = c
      \/ HandleObjectDatagram(c, m) = HandleSetField(c, m)
      \/ HandleObjectDatagram(c, m) = HandleDeleteRam(c, m)
      \/ m.kind = "enter_location" /\ HandleObjectDatagram(c, m) = HandleEnterLocation(c, m)
      \/ m.kind = "changing_location" /\ HandleObjectDatagram(c, m) = HandleChangingLocation(c, m)
  BY DEF HandleObjectDatagram, ObjectMsg, ObjectKinds
<1>3. QED
  BY <1>1, <1>2, SetFieldSound, DeleteRamSound, EnterLocationSound, ChangingLocationSound

-----------------------------------------------------------------------------
(* So does the end of an operation, with all it had to say.                  *)
LEMMA EntrancesSound ==
  ASSUME NEW c, Sound(c), NEW s, Entries(s)
  PROVE  LET e == Entering(c, s) IN Sound(e) /\ SameInterests(c, e)
<1>1. Len(s) \in Nat /\ \A k \in 1..Len(s) : EntryMsg(s[k])
  BY ElementOfSeq, LenProperties DEF Entries
<1>2. PICK f : /\ Entering(c, s) = f[Len(s)]
               /\ f[0] = c
               /\ \A k \in 1..Len(s) : f[k] = HandleObjectEntrance(f[k - 1], s[k])
  BY <1>1, EntrancesInTurn
<1> DEFINE G == {k \in 0..Len(s) : Sound(f[k]) /\ SameInterests(c, f[k])}
<1>3. 0 \in G
  BY <1>1, <1>2 DEF SameInterests
<1>4. ASSUME NEW k \in 1..Len(s), k - 1 \in G PROVE k \in G
  <2>1. Sound(f[k]) /\ SameInterests(f[k - 1], f[k])
    BY <1>1, <1>2, <1>4, EntranceSound
  <2>2. QED
    BY <1>1, <1>4, <2>1 DEF SameInterests
<1> HIDE DEF G
<1>5. Len(s) \in G
  <2>1. \A k \in 0..Len(s) : k \in G
    BY <1>1, <1>3, <1>4, Upwards
  <2>2. QED
    BY <2>1
<1>6. QED
  BY <1>2, <1>5 DEF G

LEMMA DatagramsSound ==
  ASSUME NEW c, Sound(c), NEW s, HeldBack(s)
  PROVE  LET e == Replaying(c, s) IN Sound(e) /\ SameInterests(c, e)
<1>1. Len(s) \in Nat /\ \A k \in 1..Len(s) : ObjectMsg(s[k])
  BY ElementOfSeq, LenProperties DEF HeldBack
<1>2. PICK f : /\ Replaying(c, s) = f[Len(s)]
               /\ f[0] = c
               /\ \A k \in 1..Len(s) : f[k] = HandleObjectDatagram(f[k - 1], s[k])
  BY <1>1, DatagramsInTurn
<1> DEFINE G == {k \in 0..Len(s) : Sound(f[k]) /\ SameInterests(c, f[k])}
<1>3. 0 \in G
  BY <1>1, <1>2 DEF SameInterests
<1>4. ASSUME NEW k \in 1..Len(s), k - 1 \in G PROVE k \in G
  <2>1. Sound(f[k]) /\ SameInterests(f[k - 1], f[k])
    BY <1>1, <1>2, <1>4, ObjectDatagramSound
  <2>2. QED
    BY <1>1, <1>4, <2>1 DEF SameInterests
<1> HIDE DEF G
<1>5. Len(s) \in G
  <2>1. \A k \in 0..Len(s) : k \in G
    BY <1>1, <1>3, <1>4, Upwards
  <2>2. QED
    BY <2>1
<1>6. QED
  BY <1>2, <1>5 DEF G

LEMMA SendingSound ==
  ASSUME NEW c, Sound(c), NEW s
  PROVE  /\ Sound(Send(c, s)) /\ SameInterests(c, Send(c, s))
         /\ Send(c, s).m_pending_interests = c.m_pending_interests
         /\ Send(c, s).told = c.told
BY DEF Sound, SameInterests, Send, ClientFields

LEMMA DoneSound ==
  ASSUME NEW c, Sound(c), NEW id, NEW context, NEW caller
  PROVE  LET e == InterestDone(c, id, context, caller) IN Sound(e) /\ SameInterests(c, e)
<1>1. \/ InterestDone(c, id, context, caller) = c
      \/ \E x : InterestDone(c, id, context, caller) \in {Tell(c, x), Send(c, x)}
  BY DEF InterestDone, Notify
<1>2. SameInterests(c, c)
  BY DEF SameInterests
<1>3. QED
  BY <1>1, <1>2, TellingSound, SendingSound

LEMMA ClosingSound ==
  ASSUME NEW c, Sound(c), NEW k
  PROVE  LET e == [c EXCEPT !.m_pending_interests = Without(@, {k})] IN Sound(e) /\ SameInterests(c, e)
BY DEF Sound, SameInterests, Without, ClientFields

LEMMA FinishSound ==
  ASSUME NEW c, Sound(c), NEW k \in DOMAIN c.m_pending_interests, NEW late
  PROVE  Sound(Finish(c, k, late)) /\ SameInterests(c, Finish(c, k, late))
<1> DEFINE op == c.m_pending_interests[k]
           entered == Entering(c, op.generates)
           done == InterestDone(entered, op.id, op.context, op.caller)
           closed == [done EXCEPT !.m_pending_interests = Without(@, {k})]
           replayed == Replaying(closed, op.queued)
<1>1. Entries(op.generates) /\ HeldBack(op.queued)
  BY DEF Sound, IsOperation
<1>2. Finish(c, k, late) = c \/ Finish(c, k, late) = replayed
  BY DEF Finish, Entering, Replaying
<1> HIDE DEF op
<1>3. Sound(entered) /\ SameInterests(c, entered)
  BY <1>1, EntrancesSound
<1> HIDE DEF entered
<1>4. Sound(done) /\ SameInterests(entered, done)
  BY <1>3, DoneSound
<1> HIDE DEF done
<1>5. Sound(closed) /\ SameInterests(done, closed)
  BY <1>4, ClosingSound
<1> HIDE DEF closed
<1>6. Sound(replayed) /\ SameInterests(closed, replayed)
  BY <1>1, <1>5, DatagramsSound
<1> HIDE DEF replayed
<1>7. QED
  BY <1>2, <1>3, <1>4, <1>5, <1>6 DEF SameInterests

LEMMA FinishesSound ==
  ASSUME NEW c, Sound(c), NEW s, Len(s) \in Nat
  PROVE  LET e == Finishing(c, s) IN Sound(e) /\ SameInterests(c, e)
<1>1. PICK f : /\ Finishing(c, s) = f[Len(s)]
               /\ f[0] = c
               /\ \A k \in 1..Len(s) : f[k] = FinishOpen(f[k - 1], s[k])
  BY FinishesInTurn
<1> DEFINE G == {k \in 0..Len(s) : Sound(f[k]) /\ SameInterests(c, f[k])}
<1>2. 0 \in G
  BY <1>1 DEF SameInterests
<1>3. ASSUME NEW k \in 1..Len(s), k - 1 \in G PROVE k \in G
  <2>1. Sound(f[k]) /\ SameInterests(f[k - 1], f[k])
    <3>1. CASE s[k] \in DOMAIN f[k - 1].m_pending_interests
      <4>1. f[k] = Finish(f[k - 1], s[k], FALSE) /\ Sound(f[k - 1])
        BY <1>1, <1>3, <3>1 DEF FinishOpen
      <4>2. QED
        BY <3>1, <4>1, FinishSound
    <3>2. CASE s[k] \notin DOMAIN f[k - 1].m_pending_interests
      BY <1>1, <1>3, <3>2 DEF FinishOpen, SameInterests
    <3>3. QED
      BY <3>1, <3>2
  <2>2. QED
    BY <1>3, <2>1 DEF SameInterests
<1> HIDE DEF G
<1>4. Len(s) \in G
  <2>1. \A k \in 0..Len(s) : k \in G
    BY <1>2, <1>3, Upwards
  <2>2. QED
    BY <2>1
<1>5. QED
  BY <1>1, <1>4 DEF G

-----------------------------------------------------------------------------
(* What answers an operation.                                                *)
LEMMA FinishIfReadySound ==
  ASSUME NEW c, Sound(c), NEW k \in DOMAIN c.m_pending_interests
  PROVE  Sound(FinishIfReady(c, k)) /\ SameInterests(c, FinishIfReady(c, k))
BY FinishSound DEF FinishIfReady, SameInterests

\* An operation is changed otherwise than by holding something back.
Alter(c, k, op) == [c EXCEPT !.m_pending_interests = [@ EXCEPT ![k] = op]]

LEMMA AlteringSound ==
  ASSUME NEW c, Sound(c), NEW k \in DOMAIN c.m_pending_interests, NEW op, IsOperation(op)
  PROVE  /\ Sound(Alter(c, k, op)) /\ SameInterests(c, Alter(c, k, op))
         /\ DOMAIN Alter(c, k, op).m_pending_interests = DOMAIN c.m_pending_interests
<1> DEFINE e == Alter(c, k, op)
<1>1. /\ DOMAIN e = ClientFields /\ \A x \in ClientFields \ {"m_pending_interests"} : e[x] = c[x]
      /\ e.m_pending_interests = [c.m_pending_interests EXCEPT ![k] = op]
  BY DEF Alter, Sound, ClientFields
<1> HIDE DEF e
<1>2. \A j \in DOMAIN e.m_pending_interests : 
         j \in DOMAIN c.m_pending_interests /\ IsOperation(e.m_pending_interests[j])
  BY <1>1 DEF Sound
<1>3. SameInterests(c, e)
  BY <1>1 DEF SameInterests, ClientFields
<1>4. Sound(e)
  BY <1>1, <1>2 DEF Sound, ClientFields
<1>5. QED
  BY <1>1, <1>3, <1>4 DEF e

LEMMA EnterInterestSound ==
  ASSUME NEW c, Sound(c), NEW m, EntryMsg(m)
  PROVE  Sound(HandleEnterInterest(c, m)) /\ SameInterests(c, HandleEnterInterest(c, m))
<1>1. CASE m.context \notin DOMAIN c.m_pending_interests
  BY <1>1 DEF HandleEnterInterest, SameInterests
<1>2. CASE m.context \in DOMAIN c.m_pending_interests
  <2> DEFINE k == m.context
             e == EmplacePending(c, m.doid, k)
             op == [c.m_pending_interests[k] EXCEPT !.generates = Append(@, m)]
  <2>1. IsOperation(op)
    BY <1>2, EntriesMore DEF Sound, IsOperation, OperationFields
  <2>2. Sound(e) /\ SameInterests(c, e) /\ e.m_pending_interests = c.m_pending_interests
    BY EmplacingSound
  <2>3. HandleEnterInterest(c, m) = FinishIfReady([e EXCEPT !.m_pending_interests[k].generates = Append(@, m)], k)
    BY <1>2 DEF HandleEnterInterest
  <2> HIDE DEF e
  <2>4. [e EXCEPT !.m_pending_interests[k].generates = Append(@, m)] = Alter(e, k, op)
    BY <2>2 DEF Alter, Sound, ClientFields
  <2> HIDE DEF op
  <2>5. QED
    BY <1>2, <2>1, <2>2, <2>3, <2>4, AlteringSound, FinishIfReadySound DEF SameInterests
<1>3. QED
  BY <1>1, <1>2

LEMMA ZonesCountSound ==
  ASSUME NEW c, Sound(c), NEW m
  PROVE  Sound(HandleZonesCount(c, m)) /\ SameInterests(c, HandleZonesCount(c, m))
<1>1. CASE m.context \notin DOMAIN c.m_pending_interests
  BY <1>1 DEF HandleZonesCount, SameInterests
<1>2. CASE m.context \in DOMAIN c.m_pending_interests
  <2> DEFINE k == m.context
             op == [c.m_pending_interests[k] EXCEPT !.total = IF @ = NoTotal THEN m.count ELSE @]
  <2>1. IsOperation(op)
    BY <1>2 DEF Sound, IsOperation, OperationFields
  <2>2. HandleZonesCount(c, m) = FinishIfReady([c EXCEPT !.m_pending_interests[k].total =
                                 IF @ = NoTotal THEN m.count ELSE @], k)
    BY <1>2 DEF HandleZonesCount
  <2>3. [c EXCEPT !.m_pending_interests[k].total = IF @ = NoTotal THEN m.count ELSE @] = Alter(c, k, op)
    BY DEF Alter, Sound, ClientFields
  <2> HIDE DEF op
  <2>4. QED
    BY <1>2, <2>1, <2>2, <2>3, AlteringSound, FinishIfReadySound DEF SameInterests
<1>3. QED
  BY <1>1, <1>2

-----------------------------------------------------------------------------
(* Interests.  A client listens where its interests look and nowhere else.   *)
IsInterest(i) ==
  i \in [parent : Parent \cup {0}, zones : SUBSET Zone] /\ (i.zones # {} => i.parent \in Parent)
LooksAt(i, loc) == loc[1] = i.parent /\ loc[2] \in i.zones

Interested(c) ==
  /\ IsFiniteSet(DOMAIN c.m_interests)
  /\ \A i \in DOMAIN c.m_interests : IsInterest(c.m_interests[i])
  /\ c.m_channel \notin Location /\ c.m_allocated_channel \notin Location
  /\ \A loc \in Location :
       loc \in c.subscribed <=> \E i \in DOMAIN c.m_interests : LooksAt(c.m_interests[i], loc)

LEMMA SameIsInterested ==
  ASSUME NEW c, NEW e, SameInterests(c, e), Interested(c)
  PROVE  Interested(e)
BY DEF SameInterests, Interested

LEMMA LookupLooks ==
  ASSUME NEW c, NEW p, NEW z, NEW i
  PROVE  i \in LookupInterests(c, p, z)
           <=> i \in DOMAIN c.m_interests /\ LooksAt(c.m_interests[i], <<p, z>>)
BY DEF LookupInterests, LooksAt

\* Somebody else looks there as well, or not.
LEMMA LookupAlone ==
  ASSUME NEW c, Interested(c), NEW p, NEW z, NEW i \in LookupInterests(c, p, z)
  PROVE  /\ Cardinality(LookupInterests(c, p, z)) <= 1 <=> LookupInterests(c, p, z) = {i}
         /\ Cardinality(LookupInterests(c, p, z)) = 1 <=> LookupInterests(c, p, z) = {i}
<1> DEFINE L == LookupInterests(c, p, z)
<1>1. IsFiniteSet(L)
  <2>1. L \subseteq DOMAIN c.m_interests
    BY DEF LookupInterests
  <2>2. QED
    BY <2>1, FS_Subset DEF Interested
<1> HIDE DEF L
<1>2. Cardinality(L) \in Nat /\ Cardinality(L) # 0
  BY <1>1, FS_CardinalityType, FS_EmptySet DEF L
<1>3. Cardinality(L) = 1 <=> \E x : L = {x}
  BY <1>1, FS_Singleton
<1>4. Cardinality(L) = 1 <=> L = {i}
  BY <1>3 DEF L
<1>5. Cardinality(L) <= 1 <=> Cardinality(L) = 1
  BY <1>2
<1>6. QED
  BY <1>4, <1>5 DEF L

LEMMA SetToSeqOnce ==
  ASSUME NEW S, IsFiniteSet(S)
  PROVE  /\ SetToSeq(S) \in Seq(S)
         /\ Len(SetToSeq(S)) \in Nat
         /\ \A x \in S : \E k \in 1..Len(SetToSeq(S)) : SetToSeq(S)[k] = x
         /\ \A j, k \in 1..Len(SetToSeq(S)) : SetToSeq(S)[j] = SetToSeq(S)[k] => j = k
<1>1. Cardinality(S) \in Nat /\ ExistsBijection(1..Cardinality(S), S)
  BY FS_CardinalityType
<1>2. \E f \in [1..Cardinality(S) -> S] : IsInjective(f)
  BY <1>1 DEF ExistsBijection, Bijection, Injection
<1> DEFINE f == SetToSeq(S)
<1>3. f \in [1..Cardinality(S) -> S] /\ IsInjective(f)
  BY <1>2 DEF SetToSeq
<1> HIDE DEF f
<1>4. f \in Seq(S) /\ Len(f) = Cardinality(S) /\ DOMAIN f = 1..Cardinality(S)
  BY <1>1, <1>3
<1>5. \A j, k \in 1..Len(f) : f[j] = f[k] => j = k
  BY <1>3, <1>4 DEF IsInjective
<1>6. \A x \in S : \E k \in 1..Len(f) : f[k] = x
  <2>1. f \in Injection(1..Cardinality(S), S)
    BY <1>3 DEF Injection
  <2>2. Cardinality(1..Cardinality(S)) = Cardinality(S)
    BY <1>1, FS_Interval
  <2>3. f \in Surjection(1..Cardinality(S), S)
    BY <2>1, <2>2, FS_Injection
  <2>4. QED
    BY <1>4, <2>3 DEF Surjection
<1>7. QED
  BY <1>1, <1>4, <1>5, <1>6 DEF f

\* The objects of zones, which the game is told to disable.
Within(c, p, killed) ==
  {d \in DOMAIN c.m_visible_objects : c.m_visible_objects[d][1] = p /\ c.m_visible_objects[d][2] \in killed}
Disables(S) == [k \in 1..Len(SetToSeq(S)) |-> [kind |-> "disable", doid |-> SetToSeq(S)[k]]]

LEMMA DisablesSequence ==
  ASSUME NEW S, IsFiniteSet(S)
  PROVE  /\ IsSequence(Disables(S)) /\ Len(Disables(S)) = Len(SetToSeq(S))
         /\ \A k \in 1..Len(SetToSeq(S)) : Disables(S)[k] = [kind |-> "disable", doid |-> SetToSeq(S)[k]]
<1> DEFINE n == Len(SetToSeq(S))
           msg(k) == [kind |-> "disable", doid |-> SetToSeq(S)[k]]
           T == {msg(k) : k \in 1..n}
<1>1. n \in Nat
  BY SetToSeqOnce
<1>2. \A k \in 1..n : msg(k) \in T
  OBVIOUS
<1>3. Disables(S) = [k \in 1..n |-> msg(k)]
  BY DEF Disables
<1> HIDE DEF n, msg, T
<1>4. [k \in 1..n |-> msg(k)] \in Seq(T) /\ Len([k \in 1..n |-> msg(k)]) = n
  BY <1>1, <1>2
<1>5. QED
  BY <1>3, <1>4 DEF IsSequence, n, msg

LEMMA ClosingZones ==
  ASSUME NEW c, Sound(c), NEW p, NEW killed
  PROVE  LET e == CloseZones(c, p, killed)
             gone == Within(c, p, killed)
         IN  /\ Sound(e) /\ IsFiniteSet(gone) /\ gone \subseteq c.m_seen_objects
             /\ \A x \in ClientFields \ {"m_seen_objects", "m_historical_objects", "m_visible_objects",
                                         "subscribed", "told", "sent"} : e[x] = c[x]
             /\ e.subscribed = c.subscribed \ {<<p, z>> : z \in killed}
             /\ e.m_seen_objects = c.m_seen_objects \ gone
             /\ e.m_historical_objects = c.m_historical_objects \cup gone
             /\ e.told = c.told \o Disables(gone)
<1> DEFINE gone == Within(c, p, killed)
           left == [c EXCEPT !.m_seen_objects = @ \ gone, !.m_historical_objects = @ \cup gone,
                             !.m_visible_objects = Without(@, gone)]
           told == TellAll(left, Disables(gone))
           away == {LocationChannel(p, z) : z \in killed}
           e == CloseZones(c, p, killed)
<1>1. gone \subseteq c.m_seen_objects /\ IsFiniteSet(gone)
  <2>1. gone \subseteq c.m_seen_objects
    BY DEF Within, Sound
  <2>2. QED
    BY <2>1, FS_Subset DEF Sound
<1>2. e = UnsubscribeChannels(told, away)
  BY DEF CloseZones, Within, Disables, ForEach
<1> HIDE DEF gone
<1>3. /\ Sound(left) /\ left.m_seen_objects = c.m_seen_objects \ gone
      /\ left.m_historical_objects = c.m_historical_objects \cup gone
      /\ \A x \in ClientFields \ {"m_seen_objects", "m_historical_objects", "m_visible_objects"} : left[x] = c[x]
  <2>1. IsFiniteSet(c.m_seen_objects \ gone)
    BY FS_Difference DEF Sound
  <2>2. QED
    BY <2>1 DEF Sound, ClientFields, Without
<1> HIDE DEF left
<1>4. /\ Sound(told) /\ told.told = left.told \o Disables(gone)
      /\ \A x \in ClientFields \ {"told"} : told[x] = left[x]
  <2>1. IsSequence(Disables(gone))
    BY <1>1, DisablesSequence
  <2>2. Sound(told) /\ told.told = left.told \o Disables(gone)
    BY <1>3, <2>1, TellingAllSound
  <2>3. QED
    BY <1>3, <2>2 DEF Sound, TellAll, ClientFields
<1> HIDE DEF told
<1>5. /\ Sound(e) /\ e.subscribed = told.subscribed \ away
      /\ \A x \in ClientFields \ {"subscribed", "sent"} : e[x] = told[x]
  BY <1>2, <1>4 DEF Sound, UnsubscribeChannels, Send, ClientFields
<1>6. away = {<<p, z>> : z \in killed}
  BY DEF LocationChannel
<1> HIDE DEF e, away
<1>7. QED
  BY <1>1, <1>3, <1>4, <1>5, <1>6 DEF ClientFields, e, gone

-----------------------------------------------------------------------------
(* Interests are opened and altered.                                         *)
LEMMA NewOperationSound ==
  ASSUME NEW c, Sound(c), NEW op, IsOperation(op)
  PROVE  LET k == c.m_next_context
             e == [c EXCEPT !.m_next_context = @ + 1, !.m_pending_interests = With(@, k, op)]
         IN  /\ Sound(e)
             /\ \A x \in ClientFields \ {"m_next_context", "m_pending_interests"} : e[x] = c[x]
             /\ e.m_next_context = k + 1
             /\ e.m_pending_interests = With(c.m_pending_interests, k, op)
<1> DEFINE k == c.m_next_context
           e == [c EXCEPT !.m_next_context = @ + 1, !.m_pending_interests = With(@, k, op)]
<1>1. /\ DOMAIN e = ClientFields
      /\ \A x \in ClientFields \ {"m_next_context", "m_pending_interests"} : e[x] = c[x]
      /\ e.m_next_context = k + 1
      /\ e.m_pending_interests = With(c.m_pending_interests, k, op)
  BY DEF Sound, ClientFields
<1> HIDE DEF e
<1>2. ASSUME NEW j \in DOMAIN e.m_pending_interests
      PROVE  j \in 1..(e.m_next_context - 1) /\ IsOperation(e.m_pending_interests[j])
  <2>1. j \in DOMAIN c.m_pending_interests \/ j = k
    BY <1>1, <1>2 DEF With
  <2>2. k \in Nat /\ k # 0 /\ \A l \in DOMAIN c.m_pending_interests : l \in 1..(k - 1) /\ l # k
    BY DEF Sound
  <2>3. CASE j = k
    BY <1>1, <2>2, <2>3 DEF With
  <2>4. CASE j \in DOMAIN c.m_pending_interests
    <3>1. j \in 1..(k - 1) /\ e.m_pending_interests[j] = c.m_pending_interests[j]
      BY <1>1, <2>2, <2>4 DEF With
    <3>2. QED
      BY <1>1, <2>2, <2>4, <3>1 DEF Sound
  <2>5. QED
    BY <2>1, <2>3, <2>4
<1>3. Sound(e)
  BY <1>1, <1>2 DEF Sound, ClientFields
<1>4. QED
  BY <1>1, <1>3 DEF e

LEMMA NewIsOperation ==
  ASSUME NEW id, NEW context, NEW i, NEW zones, NEW caller, NEW timer
  PROVE  IsOperation(Operation(id, context, i, zones, caller, timer))
<1>1. <<>> \in Seq({})
  OBVIOUS
<1>2. HeldBack(<<>>) /\ Entries(<<>>)
  <2>1. (\A m \in {} : ObjectMsg(m)) /\ (\A m \in {} : EntryMsg(m))
    OBVIOUS
  <2> DEFINE none == {}
  <2>2. <<>> \in Seq(none) /\ (\A m \in none : ObjectMsg(m)) /\ (\A m \in none : EntryMsg(m))
    BY <1>1, <2>1
  <2> HIDE DEF none
  <2>3. QED
    BY <2>2 DEF HeldBack, Entries
<1>3. QED
  BY <1>2 DEF Operation, IsOperation, OperationFields

\* What remains of a client when an interest is altered.
Closed(c, id, i) ==
  IF id \in DOMAIN c.m_interests
  THEN CloseZones(c, c.m_interests[id].parent, KilledByAltering(c, id, i)) ELSE c

LEMMA AlteringCloses ==
  ASSUME NEW c, Sound(c), NEW id, NEW i
  PROVE  LET e == Closed(c, id, i)
         IN  /\ Sound(e)
             /\ \A x \in ClientFields \ {"m_seen_objects", "m_historical_objects", "m_visible_objects",
                                         "subscribed", "told", "sent"} : e[x] = c[x]
<1>1. CASE id \in DOMAIN c.m_interests
  <2>1. Closed(c, id, i) = CloseZones(c, c.m_interests[id].parent, KilledByAltering(c, id, i))
    BY <1>1 DEF Closed
  <2>2. QED
    BY <2>1, ClosingZones
<1>2. CASE id \notin DOMAIN c.m_interests
  BY <1>2 DEF Closed
<1>3. QED
  BY <1>1, <1>2

\* The client an interest leaves behind: with its operation, or done.
Noted(c, id, i) == [Closed(c, id, i) EXCEPT !.m_interests = With(@, id, i)]
NewZones(c, i) == {z \in i.zones : LookupInterests(c, i.parent, z) = {}}
Opened(c, id, i, context, caller, timer) ==
  LET e == Noted(c, id, i)
      k == e.m_next_context
  IN  [e EXCEPT !.m_next_context = @ + 1,
                !.m_pending_interests =
                  With(@, k, Operation(id, context, i, NewZones(c, i), caller, timer))]

LEMMA AddingUnfolds ==
  ASSUME NEW c, NEW id, NEW i, NEW context, NEW caller, NEW timer
  PROVE  LET e == AddInterest(c, id, i, context, caller, timer)
         IN  /\ NewZones(c, i) = {} => e = InterestDone(Noted(c, id, i), id, context, caller)
             /\ NewZones(c, i) # {} =>
                  \E s : e = Send(SubscribeChannels(Opened(c, id, i, context, caller, timer),
                                                    {LocationChannel(i.parent, z) : z \in NewZones(c, i)}), s)
BY DEF AddInterest, Noted, Closed, NewZones, Opened

LEMMA NotedSound ==
  ASSUME NEW c, Sound(c), NEW id, NEW i
  PROVE  LET e == Noted(c, id, i)
         IN  /\ Sound(e)
             /\ e.m_interests = With(c.m_interests, id, i)
             /\ \A x \in ClientFields \ {"m_interests", "m_seen_objects", "m_historical_objects",
                                         "m_visible_objects", "subscribed", "told", "sent"} : e[x] = c[x]
             /\ \A x \in ClientFields \ {"m_interests"} : e[x] = Closed(c, id, i)[x]
<1> DEFINE b == Closed(c, id, i)
           e == Noted(c, id, i)
<1>1. /\ Sound(b)
      /\ \A x \in ClientFields \ {"m_seen_objects", "m_historical_objects", "m_visible_objects",
                                  "subscribed", "told", "sent"} : b[x] = c[x]
  BY AlteringCloses
<1>2. e = [b EXCEPT !.m_interests = With(@, id, i)]
  BY DEF Noted
<1> HIDE DEF b, e
<1>3. /\ DOMAIN e = ClientFields /\ e.m_interests = With(c.m_interests, id, i)
      /\ \A x \in ClientFields \ {"m_interests"} : e[x] = b[x]
  BY <1>1, <1>2 DEF Sound, ClientFields
<1>4. Sound(e)
  BY <1>1, <1>3 DEF Sound, ClientFields
<1>5. QED
  BY <1>1, <1>3, <1>4 DEF b, e

LEMMA AddingSound ==
  ASSUME NEW c, Sound(c), NEW id, NEW i, NEW context, NEW caller, NEW timer
  PROVE  LET e == AddInterest(c, id, i, context, caller, timer)
         IN  /\ Sound(e)
             /\ e.m_interests = With(c.m_interests, id, i)
             /\ \A x \in {"m_channel", "m_allocated_channel", "terminated", "m_accept_messages"} : e[x] = c[x]
             /\ e.subscribed = Closed(c, id, i).subscribed \cup {<<i.parent, z>> : z \in NewZones(c, i)}
<1> DEFINE b == Noted(c, id, i)
           o == Opened(c, id, i, context, caller, timer)
           new == {LocationChannel(i.parent, z) : z \in NewZones(c, i)}
           e == AddInterest(c, id, i, context, caller, timer)
           op == Operation(id, context, i, NewZones(c, i), caller, timer)
<1>1. /\ Sound(b) /\ b.m_interests = With(c.m_interests, id, i)
      /\ \A x \in ClientFields \ {"m_interests", "m_seen_objects", "m_historical_objects",
                                  "m_visible_objects", "subscribed", "told", "sent"} : b[x] = c[x]
      /\ b.subscribed = Closed(c, id, i).subscribed
  <2>1. "subscribed" \in ClientFields \ {"m_interests"}
    BY DEF ClientFields
  <2>2. QED
    BY <2>1, NotedSound
<1>2. new = {<<i.parent, z>> : z \in NewZones(c, i)}
  BY DEF LocationChannel
<1>3. CASE NewZones(c, i) = {}
  <2>1. e = InterestDone(b, id, context, caller) /\ new = {}
    BY <1>3, AddingUnfolds
  <2> HIDE DEF b, new
  <2>2. InterestDone(b, id, context, caller) = b \/ \E x : InterestDone(b, id, context, caller) \in {Tell(b, x), Send(b, x)}
    BY DEF InterestDone, Notify
  <2>3. Sound(e) /\ SameInterests(b, e)
    BY <1>1, <2>1, DoneSound
  <2>4. e.m_accept_messages = b.m_accept_messages
    BY <1>1, <2>1, <2>2 DEF Tell, Send, Sound, ClientFields
  <2> HIDE DEF e
  <2>5. e.subscribed = Closed(c, id, i).subscribed
    BY <1>1, <2>3 DEF SameInterests
  <2>6. {<<i.parent, z>> : z \in NewZones(c, i)} = {}
    BY <1>3
  <2>7. /\ Sound(e) /\ e.m_interests = With(c.m_interests, id, i)
        /\ \A x \in {"m_channel", "m_allocated_channel", "terminated", "m_accept_messages"} : e[x] = c[x]
    BY <1>1, <2>3, <2>4 DEF SameInterests, ClientFields
  <2>8. QED
    BY <2>5, <2>6, <2>7 DEF e
<1>4. CASE NewZones(c, i) # {}
  <2>1. PICK s : e = Send(SubscribeChannels(o, new), s)
    BY <1>4, AddingUnfolds
  <2>2. IsOperation(op)
    BY NewIsOperation
  <2>3. o = [b EXCEPT !.m_next_context = @ + 1, !.m_pending_interests = With(@, b.m_next_context, op)]
    BY DEF Opened
  <2> HIDE DEF b, op, o
  <2>4. Sound(o) /\ \A x \in ClientFields \ {"m_next_context", "m_pending_interests"} : o[x] = b[x]
    <3> DEFINE w == [b EXCEPT !.m_next_context = @ + 1,
                              !.m_pending_interests = With(@, b.m_next_context, op)]
    <3>1. Sound(w) /\ \A x \in ClientFields \ {"m_next_context", "m_pending_interests"} : w[x] = b[x]
      <4>1. Sound(b)
        BY <1>1
      <4> HIDE DEF w
      <4>2. \A f, g : Sound(f) /\ IsOperation(g) =>
              LET h == [f EXCEPT !.m_next_context = @ + 1,
                                 !.m_pending_interests = With(@, f.m_next_context, g)]
              IN  /\ Sound(h)
                  /\ \A x \in ClientFields \ {"m_next_context", "m_pending_interests"} : h[x] = f[x]
        BY NewOperationSound
      <4>3. QED
        BY <2>2, <4>1, <4>2 DEF w
    <3>2. QED
      BY <2>3, <3>1
  <2> HIDE DEF new, e
  <2>5. Sound(e) /\ e.subscribed = o.subscribed \cup new
        /\ \A x \in ClientFields \ {"subscribed", "sent"} : e[x] = o[x]
    BY <2>1, <2>4 DEF SubscribeChannels, Send, Sound, ClientFields
  <2>6. QED
    BY <1>1, <1>2, <2>4, <2>5 DEF ClientFields, e
<1>5. QED
  BY <1>3, <1>4

\* What is closed by altering an interest.
LEMMA AlteringKills ==
  ASSUME NEW c, Sound(c), Interested(c), NEW id, NEW i, NEW loc \in Location
  PROVE  loc \in Closed(c, id, i).subscribed
           <=> /\ loc \in c.subscribed
               /\ ~(/\ id \in DOMAIN c.m_interests /\ LooksAt(c.m_interests[id], loc)
                    /\ ~LooksAt(i, loc)
                    /\ \A j \in DOMAIN c.m_interests : LooksAt(c.m_interests[j], loc) => j = id)
<1> DEFINE old == c.m_interests[id]
           p == loc[1]
           z == loc[2]
           killed == KilledByAltering(c, id, i)
<1>1. loc = <<p, z>>
  BY DEF Location
<1>2. CASE id \notin DOMAIN c.m_interests
  BY <1>2 DEF Closed
<1>3. CASE id \in DOMAIN c.m_interests
  <2>1. Closed(c, id, i).subscribed = c.subscribed \ {<<old.parent, y>> : y \in killed}
    BY <1>3, ClosingZones DEF Closed
  <2>2. <<p, z>> \in {<<old.parent, y>> : y \in killed} <=> p = old.parent /\ z \in killed
    OBVIOUS
  <2>3. z \in killed <=> /\ z \in old.zones
                         /\ Cardinality(LookupInterests(c, old.parent, z)) <= 1
                         /\ i.parent # old.parent \/ z \notin i.zones
    BY <1>3 DEF KilledByAltering
  <2> HIDE DEF killed
  <2>4. CASE LooksAt(old, loc)
    <3>1. p = old.parent /\ z \in old.zones
      BY <2>4 DEF LooksAt
    <3>2. id \in LookupInterests(c, p, z)
      BY <1>1, <1>3, <2>4, LookupLooks
    <3>3. Cardinality(LookupInterests(c, p, z)) <= 1 <=> LookupInterests(c, p, z) = {id}
      BY <3>2, LookupAlone
    <3>4. LookupInterests(c, p, z) = {id}
            <=> \A j \in DOMAIN c.m_interests : LooksAt(c.m_interests[j], loc) => j = id
      BY <1>1, <3>2, LookupLooks
    <3>5. i.parent # old.parent \/ z \notin i.zones <=> ~LooksAt(i, loc)
      BY <3>1 DEF LooksAt
    <3> HIDE DEF p, z, old
    <3>6. loc \in {<<old.parent, y>> : y \in killed}
            <=> /\ ~LooksAt(i, loc)
                /\ \A j \in DOMAIN c.m_interests : LooksAt(c.m_interests[j], loc) => j = id
      BY <1>1, <2>2, <2>3, <3>1, <3>3, <3>4, <3>5
    <3>7. QED
      BY <1>3, <2>1, <2>4, <3>6 DEF old
  <2>5. CASE ~LooksAt(old, loc)
    <3>1. ~(p = old.parent /\ z \in old.zones)
      BY <2>5 DEF LooksAt
    <3>2. QED
      BY <1>1, <1>3, <2>1, <2>2, <2>3, <2>5, <3>1
  <2>6. QED
    BY <2>4, <2>5
<1>4. QED
  BY <1>2, <1>3

LEMMA AddingListens ==
  ASSUME NEW c, Sound(c), Interested(c), NEW id, NEW i, IsInterest(i),
         NEW context, NEW caller, NEW timer
  PROVE  Interested(AddInterest(c, id, i, context, caller, timer))
<1> DEFINE e == AddInterest(c, id, i, context, caller, timer)
           left == Closed(c, id, i).subscribed
           new == {<<i.parent, z>> : z \in NewZones(c, i)}
<1>1. /\ e.m_interests = With(c.m_interests, id, i)
      /\ e.m_channel = c.m_channel /\ e.m_allocated_channel = c.m_allocated_channel
      /\ e.subscribed = left \cup new
  <2>1. /\ \A x \in {"m_channel", "m_allocated_channel", "terminated", "m_accept_messages"} : e[x] = c[x]
        /\ e.m_interests = With(c.m_interests, id, i)
        /\ e.subscribed = left \cup new
    BY AddingSound
  <2> HIDE DEF e
  <2>2. QED
    BY <2>1
<1> HIDE DEF e
<1>2. DOMAIN e.m_interests = DOMAIN c.m_interests \cup {id}
  BY <1>1 DEF With
<1>3. IsFiniteSet(DOMAIN e.m_interests)
  BY <1>2, FS_AddElement DEF Interested
<1>4. \A j \in DOMAIN e.m_interests : e.m_interests[j] = IF j = id THEN i ELSE c.m_interests[j]
  BY <1>1 DEF With
<1>5. \A j \in DOMAIN e.m_interests : IsInterest(e.m_interests[j])
  BY <1>2, <1>4 DEF Interested
<1>6. ASSUME NEW loc \in Location
      PROVE  loc \in e.subscribed <=> \E j \in DOMAIN e.m_interests : LooksAt(e.m_interests[j], loc)
  <2> DEFINE old == \E j \in DOMAIN c.m_interests : LooksAt(c.m_interests[j], loc)
             others == \E j \in DOMAIN c.m_interests \ {id} : LooksAt(c.m_interests[j], loc)
  <2>1. loc = <<loc[1], loc[2]>>
    BY DEF Location
  <2>2. loc \in c.subscribed <=> old
    BY DEF Interested
  <2>3. loc \in new <=> LooksAt(i, loc) /\ ~old
    <3>1. loc \in new <=> loc[1] = i.parent /\ loc[2] \in NewZones(c, i)
      BY <2>1
    <3>2. LookupInterests(c, loc[1], loc[2]) = {} <=> ~old
      BY <2>1, LookupLooks
    <3>3. QED
      BY <3>1, <3>2 DEF NewZones, LooksAt
  <2>4. loc \in left <=> old /\ ~(~others /\ ~LooksAt(i, loc))
    <3>1. loc \in left
           <=> /\ loc \in c.subscribed
               /\ ~(/\ id \in DOMAIN c.m_interests /\ LooksAt(c.m_interests[id], loc)
                    /\ ~LooksAt(i, loc)
                    /\ \A j \in DOMAIN c.m_interests : LooksAt(c.m_interests[j], loc) => j = id)
      BY AlteringKills
    <3>2. QED
      BY <2>2, <3>1
  <2>5. (\E j \in DOMAIN e.m_interests : LooksAt(e.m_interests[j], loc)) <=> others \/ LooksAt(i, loc)
    BY <1>2, <1>4
  <2>6. others => old
    OBVIOUS
  <2> HIDE DEF old, others, left, new
  <2>7. QED
    BY <1>1, <2>3, <2>4, <2>5, <2>6
<1>7. Interested(e)
  BY <1>1, <1>3, <1>5, <1>6 DEF Interested
<1>8. QED
  BY <1>7 DEF e

-----------------------------------------------------------------------------
(* Interests are closed.                                                     *)
Killed(c, i) == {z \in i.zones : Cardinality(LookupInterests(c, i.parent, z)) = 1}

Removed(c, id, i, e) ==
  /\ e.m_interests = Without(c.m_interests, {id})
  /\ e.m_channel = c.m_channel /\ e.m_allocated_channel = c.m_allocated_channel
  /\ e.terminated = c.terminated
  /\ e.subscribed = c.subscribed \ {<<i.parent, z>> : z \in Killed(c, i)}

LEMMA RemovingSound ==
  ASSUME NEW c, Sound(c), NEW id, NEW i, NEW context, NEW caller
  PROVE  LET e == RemoveInterest(c, id, i, context, caller) IN Sound(e) /\ Removed(c, id, i, e)
<1> DEFINE killed == Killed(c, i)
           a == CloseZones(c, i.parent, killed)
           b == Notify(a, id, caller)
           d == Tell(b, Done(id, context))
           e == RemoveInterest(c, id, i, context, caller)
<1>1. e = [d EXCEPT !.m_interests = Without(@, {id})]
  BY DEF RemoveInterest, Killed
<1> HIDE DEF killed, e
<1>2. /\ Sound(a) /\ a.subscribed = c.subscribed \ {<<i.parent, z>> : z \in killed}
      /\ \A x \in ClientFields \ {"m_seen_objects", "m_historical_objects", "m_visible_objects",
                                  "subscribed", "told", "sent"} : a[x] = c[x]
  BY ClosingZones
<1> HIDE DEF a
<1>3. Sound(b) /\ \A x \in ClientFields \ {"sent"} : b[x] = a[x]
  <2>1. b = a \/ \E s : b = Send(a, s)
    BY DEF Notify
  <2>2. QED
    BY <1>2, <2>1, SendingSound DEF Send, Sound, ClientFields
<1> HIDE DEF b
<1>4. Sound(d) /\ \A x \in ClientFields \ {"told"} : d[x] = b[x]
  <2>1. Sound(d)
    BY <1>3, TellingSound
  <2>2. QED
    BY <1>3, <2>1 DEF Tell, Sound, ClientFields
<1> HIDE DEF d
<1>5. /\ Sound(e) /\ e.m_interests = Without(d.m_interests, {id})
      /\ \A x \in ClientFields \ {"m_interests"} : e[x] = d[x]
  BY <1>1, <1>4 DEF Sound, ClientFields
<1>6. e.m_interests = Without(c.m_interests, {id})
  BY <1>2, <1>3, <1>4, <1>5 DEF ClientFields
<1>7. e.subscribed = c.subscribed \ {<<i.parent, z>> : z \in killed}
  BY <1>2, <1>3, <1>4, <1>5 DEF ClientFields
<1>8. /\ e.m_channel = c.m_channel /\ e.m_allocated_channel = c.m_allocated_channel
      /\ e.terminated = c.terminated
  BY <1>2, <1>3, <1>4, <1>5 DEF ClientFields
<1>9. QED
  BY <1>5, <1>6, <1>7, <1>8 DEF e, killed, Removed

LEMMA RemovingListens ==
  ASSUME NEW c, Sound(c), Interested(c), NEW id, NEW i, NEW context, NEW caller,
         IF id \in DOMAIN c.m_interests
         THEN i.parent = c.m_interests[id].parent /\ i.zones = c.m_interests[id].zones
         ELSE i.zones = {}
  PROVE  Interested(RemoveInterest(c, id, i, context, caller))
<1> DEFINE e == RemoveInterest(c, id, i, context, caller)
           killed == Killed(c, i)
           closed == {<<i.parent, z>> : z \in killed}
<1>1. /\ e.m_interests = Without(c.m_interests, {id})
      /\ e.m_channel = c.m_channel /\ e.m_allocated_channel = c.m_allocated_channel
      /\ e.subscribed = c.subscribed \ closed
  <2>1. Removed(c, id, i, e)
    BY RemovingSound
  <2> HIDE DEF e
  <2>2. QED
    BY <2>1 DEF Removed
<1> HIDE DEF e
<1>2. DOMAIN e.m_interests = DOMAIN c.m_interests \ {id}
  BY <1>1 DEF Without
<1>3. IsFiniteSet(DOMAIN e.m_interests)
  BY <1>2, FS_RemoveElement DEF Interested
<1>4. \A j \in DOMAIN e.m_interests : e.m_interests[j] = c.m_interests[j]
  BY <1>1, <1>2 DEF Without
<1>5. \A j \in DOMAIN e.m_interests : IsInterest(e.m_interests[j])
  BY <1>2, <1>4 DEF Interested
<1>6. ASSUME NEW loc \in Location
      PROVE  loc \in e.subscribed <=> \E j \in DOMAIN e.m_interests : LooksAt(e.m_interests[j], loc)
  <2> DEFINE p == loc[1]
             z == loc[2]
             old == \E j \in DOMAIN c.m_interests : LooksAt(c.m_interests[j], loc)
             others == \E j \in DOMAIN c.m_interests \ {id} : LooksAt(c.m_interests[j], loc)
  <2>1. loc = <<p, z>>
    BY DEF Location
  <2>2. loc \in c.subscribed <=> old
    BY DEF Interested
  <2>3. loc \in closed <=> p = i.parent /\ z \in i.zones /\ Cardinality(LookupInterests(c, p, z)) = 1
    BY <2>1 DEF Killed
  <2>4. loc \in closed <=> old /\ ~others
    <3>1. CASE id \in DOMAIN c.m_interests /\ LooksAt(c.m_interests[id], loc)
      <4>1. p = i.parent /\ z \in i.zones
        BY <3>1 DEF LooksAt
      <4>2. id \in LookupInterests(c, p, z)
        BY <2>1, <3>1, LookupLooks
      <4>3. Cardinality(LookupInterests(c, p, z)) = 1 <=> LookupInterests(c, p, z) = {id}
        BY <4>2, LookupAlone
      <4>4. LookupInterests(c, p, z) = {id} <=> ~others
        BY <2>1, <4>2, LookupLooks
      <4>5. old
        BY <3>1
      <4> HIDE DEF p, z, closed, old, others
      <4>6. QED
        BY <2>3, <4>1, <4>3, <4>4, <4>5
    <3>2. CASE ~(id \in DOMAIN c.m_interests /\ LooksAt(c.m_interests[id], loc))
      <4>1. ~(p = i.parent /\ z \in i.zones)
        BY <3>2 DEF LooksAt
      <4>2. old <=> others
        BY <3>2
      <4> HIDE DEF p, z, closed, old, others
      <4>3. QED
        BY <2>3, <4>1, <4>2
    <3>3. QED
      BY <3>1, <3>2
  <2>5. (\E j \in DOMAIN e.m_interests : LooksAt(e.m_interests[j], loc)) <=> others
    BY <1>2, <1>4
  <2>6. others => old
    OBVIOUS
  <2> HIDE DEF p, z, closed, old, others
  <2>7. QED
    BY <1>1, <2>2, <2>4, <2>5, <2>6
<1>7. Interested(e)
  BY <1>1, <1>3, <1>5, <1>6 DEF Interested
<1>8. QED
  BY <1>7 DEF e

LEMMA SubscribingSound ==
  ASSUME NEW c, Sound(c), NEW S
  PROVE  /\ Sound(SubscribeChannels(c, S)) /\ Sound(UnsubscribeChannels(c, S))
         /\ SubscribeChannels(c, S).subscribed = c.subscribed \cup S
         /\ UnsubscribeChannels(c, S).subscribed = c.subscribed \ S
         /\ \A x \in ClientFields \ {"subscribed", "sent"} :
              SubscribeChannels(c, S)[x] = c[x] /\ UnsubscribeChannels(c, S)[x] = c[x]
BY DEF Sound, SubscribeChannels, UnsubscribeChannels, Send, ClientFields

\* CLIENTAGENT_REMOVE_INTEREST of an interest that is not there removes interest 0.
LEMMA RemoveRequestSound ==
  ASSUME NEW c, Sound(c), NEW m
  PROVE  LET e == HandleRemoveInterest(c, m)
         IN  /\ Sound(e) /\ DOMAIN e.m_interests \subseteq DOMAIN c.m_interests \cup {m.id}
             /\ e.terminated = c.terminated
             /\ Interested(c) /\ (m.id # 0 => 0 \notin DOMAIN c.m_interests) => Interested(e)
<1> DEFINE there == m.id \in DOMAIN c.m_interests
           i == IF there THEN c.m_interests[m.id] ELSE [parent |-> 0, zones |-> {}]
           k == IF there THEN m.id ELSE 0
           a == [c EXCEPT !.m_next_context = @ + 1, !.m_interests = With(@, m.id, i)]
           b == Tell(a, [kind |-> "remove_interest", id |-> m.id])
           e == HandleRemoveInterest(c, m)
<1>1. e = RemoveInterest(b, k, i, c.m_next_context, m.sender)
  BY DEF HandleRemoveInterest
<1>2. /\ Sound(a) /\ a.m_interests = With(c.m_interests, m.id, i)
      /\ a.subscribed = c.subscribed /\ a.terminated = c.terminated
      /\ a.m_channel = c.m_channel /\ a.m_allocated_channel = c.m_allocated_channel
  <2>1. a.m_next_context = c.m_next_context + 1 /\ c.m_next_context \in Nat \ {0}
    BY DEF Sound, ClientFields
  <2>2. \A l \in 1..(c.m_next_context - 1) : l \in 1..(c.m_next_context + 1 - 1)
    BY <2>1
  <2>3. QED
    BY <2>1, <2>2 DEF Sound, ClientFields
<1>3. Sound(b) /\ SameInterests(a, b)
  <2> HIDE DEF a
  <2>1. QED
    BY <1>2, TellingSound
<1> HIDE DEF e, a, b
<1>4. Sound(e) /\ Removed(b, k, i, e)
  BY <1>1, <1>3, RemovingSound
<1>5. b.m_interests = With(c.m_interests, m.id, i)
  BY <1>2, <1>3 DEF SameInterests
<1>6. DOMAIN e.m_interests \subseteq DOMAIN c.m_interests \cup {m.id}
  BY <1>4, <1>5 DEF Removed, With, Without
<1>7. ASSUME Interested(c), m.id # 0 => 0 \notin DOMAIN c.m_interests
      PROVE  Interested(e)
  <2>1. IsInterest(i)
    BY <1>7 DEF Interested, IsInterest
  <2>3. Interested(b)
    <3>1. DOMAIN b.m_interests = DOMAIN c.m_interests \cup {m.id}
      BY <1>5 DEF With
    <3>2. IsFiniteSet(DOMAIN b.m_interests)
      BY <1>7, <3>1, FS_AddElement DEF Interested
    <3>3. \A l \in DOMAIN b.m_interests :
            b.m_interests[l] = IF l \in DOMAIN c.m_interests THEN c.m_interests[l] ELSE i
      BY <1>5 DEF With
    <3>4. m.id \notin DOMAIN c.m_interests => i.zones = {}
      OBVIOUS
    <3> HIDE DEF i
    <3>5. \A l \in DOMAIN b.m_interests : IsInterest(b.m_interests[l])
      BY <1>7, <2>1, <3>3 DEF Interested
    <3>6. \A loc \in Location :
            (\E l \in DOMAIN b.m_interests : LooksAt(b.m_interests[l], loc))
              <=> \E l \in DOMAIN c.m_interests : LooksAt(c.m_interests[l], loc)
      <4>1. m.id \notin DOMAIN c.m_interests => \A loc \in Location : ~LooksAt(i, loc)
        BY <3>4 DEF LooksAt
      <4>2. QED
        BY <3>1, <3>3, <4>1
    <3>7. /\ b.m_channel = c.m_channel /\ b.m_allocated_channel = c.m_allocated_channel
          /\ b.subscribed = c.subscribed
      BY <1>2, <1>3 DEF SameInterests
    <3>8. QED
      BY <1>7, <3>2, <3>5, <3>6, <3>7 DEF Interested
  <2>4. IF k \in DOMAIN b.m_interests
        THEN i.parent = b.m_interests[k].parent /\ i.zones = b.m_interests[k].zones
        ELSE i.zones = {}
    <3>1. CASE there
      BY <1>5, <3>1 DEF With
    <3>2. CASE ~there /\ m.id = 0
      BY <1>5, <3>2 DEF With
    <3>3. CASE ~there /\ m.id # 0
      <4>1. k = 0 /\ 0 \notin DOMAIN b.m_interests
        BY <1>5, <1>7, <3>3 DEF With
      <4>2. QED
        BY <3>3, <4>1
    <3>4. QED
      BY <3>1, <3>2, <3>3
  <2> HIDE DEF i, k
  <2>5. QED
    BY <1>1, <1>3, <2>3, <2>4, RemovingListens
<1>8. e.terminated = c.terminated
  BY <1>2, <1>3, <1>4 DEF Removed, SameInterests
<1>9. QED
  BY <1>4, <1>6, <1>7, <1>8 DEF e

LEMMA AddRequestSound ==
  ASSUME NEW c, Sound(c), NEW m, NEW timer
  PROVE  LET e == HandleAddInterest(c, m, timer)
         IN  /\ Sound(e) /\ DOMAIN e.m_interests = DOMAIN c.m_interests \cup {m.id}
             /\ e.terminated = c.terminated
             /\ Interested(c) /\ IsInterest(m.interest) => Interested(e)
<1> DEFINE a == [c EXCEPT !.m_next_context = @ + 1]
           msg == [kind |-> "add_interest", id |-> m.id, context |-> c.m_next_context]
           b == Tell(a, msg)
           e == HandleAddInterest(c, m, timer)
<1>1. e = AddInterest(b, m.id, m.interest, c.m_next_context, m.sender, timer)
  BY DEF HandleAddInterest
<1>2. /\ Sound(a) /\ a.m_interests = c.m_interests
      /\ a.subscribed = c.subscribed /\ a.terminated = c.terminated
      /\ a.m_channel = c.m_channel /\ a.m_allocated_channel = c.m_allocated_channel
  <2>1. a.m_next_context = c.m_next_context + 1 /\ c.m_next_context \in Nat \ {0}
    BY DEF Sound, ClientFields
  <2>2. \A l \in 1..(c.m_next_context - 1) : l \in 1..(c.m_next_context + 1 - 1)
    BY <2>1
  <2>3. QED
    BY <2>1, <2>2 DEF Sound, ClientFields
<1> HIDE DEF a, msg
<1>3. Sound(b) /\ SameInterests(a, b)
  BY <1>2, TellingSound
<1> HIDE DEF e, b
<1>4. /\ Sound(e) /\ e.m_interests = With(b.m_interests, m.id, m.interest)
      /\ e.terminated = b.terminated
  <2>1. LET g == AddInterest(b, m.id, m.interest, c.m_next_context, m.sender, timer)
        IN  /\ Sound(g)
            /\ g.m_interests = With(b.m_interests, m.id, m.interest)
            /\ \A x \in {"m_channel", "m_allocated_channel", "terminated", "m_accept_messages"} : g[x] = b[x]
    BY <1>3, AddingSound
  <2>2. QED
    BY <1>1, <2>1
<1>5. ASSUME Interested(c), IsInterest(m.interest)
      PROVE  Interested(e)
  <2>1. Interested(b)
    BY <1>2, <1>3, <1>5 DEF SameInterests, Interested
  <2>2. QED
    BY <1>1, <1>3, <1>5, <2>1, AddingListens
<1>6. DOMAIN e.m_interests = DOMAIN c.m_interests \cup {m.id} /\ e.terminated = c.terminated
  BY <1>2, <1>3, <1>4 DEF SameInterests, With
<1>7. QED
  BY <1>4, <1>5, <1>6 DEF e

-----------------------------------------------------------------------------
(* All that a client receives.  Interest 0 is not to be confused with one    *)
(* that a daemon removes and that is not there.                              *)
ZeroIsFree(s) == 0 \notin s.ids \/ "daemon removes" \notin s.requests

OtherKinds == {"enter_interest", "zones_count", "enter_owner", "changing_owner",
               "session_object", "set_client_id", "add_interest", "remove_interest"}

Fit(s, m) ==
  /\ m.kind \in ObjectKinds \cup OtherKinds
  /\ m.kind \in ObjectKinds => ObjectMsg(m)
  /\ m.kind = "enter_interest" => EntryMsg(m)
  /\ m.kind = "enter_owner" => EntryMsg(m)
  /\ m.kind = "set_client_id" => m.channel \notin Location
  /\ m.kind = "add_interest" => m.id \in s.ids /\ IsInterest(m.interest)
  /\ m.kind = "remove_interest" => m.id \in s.ids /\ "daemon removes" \in s.requests

\* What no datagram does to a client.
Keeps(s, c, e) ==
  /\ Sound(e) /\ e.terminated = c.terminated
  /\ DOMAIN e.m_interests \subseteq DOMAIN c.m_interests \cup s.ids
  /\ ZeroIsFree(s) /\ DOMAIN c.m_interests \subseteq s.ids /\ Interested(c) => Interested(e)

LEMMA KeepingSame ==
  ASSUME NEW s, NEW c, NEW e, Sound(e), SameInterests(c, e)
  PROVE  Keeps(s, c, e)
BY SameIsInterested DEF Keeps, SameInterests

LEMMA OwnerSound ==
  ASSUME NEW c, Sound(c), NEW m
  PROVE  /\ Sound(HandleEnterOwner(c, m)) /\ SameInterests(c, HandleEnterOwner(c, m))
         /\ Sound(HandleChangingOwner(c, m)) /\ SameInterests(c, HandleChangingOwner(c, m))
         /\ Sound(HandleSessionObject(c, m)) /\ SameInterests(c, HandleSessionObject(c, m))
<1> DEFINE a == [c EXCEPT !.m_owned_objects =
                   IF m.doid \in DOMAIN @ THEN @ ELSE With(@, m.doid, m.location)]
           b == [c EXCEPT !.m_owned_objects = Without(@, {m.doid})]
<1>1. Sound(a) /\ SameInterests(c, a)
  BY DEF Sound, SameInterests, ClientFields
<1>2. Sound(b) /\ SameInterests(c, b)
  BY DEF Sound, SameInterests, ClientFields
<1>3. Sound(HandleSessionObject(c, m)) /\ SameInterests(c, HandleSessionObject(c, m))
  BY DEF HandleSessionObject, Sound, SameInterests, ClientFields
<1>4. \E x : HandleEnterOwner(c, m) = Tell(a, x)
  BY DEF HandleEnterOwner
<1>5. HandleChangingOwner(c, m) = c \/ \E x : HandleChangingOwner(c, m) \in {Tell(b, x), Tell(c, x)}
  BY DEF HandleChangingOwner, Eject
<1>6. SameInterests(c, c)
  BY DEF SameInterests
<1> HIDE DEF a, b
<1>7. QED
  BY <1>1, <1>2, <1>3, <1>4, <1>5, <1>6, TellingSound DEF SameInterests

LEMMA ChannelSound ==
  ASSUME NEW s, NEW c, Sound(c), NEW m, m.channel \notin Location
  PROVE  Keeps(s, c, HandleSetClientId(c, m))
<1> DEFINE a == IF c.m_channel # c.m_allocated_channel
                THEN UnsubscribeChannels(c, {c.m_channel}) ELSE c
           b == SubscribeChannels(a, {m.channel})
           e == HandleSetClientId(c, m)
<1>1. /\ Sound(a) /\ a.subscribed \in {c.subscribed, c.subscribed \ {c.m_channel}}
      /\ \A x \in ClientFields \ {"subscribed", "sent"} : a[x] = c[x]
  <2>1. CASE c.m_channel # c.m_allocated_channel
    <3>1. a = UnsubscribeChannels(c, {c.m_channel})
      BY <2>1
    <3>2. /\ Sound(UnsubscribeChannels(c, {c.m_channel}))
          /\ UnsubscribeChannels(c, {c.m_channel}).subscribed = c.subscribed \ {c.m_channel}
      BY SubscribingSound
    <3>3. \A S : \A x \in ClientFields \ {"subscribed", "sent"} : UnsubscribeChannels(c, S)[x] = c[x]
      BY SubscribingSound
    <3> HIDE DEF a
    <3>4. QED
      BY <3>1, <3>2, <3>3
  <2>2. CASE c.m_channel = c.m_allocated_channel
    BY <2>2
  <2>3. QED
    BY <2>1, <2>2
<1>2. e = [b EXCEPT !.m_channel = m.channel]
  BY DEF HandleSetClientId
<1> HIDE DEF a
<1>3. /\ Sound(b) /\ b.subscribed = a.subscribed \cup {m.channel}
      /\ \A x \in ClientFields \ {"subscribed", "sent"} : b[x] = a[x]
  BY <1>1, SubscribingSound
<1> HIDE DEF b, e
<1>4. /\ Sound(e) /\ e.m_channel = m.channel
      /\ \A x \in ClientFields \ {"m_channel"} : e[x] = b[x]
  BY <1>2, <1>3 DEF Sound, ClientFields
<1>5. /\ e.terminated = c.terminated /\ e.m_interests = c.m_interests
      /\ e.m_allocated_channel = c.m_allocated_channel
      /\ e.subscribed \ {m.channel, c.m_channel} = c.subscribed \ {m.channel, c.m_channel}
  BY <1>1, <1>3, <1>4 DEF ClientFields
<1>6. Interested(c) => Interested(e)
  BY <1>4, <1>5 DEF Interested
<1>7. QED
  BY <1>4, <1>5, <1>6 DEF Keeps, e

LEMMA DatagramSound ==
  ASSUME NEW s, NEW c, Sound(c), NEW m, Fit(s, m), NEW timer
  PROVE  Keeps(s, c, HandleDatagram(c, m, timer))
<1>1. CASE ~Listens(c)
  <2>1. HandleDatagram(c, m, timer) = c
    BY <1>1 DEF HandleDatagram
  <2>2. QED
    BY <2>1 DEF Keeps
<1>2. CASE Listens(c) /\ m.kind = "enter_interest"
  <2>1. HandleDatagram(c, m, timer) = HandleEnterInterest(c, m)
    BY <1>2 DEF HandleDatagram
  <2>2. QED
    BY <1>2, <2>1, EnterInterestSound, KeepingSame DEF Fit
<1>3. CASE Listens(c) /\ m.kind = "zones_count"
  <2>1. HandleDatagram(c, m, timer) = HandleZonesCount(c, m)
    BY <1>3 DEF HandleDatagram
  <2>2. QED
    BY <1>3, <2>1, ZonesCountSound, KeepingSame
<1>4. CASE Listens(c) /\ m.kind \in {"enter_owner", "changing_owner", "session_object"}
  <2>1. HandleDatagram(c, m, timer) \in
          {HandleEnterOwner(c, m), HandleChangingOwner(c, m), HandleSessionObject(c, m)}
    BY <1>4 DEF HandleDatagram
  <2>2. QED
    BY <1>4, <2>1, OwnerSound, KeepingSame
<1>5. CASE Listens(c) /\ m.kind = "set_client_id"
  <2>1. HandleDatagram(c, m, timer) = HandleSetClientId(c, m)
    BY <1>5 DEF HandleDatagram
  <2>2. QED
    BY <1>5, <2>1, ChannelSound DEF Fit
<1>6. CASE Listens(c) /\ m.kind = "add_interest"
  <2>1. HandleDatagram(c, m, timer) = HandleAddInterest(c, m, timer)
    BY <1>6 DEF HandleDatagram
  <2>2. m.id \in s.ids /\ IsInterest(m.interest)
    BY <1>6 DEF Fit
  <2>3. QED
    BY <2>1, <2>2, AddRequestSound DEF Keeps
<1>7. CASE Listens(c) /\ m.kind = "remove_interest"
  <2>1. HandleDatagram(c, m, timer) = HandleRemoveInterest(c, m)
    BY <1>7 DEF HandleDatagram
  <2>2. m.id \in s.ids /\ "daemon removes" \in s.requests
    BY <1>7 DEF Fit
  <2>3. ZeroIsFree(s) /\ DOMAIN c.m_interests \subseteq s.ids => (m.id # 0 => 0 \notin DOMAIN c.m_interests)
    BY <2>2 DEF ZeroIsFree
  <2>4. QED
    BY <2>1, <2>2, <2>3, RemoveRequestSound DEF Keeps
<1>8. CASE Listens(c) /\ m.kind \in ObjectKinds
  <2>1. HandleDatagram(c, m, timer) = HandleObjectDatagram(c, m)
    BY <1>8 DEF HandleDatagram, ObjectKinds
  <2>2. QED
    BY <1>8, <2>1, ObjectDatagramSound, KeepingSame DEF Fit
<1>9. QED
  BY <1>1, <1>2, <1>3, <1>4, <1>5, <1>6, <1>7, <1>8 DEF Fit, OtherKinds

\* A connection that is gone.
LEMMA AnnihilationSound ==
  ASSUME NEW c, Sound(c)
  PROVE  LET e == Annihilate(c)
         IN  Sound(e) /\ e.terminated = TRUE /\ e.m_interests = c.m_interests
<1> DEFINE quit == UnsubscribeChannels(c, c.subscribed)
           bare == [quit EXCEPT !.m_owned_objects = Empty]
           msgs == ForEach(DOMAIN c.m_owned_objects, LAMBDA d : [kind |-> "delete", doid |-> d])
           left == Send(bare, msgs)
           contexts == [n \in 1..(c.m_next_context - 1) |-> c.m_next_context - n]
           after == Finishing(left, contexts)
           e == Annihilate(c)
<1>1. e = IF c.terminated THEN c ELSE [after EXCEPT !.terminated = TRUE]
  BY DEF Annihilate, Finishing
<1>2. Sound(quit) /\ quit.m_interests = c.m_interests
  BY SubscribingSound DEF ClientFields
<1> HIDE DEF quit
<1>3. Sound(bare) /\ bare.m_interests = c.m_interests
  BY <1>2 DEF Sound, ClientFields
<1> HIDE DEF bare, msgs
<1>4. Sound(left) /\ left.m_interests = c.m_interests
  BY <1>3, SendingSound DEF SameInterests
<1>5. Len(contexts) \in Nat
  <2>1. c.m_next_context - 1 \in Nat
    BY DEF Sound
  <2>2. QED
    BY <2>1
<1> HIDE DEF left, contexts
<1>6. Sound(after) /\ after.m_interests = c.m_interests
  BY <1>4, <1>5, FinishesSound DEF SameInterests
<1> HIDE DEF after, e
<1>7. CASE ~c.terminated
  BY <1>1, <1>6, <1>7 DEF Sound, ClientFields, e
<1>8. CASE c.terminated = TRUE
  BY <1>1, <1>8 DEF e
<1>9. QED
  BY <1>7, <1>8

-----------------------------------------------------------------------------
(* What the game is told.                                                    *)
GameFields == {"shown", "met", "owns", "waiting", "confused", "again", "ejected"}

\* A message turns what the game shows, has met and owns into this; it makes
\* sense if it is fine.
Turns(h, n, shown, met, owns, fine) ==
  /\ DOMAIN n = GameFields
  /\ DOMAIN n.shown = shown /\ n.met = met /\ n.owns = owns
  /\ h.confused = FALSE /\ fine => n.confused = FALSE

LEMMA HearEnter ==
  ASSUME NEW h, DOMAIN h = GameFields, NEW d, NEW loc, NEW v
  PROVE  Turns(h, Hear(h, [kind |-> "enter", doid |-> d, location |-> loc, value |-> v]),
               DOMAIN h.shown \cup {d}, h.met \cup {d}, h.owns, d \notin DOMAIN h.shown)
BY DEF Hear, GameFields, With, Turns

LEMMA HearDisable ==
  ASSUME NEW h, DOMAIN h = GameFields, NEW d
  PROVE  Turns(h, Hear(h, [kind |-> "disable", doid |-> d]),
               DOMAIN h.shown \ {d}, h.met, h.owns, d \in DOMAIN h.shown)
BY DEF Hear, GameFields, Without, Turns

LEMMA HearEnterOwner ==
  ASSUME NEW h, DOMAIN h = GameFields, NEW d
  PROVE  Turns(h, Hear(h, [kind |-> "enter_owner", doid |-> d]),
               DOMAIN h.shown, h.met, h.owns \cup {d}, TRUE)
BY DEF Hear, GameFields, Turns

LEMMA HearDisableOwner ==
  ASSUME NEW h, DOMAIN h = GameFields, NEW d
  PROVE  Turns(h, Hear(h, [kind |-> "disable_owner", doid |-> d]),
               DOMAIN h.shown, h.met, h.owns \ {d}, d \in h.owns)
BY DEF Hear, GameFields, Turns

LEMMA HearUpdate ==
  ASSUME NEW h, DOMAIN h = GameFields, NEW m, m.kind \in {"set_field", "location"}
  PROVE  Turns(h, Hear(h, m), DOMAIN h.shown, h.met, h.owns, m.doid \in DOMAIN h.shown \cup h.owns)
BY DEF Hear, GameFields, Turns

Formalities == {"done", "eject", "add_interest", "remove_interest"}

LEMMA HearOther ==
  ASSUME NEW h, DOMAIN h = GameFields, NEW m, m.kind \in Formalities
  PROVE  Turns(h, Hear(h, m), DOMAIN h.shown, h.met, h.owns, TRUE)
BY DEF Hear, GameFields, Turns, Formalities

LEMMA HearingNothing ==
  ASSUME NEW g
  PROVE  Hearing(g, <<>>) = g
<1>1. Len(<<>>) = 0
  OBVIOUS
<1>2. QED
  BY <1>1, HearingsInTurn

LEMMA HearingOn ==
  ASSUME NEW g, NEW s, NEW t, Len(s) \in Nat, Len(t) \in Nat, Len(s) <= Len(t),
         \A k \in 1..Len(s) : t[k] = s[k]
  PROVE  \E f : /\ f[Len(s)] = Hearing(g, s)
                /\ f[Len(t)] = Hearing(g, t)
                /\ \A k \in (Len(s) + 1)..Len(t) : f[k] = Hear(f[k - 1], t[k])
<1>a. Len(s) \in Nat /\ Len(t) \in Nat
  OBVIOUS
<1>1. PICK a : /\ Hearing(g, s) = a[Len(s)]
               /\ a[0] = g
               /\ \A k \in 1..Len(s) : a[k] = Hear(a[k - 1], s[k])
  BY ONLY <1>a, HearingsInTurn
<1>2. PICK f : /\ Hearing(g, t) = f[Len(t)]
               /\ f[0] = g
               /\ \A k \in 1..Len(t) : f[k] = Hear(f[k - 1], t[k])
  BY ONLY <1>a, HearingsInTurn
<1> DEFINE G == {k \in 0..Len(s) : f[k] = a[k]}
<1>3. 0 \in G
  BY <1>1, <1>2
<1>4. ASSUME NEW k \in 1..Len(s), k - 1 \in G PROVE k \in G
  <2>1. k \in 1..Len(t) /\ t[k] = s[k] /\ f[k - 1] = a[k - 1]
    BY <1>4
  <2>2. QED
    BY <1>1, <1>2, <1>4, <2>1
<1> HIDE DEF G
<1>5. \A k \in 0..Len(s) : k \in G
  BY <1>3, <1>4, Upwards
<1>6. f[Len(s)] = a[Len(s)]
  BY <1>5 DEF G
<1>7. QED
  BY <1>1, <1>2, <1>6

LEMMA HearingOne ==
  ASSUME NEW g, NEW s, IsSequence(s), NEW m
  PROVE  Hearing(g, Append(s, m)) = Hear(Hearing(g, s), m)
<1> DEFINE t == Append(s, m)
<1>1. /\ Len(s) \in Nat /\ Len(t) = Len(s) + 1 /\ t[Len(s) + 1] = m
      /\ \A k \in 1..Len(s) : t[k] = s[k]
  BY SequenceMore
<1> HIDE DEF t
<1>a. Len(t) \in Nat /\ Len(s) <= Len(t)
  BY <1>1
<1>2. PICK f : /\ f[Len(s)] = Hearing(g, s)
               /\ f[Len(t)] = Hearing(g, t)
               /\ \A k \in (Len(s) + 1)..Len(t) : f[k] = Hear(f[k - 1], t[k])
  <2>1. /\ Len(s) \in Nat /\ Len(t) \in Nat /\ Len(s) <= Len(t)
        /\ \A k \in 1..Len(s) : t[k] = s[k]
    BY <1>1, <1>a
  <2>2. QED
    BY ONLY <2>1, HearingOn
<1>3. Len(t) \in (Len(s) + 1)..Len(t) /\ Len(t) - 1 = Len(s)
  BY <1>1
<1>4. QED
  BY <1>1, <1>2, <1>3 DEF t

\* The objects of a closed zone go one by one, each once.
LEMMA HearingDisables ==
  ASSUME NEW g, NEW s, IsSequence(s), NEW S, IsFiniteSet(S),
         DOMAIN Hearing(g, s) = GameFields, S \subseteq DOMAIN Hearing(g, s).shown,
         Hearing(g, s).confused = FALSE
  PROVE  LET h == Hearing(g, s)
             n == Hearing(g, s \o Disables(S))
         IN  Turns(h, n, DOMAIN h.shown \ S, h.met, h.owns, TRUE)
<1> DEFINE h == Hearing(g, s)
           q == SetToSeq(S)
           t == s \o Disables(S)
           l == Len(s)
<1>1. /\ Len(q) \in Nat /\ (\A k \in 1..Len(q) : q[k] \in S)
      /\ (\A x \in S : \E k \in 1..Len(q) : q[k] = x)
      /\ (\A j, k \in 1..Len(q) : q[j] = q[k] => j = k)
  BY SetToSeqOnce
<1>2. /\ IsSequence(Disables(S)) /\ Len(Disables(S)) = Len(q)
      /\ \A k \in 1..Len(q) : Disables(S)[k] = [kind |-> "disable", doid |-> q[k]]
  BY DisablesSequence
<1> HIDE DEF q
<1>3. /\ l \in Nat /\ Len(t) = l + Len(q) /\ (\A k \in 1..l : t[k] = s[k])
      /\ \A k \in 1..Len(q) : t[l + k] = [kind |-> "disable", doid |-> q[k]]
  <2>1. PICK A : s \in Seq(A)
    BY DEF IsSequence
  <2>2. PICK B : Disables(S) \in Seq(B)
    BY <1>2 DEF IsSequence
  <2>3. s \in Seq(A \cup B) /\ Disables(S) \in Seq(A \cup B)
    BY <2>1, <2>2, SeqMonotonic
  <2>4. /\ Len(t) = l + Len(Disables(S)) /\ l \in Nat
        /\ \A k \in 1..(l + Len(Disables(S))) : t[k] = IF k <= l THEN s[k] ELSE Disables(S)[k - l]
    BY <2>3, ConcatProperties, LenProperties
  <2> HIDE DEF t, l
  <2>5. \A k \in 1..l : t[k] = s[k]
    BY <1>1, <1>2, <2>4
  <2>6. ASSUME NEW k \in 1..Len(q) PROVE t[l + k] = Disables(S)[k]
    <3>1. l + k \in 1..(l + Len(Disables(S))) /\ ~(l + k <= l) /\ l + k - l = k
      BY <1>1, <1>2, <2>4
    <3>2. QED
      BY <2>4, <3>1
  <2>7. QED
    BY <1>2, <2>4, <2>5, <2>6
<1> HIDE DEF h, t, l
<1>4. PICK f : /\ f[l] = h
               /\ f[Len(t)] = Hearing(g, t)
               /\ \A k \in (l + 1)..Len(t) : f[k] = Hear(f[k - 1], t[k])
  <2>1. Len(s) <= Len(t) /\ Len(t) \in Nat /\ Len(s) \in Nat
    BY <1>1, <1>3 DEF l
  <2>2. \A k \in 1..Len(s) : t[k] = s[k]
    BY <1>3 DEF l
  <2>3. \E f : /\ f[Len(s)] = Hearing(g, s)
               /\ f[Len(t)] = Hearing(g, t)
               /\ \A k \in (Len(s) + 1)..Len(t) : f[k] = Hear(f[k - 1], t[k])
    BY <2>1, <2>2, HearingOn
  <2>4. QED
    BY <2>3 DEF l, h
<1> DEFINE Leaves(k) == {q[j] : j \in 1..k}
           Right(k) == /\ DOMAIN f[l + k] = GameFields
                       /\ DOMAIN f[l + k].shown = DOMAIN h.shown \ Leaves(k)
                       /\ f[l + k].met = h.met /\ f[l + k].owns = h.owns
                       /\ f[l + k].confused = FALSE
           G == {k \in 0..Len(q) : Right(k)}
<1>5. DOMAIN h = GameFields /\ S \subseteq DOMAIN h.shown /\ h.confused = FALSE
  BY DEF h
<1>6. 0 \in G
  <2>1. Leaves(0) = {} /\ l + 0 = l
    BY <1>3
  <2>2. QED
    BY <1>1, <1>4, <1>5, <2>1
<1>7. ASSUME NEW k \in 1..Len(q), k - 1 \in G PROVE k \in G
  <2>1. l + k \in (l + 1)..Len(t) /\ l + k - 1 = l + (k - 1)
    BY <1>1, <1>3
  <2>2. f[l + k] = Hear(f[l + (k - 1)], [kind |-> "disable", doid |-> q[k]])
    BY <1>3, <1>4, <2>1
  <2>3. Right(k - 1)
    BY <1>7
  <2>4. Leaves(k) = Leaves(k - 1) \cup {q[k]}
    <3>1. \A j : j \in 1..k <=> j \in 1..(k - 1) \/ j = k
      BY <1>1
    <3>2. QED
      BY <3>1
  <2>5. q[k] \notin Leaves(k - 1)
    <3>1. \A j \in 1..(k - 1) : j \in 1..Len(q) /\ j # k
      BY <1>1
    <3>2. QED
      BY <1>1, <3>1
  <2>6. q[k] \in DOMAIN f[l + (k - 1)].shown
    BY <1>1, <1>5, <2>3, <2>5
  <2> DEFINE m == f[l + (k - 1)]
             n == f[l + k]
  <2>a. /\ DOMAIN m = GameFields /\ DOMAIN m.shown = DOMAIN h.shown \ Leaves(k - 1)
        /\ m.met = h.met /\ m.owns = h.owns /\ m.confused = FALSE
    BY <2>3
  <2>b. n = Hear(m, [kind |-> "disable", doid |-> q[k]]) /\ q[k] \in DOMAIN m.shown
    BY <2>2, <2>6
  <2> HIDE DEF Leaves, m, n
  <2>c. /\ DOMAIN n = GameFields /\ DOMAIN n.shown = DOMAIN m.shown \ {q[k]}
        /\ n.met = m.met /\ n.owns = m.owns /\ n.confused = FALSE
    <3>1. Turns(m, n, DOMAIN m.shown \ {q[k]}, m.met, m.owns, q[k] \in DOMAIN m.shown)
      BY <2>a, <2>b, HearDisable
    <3>2. QED
      BY <2>a, <2>b, <3>1 DEF Turns
  <2>7. Right(k)
    BY <2>4, <2>a, <2>c DEF n
  <2>8. QED
    BY <2>7
<1>8. Right(Len(q))
  <2> HIDE DEF G
  <2>1. \A k \in 0..Len(q) : k \in G
    BY <1>1, <1>6, <1>7, Upwards
  <2>2. Len(q) \in G
    BY <1>1, <2>1
  <2>3. QED
    BY <2>2 DEF G
<1>9. Leaves(Len(q)) = S
  BY <1>1
<1> HIDE DEF Leaves
<1>10. f[l + Len(q)] = Hearing(g, t)
  BY <1>3, <1>4
<1>11. QED
  BY <1>8, <1>9, <1>10 DEF h, t, Turns

-----------------------------------------------------------------------------
(* A game agrees with a client when it shows what the client takes for seen. *)
AgreesAs(h, c) ==
  /\ DOMAIN h = GameFields
  /\ DOMAIN h.shown = c.m_seen_objects
  /\ DOMAIN c.m_owned_objects \subseteq h.owns
  /\ h.confused = FALSE
  /\ h.met \subseteq c.m_seen_objects \cup c.m_historical_objects

Agrees(g, c) == AgreesAs(Hearing(g, c.told), c)

\* What the game need not know.
Silent(c, e) ==
  /\ e.m_seen_objects = c.m_seen_objects
  /\ DOMAIN e.m_owned_objects \subseteq DOMAIN c.m_owned_objects
  /\ c.m_historical_objects \subseteq e.m_historical_objects
  /\ e.told = c.told

LEMMA SilentAgrees ==
  ASSUME NEW g, NEW c, Agrees(g, c), NEW e, Silent(c, e)
  PROVE  Agrees(g, e)
<1> DEFINE h == Hearing(g, c.told)
<1>1. Hearing(g, e.told) = h /\ AgreesAs(h, c)
  BY DEF Silent, Agrees
<1> HIDE DEF h
<1>2. QED
  BY <1>1 DEF Silent, Agrees, AgreesAs

LEMMA TellAgrees ==
  ASSUME NEW g, NEW c, IsSequence(c.told), Agrees(g, c), NEW m,
         NEW e, e.told = Append(c.told, m),
         \A h : AgreesAs(h, c) => AgreesAs(Hear(h, m), e)
  PROVE  Agrees(g, e)
<1>1. Hearing(g, e.told) = Hear(Hearing(g, c.told), m)
  BY HearingOne
<1>2. QED
  BY <1>1 DEF Agrees

LEMMA TellOtherAgrees ==
  ASSUME NEW g, NEW c, Sound(c), Agrees(g, c), NEW m,
         m.kind \in Formalities
  PROVE  Agrees(g, Tell(c, m))
<1> DEFINE e == Tell(c, m)
<1>1. e.told = Append(c.told, m) /\ \A x \in ClientFields \ {"told"} : e[x] = c[x]
  BY DEF Tell, Sound, ClientFields
<1> HIDE DEF e
<1>2. ASSUME NEW h, AgreesAs(h, c) PROVE AgreesAs(Hear(h, m), e)
  <2>1. DOMAIN h = GameFields
    BY <1>2 DEF AgreesAs
  <2>2. Turns(h, Hear(h, m), DOMAIN h.shown, h.met, h.owns, TRUE)
    BY <2>1, HearOther
  <2>3. QED
    BY <1>1, <1>2, <2>2 DEF AgreesAs, ClientFields, Turns
<1>3. Agrees(g, e)
  BY <1>1, <1>2, TellAgrees DEF Sound
<1>4. QED
  BY <1>3 DEF e

LEMMA TellUpdateAgrees ==
  ASSUME NEW g, NEW c, Sound(c), Agrees(g, c), NEW m, m.kind \in {"set_field", "location"},
         m.doid \in c.m_seen_objects \cup DOMAIN c.m_owned_objects
  PROVE  Agrees(g, Tell(c, m))
<1> DEFINE e == Tell(c, m)
<1>1. e.told = Append(c.told, m) /\ \A x \in ClientFields \ {"told"} : e[x] = c[x]
  BY DEF Tell, Sound, ClientFields
<1> HIDE DEF e
<1>2. ASSUME NEW h, AgreesAs(h, c) PROVE AgreesAs(Hear(h, m), e)
  <2>1. DOMAIN h = GameFields /\ m.doid \in DOMAIN h.shown \cup h.owns
    BY <1>2 DEF AgreesAs
  <2>2. Turns(h, Hear(h, m), DOMAIN h.shown, h.met, h.owns, m.doid \in DOMAIN h.shown \cup h.owns)
    BY <2>1, HearUpdate
  <2>3. QED
    BY <1>1, <1>2, <2>1, <2>2 DEF AgreesAs, ClientFields, Turns
<1>3. Agrees(g, e)
  BY <1>1, <1>2, TellAgrees DEF Sound
<1>4. QED
  BY <1>3 DEF e

LEMMA EntranceAgrees ==
  ASSUME NEW g, NEW c, Sound(c), Agrees(g, c), NEW m, EntryMsg(m)
  PROVE  Agrees(g, HandleObjectEntrance(c, m))
<1> DEFINE d == m.doid
           found == [c EXCEPT !.m_pending_objects = Without(@, {d})]
           shown == [found EXCEPT
                   !.m_visible_objects = IF d \in DOMAIN @ THEN @ ELSE With(@, d, m.location),
                   !.m_seen_objects = @ \cup {d}]
           msg == [kind |-> "enter", doid |-> d, location |-> m.location, value |-> m.value]
           e == Tell(shown, msg)
<1>1. HandleObjectEntrance(c, m) = IF d \in c.m_seen_objects \cup c.m_session_objects THEN found ELSE e
  BY DEF HandleObjectEntrance
<1>2. Silent(c, found)
  BY DEF Silent, Sound, ClientFields
<1>3. /\ e.told = Append(c.told, msg) /\ e.m_seen_objects = c.m_seen_objects \cup {d}
      /\ e.m_owned_objects = c.m_owned_objects
      /\ e.m_historical_objects = c.m_historical_objects
  BY DEF Tell, Sound, ClientFields
<1> HIDE DEF found, e
<1>4. ASSUME d \notin c.m_seen_objects PROVE Agrees(g, e)
  <2>1. ASSUME NEW h, AgreesAs(h, c) PROVE AgreesAs(Hear(h, msg), e)
    <3>1. DOMAIN h = GameFields /\ d \notin DOMAIN h.shown
      BY <1>4, <2>1 DEF AgreesAs
    <3>2. Turns(h, Hear(h, msg), DOMAIN h.shown \cup {d}, h.met \cup {d}, h.owns, d \notin DOMAIN h.shown)
      BY <3>1, HearEnter
    <3> HIDE DEF msg, d
    <3>3. QED
      BY <1>3, <2>1, <3>1, <3>2 DEF AgreesAs, Turns
  <2> HIDE DEF msg
  <2>2. QED
    BY <1>3, <2>1, TellAgrees DEF Sound
<1>5. QED
  BY <1>1, <1>2, <1>4, SilentAgrees

LEMMA QueueingAgrees ==
  ASSUME NEW g, NEW c, Sound(c), Agrees(g, c), NEW d, NEW m
  PROVE  Agrees(g, QueuePending(c, d, m))
<1>1. Silent(c, QueuePending(c, d, m))
  BY DEF QueuePending, Silent, Sound, ClientFields
<1>2. QED
  BY <1>1, SilentAgrees

LEMMA SetFieldAgrees ==
  ASSUME NEW g, NEW c, Sound(c), Agrees(g, c), NEW m
  PROVE  Agrees(g, HandleSetField(c, m))
<1> DEFINE msg == [kind |-> "set_field", doid |-> m.doid, value |-> m.value]
<1>1. \/ Known(c, m.doid) /\ HandleSetField(c, m) = Tell(c, msg)
      \/ HandleSetField(c, m) \in {c, QueuePending(c, m.doid, m)}
  BY DEF HandleSetField
<1>2. msg.kind \in {"set_field", "location"} /\ msg.doid = m.doid
  OBVIOUS
<1> HIDE DEF msg
<1>3. Known(c, m.doid) => Agrees(g, Tell(c, msg))
  BY <1>2, TellUpdateAgrees DEF Known
<1>4. QED
  BY <1>1, <1>3, QueueingAgrees

LEMMA EjectAgrees ==
  ASSUME NEW g, NEW c, Sound(c), Agrees(g, c)
  PROVE  Agrees(g, Eject(c))
BY TellOtherAgrees DEF Eject, Formalities

LEMMA DeleteRamAgrees ==
  ASSUME NEW g, NEW c, Sound(c), Agrees(g, c), NEW m
  PROVE  Agrees(g, HandleDeleteRam(c, m))
<1> DEFINE d == m.doid
           a == [kind |-> "disable", doid |-> d]
           b == [kind |-> "disable_owner", doid |-> d]
           gone == [c EXCEPT !.m_seen_objects = @ \ {d},
                             !.m_owned_objects = Without(@, {d}),
                             !.m_historical_objects = @ \cup {d},
                             !.m_visible_objects = Without(@, {d})]
           first == IF d \in c.m_seen_objects THEN <<a>> ELSE <<>>
           second == IF d \in DOMAIN c.m_owned_objects THEN <<b>> ELSE <<>>
           e == TellAll(gone, first \o second)
           deaf == [c EXCEPT !.m_accept_messages = FALSE]
           left == [c EXCEPT !.m_session_objects = @ \ {d}]
           h == Hearing(g, c.told)
<1>1. \/ HandleDeleteRam(c, m) \in {Eject(deaf), Eject(left), QueuePending(c, d, m), c}
      \/ Known(c, d) /\ HandleDeleteRam(c, m) = e
  BY DEF HandleDeleteRam
<1>2. Agrees(g, Eject(deaf)) /\ Agrees(g, Eject(left))
  <2>1. Sound(deaf) /\ Silent(c, deaf) /\ Sound(left) /\ Silent(c, left)
    BY DEF Sound, Silent, ClientFields
  <2> HIDE DEF deaf, left
  <2>2. QED
    BY <2>1, SilentAgrees, EjectAgrees
<1>3. ASSUME Known(c, d) PROVE Agrees(g, e)
  <2>1. /\ e.told = c.told \o (first \o second)
        /\ e.m_seen_objects = c.m_seen_objects \ {d}
        /\ DOMAIN e.m_owned_objects = DOMAIN c.m_owned_objects \ {d}
        /\ e.m_historical_objects = c.m_historical_objects \cup {d}
    BY DEF TellAll, Sound, ClientFields, Without
  <2>2. IsSequence(c.told) /\ AgreesAs(h, c)
    BY DEF Sound, Agrees
  <2> HIDE DEF e, gone
  <2>3. CASE d \in c.m_seen_objects /\ d \notin DOMAIN c.m_owned_objects
    <3>1. e.told = Append(c.told, a)
      <4> HIDE DEF a, b
      <4>1. e.told = c.told \o (<<a>> \o <<>>)
        BY <2>1, <2>3
      <4>2. PICK S : c.told \in Seq(S)
        BY <2>2 DEF IsSequence
      <4>3. c.told \in Seq(S \cup {a})
        BY <4>2, SeqMonotonic
      <4>4. QED
        BY <4>1, <4>3
    <3>2. Hearing(g, e.told) = Hear(h, a)
      BY <2>2, <3>1, HearingOne
    <3>3. Turns(h, Hear(h, a), DOMAIN h.shown \ {d}, h.met, h.owns, d \in DOMAIN h.shown)
      BY <2>2, HearDisable DEF AgreesAs
    <3> HIDE DEF h, a, first, second
    <3>4. QED
      BY <2>1, <2>2, <2>3, <3>2, <3>3 DEF Agrees, AgreesAs, Turns
  <2>4. CASE d \notin c.m_seen_objects /\ d \in DOMAIN c.m_owned_objects
    <3>1. e.told = Append(c.told, b)
      <4> HIDE DEF a, b
      <4>1. e.told = c.told \o (<<>> \o <<b>>)
        BY <2>1, <2>4
      <4>2. PICK S : c.told \in Seq(S)
        BY <2>2 DEF IsSequence
      <4>3. c.told \in Seq(S \cup {b})
        BY <4>2, SeqMonotonic
      <4>4. QED
        BY <4>1, <4>3
    <3>2. Hearing(g, e.told) = Hear(h, b)
      BY <2>2, <3>1, HearingOne
    <3>3. Turns(h, Hear(h, b), DOMAIN h.shown, h.met, h.owns \ {d}, d \in h.owns)
      BY <2>2, HearDisableOwner DEF AgreesAs
    <3> HIDE DEF h, b, first, second
    <3>4. QED
      BY <2>1, <2>2, <2>4, <3>2, <3>3 DEF Agrees, AgreesAs, Turns
  <2>5. CASE d \in c.m_seen_objects /\ d \in DOMAIN c.m_owned_objects
    <3> DEFINE s == Append(c.told, a)
               n == Hear(h, a)
    <3>1. e.told = Append(s, b) /\ IsSequence(s)
      <4> HIDE DEF a, b
      <4>1. e.told = c.told \o (<<a>> \o <<b>>)
        BY <2>1, <2>5
      <4>2. PICK S : c.told \in Seq(S)
        BY <2>2 DEF IsSequence
      <4>3. c.told \in Seq(S \cup {a, b})
        BY <4>2, SeqMonotonic
      <4>4. QED
        BY <4>1, <4>3, SequenceMore, SMTT(20) DEF IsSequence
    <3>2. Hearing(g, s) = n
      BY <2>2, HearingOne
    <3>3. Hearing(g, e.told) = Hear(n, b)
      <4> HIDE DEF s, n, a, b
      <4>1. QED
        BY <3>1, <3>2, HearingOne
    <3>4. Turns(h, n, DOMAIN h.shown \ {d}, h.met, h.owns, d \in DOMAIN h.shown)
      BY <2>2, HearDisable DEF AgreesAs
    <3> HIDE DEF n
    <3>5. Turns(n, Hear(n, b), DOMAIN n.shown, n.met, n.owns \ {d}, d \in n.owns)
      BY <3>4, HearDisableOwner DEF Turns
    <3> HIDE DEF h, a, b, first, second, s
    <3>6. QED
      BY <2>1, <2>2, <2>5, <3>3, <3>4, <3>5 DEF Agrees, AgreesAs, Turns
  <2>6. QED
    BY <1>3, <2>3, <2>4, <2>5 DEF Known
<1> HIDE DEF deaf, left, e
<1>4. QED
  BY <1>1, <1>2, <1>3, QueueingAgrees

LEMMA EnterLocationAgrees ==
  ASSUME NEW g, NEW c, Sound(c), Agrees(g, c), NEW m, ObjectMsg(m), m.kind = "enter_location"
  PROVE  Agrees(g, HandleEnterLocation(c, m))
<1> DEFINE k == OperationAt(c, m.location)
           p == EmplacePending(c, m.doid, k)
           e == [p EXCEPT !.m_pending_interests[k].queued = Append(@, m)]
<1>1. EntryMsg(m)
  BY DEF ObjectMsg, EntryMsg
<1>2. HandleEnterLocation(c, m) = IF k = 0 THEN HandleObjectEntrance(c, m) ELSE e
  BY DEF HandleEnterLocation
<1>3. Silent(c, p) /\ DOMAIN p = ClientFields
  BY DEF EmplacePending, Silent, Sound, ClientFields
<1> HIDE DEF p, k
<1>4. Silent(c, e)
  BY <1>3 DEF Silent, ClientFields
<1> HIDE DEF e
<1>5. QED
  BY <1>1, <1>2, <1>4, EntranceAgrees, SilentAgrees

LEMMA ChangingLocationAgrees ==
  ASSUME NEW g, NEW c, Sound(c), Agrees(g, c), NEW m, ObjectMsg(m), m.kind = "changing_location"
  PROVE  Agrees(g, HandleChangingLocation(c, m))
<1> DEFINE d == m.doid
           loc == m.location
           moved == [c EXCEPT
             !.m_visible_objects = IF d \in DOMAIN c.m_visible_objects THEN [@ EXCEPT ![d] = loc] ELSE @,
             !.m_owned_objects = IF d \in DOMAIN c.m_owned_objects THEN [@ EXCEPT ![d] = loc] ELSE @]
           msg == [kind |-> "location", doid |-> d, location |-> loc]
           a == [kind |-> "disable", doid |-> d]
           e == Tell([moved EXCEPT !.m_seen_objects = @ \ {d},
                                   !.m_historical_objects = @ \cup {d},
                                   !.m_visible_objects = Without(@, {d})], a)
<1>1. \/ HandleChangingLocation(c, m) \in {QueuePending(c, d, m), c, Eject(moved)}
      \/ /\ d \in DOMAIN c.m_visible_objects \cup DOMAIN c.m_owned_objects
         /\ HandleChangingLocation(c, m) = Tell(moved, msg)
      \/ d \in DOMAIN c.m_visible_objects /\ HandleChangingLocation(c, m) = e
  BY DEF HandleChangingLocation
<1>2. /\ Sound(moved) /\ Silent(c, moved) /\ moved.m_seen_objects = c.m_seen_objects
      /\ DOMAIN moved.m_owned_objects = DOMAIN c.m_owned_objects
  BY DEF Sound, Silent, ClientFields, ObjectMsg
<1>3. c.m_seen_objects = DOMAIN c.m_visible_objects
  BY DEF Sound
<1> HIDE DEF moved
<1>4. Agrees(g, moved) /\ Agrees(g, Eject(moved))
  BY <1>2, SilentAgrees, EjectAgrees
<1>5. ASSUME d \in DOMAIN c.m_visible_objects \cup DOMAIN c.m_owned_objects
      PROVE  Agrees(g, Tell(moved, msg))
  <2>1. msg.kind \in {"set_field", "location"} /\ msg.doid = d
    OBVIOUS
  <2> HIDE DEF msg
  <2>2. QED
    BY <1>2, <1>3, <1>4, <1>5, <2>1, TellUpdateAgrees
<1>6. ASSUME d \in DOMAIN c.m_visible_objects
      PROVE  Agrees(g, e)
  <2>1. /\ e.told = Append(moved.told, a) /\ e.m_seen_objects = moved.m_seen_objects \ {d}
        /\ e.m_owned_objects = moved.m_owned_objects
        /\ e.m_historical_objects = moved.m_historical_objects \cup {d}
    BY <1>2 DEF Tell, Sound, ClientFields
  <2> HIDE DEF e
  <2>2. ASSUME NEW h, AgreesAs(h, moved) PROVE AgreesAs(Hear(h, a), e)
    <3>1. Turns(h, Hear(h, a), DOMAIN h.shown \ {d}, h.met, h.owns, d \in DOMAIN h.shown)
      BY <2>2, HearDisable DEF AgreesAs
    <3> HIDE DEF a, d
    <3>2. d \in DOMAIN h.shown
      BY <1>2, <1>3, <1>6, <2>2 DEF AgreesAs
    <3>3. QED
      BY <2>1, <2>2, <3>1, <3>2 DEF AgreesAs, Turns
  <2> HIDE DEF a
  <2>3. QED
    BY <1>2, <1>4, <2>1, <2>2, TellAgrees DEF Sound
<1> HIDE DEF e, msg
<1>7. QED
  BY <1>1, <1>4, <1>5, <1>6, QueueingAgrees

LEMMA ObjectDatagramAgrees ==
  ASSUME NEW g, NEW c, Sound(c), Agrees(g, c), NEW m, ObjectMsg(m)
  PROVE  Agrees(g, HandleObjectDatagram(c, m))
<1>1. \/ HandleObjectDatagram(c, m) = c
      \/ HandleObjectDatagram(c, m) = HandleSetField(c, m)
      \/ HandleObjectDatagram(c, m) = HandleDeleteRam(c, m)
      \/ m.kind = "enter_location" /\ HandleObjectDatagram(c, m) = HandleEnterLocation(c, m)
      \/ m.kind = "changing_location" /\ HandleObjectDatagram(c, m) = HandleChangingLocation(c, m)
  BY DEF HandleObjectDatagram, ObjectMsg, ObjectKinds
<1>2. QED
  BY <1>1, SetFieldAgrees, DeleteRamAgrees, EnterLocationAgrees, ChangingLocationAgrees

-----------------------------------------------------------------------------
(* The same of operations that finish.                                       *)
LEMMA EntrancesAgree ==
  ASSUME NEW g, NEW c, Sound(c), Agrees(g, c), NEW s, Entries(s)
  PROVE  Agrees(g, Entering(c, s))
<1>1. Len(s) \in Nat /\ \A k \in 1..Len(s) : EntryMsg(s[k])
  BY ElementOfSeq, LenProperties DEF Entries
<1>2. PICK f : /\ Entering(c, s) = f[Len(s)]
               /\ f[0] = c
               /\ \A k \in 1..Len(s) : f[k] = HandleObjectEntrance(f[k - 1], s[k])
  BY <1>1, EntrancesInTurn
<1> DEFINE G == {k \in 0..Len(s) : Sound(f[k]) /\ Agrees(g, f[k])}
<1>3. 0 \in G
  BY <1>1, <1>2
<1>4. ASSUME NEW k \in 1..Len(s), k - 1 \in G PROVE k \in G
  BY <1>1, <1>2, <1>4, EntranceSound, EntranceAgrees
<1> HIDE DEF G
<1>5. Len(s) \in G
  <2>1. \A k \in 0..Len(s) : k \in G
    BY <1>1, <1>3, <1>4, Upwards
  <2>2. QED
    BY <1>1, <2>1
<1>6. QED
  BY <1>2, <1>5 DEF G

LEMMA DatagramsAgree ==
  ASSUME NEW g, NEW c, Sound(c), Agrees(g, c), NEW s, HeldBack(s)
  PROVE  Agrees(g, Replaying(c, s))
<1>1. Len(s) \in Nat /\ \A k \in 1..Len(s) : ObjectMsg(s[k])
  BY ElementOfSeq, LenProperties DEF HeldBack
<1>2. PICK f : /\ Replaying(c, s) = f[Len(s)]
               /\ f[0] = c
               /\ \A k \in 1..Len(s) : f[k] = HandleObjectDatagram(f[k - 1], s[k])
  BY <1>1, DatagramsInTurn
<1> DEFINE G == {k \in 0..Len(s) : Sound(f[k]) /\ Agrees(g, f[k])}
<1>3. 0 \in G
  BY <1>1, <1>2
<1>4. ASSUME NEW k \in 1..Len(s), k - 1 \in G PROVE k \in G
  BY <1>1, <1>2, <1>4, ObjectDatagramSound, ObjectDatagramAgrees
<1> HIDE DEF G
<1>5. Len(s) \in G
  <2>1. \A k \in 0..Len(s) : k \in G
    BY <1>1, <1>3, <1>4, Upwards
  <2>2. QED
    BY <1>1, <2>1
<1>6. QED
  BY <1>2, <1>5 DEF G

LEMMA DoneAgrees ==
  ASSUME NEW g, NEW c, Sound(c), Agrees(g, c), NEW id, NEW context, NEW caller
  PROVE  Agrees(g, InterestDone(c, id, context, caller))
<1> DEFINE msg == Done(id, context)
<1>1. \/ InterestDone(c, id, context, caller) \in {c, Tell(c, msg)}
      \/ \E s : InterestDone(c, id, context, caller) = Send(c, s)
  BY DEF InterestDone, Notify
<1>2. \A s : Silent(c, Send(c, s))
  BY DEF Silent, Send, Sound, ClientFields
<1>3. msg.kind \in Formalities
  BY DEF Done, Formalities
<1> HIDE DEF msg
<1>4. QED
  BY <1>1, <1>2, <1>3, SilentAgrees, TellOtherAgrees

LEMMA FinishAgrees ==
  ASSUME NEW g, NEW c, Sound(c), Agrees(g, c), NEW k \in DOMAIN c.m_pending_interests, NEW late
  PROVE  Agrees(g, Finish(c, k, late))
<1> DEFINE op == c.m_pending_interests[k]
           entered == Entering(c, op.generates)
           done == InterestDone(entered, op.id, op.context, op.caller)
           closed == [done EXCEPT !.m_pending_interests = Without(@, {k})]
           replayed == Replaying(closed, op.queued)
<1>1. Entries(op.generates) /\ HeldBack(op.queued)
  BY DEF Sound, IsOperation
<1>2. Finish(c, k, late) = c \/ Finish(c, k, late) = replayed
  BY DEF Finish, Entering, Replaying
<1> HIDE DEF op
<1>3. Sound(entered) /\ Agrees(g, entered)
  BY <1>1, EntrancesSound, EntrancesAgree
<1> HIDE DEF entered
<1>4. Sound(done) /\ Agrees(g, done)
  BY <1>3, DoneSound, DoneAgrees
<1> HIDE DEF done
<1>5. Sound(closed) /\ Silent(done, closed)
  BY <1>4, ClosingSound DEF Silent, Sound, ClientFields
<1> HIDE DEF closed
<1>6. Agrees(g, closed)
  BY <1>4, <1>5, SilentAgrees
<1>7. Agrees(g, replayed)
  BY <1>1, <1>5, <1>6, DatagramsAgree
<1> HIDE DEF replayed
<1>8. QED
  BY <1>2, <1>7

LEMMA FinishesAgree ==
  ASSUME NEW g, NEW c, Sound(c), Agrees(g, c), NEW s, Len(s) \in Nat
  PROVE  Agrees(g, Finishing(c, s))
<1>1. PICK f : /\ Finishing(c, s) = f[Len(s)]
               /\ f[0] = c
               /\ \A k \in 1..Len(s) : f[k] = FinishOpen(f[k - 1], s[k])
  BY FinishesInTurn
<1> DEFINE G == {k \in 0..Len(s) : Sound(f[k]) /\ Agrees(g, f[k])}
<1>2. 0 \in G
  BY <1>1
<1>3. ASSUME NEW k \in 1..Len(s), k - 1 \in G PROVE k \in G
  <2>1. f[k] = FinishOpen(f[k - 1], s[k]) /\ Sound(f[k - 1]) /\ Agrees(g, f[k - 1])
    BY <1>1, <1>3
  <2>2. CASE s[k] \in DOMAIN f[k - 1].m_pending_interests
    <3>1. f[k] = Finish(f[k - 1], s[k], FALSE)
      BY <2>1, <2>2 DEF FinishOpen
    <3>2. QED
      <4> DEFINE a == f[k - 1]
                 j == s[k]
      <4>1. /\ Sound(a) /\ Agrees(g, a) /\ j \in DOMAIN a.m_pending_interests
            /\ f[k] = Finish(a, j, FALSE)
        BY <2>1, <2>2, <3>1
      <4> HIDE DEF a, j
      <4>2. Sound(f[k]) /\ Agrees(g, f[k])
        BY <4>1, FinishSound, FinishAgrees
      <4>3. QED
        BY <4>2
  <2>3. CASE s[k] \notin DOMAIN f[k - 1].m_pending_interests
    BY <2>1, <2>3 DEF FinishOpen
  <2>4. QED
    BY <2>2, <2>3
<1> HIDE DEF G
<1>4. Len(s) \in G
  <2>1. \A k \in 0..Len(s) : k \in G
    BY <1>2, <1>3, Upwards
  <2>2. QED
    BY <2>1
<1>5. QED
  BY <1>1, <1>4 DEF G

LEMMA FinishIfReadyAgrees ==
  ASSUME NEW g, NEW c, Sound(c), Agrees(g, c), NEW k \in DOMAIN c.m_pending_interests
  PROVE  Agrees(g, FinishIfReady(c, k))
BY FinishAgrees DEF FinishIfReady

LEMMA AnswersAgree ==
  ASSUME NEW g, NEW c, Sound(c), Agrees(g, c), NEW m
  PROVE  /\ EntryMsg(m) => Agrees(g, HandleEnterInterest(c, m))
         /\ Agrees(g, HandleZonesCount(c, m))
<1> DEFINE k == m.context
           op == c.m_pending_interests[k]
<1>1. CASE k \notin DOMAIN c.m_pending_interests
  BY <1>1 DEF HandleEnterInterest, HandleZonesCount
<1>2. CASE k \in DOMAIN c.m_pending_interests
  <2>1. \A p, q : IsOperation(q) /\ Silent(c, p) /\ Sound(p) /\ p.m_pending_interests = c.m_pending_interests =>
          /\ Sound(Alter(p, k, q)) /\ Silent(c, Alter(p, k, q))
          /\ k \in DOMAIN Alter(p, k, q).m_pending_interests
    <3> SUFFICES ASSUME NEW p, NEW q, IsOperation(q), Silent(c, p), Sound(p),
                        p.m_pending_interests = c.m_pending_interests
                 PROVE  /\ Sound(Alter(p, k, q)) /\ Silent(c, Alter(p, k, q))
                        /\ k \in DOMAIN Alter(p, k, q).m_pending_interests
      OBVIOUS
    <3>1. Sound(Alter(p, k, q)) /\ k \in DOMAIN Alter(p, k, q).m_pending_interests
      BY <1>2, AlteringSound
    <3>2. Silent(p, Alter(p, k, q))
      BY DEF Silent, Alter, Sound, ClientFields
    <3>3. QED
      BY <3>1, <3>2 DEF Silent
  <2>2. IsOperation(op)
    BY <1>2 DEF Sound
  <2>3. ASSUME EntryMsg(m) PROVE Agrees(g, HandleEnterInterest(c, m))
    <3> DEFINE p == EmplacePending(c, m.doid, k)
               q == [op EXCEPT !.generates = Append(@, m)]
               e == [p EXCEPT !.m_pending_interests[k].generates = Append(@, m)]
    <3>1. IsOperation(q)
      BY <2>2, <2>3, EntriesMore DEF IsOperation, OperationFields
    <3>2. Sound(p) /\ p.m_pending_interests = c.m_pending_interests
      BY EmplacingSound
    <3>3. Silent(c, p)
      BY DEF EmplacePending, Silent, Sound, ClientFields
    <3>4. HandleEnterInterest(c, m) = FinishIfReady(e, k)
      BY <1>2 DEF HandleEnterInterest
    <3> HIDE DEF p
    <3>5. e = Alter(p, k, q)
      BY <3>2 DEF Alter, Sound, ClientFields
    <3> HIDE DEF q, e
    <3>6. Sound(e) /\ Silent(c, e) /\ k \in DOMAIN e.m_pending_interests
      BY <2>1, <3>1, <3>2, <3>3, <3>5
    <3>7. QED
      BY <3>4, <3>6, SilentAgrees, FinishIfReadyAgrees
  <2>4. Agrees(g, HandleZonesCount(c, m))
    <3> DEFINE q == [op EXCEPT !.total = IF @ = NoTotal THEN m.count ELSE @]
               e == [c EXCEPT !.m_pending_interests[k].total = IF @ = NoTotal THEN m.count ELSE @]
    <3>1. IsOperation(q)
      BY <2>2 DEF IsOperation, OperationFields
    <3>2. Silent(c, c)
      BY DEF Silent
    <3>3. HandleZonesCount(c, m) = FinishIfReady(e, k)
      BY <1>2 DEF HandleZonesCount
    <3>4. e = Alter(c, k, q)
      BY DEF Alter, Sound, ClientFields
    <3> HIDE DEF q, e
    <3>5. Sound(e) /\ Silent(c, e) /\ k \in DOMAIN e.m_pending_interests
      BY <2>1, <3>1, <3>2, <3>4
    <3>6. QED
      BY <3>3, <3>5, SilentAgrees, FinishIfReadyAgrees
  <2>5. QED
    BY <2>3, <2>4
<1>3. QED
  BY <1>1, <1>2

-----------------------------------------------------------------------------
(* The same of interests and of all else that a client receives.             *)
LEMMA ZonesAgree ==
  ASSUME NEW g, NEW c, Sound(c), Agrees(g, c), NEW p, NEW killed
  PROVE  Agrees(g, CloseZones(c, p, killed))
<1> DEFINE e == CloseZones(c, p, killed)
           gone == Within(c, p, killed)
           h == Hearing(g, c.told)
           n == Hearing(g, e.told)
<1>1. /\ IsFiniteSet(gone) /\ gone \subseteq c.m_seen_objects
      /\ e.m_seen_objects = c.m_seen_objects \ gone
      /\ e.m_historical_objects = c.m_historical_objects \cup gone
      /\ e.told = c.told \o Disables(gone)
  BY ClosingZones
<1>2. e.m_owned_objects = c.m_owned_objects
  BY ClosingZones DEF ClientFields
<1> HIDE DEF e, gone
<1>3. AgreesAs(h, c) /\ IsSequence(c.told)
  BY DEF Agrees, Sound
<1>4. /\ DOMAIN n = GameFields /\ DOMAIN n.shown = DOMAIN h.shown \ gone
      /\ n.met = h.met /\ n.owns = h.owns /\ n.confused = FALSE
  <2>1. /\ DOMAIN h = GameFields /\ gone \subseteq DOMAIN h.shown /\ h.confused = FALSE
    BY <1>1, <1>3 DEF AgreesAs
  <2>2. Turns(h, n, DOMAIN h.shown \ gone, h.met, h.owns, TRUE)
    BY <1>1, <1>3, <2>1, HearingDisables
  <2>3. QED
    BY <2>1, <2>2 DEF Turns
<1> HIDE DEF h
<1>5. AgreesAs(n, e)
  BY <1>1, <1>2, <1>3, <1>4 DEF AgreesAs
<1>6. QED
  BY <1>5 DEF Agrees, e

LEMMA ClosedAgrees ==
  ASSUME NEW g, NEW c, Sound(c), Agrees(g, c), NEW id, NEW i
  PROVE  Agrees(g, Closed(c, id, i))
BY ZonesAgree DEF Closed

LEMMA AddingAgrees ==
  ASSUME NEW g, NEW c, Sound(c), Agrees(g, c), NEW id, NEW i, NEW context, NEW caller, NEW timer
  PROVE  Agrees(g, AddInterest(c, id, i, context, caller, timer))
<1> DEFINE a == Closed(c, id, i)
           b == Noted(c, id, i)
           o == Opened(c, id, i, context, caller, timer)
           e == AddInterest(c, id, i, context, caller, timer)
           new == {LocationChannel(i.parent, z) : z \in NewZones(c, i)}
           op == Operation(id, context, i, NewZones(c, i), caller, timer)
<1>1. Sound(a) /\ Agrees(g, a)
  BY AlteringCloses, ClosedAgrees
<1>2. b = [a EXCEPT !.m_interests = With(@, id, i)]
  BY DEF Noted
<1>3. Sound(b)
  BY NotedSound
<1>4. o = [b EXCEPT !.m_next_context = @ + 1, !.m_pending_interests = With(@, b.m_next_context, op)]
  BY DEF Opened
<1>5. \/ e = InterestDone(b, id, context, caller)
      \/ \E s : e = Send(SubscribeChannels(o, new), s)
  BY AddingUnfolds
<1> HIDE DEF a, b, o, e, new, op
<1>6. Silent(a, b)
  BY <1>1, <1>2 DEF Silent, Sound, ClientFields
<1>7. Silent(b, o) /\ DOMAIN o = ClientFields
  BY <1>3, <1>4 DEF Silent, Sound, ClientFields
<1>8. \A s : Silent(o, Send(SubscribeChannels(o, new), s))
  BY <1>7 DEF Silent, Send, SubscribeChannels, ClientFields
<1>9. Agrees(g, b) /\ Agrees(g, o)
  BY <1>1, <1>6, <1>7, SilentAgrees
<1>10. Agrees(g, e)
  BY <1>3, <1>5, <1>8, <1>9, SilentAgrees, DoneAgrees
<1>11. QED
  BY <1>10 DEF e

LEMMA RemovingAgrees ==
  ASSUME NEW g, NEW c, Sound(c), Agrees(g, c), NEW id, NEW i, NEW context, NEW caller
  PROVE  Agrees(g, RemoveInterest(c, id, i, context, caller))
<1> DEFINE killed == Killed(c, i)
           a == CloseZones(c, i.parent, killed)
           b == Notify(a, id, caller)
           msg == Done(id, context)
           d == Tell(b, msg)
           e == RemoveInterest(c, id, i, context, caller)
<1>1. e = [d EXCEPT !.m_interests = Without(@, {id})]
  BY DEF RemoveInterest, Killed
<1> HIDE DEF killed, e
<1>2. Sound(a) /\ Agrees(g, a)
  BY ClosingZones, ZonesAgree
<1> HIDE DEF a
<1>3. Sound(b) /\ Agrees(g, b)
  <2>1. b = a \/ \E s : b = Send(a, s)
    BY DEF Notify
  <2>2. \A s : Silent(a, Send(a, s)) /\ Sound(Send(a, s))
    BY <1>2, SendingSound DEF Silent, Send, Sound, ClientFields
  <2> HIDE DEF b
  <2>3. QED
    BY <1>2, <2>1, <2>2, SilentAgrees
<1> HIDE DEF b
<1>4. msg.kind \in Formalities
  BY DEF Done, Formalities
<1> HIDE DEF msg
<1>5. Sound(d) /\ Agrees(g, d)
  BY <1>3, <1>4, TellingSound, TellOtherAgrees
<1> HIDE DEF d
<1>6. Silent(d, e)
  BY <1>1, <1>5 DEF Silent, Sound, ClientFields
<1>7. Agrees(g, e)
  BY <1>5, <1>6, SilentAgrees
<1>8. QED
  BY <1>7 DEF e

LEMMA RequestsAgree ==
  ASSUME NEW g, NEW c, Sound(c), Agrees(g, c), NEW m, NEW timer
  PROVE  /\ Agrees(g, HandleAddInterest(c, m, timer))
         /\ Agrees(g, HandleRemoveInterest(c, m))
<1>1. Agrees(g, HandleAddInterest(c, m, timer))
  <2> DEFINE a == [c EXCEPT !.m_next_context = @ + 1]
             msg == [kind |-> "add_interest", id |-> m.id, context |-> c.m_next_context]
             b == Tell(a, msg)
  <2>1. HandleAddInterest(c, m, timer) = AddInterest(b, m.id, m.interest, c.m_next_context, m.sender, timer)
    BY DEF HandleAddInterest
  <2>2. Sound(a) /\ Silent(c, a)
    <3>1. a.m_next_context = c.m_next_context + 1 /\ c.m_next_context \in Nat \ {0}
      BY DEF Sound, ClientFields
    <3>2. \A l \in 1..(c.m_next_context - 1) : l \in 1..(c.m_next_context + 1 - 1)
      BY <3>1
    <3>3. QED
      BY <3>1, <3>2 DEF Sound, Silent, ClientFields
  <2>3. msg.kind \in Formalities
    BY DEF Formalities
  <2> HIDE DEF a, msg
  <2>4. Sound(b) /\ Agrees(g, b)
    BY <2>2, <2>3, SilentAgrees, TellingSound, TellOtherAgrees
  <2> HIDE DEF b
  <2>5. QED
    BY <2>1, <2>4, AddingAgrees
<1>2. Agrees(g, HandleRemoveInterest(c, m))
  <2> DEFINE there == m.id \in DOMAIN c.m_interests
             i == IF there THEN c.m_interests[m.id] ELSE [parent |-> 0, zones |-> {}]
             k == IF there THEN m.id ELSE 0
             a == [c EXCEPT !.m_next_context = @ + 1, !.m_interests = With(@, m.id, i)]
             msg == [kind |-> "remove_interest", id |-> m.id]
             b == Tell(a, msg)
  <2>1. HandleRemoveInterest(c, m) = RemoveInterest(b, k, i, c.m_next_context, m.sender)
    BY DEF HandleRemoveInterest
  <2>2. Sound(a) /\ Silent(c, a)
    <3>1. a.m_next_context = c.m_next_context + 1 /\ c.m_next_context \in Nat \ {0}
      BY DEF Sound, ClientFields
    <3>2. \A l \in 1..(c.m_next_context - 1) : l \in 1..(c.m_next_context + 1 - 1)
      BY <3>1
    <3>3. QED
      BY <3>1, <3>2 DEF Sound, Silent, ClientFields
  <2>3. msg.kind \in Formalities
    BY DEF Formalities
  <2> HIDE DEF a, msg, i, k
  <2>4. Sound(b) /\ Agrees(g, b)
    BY <2>2, <2>3, SilentAgrees, TellingSound, TellOtherAgrees
  <2> HIDE DEF b
  <2>5. QED
    BY <2>1, <2>4, RemovingAgrees
<1>3. QED
  BY <1>1, <1>2

LEMMA EnterOwnerAgrees ==
  ASSUME NEW g, NEW c, Sound(c), Agrees(g, c), NEW m
  PROVE  Agrees(g, HandleEnterOwner(c, m))
<1> DEFINE d == m.doid
           msg == [kind |-> "enter_owner", doid |-> d]
           e == HandleEnterOwner(c, m)
<1>1. /\ e.told = Append(c.told, msg) /\ e.m_seen_objects = c.m_seen_objects
      /\ DOMAIN e.m_owned_objects = DOMAIN c.m_owned_objects \cup {d}
      /\ e.m_historical_objects = c.m_historical_objects
  BY DEF HandleEnterOwner, Tell, Sound, ClientFields, With
<1> HIDE DEF e
<1>2. ASSUME NEW h, AgreesAs(h, c) PROVE AgreesAs(Hear(h, msg), e)
  <2>1. Turns(h, Hear(h, msg), DOMAIN h.shown, h.met, h.owns \cup {d}, TRUE)
    BY <1>2, HearEnterOwner DEF AgreesAs
  <2> HIDE DEF msg, d
  <2>2. QED
    BY <1>1, <1>2, <2>1 DEF AgreesAs, Turns
<1> HIDE DEF msg
<1>3. Agrees(g, e)
  BY <1>1, <1>2, TellAgrees DEF Sound
<1>4. QED
  BY <1>3 DEF e

LEMMA ChangingOwnerAgrees ==
  ASSUME NEW g, NEW c, Sound(c), Agrees(g, c), NEW m
  PROVE  Agrees(g, HandleChangingOwner(c, m))
<1> DEFINE d == m.doid
           msg == [kind |-> "disable_owner", doid |-> d]
           e == Tell([c EXCEPT !.m_owned_objects = Without(@, {d})], msg)
<1>1. \/ HandleChangingOwner(c, m) \in {c, Eject(c)}
      \/ d \in DOMAIN c.m_owned_objects /\ HandleChangingOwner(c, m) = e
  BY DEF HandleChangingOwner
<1>2. /\ e.told = Append(c.told, msg) /\ e.m_seen_objects = c.m_seen_objects
      /\ DOMAIN e.m_owned_objects = DOMAIN c.m_owned_objects \ {d}
      /\ e.m_historical_objects = c.m_historical_objects
  BY DEF Tell, Sound, ClientFields, Without
<1> HIDE DEF e
<1>3. ASSUME d \in DOMAIN c.m_owned_objects PROVE Agrees(g, e)
  <2>1. ASSUME NEW h, AgreesAs(h, c) PROVE AgreesAs(Hear(h, msg), e)
    <3>1. Turns(h, Hear(h, msg), DOMAIN h.shown, h.met, h.owns \ {d}, d \in h.owns)
      BY <2>1, HearDisableOwner DEF AgreesAs
    <3> HIDE DEF msg, d
    <3>2. QED
      BY <1>2, <1>3, <2>1, <3>1 DEF AgreesAs, Turns
  <2> HIDE DEF msg
  <2>2. QED
    BY <1>2, <2>1, TellAgrees DEF Sound
<1>4. QED
  BY <1>1, <1>3, EjectAgrees

LEMMA DatagramAgrees ==
  ASSUME NEW g, NEW s, NEW c, Sound(c), Agrees(g, c), NEW m, Fit(s, m), NEW timer
  PROVE  Agrees(g, HandleDatagram(c, m, timer))
<1>1. \/ HandleDatagram(c, m, timer) \in
           {c, HandleZonesCount(c, m), HandleEnterOwner(c, m), HandleChangingOwner(c, m),
            HandleSessionObject(c, m), HandleSetClientId(c, m), HandleAddInterest(c, m, timer),
            HandleRemoveInterest(c, m)}
      \/ EntryMsg(m) /\ HandleDatagram(c, m, timer) = HandleEnterInterest(c, m)
      \/ ObjectMsg(m) /\ HandleDatagram(c, m, timer) = HandleObjectDatagram(c, m)
  BY DEF HandleDatagram, Fit, ObjectKinds, OtherKinds
<1>2. Agrees(g, HandleSessionObject(c, m)) /\ Agrees(g, HandleSetClientId(c, m))
  <2>1. Silent(c, HandleSessionObject(c, m))
    BY DEF HandleSessionObject, Silent, Sound, ClientFields
  <2>2. Silent(c, HandleSetClientId(c, m))
    BY DEF HandleSetClientId, SubscribeChannels, UnsubscribeChannels, Send, Silent, Sound, ClientFields
  <2>3. QED
    BY <2>1, <2>2, SilentAgrees
<1>3. QED
  BY <1>1, <1>2, AnswersAgree, EnterOwnerAgrees, ChangingOwnerAgrees, RequestsAgree, ObjectDatagramAgrees

LEMMA AnnihilationAgrees ==
  ASSUME NEW g, NEW c, Sound(c), Agrees(g, c)
  PROVE  Agrees(g, Annihilate(c))
<1> DEFINE quit == UnsubscribeChannels(c, c.subscribed)
           bare == [quit EXCEPT !.m_owned_objects = Empty]
           msgs == ForEach(DOMAIN c.m_owned_objects, LAMBDA d : [kind |-> "delete", doid |-> d])
           left == Send(bare, msgs)
           contexts == [n \in 1..(c.m_next_context - 1) |-> c.m_next_context - n]
           after == Finishing(left, contexts)
           e == Annihilate(c)
<1>1. e = IF c.terminated THEN c ELSE [after EXCEPT !.terminated = TRUE]
  BY DEF Annihilate, Finishing
<1>2. Sound(quit) /\ Silent(c, quit)
  <2>1. Sound(quit)
    BY SubscribingSound
  <2>2. QED
    BY <2>1 DEF UnsubscribeChannels, Send, Silent, Sound, ClientFields
<1> HIDE DEF quit
<1>3. Sound(bare) /\ Silent(quit, bare)
  BY <1>2 DEF Sound, Silent, ClientFields, Empty
<1> HIDE DEF bare, msgs
<1>4. Sound(left) /\ Silent(bare, left)
  BY <1>3, SendingSound DEF Silent, Send, Sound, ClientFields
<1>5. Agrees(g, left)
  BY <1>2, <1>3, <1>4, SilentAgrees
<1>6. Len(contexts) \in Nat
  <2>1. c.m_next_context - 1 \in Nat
    BY DEF Sound
  <2>2. QED
    BY <2>1
<1> HIDE DEF left, contexts
<1>7. Sound(after) /\ Agrees(g, after)
  BY <1>4, <1>5, <1>6, FinishesSound, FinishesAgree
<1> HIDE DEF after
<1>8. Silent(after, [after EXCEPT !.terminated = TRUE])
  BY <1>7 DEF Silent, Sound, ClientFields
<1>9. QED
  BY <1>1, <1>7, <1>8, SilentAgrees

-----------------------------------------------------------------------------
(* The invariant: of the client and the game,                                *)
Sane ==
  /\ scenario \in Scenarios
  /\ Sound(client) /\ client.told = <<>> /\ client.sent = <<>>
  /\ DOMAIN client.m_interests \subseteq scenario.ids
  /\ ZeroIsFree(scenario) /\ ~client.terminated => Interested(client)
  /\ Agrees(game, client)

(* and of the objects and what is under way from them.                       *)
ObjectsSane ==
  \A d \in DOMAIN objs :
    /\ d \in Doid
    /\ DOMAIN objs[d] = {"location", "value", "owner"}
    /\ objs[d].location \in Location

Carries(s, q) == \E S : q \in Seq(S) /\ \A m \in S : Fit(s, m)

Inv == Sane /\ ObjectsSane /\ Carries(scenario, down)

LEMMA ClientChannels == \A k : ClientChannel(k) \notin Location
BY ClientAssumption DEF ClientChannel, Location

LEMMA InitInv == Init => Inv
<1> SUFFICES ASSUME Init PROVE Inv
  OBVIOUS
<1>1. scenario \in Scenarios
  BY DEF Init
<1>2. /\ DOMAIN client = ClientFields
      /\ client.m_seen_objects = {} /\ client.m_visible_objects = Empty
      /\ client.m_next_context = 1 /\ client.m_pending_interests = Empty
      /\ client.m_interests = Empty /\ client.m_historical_objects = {}
      /\ client.told = <<>> /\ client.sent = <<>>
      /\ client.m_channel = ClientChannel(1) /\ client.m_allocated_channel = ClientChannel(1)
      /\ client.subscribed = {ClientChannel(1)} /\ DOMAIN client.m_owned_objects = scenario.owned
  BY DEF Init, NewClient, ClientFields
<1>3. DOMAIN Empty = {}
  BY DEF Empty
<1>4. IsSequence(<<>>)
  <2> DEFINE none == {}
  <2>1. <<>> \in Seq(none)
    OBVIOUS
  <2> HIDE DEF none
  <2>2. QED
    BY <2>1 DEF IsSequence
<1>5. Sound(client)
  <2>1. IsFiniteSet(client.m_seen_objects)
    BY <1>2, FS_EmptySet
  <2>2. QED
    BY <1>2, <1>3, <1>4, <2>1 DEF Sound
<1>6. DOMAIN client.m_interests \subseteq scenario.ids
  BY <1>2, <1>3
<1>7. Interested(client)
  <2>1. IsFiniteSet(DOMAIN client.m_interests)
    BY <1>2, <1>3, FS_EmptySet
  <2>2. QED
    BY <1>2, <1>3, <2>1, ClientChannels DEF Interested
<1>8. Agrees(game, client)
  <2>1. Hearing(game, client.told) = game
    BY <1>2, HearingNothing
  <2>2. /\ DOMAIN game = GameFields /\ game.shown = Empty /\ game.met = {}
        /\ game.owns = scenario.owned /\ game.confused = FALSE
    BY DEF Init, GameFields
  <2>3. QED
    BY <1>2, <1>3, <2>1, <2>2 DEF Agrees, AgreesAs
<1>9. ObjectsSane
  <2>1. /\ scenario.objects \in [DOMAIN scenario.objects -> Location]
        /\ DOMAIN scenario.objects \subseteq Doid
    BY <1>1, ClientVisibilityAssumption
  <2>2. /\ DOMAIN objs = DOMAIN scenario.objects
        /\ \A d \in DOMAIN objs : 
             objs[d] = [location |-> scenario.objects[d], value |-> FirstValue, owner |-> StartOwner(d)]
    BY DEF Init
  <2>3. ASSUME NEW d \in DOMAIN objs
        PROVE  d \in Doid /\ DOMAIN objs[d] = {"location", "value", "owner"} /\ objs[d].location \in Location
    <3>1. objs[d] = [location |-> scenario.objects[d], value |-> FirstValue, owner |-> StartOwner(d)]
      BY <2>2
    <3>2. d \in Doid /\ scenario.objects[d] \in Location
      BY <2>1, <2>2
    <3>3. QED
      BY <3>1, <3>2
  <2>4. QED
    BY <2>3 DEF ObjectsSane
<1>10. Carries(scenario, down)
  <2> DEFINE none == {}
  <2>1. down \in Seq(none) /\ \A m \in none : Fit(scenario, m)
    BY DEF Init
  <2> HIDE DEF none
  <2>2. QED
    BY <2>1 DEF Carries
<1>11. QED
  BY <1>1, <1>2, <1>5, <1>6, <1>7, <1>8, <1>9, <1>10 DEF Inv, Sane

-----------------------------------------------------------------------------
(* Whatever the client has handled, the game hears of it.                    *)
LEMMA Handling ==
  ASSUME Sane, NEW g, NEW e, Sound(e), Agrees(g, e), DOMAIN e.m_interests \subseteq scenario.ids,
         ZeroIsFree(scenario) /\ ~e.terminated => Interested(e),
         scenario' = scenario, client' = [e EXCEPT !.told = <<>>, !.sent = <<>>],
         game' = InTurn(Hear, g, e.told)
  PROVE  Sane'
<1>1. IsSequence(<<>>)
  <2> DEFINE none == {}
  <2>1. <<>> \in Seq(none)
    OBVIOUS
  <2> HIDE DEF none
  <2>2. QED
    BY <2>1 DEF IsSequence
<1> DEFINE c == [e EXCEPT !.told = <<>>, !.sent = <<>>]
<1>2. Sound(c) /\ c.told = <<>> /\ c.sent = <<>> /\ SameInterests(e, c)
  BY <1>1 DEF Sound, SameInterests, ClientFields
<1>3. ZeroIsFree(scenario) /\ ~c.terminated => Interested(c)
  BY <1>2, SameIsInterested DEF SameInterests
<1>4. DOMAIN c.m_interests \subseteq scenario.ids
  BY <1>2 DEF SameInterests
<1>5. /\ c.m_seen_objects = e.m_seen_objects /\ c.m_owned_objects = e.m_owned_objects
      /\ c.m_historical_objects = e.m_historical_objects
  BY DEF Sound, ClientFields
<1> HIDE DEF c
<1>6. Agrees(game', c)
  <2>1. game' = Hearing(g, e.told)
    BY DEF Hearing
  <2>2. AgreesAs(game', e)
    BY <2>1 DEF Agrees
  <2>3. Hearing(game', c.told) = game'
    BY <1>2, HearingNothing
  <2>4. QED
    BY <1>5, <2>2, <2>3 DEF Agrees, AgreesAs
<1>7. client' = c
  BY DEF c
<1>8. scenario \in Scenarios
  BY DEF Sane
<1>9. QED
  BY <1>2, <1>3, <1>4, <1>6, <1>7, <1>8 DEF Sane

\* What a datagram or the end of an operation makes of the client.
LEMMA HandlingKeeps ==
  ASSUME Sane, NEW e, Keeps(scenario, client, e), Agrees(game, e),
         scenario' = scenario, Handled(e)
  PROVE  Sane'
<1>1. Sound(e) /\ DOMAIN e.m_interests \subseteq scenario.ids
  BY DEF Keeps, Sane
<1>2. ZeroIsFree(scenario) /\ ~e.terminated => Interested(e)
  BY DEF Keeps, Sane
<1>3. client' = [e EXCEPT !.told = <<>>, !.sent = <<>>] /\ game' = InTurn(Hear, game, e.told)
  BY DEF Handled
<1>4. QED
  BY <1>1, <1>2, <1>3, Handling

LEMMA FinishKeeps ==
  ASSUME Sane, NEW k \in DOMAIN client.m_pending_interests, NEW late
  PROVE  Keeps(scenario, client, Finish(client, k, late)) /\ Agrees(game, Finish(client, k, late))
BY FinishSound, KeepingSame, FinishAgrees DEF Sane

LEMMA TimersSound ==
  ASSUME NEW g, NEW c, Sound(c), Agrees(g, c)
  PROVE  /\ Sound(MakeTimers(c)) /\ SameInterests(c, MakeTimers(c)) /\ Agrees(g, MakeTimers(c))
         /\ MakeTimers(c).told = c.told /\ MakeTimers(c).sent = c.sent
<1> DEFINE e == MakeTimers(c)
           p == [k \in DOMAIN c.m_pending_interests |->
                   IF k \in posted THEN [c.m_pending_interests[k] EXCEPT !.timer = "armed"]
                   ELSE c.m_pending_interests[k]]
<1>1. /\ DOMAIN e = ClientFields /\ e.m_pending_interests = p
      /\ \A x \in ClientFields \ {"m_pending_interests", "dangling"} : e[x] = c[x]
  BY DEF MakeTimers, Sound, ClientFields
<1> HIDE DEF e
<1>2. \A k \in DOMAIN p : k \in DOMAIN c.m_pending_interests /\ IsOperation(p[k])
  BY DEF Sound, IsOperation, OperationFields
<1> HIDE DEF p
<1>3. Sound(e)
  BY <1>1, <1>2 DEF Sound, ClientFields
<1>4. SameInterests(c, e) /\ Silent(c, e) /\ e.told = c.told /\ e.sent = c.sent
  BY <1>1 DEF SameInterests, Silent, ClientFields
<1>5. QED
  BY <1>3, <1>4, SilentAgrees DEF e

-----------------------------------------------------------------------------
(* The steps.                                                                *)
LEMMA GameAddsSane ==
  ASSUME Sane, NEW id \in scenario.ids, NEW i \in scenario.interests, GameAddsInterest(id, i)
  PROVE  Sane'
<1> DEFINE g == [game EXCEPT !.waiting = @ \cup {-requests - 1}]
           added == AddInterest(client, id, i, -requests - 1, client.m_channel, "armed")
<1>1. PICK e \in {added, MakeTimers(added)} :
        /\ client' = [e EXCEPT !.told = <<>>, !.sent = <<>>]
        /\ game' = InTurn(Hear, g, e.told)
  <2> DEFINE opens == added.m_next_context # client.m_next_context
             Left(c) == /\ client' = [c EXCEPT !.told = <<>>, !.sent = <<>>]
                        /\ game' = InTurn(Hear, g, c.told)
  <2>1. \E c \in {IF opens THEN MakeTimers(added) ELSE added} : Left(c)
    BY DEF GameAddsInterest
  <2> HIDE DEF added, opens, Left
  <2>2. \E c \in {added, MakeTimers(added)} : Left(c)
    BY <2>1
  <2>3. QED
    BY <2>2 DEF Left
<1>2. Sound(client) /\ Agrees(g, client) /\ scenario \in Scenarios
  <2>1. AgreesAs(game, client) /\ client.told = <<>>
    BY HearingNothing DEF Sane, Agrees
  <2>2. AgreesAs(g, client)
    BY <2>1 DEF AgreesAs, GameFields
  <2>3. QED
    BY <2>1, <2>2, HearingNothing DEF Agrees, Sane
<1> HIDE DEF g
<1>3. IsInterest(i)
  BY <1>2, ClientVisibilityAssumption DEF IsInterest
<1>4. Sound(added) /\ Agrees(g, added)
  BY <1>2, AddingSound, AddingAgrees
<1>5. added.m_interests = With(client.m_interests, id, i) /\ added.terminated = client.terminated
  <2>1. /\ added.m_interests = With(client.m_interests, id, i)
        /\ \A x \in {"m_channel", "m_allocated_channel", "terminated", "m_accept_messages"} : added[x] = client[x]
    BY <1>2, AddingSound
  <2> HIDE DEF added
  <2>2. QED
    BY <2>1
<1>6. Interested(client) => Interested(added)
  BY <1>2, <1>3, AddingListens
<1> HIDE DEF added
<1>7. DOMAIN added.m_interests \subseteq scenario.ids
  BY <1>5 DEF With, Sane
<1>8. Sound(e) /\ Agrees(g, e) /\ SameInterests(added, e)
  BY <1>4, TimersSound DEF SameInterests
<1>9. DOMAIN e.m_interests \subseteq scenario.ids
  BY <1>7, <1>8 DEF SameInterests
<1>10. ZeroIsFree(scenario) /\ ~e.terminated => Interested(e)
  BY <1>5, <1>6, <1>8, SameIsInterested DEF SameInterests, Sane
<1>11. scenario' = scenario
  BY DEF GameAddsInterest
<1>12. QED
  BY <1>1, <1>8, <1>9, <1>10, <1>11, Handling

LEMMA GameRemovesSane ==
  ASSUME Sane, NEW id \in scenario.ids, GameRemovesInterest(id)
  PROVE  Sane'
<1> DEFINE i == client.m_interests[id]
           e == IF id \in DOMAIN client.m_interests
                THEN RemoveInterest(client, id, i, 0, NoCaller) ELSE Eject(client)
<1>1. Sound(client) /\ Agrees(game, client)
  BY DEF Sane
<1>2. CASE id \in DOMAIN client.m_interests
  <2> DEFINE r == RemoveInterest(client, id, i, 0, NoCaller)
  <2>1. Sound(r) /\ Removed(client, id, i, r) /\ Agrees(game, r)
    BY <1>1, RemovingSound, RemovingAgrees
  <2>2. Interested(client) => Interested(r)
    BY <1>1, <1>2, RemovingListens
  <2>3. e = r
    BY <1>2
  <2> HIDE DEF r, e
  <2>4. Keeps(scenario, client, r)
    BY <2>1, <2>2 DEF Keeps, Removed, Without
  <2>5. Handled(r) /\ scenario' = scenario
    BY <2>3 DEF GameRemovesInterest, e
  <2>6. QED
    BY <2>1, <2>4, <2>5, HandlingKeeps
<1>3. CASE id \notin DOMAIN client.m_interests
  <2>1. Sound(Eject(client)) /\ SameInterests(client, Eject(client))
    BY <1>1, TellingSound DEF Eject
  <2>2. Keeps(scenario, client, Eject(client)) /\ Agrees(game, Eject(client))
    BY <1>1, <2>1, KeepingSame, EjectAgrees
  <2>3. Handled(Eject(client)) /\ scenario' = scenario
    BY <1>3 DEF GameRemovesInterest
  <2>4. QED
    BY <2>2, <2>3, HandlingKeeps
<1>4. QED
  BY <1>2, <1>3

LEMMA DisconnectSane == Sane /\ Disconnect => Sane'
<1> SUFFICES ASSUME Sane, Disconnect PROVE Sane'
  OBVIOUS
<1> DEFINE e == Annihilate(client)
<1>1. Sound(client) /\ Agrees(game, client)
  BY DEF Sane
<1>2. Sound(e) /\ e.terminated = TRUE /\ e.m_interests = client.m_interests /\ Agrees(game, e)
  BY <1>1, AnnihilationSound, AnnihilationAgrees
<1>3. /\ scenario' = scenario /\ client' = [e EXCEPT !.told = <<>>, !.sent = <<>>]
      /\ game' = InTurn(Hear, game, e.told)
  BY DEF Disconnect, Handled
<1> HIDE DEF e
<1>4. QED
  BY <1>2, <1>3, Handling DEF Sane

LEMMA HeadFits ==
  ASSUME NEW s, NEW q, Carries(s, q), q # <<>>
  PROVE  Fit(s, Head(q)) /\ Carries(s, Tail(q))
<1>1. PICK S : q \in Seq(S) /\ \A m \in S : Fit(s, m)
  BY DEF Carries
<1>2. Head(q) \in S /\ Tail(q) \in Seq(S)
  BY <1>1
<1>3. QED
  BY <1>1, <1>2 DEF Carries

LEMMA TakeDatagramSane == Inv /\ TakeDatagram => Sane' /\ Carries(scenario, down)'
<1> SUFFICES ASSUME Inv, TakeDatagram PROVE Sane' /\ Carries(scenario, down)'
  OBVIOUS
<1>1. PICK timer \in {"none", "armed"} :
        /\ down # <<>> /\ down' = Tail(down) /\ scenario' = scenario
        /\ Handled(HandleDatagram(client, Head(down), timer)) \/ (client' = client /\ game' = game)
  <2>1. \/ Handled(HandleDatagram(client, Head(down), IF Threaded THEN "none" ELSE "armed"))
        \/ UNCHANGED <<client, game, up, posted>>
    BY DEF TakeDatagram
  <2>2. down # <<>> /\ down' = Tail(down) /\ scenario' = scenario
    BY DEF TakeDatagram
  <2>3. CASE Threaded
    BY <2>1, <2>2, <2>3
  <2>4. CASE ~Threaded
    BY <2>1, <2>2, <2>4
  <2>5. QED
    BY <2>3, <2>4
<1> DEFINE e == HandleDatagram(client, Head(down), timer)
<1>2. Fit(scenario, Head(down)) /\ Carries(scenario, Tail(down))
  BY <1>1, HeadFits DEF Inv
<1>3. Keeps(scenario, client, e) /\ Agrees(game, e)
  BY <1>2, DatagramSound, DatagramAgrees DEF Inv, Sane
<1> HIDE DEF e
<1>4. Sane'
  <2>1. CASE Handled(e)
    BY <1>1, <1>3, <2>1, HandlingKeeps DEF Inv
  <2>2. CASE client' = client /\ game' = game
    BY <1>1, <2>2 DEF Inv, Sane
  <2>3. QED
    BY <1>1, <2>1, <2>2 DEF e
<1>5. QED
  BY <1>1, <1>2, <1>4

LEMMA MakeTimerSane == Sane /\ MakeTimer => Sane'
<1> SUFFICES ASSUME Sane, MakeTimer PROVE Sane'
  OBVIOUS
<1> DEFINE e == MakeTimers(client)
<1>1. client' = e /\ game' = game /\ scenario' = scenario
  BY DEF MakeTimer
<1>2. /\ Sound(e) /\ SameInterests(client, e) /\ Agrees(game, e)
      /\ e.told = client.told /\ e.sent = client.sent
  BY TimersSound DEF Sane
<1> HIDE DEF e
<1>3. ZeroIsFree(scenario) /\ ~e.terminated => Interested(e)
  BY <1>2, SameIsInterested DEF Sane, SameInterests
<1>4. QED
  BY <1>1, <1>2, <1>3 DEF Sane, SameInterests

\* A timer that waits for the lock, or has got it, concerns nobody else.
LEMMA TimingOut ==
  ASSUME NEW c, Sound(c), NEW k
  PROVE  LET e == [c EXCEPT !.timing_out = k]
         IN  /\ Sound(e) /\ SameInterests(c, e) /\ Silent(c, e)
             /\ e.sent = c.sent /\ e.m_pending_interests = c.m_pending_interests
BY DEF Sound, SameInterests, Silent, ClientFields

LEMMA TimerFiresSane ==
  ASSUME Sane, NEW k \in DOMAIN client.m_pending_interests, TimerFires(k)
  PROVE  Sane'
<1>1. CASE Threaded
  <2> DEFINE e == [client EXCEPT !.timing_out = k]
  <2>1. client' = e /\ game' = game /\ scenario' = scenario
    BY <1>1 DEF TimerFires
  <2>2. Sound(e) /\ SameInterests(client, e) /\ Silent(client, e) /\ e.sent = client.sent
    BY TimingOut DEF Sane
  <2> HIDE DEF e
  <2>3. Agrees(game, e)
    BY <2>2, SilentAgrees DEF Sane
  <2>4. ZeroIsFree(scenario) /\ ~e.terminated => Interested(e)
    BY <2>2, SameIsInterested DEF Sane, SameInterests
  <2>5. QED
    BY <2>1, <2>2, <2>3, <2>4 DEF Sane, SameInterests, Silent
<1>2. CASE ~Threaded
  <2>1. Handled(Finish(client, k, TRUE)) /\ scenario' = scenario
    BY <1>2 DEF TimerFires
  <2>2. QED
    BY <2>1, FinishKeeps, HandlingKeeps
<1>3. QED
  BY <1>1, <1>2

LEMMA TimeoutSane ==
  ASSUME Sane, NEW k, Timeout(k)
  PROVE  Sane'
<1> DEFINE c == [client EXCEPT !.timing_out = 0]
           e == Finish(c, k, TRUE)
<1>1. Handled(e) /\ scenario' = scenario /\ k \in DOMAIN client.m_pending_interests
  BY DEF Timeout
<1>2. /\ Sound(c) /\ SameInterests(client, c) /\ Silent(client, c)
      /\ k \in DOMAIN c.m_pending_interests
  BY <1>1, TimingOut DEF Sane
<1> HIDE DEF c
<1>3. Agrees(game, c)
  BY <1>2, SilentAgrees DEF Sane
<1>4. Sound(e) /\ SameInterests(c, e) /\ Agrees(game, e)
  BY <1>2, <1>3, FinishSound, FinishAgrees
<1> HIDE DEF e
<1>5. Keeps(scenario, client, e)
  BY <1>2, <1>4, KeepingSame DEF SameInterests
<1>6. QED
  BY <1>1, <1>4, <1>5, HandlingKeeps

\* What the cluster sends is fit for the client.
LEMMA CarriesRouted ==
  ASSUME NEW s, NEW q, Carries(s, q), NEW m, Fit(s, m)
  PROVE  Carries(s, q \o Routed(m))
<1>1. PICK S : q \in Seq(S) /\ \A x \in S : Fit(s, x)
  BY DEF Carries
<1> DEFINE T == S \cup {m}
<1>2. q \in Seq(T) /\ \A x \in T : Fit(s, x)
  BY <1>1, SeqMonotonic
<1>3. Routed(m) \in Seq(T)
  <2>1. m \in T
    OBVIOUS
  <2> HIDE DEF T
  <2>2. <<m>> \in Seq(T) /\ <<>> \in Seq(T)
    BY <2>1
  <2>3. QED
    BY <2>2 DEF Routed
<1> HIDE DEF T
<1>4. q \o Routed(m) \in Seq(T)
  BY <1>2, <1>3, ConcatProperties
<1>5. QED
  BY <1>2, <1>4 DEF Carries

LEMMA EmitCarries ==
  ASSUME NEW s, Carries(s, down), NEW m, Fit(s, m), Emit(m)
  PROVE  Carries(s, down')
BY CarriesRouted DEF Emit

LEMMA EmitBothCarries ==
  ASSUME NEW s, Carries(s, down), NEW m, Fit(s, m), NEW n, Fit(s, n), EmitBoth(m, n)
  PROVE  Carries(s, down')
BY CarriesRouted DEF EmitBoth

LEMMA EntryFits ==
  ASSUME NEW s, ObjectsSane, NEW kind \in {"enter_interest", "enter_location", "enter_owner"},
         NEW d \in DOMAIN objs, NEW to, NEW context
  PROVE  Fit(s, Entry(kind, d, to, context))
<1> DEFINE m == Entry(kind, d, to, context)
<1>1. m.kind = kind /\ m.doid \in Doid /\ m.location \in Location
  BY DEF Entry, ObjectsSane
<1> HIDE DEF m
<1>2. QED
  BY <1>1 DEF Fit, ObjectMsg, EntryMsg, ObjectKinds, OtherKinds, m

LEMMA TakeRequestSane ==
  ObjectsSane /\ Carries(scenario, down) /\ TakeRequest => ObjectsSane' /\ Carries(scenario, down)'
<1> SUFFICES ASSUME ObjectsSane, Carries(scenario, down), TakeRequest
             PROVE  ObjectsSane' /\ Carries(scenario, down)'
  OBVIOUS
<1> DEFINE msg == Head(up)
           count == [kind |-> "zones_count", to |-> {msg.sender}, context |-> msg.context,
                     count |-> Cardinality(Children(msg))]
<1>1. scenario' = scenario
  BY DEF TakeRequest
<1>2. /\ objs' \in {objs, Without(objs, {msg.doid})}
      /\ down' = down \/ Emit(count)
  BY DEF TakeRequest, world
<1>3. Fit(scenario, count)
  <2>1. count.kind = "zones_count"
    OBVIOUS
  <2> HIDE DEF count
  <2>2. QED
    BY <2>1 DEF Fit, ObjectKinds, OtherKinds
<1> HIDE DEF count
<1>4. ObjectsSane'
  BY <1>2 DEF ObjectsSane, Without
<1>5. QED
  BY <1>1, <1>2, <1>3, <1>4, EmitCarries

LEMMA AnswerSane ==
  ASSUME ObjectsSane, Carries(scenario, down), NEW q, NEW d, Answer(q, d)
  PROVE  Carries(scenario, down)'
<1>1. scenario' = scenario
  BY DEF Answer
<1>2. CASE d \in Children(q)
  <2>1. PICK kind \in {"enter_interest", "enter_location"} : Emit(Entry(kind, d, {q.sender}, q.context))
    BY <1>2 DEF Answer
  <2>2. d \in DOMAIN objs
    BY <1>2 DEF Children
  <2>3. QED
    BY <1>1, <2>1, <2>2, EntryFits, EmitCarries
<1>3. CASE d \notin Children(q)
  BY <1>1, <1>3 DEF Answer
<1>4. QED
  BY <1>2, <1>3

LEMMA GenerateSane ==
  ASSUME ObjectsSane, Carries(scenario, down), NEW d \in Doid, NEW loc \in Location, Generate(d, loc)
  PROVE  ObjectsSane' /\ Carries(scenario, down)'
<1> DEFINE msg == [kind |-> "enter_location", to |-> {loc}, doid |-> d,
                   location |-> loc, value |-> FirstValue, context |-> 0]
           obj == [location |-> loc, value |-> FirstValue, owner |-> NoOwner]
<1>1. scenario' = scenario /\ Emit(msg) /\ objs' = With(objs, d, obj)
  BY DEF Generate, Change
<1>2. Fit(scenario, msg)
  <2>1. msg.kind = "enter_location" /\ msg.doid \in Doid /\ msg.location \in Location
    OBVIOUS
  <2> HIDE DEF msg
  <2>2. QED
    BY <2>1 DEF Fit, ObjectMsg, ObjectKinds, OtherKinds
<1>3. DOMAIN obj = {"location", "value", "owner"} /\ obj.location \in Location
  OBVIOUS
<1> HIDE DEF msg, obj
<1>4. ObjectsSane'
  BY <1>1, <1>3 DEF ObjectsSane, With
<1>5. QED
  BY <1>1, <1>2, <1>4, EmitCarries

LEMMA MoveSane ==
  ASSUME ObjectsSane, Carries(scenario, down), NEW d \in DOMAIN objs, NEW loc \in Location, Move(d, loc)
  PROVE  ObjectsSane' /\ Carries(scenario, down)'
<1> DEFINE msg == [kind |-> "changing_location", to |-> Audience(d), doid |-> d, location |-> loc]
           enter == [Entry("enter_location", d, {loc}, 0) EXCEPT !.location = loc]
<1>1. scenario' = scenario /\ EmitBoth(msg, enter) /\ objs' = [objs EXCEPT ![d].location = loc]
  BY DEF Move, Change
<1>2. d \in Doid
  BY DEF ObjectsSane
<1>3. Fit(scenario, msg)
  <2>1. msg.kind = "changing_location" /\ msg.doid \in Doid /\ msg.location \in Location
    BY <1>2
  <2> HIDE DEF msg
  <2>2. QED
    BY <2>1 DEF Fit, ObjectMsg, ObjectKinds, OtherKinds
<1>4. Fit(scenario, enter)
  <2>1. enter.kind = "enter_location" /\ enter.doid \in Doid /\ enter.location \in Location
    BY <1>2 DEF Entry
  <2> HIDE DEF enter
  <2>2. QED
    BY <2>1 DEF Fit, ObjectMsg, ObjectKinds, OtherKinds
<1> HIDE DEF msg, enter
<1>5. ObjectsSane'
  <2>1. DOMAIN objs' = DOMAIN objs /\ \A x \in DOMAIN objs : objs'[x] = IF x = d THEN [objs[d] EXCEPT !.location = loc] ELSE objs[x]
    BY <1>1
  <2>2. /\ DOMAIN [objs[d] EXCEPT !.location = loc] = {"location", "value", "owner"}
        /\ [objs[d] EXCEPT !.location = loc].location = loc
    BY DEF ObjectsSane
  <2>3. QED
    BY <2>1, <2>2 DEF ObjectsSane
<1>6. QED
  BY <1>1, <1>3, <1>4, <1>5, EmitBothCarries

LEMMA DeleteSane ==
  ASSUME ObjectsSane, Carries(scenario, down), NEW d \in DOMAIN objs, Delete(d)
  PROVE  ObjectsSane' /\ Carries(scenario, down)'
<1>1. PICK ai : Emit([kind |-> "delete_ram", to |-> Audience(d), doid |-> d, ai_deletion |-> ai])
  BY DEF Delete
<1> DEFINE msg == [kind |-> "delete_ram", to |-> Audience(d), doid |-> d, ai_deletion |-> ai]
<1>2. scenario' = scenario /\ objs' = Without(objs, {d})
  BY DEF Delete, Change
<1>3. Fit(scenario, msg)
  <2>1. msg.kind = "delete_ram" /\ msg.doid \in Doid
    BY DEF ObjectsSane
  <2> HIDE DEF msg
  <2>2. QED
    BY <2>1 DEF Fit, ObjectMsg, ObjectKinds, OtherKinds
<1>4. Emit(msg)
  BY <1>1
<1> HIDE DEF msg
<1>5. ObjectsSane'
  BY <1>2 DEF ObjectsSane, Without
<1>6. QED
  BY <1>2, <1>3, <1>4, <1>5, EmitCarries

LEMMA SetFieldSane ==
  ASSUME ObjectsSane, Carries(scenario, down), NEW d \in DOMAIN objs, NEW v, SetField(d, v)
  PROVE  ObjectsSane' /\ Carries(scenario, down)'
<1> DEFINE msg == [kind |-> "set_field", to |-> Audience(d), doid |-> d, value |-> v]
<1>1. scenario' = scenario /\ Emit(msg) /\ objs' = [objs EXCEPT ![d].value = v]
  BY DEF SetField, Change
<1>2. Fit(scenario, msg)
  <2>1. msg.kind = "set_field" /\ msg.doid \in Doid
    BY DEF ObjectsSane
  <2> HIDE DEF msg
  <2>2. QED
    BY <2>1 DEF Fit, ObjectMsg, ObjectKinds, OtherKinds
<1> HIDE DEF msg
<1>3. ObjectsSane'
  <2>1. DOMAIN objs' = DOMAIN objs /\ \A x \in DOMAIN objs : objs'[x] = IF x = d THEN [objs[d] EXCEPT !.value = v] ELSE objs[x]
    BY <1>1
  <2>2. /\ DOMAIN [objs[d] EXCEPT !.value = v] = {"location", "value", "owner"}
        /\ [objs[d] EXCEPT !.value = v].location = objs[d].location
    BY DEF ObjectsSane
  <2>3. QED
    BY <2>1, <2>2 DEF ObjectsSane
<1>4. QED
  BY <1>1, <1>2, <1>3, EmitCarries

LEMMA SetOwnerSane ==
  ASSUME ObjectsSane, Carries(scenario, down), NEW d \in DOMAIN objs, NEW owner, SetOwner(d, owner)
  PROVE  ObjectsSane' /\ Carries(scenario, down)'
<1> DEFINE msg == [kind |-> "changing_owner", to |-> {objs[d].owner} \ {NoOwner}, doid |-> d, owner |-> owner]
           enter == Entry("enter_owner", d, {owner} \ {NoOwner}, 0)
<1>1. scenario' = scenario /\ EmitBoth(msg, enter) /\ objs' = [objs EXCEPT ![d].owner = owner]
  BY DEF SetOwner, Change
<1>2. Fit(scenario, msg)
  <2>1. msg.kind = "changing_owner"
    OBVIOUS
  <2> HIDE DEF msg
  <2>2. QED
    BY <2>1 DEF Fit, ObjectKinds, OtherKinds
<1>3. Fit(scenario, enter)
  BY EntryFits
<1> HIDE DEF msg, enter
<1>4. ObjectsSane'
  <2>1. DOMAIN objs' = DOMAIN objs /\ \A x \in DOMAIN objs : objs'[x] = IF x = d THEN [objs[d] EXCEPT !.owner = owner] ELSE objs[x]
    BY <1>1
  <2>2. /\ DOMAIN [objs[d] EXCEPT !.owner = owner] = {"location", "value", "owner"}
        /\ [objs[d] EXCEPT !.owner = owner].location = objs[d].location
    BY DEF ObjectsSane
  <2>3. QED
    BY <2>1, <2>2 DEF ObjectsSane
<1>5. QED
  BY <1>1, <1>2, <1>3, <1>4, EmitBothCarries

-----------------------------------------------------------------------------
(* What daemons ask of the client is fit for it.                             *)
LEMMA AddCommandSane ==
  ASSUME Sane, Carries(scenario, down), NEW id \in scenario.ids, NEW i \in scenario.interests,
         Command("daemon adds", [kind |-> "add_interest", to |-> ToClient, sender |-> Caller,
                                 id |-> id, interest |-> i])
  PROVE  Carries(scenario, down)'
<1> DEFINE msg == [kind |-> "add_interest", to |-> ToClient, sender |-> Caller, id |-> id, interest |-> i]
<1>1. Emit(msg) /\ scenario' = scenario
  BY DEF Command
<1>2. IsInterest(i)
  BY ClientVisibilityAssumption DEF IsInterest, Sane
<1>3. Fit(scenario, msg)
  <2>1. msg.kind = "add_interest" /\ msg.id = id /\ msg.interest = i
    OBVIOUS
  <2> HIDE DEF msg
  <2>2. QED
    BY <1>2, <2>1 DEF Fit, ObjectKinds, OtherKinds
<1> HIDE DEF msg
<1>4. QED
  BY <1>1, <1>3, EmitCarries

LEMMA RemoveCommandSane ==
  ASSUME Carries(scenario, down), NEW id \in scenario.ids,
         Command("daemon removes", [kind |-> "remove_interest", to |-> ToClient, sender |-> Caller, id |-> id])
  PROVE  Carries(scenario, down)'
<1> DEFINE msg == [kind |-> "remove_interest", to |-> ToClient, sender |-> Caller, id |-> id]
<1>1. Emit(msg) /\ scenario' = scenario /\ "daemon removes" \in scenario.requests
  BY DEF Command, MayAsk
<1>2. Fit(scenario, msg)
  <2>1. msg.kind = "remove_interest" /\ msg.id = id
    OBVIOUS
  <2> HIDE DEF msg
  <2>2. QED
    BY <1>1, <2>1 DEF Fit, ObjectKinds, OtherKinds
<1> HIDE DEF msg
<1>3. QED
  BY <1>1, <1>2, EmitCarries

LEMMA SessionCommandSane ==
  ASSUME Carries(scenario, down), NEW d, NEW add,
         Command("session", [kind |-> "session_object", to |-> ToClient, doid |-> d, add |-> add])
  PROVE  Carries(scenario, down)'
<1> DEFINE msg == [kind |-> "session_object", to |-> ToClient, doid |-> d, add |-> add]
<1>1. Emit(msg) /\ scenario' = scenario
  BY DEF Command
<1>2. Fit(scenario, msg)
  <2>1. msg.kind = "session_object"
    OBVIOUS
  <2> HIDE DEF msg
  <2>2. QED
    BY <2>1 DEF Fit, ObjectKinds, OtherKinds
<1> HIDE DEF msg
<1>3. QED
  BY <1>1, <1>2, EmitCarries

LEMMA ChannelCommandSane ==
  ASSUME Carries(scenario, down),
         Command("set channel", [kind |-> "set_client_id", to |-> ToClient, channel |-> ClientChannel(2)])
  PROVE  Carries(scenario, down)'
<1> DEFINE msg == [kind |-> "set_client_id", to |-> ToClient, channel |-> ClientChannel(2)]
<1>1. Emit(msg) /\ scenario' = scenario
  BY DEF Command
<1>2. Fit(scenario, msg)
  <2>1. msg.kind = "set_client_id" /\ msg.channel = ClientChannel(2)
    OBVIOUS
  <2> HIDE DEF msg
  <2>2. QED
    BY <2>1, ClientChannels DEF Fit, ObjectKinds, OtherKinds
<1> HIDE DEF msg
<1>3. QED
  BY <1>1, <1>2, EmitCarries

LEMMA DirectSane ==
  Sane /\ Carries(scenario, down) /\ Direct => Carries(scenario, down)' /\ UNCHANGED <<scenario, client, game, objs>>
<1> SUFFICES ASSUME Sane, Carries(scenario, down), Direct
             PROVE  Carries(scenario, down)' /\ UNCHANGED <<scenario, client, game, objs>>
  OBVIOUS
<1>1. ASSUME NEW id \in scenario.ids, NEW i \in scenario.interests,
             Command("daemon adds", [kind |-> "add_interest", to |-> ToClient, sender |-> Caller,
                                     id |-> id, interest |-> i])
      PROVE  Carries(scenario, down)' /\ UNCHANGED <<scenario, client, game, objs>>
  BY <1>1, AddCommandSane DEF Command, world
<1>2. ASSUME NEW id \in scenario.ids,
             Command("daemon removes", [kind |-> "remove_interest", to |-> ToClient, sender |-> Caller, id |-> id])
      PROVE  Carries(scenario, down)' /\ UNCHANGED <<scenario, client, game, objs>>
  BY <1>2, RemoveCommandSane DEF Command, world
<1>3. ASSUME NEW d \in scenario.owned, NEW add \in BOOLEAN,
             Command("session", [kind |-> "session_object", to |-> ToClient, doid |-> d, add |-> add])
      PROVE  Carries(scenario, down)' /\ UNCHANGED <<scenario, client, game, objs>>
  BY <1>3, SessionCommandSane DEF Command, world
<1>4. ASSUME Command("set channel", [kind |-> "set_client_id", to |-> ToClient, channel |-> ClientChannel(2)])
      PROVE  Carries(scenario, down)' /\ UNCHANGED <<scenario, client, game, objs>>
  BY <1>4, ChannelCommandSane DEF Command, world
<1>5. QED
  BY <1>1, <1>2, <1>3, <1>4 DEF Direct

-----------------------------------------------------------------------------
(* Every step keeps the invariant.                                           *)
LEMMA PlayInv == Inv /\ Play => Inv'
<1> SUFFICES ASSUME Inv, Play PROVE Inv'
  OBVIOUS
<1>1. Sane
  BY DEF Inv
<1>2. ASSUME NEW id \in scenario.ids, NEW i \in scenario.interests, GameAddsInterest(id, i)
      PROVE  Sane' /\ UNCHANGED <<scenario, objs, down>>
  BY <1>1, <1>2, GameAddsSane DEF GameAddsInterest, world
<1>3. ASSUME NEW id \in scenario.ids, GameRemovesInterest(id)
      PROVE  Sane' /\ UNCHANGED <<scenario, objs, down>>
  BY <1>1, <1>3, GameRemovesSane DEF GameRemovesInterest, world
<1>4. ASSUME Disconnect
      PROVE  Sane' /\ UNCHANGED <<scenario, objs, down>>
  BY <1>1, <1>4, DisconnectSane DEF Disconnect, world
<1>5. Sane' /\ UNCHANGED <<scenario, objs, down>>
  BY <1>2, <1>3, <1>4 DEF Play
<1>6. QED
  BY <1>5 DEF Inv, ObjectsSane

LEMMA RunInv == Inv /\ Run => Inv'
<1> SUFFICES ASSUME Inv, Run PROVE Inv'
  OBVIOUS
<1>1. Sane /\ ObjectsSane /\ Carries(scenario, down)
  BY DEF Inv
<1>2. CASE TakeDatagram
  <2>1. Sane' /\ Carries(scenario, down)'
    BY <1>2, TakeDatagramSane
  <2>2. objs' = objs
    BY <1>2 DEF TakeDatagram, world
  <2>3. QED
    BY <1>1, <2>1, <2>2 DEF Inv, ObjectsSane
<1>3. CASE TakeRequest
  <2>1. ObjectsSane' /\ Carries(scenario, down)'
    BY <1>1, <1>3, TakeRequestSane
  <2>2. UNCHANGED <<scenario, client, game>>
    BY <1>3 DEF TakeRequest
  <2>3. QED
    BY <1>1, <2>1, <2>2 DEF Inv, Sane
<1>4. CASE MakeTimer
  <2>1. Sane'
    BY <1>1, <1>4, MakeTimerSane
  <2>2. UNCHANGED <<scenario, objs, down>>
    BY <1>4 DEF MakeTimer, world
  <2>3. QED
    BY <1>1, <2>1, <2>2 DEF Inv, ObjectsSane
<1>5. ASSUME NEW k \in DOMAIN client.m_pending_interests, TimerFires(k)
      PROVE  Inv'
  <2>1. Sane'
    BY <1>1, <1>5, TimerFiresSane
  <2>2. UNCHANGED <<scenario, objs, down>>
    BY <1>5 DEF TimerFires, world
  <2>3. QED
    BY <1>1, <2>1, <2>2 DEF Inv, ObjectsSane
<1>6. ASSUME NEW k \in DOMAIN client.m_pending_interests, Timeout(k)
      PROVE  Inv'
  <2>1. Sane'
    BY <1>1, <1>6, TimeoutSane
  <2>2. UNCHANGED <<scenario, objs, down>>
    BY <1>6 DEF Timeout, world
  <2>3. QED
    BY <1>1, <2>1, <2>2 DEF Inv, ObjectsSane
<1>7. ASSUME NEW q \in asked, NEW d \in DOMAIN q.left, Answer(q, d)
      PROVE  Inv'
  <2>1. Carries(scenario, down)'
    BY <1>1, <1>7, AnswerSane
  <2>2. UNCHANGED <<scenario, client, game, objs>>
    BY <1>7 DEF Answer
  <2>3. QED
    BY <1>1, <2>1, <2>2 DEF Inv, Sane, ObjectsSane
<1>8. QED
  BY <1>2, <1>3, <1>4, <1>5, <1>6, <1>7 DEF Run

LEMMA EvolveInv == Inv /\ Evolve => Inv'
<1> SUFFICES ASSUME Inv, Evolve PROVE Inv'
  OBVIOUS
<1>1. Sane /\ ObjectsSane /\ Carries(scenario, down)
  BY DEF Inv
<1>2. scenario.places \subseteq Location
  BY <1>1, ClientVisibilityAssumption DEF Sane
<1> DEFINE Kept == ObjectsSane' /\ Carries(scenario, down)' /\ UNCHANGED <<scenario, client, game>>
<1>3. ASSUME NEW d \in DOMAIN objs, NEW loc \in scenario.places, Move(d, loc)
      PROVE  Kept
  BY <1>1, <1>2, <1>3, MoveSane DEF Move, Change
<1>4. ASSUME NEW d \in DOMAIN objs, Delete(d)
      PROVE  Kept
  BY <1>1, <1>4, DeleteSane DEF Delete, Change
<1>5. ASSUME NEW d \in DOMAIN objs, NEW v \in Value, SetField(d, v)
      PROVE  Kept
  BY <1>1, <1>5, SetFieldSane DEF SetField, Change
<1>6. ASSUME NEW d \in DOMAIN objs, NEW owner, SetOwner(d, owner)
      PROVE  Kept
  BY <1>1, <1>6, SetOwnerSane DEF SetOwner, Change
<1>7. ASSUME NEW d \in Doid, NEW loc \in scenario.places, Generate(d, loc)
      PROVE  Kept
  BY <1>1, <1>2, <1>7, GenerateSane DEF Generate, Change
<1> HIDE DEF Kept
<1>8. Kept
  BY <1>3, <1>4, <1>5, <1>6, <1>7 DEF Evolve
<1>9. QED
  BY <1>1, <1>8 DEF Kept, Inv, Sane

LEMMA NextInv == Inv /\ [Next]_vars => Inv'
<1> SUFFICES ASSUME Inv, [Next]_vars PROVE Inv'
  OBVIOUS
<1>1. CASE Direct
  <2>1. Carries(scenario, down)' /\ UNCHANGED <<scenario, client, game, objs>>
    BY <1>1, DirectSane DEF Inv
  <2>2. QED
    BY <2>1 DEF Inv, Sane, ObjectsSane
<1>2. CASE UNCHANGED vars
  BY <1>2 DEF vars, Inv, Sane, ObjectsSane, Carries
<1>3. QED
  BY <1>1, <1>2, PlayInv, RunInv, EvolveInv DEF Next

(* The inductive invariant: the client's interests, operations and objects   *)
(* are always of their kinds and fit the messages on their way to it.        *)
THEOREM Invariant == Spec => []Inv
BY InitInv, NextInv, PTL DEF Spec

-----------------------------------------------------------------------------
(* Unless a daemon may remove an interest that is not there while the game   *)
(* may have one of id 0, the client listens on the locations of its          *)
(* interests and on no others, however interests are opened, altered, closed *)
(* and cut short, late and in whatever order (Client.cpp:149-365).           *)
THEOREM SubscribedTheorem == Spec => [](ZeroIsFree(scenario) => SubscribedWhereInterested)
<1>1. Inv => (ZeroIsFree(scenario) => SubscribedWhereInterested)
  <2> SUFFICES ASSUME Interested(client)
               PROVE  client.subscribed \cap Location = Looked
    BY DEF Inv, Sane, SubscribedWhereInterested
  <2>1. ASSUME NEW loc \in Location
        PROVE  loc \in Looked <=> \E i \in DOMAIN client.m_interests : LooksAt(client.m_interests[i], loc)
    <3>1. ASSUME NEW i \in DOMAIN client.m_interests, LooksAt(client.m_interests[i], loc)
          PROVE  loc \in Looked
      <4>1. loc = <<client.m_interests[i].parent, loc[2]>> /\ loc[2] \in client.m_interests[i].zones
        BY <3>1 DEF LooksAt, Location
      <4>2. QED
        BY <4>1 DEF Looked, LocationChannel
    <3>2. ASSUME loc \in Looked
          PROVE  \E i \in DOMAIN client.m_interests : LooksAt(client.m_interests[i], loc)
      <4>1. PICK i \in DOMAIN client.m_interests :
              \E z \in client.m_interests[i].zones : loc = <<client.m_interests[i].parent, z>>
        BY <3>2 DEF Looked, LocationChannel
      <4>2. QED
        BY <4>1 DEF LooksAt
    <3>3. QED
      BY <3>1, <3>2
  <2>2. Looked \subseteq Location
    <3> SUFFICES ASSUME NEW i \in DOMAIN client.m_interests, NEW z \in client.m_interests[i].zones
                 PROVE  <<client.m_interests[i].parent, z>> \in Location
      BY DEF Looked, LocationChannel
    <3>1. client.m_interests[i].parent \in Parent /\ z \in Zone
      BY DEF Interested, IsInterest
    <3>2. QED
      BY <3>1 DEF Location
  <2> HIDE DEF Looked
  <2>3. QED
    BY <2>1, <2>2 DEF Interested
<1>2. QED
  BY <1>1, Invariant, PTL

(* The game is never told of an object it knows as if it were new, nor of    *)
(* one it does not know as if it did, and what it was ever shown stays       *)
(* forgiven: whatever is late, twice or out of order on the way to it.       *)
THEOREM NeverConfusedTheorem == Spec => []NeverConfused
<1>1. Inv => NeverConfused
  <2> SUFFICES ASSUME Inv PROVE NeverConfused
    OBVIOUS
  <2>1. AgreesAs(game, client)
    BY HearingNothing DEF Inv, Sane, Agrees
  <2>2. client.m_seen_objects = DOMAIN client.m_visible_objects
    BY DEF Inv, Sane, Sound
  <2>3. QED
    BY <2>1, <2>2 DEF AgreesAs, NeverConfused, LateUpdatesForgiven, Known
<1>2. QED
  BY <1>1, Invariant, PTL

-----------------------------------------------------------------------------
(* No datagram about an object finds the operation gone that holds the       *)
(* object back, if open operations look at different locations.              *)

\* An operation lets an object in with its generates or with one of the first
\* n datagrams it holds back.
LetsIn(op, d, n) ==
  \/ \E j \in 1..Len(op.generates) : op.generates[j].doid = d
  \/ \E j \in 1..n : op.queued[j].kind = "enter_location" /\ op.queued[j].doid = d

\* It holds back only what enters where it looks, and what is about an object
\* that it lets in before.
Replayable(op) ==
  \A n \in 1..Len(op.queued) :
    IF op.queued[n].kind = "enter_location" THEN LooksAt(op, op.queued[n].location)
    ELSE LetsIn(op, op.queued[n].doid, n - 1)

\* A pending object's operation is open and lets it in.
Held(c, d) ==
  LET k == c.m_pending_objects[d]
  IN  /\ k \in DOMAIN c.m_pending_interests
      /\ LetsIn(c.m_pending_interests[k], d, Len(c.m_pending_interests[k].queued))

LooksApart(c) ==
  \A j, k \in DOMAIN c.m_pending_interests : \A loc \in Location :
    LooksAt(c.m_pending_interests[j], loc) /\ LooksAt(c.m_pending_interests[k], loc) => j = k

\* All this, but for the objects D, which are about to be let in.
Tidy(c, D) ==
  /\ c.dangling = FALSE
  /\ LooksApart(c)
  /\ \A k \in DOMAIN c.m_pending_interests : Replayable(c.m_pending_interests[k])
  /\ Listens(c) => \A d \in DOMAIN c.m_pending_objects \ D : Held(c, d)

\* The same operations are open, or fewer, and look where they did.
SameLooks(c, e) ==
  /\ DOMAIN e.m_pending_interests \subseteq DOMAIN c.m_pending_interests
  /\ \A k \in DOMAIN e.m_pending_interests :
       /\ e.m_pending_interests[k].parent = c.m_pending_interests[k].parent
       /\ e.m_pending_interests[k].zones = c.m_pending_interests[k].zones

\* No operation and no pending object is touched.
Plain(c, e) ==
  /\ e.m_pending_interests = c.m_pending_interests /\ e.m_pending_objects = c.m_pending_objects
  /\ e.dangling = c.dangling
  /\ Listens(e) => Listens(c)

LEMMA PlainTidy ==
  ASSUME NEW c, NEW e, NEW D, Tidy(c, D), Plain(c, e)
  PROVE  Tidy(e, D) /\ SameLooks(c, e)
BY DEF Tidy, Plain, LooksApart, Held, SameLooks

LEMMA FewerAside ==
  ASSUME NEW c, NEW D, NEW E, Tidy(c, D), D \subseteq E
  PROVE  Tidy(c, E)
BY DEF Tidy

\* An operation changes, but looks where it did and lets in what it did.
Grows(op, np) ==
  /\ np.parent = op.parent /\ np.zones = op.zones
  /\ \A d : LetsIn(op, d, Len(op.queued)) => LetsIn(np, d, Len(np.queued))
  /\ Replayable(op) => Replayable(np)

LEMMA GrowingTidy ==
  ASSUME NEW c, NEW e, NEW D, Tidy(c, D), NEW k \in DOMAIN c.m_pending_interests, NEW np,
         Grows(c.m_pending_interests[k], np),
         e.m_pending_interests = [c.m_pending_interests EXCEPT ![k] = np],
         e.dangling = c.dangling, Listens(e) => Listens(c),
         \A d \in DOMAIN e.m_pending_objects \ D :
           \/ d \in DOMAIN c.m_pending_objects /\ e.m_pending_objects[d] = c.m_pending_objects[d]
           \/ e.m_pending_objects[d] = k /\ LetsIn(np, d, Len(np.queued))
  PROVE  Tidy(e, D) /\ SameLooks(c, e)
<1> DEFINE p == c.m_pending_interests
           q == e.m_pending_interests
<1>1. /\ DOMAIN q = DOMAIN p
      /\ q[k] = np
      /\ \A j \in DOMAIN p \ {k} : q[j] = p[j]
  OBVIOUS
<1>2. SameLooks(c, e)
  <2>1. \A j \in DOMAIN p : q[j].parent = p[j].parent /\ q[j].zones = p[j].zones
    <3> HIDE DEF p, q
    <3>1. QED
      BY <1>1 DEF Grows, p
  <2>2. QED
    BY <1>1, <2>1 DEF SameLooks
<1>3. LooksApart(e)
  BY <1>1, <1>2 DEF SameLooks, LooksApart, Tidy, LooksAt
<1>4. \A j \in DOMAIN q : Replayable(q[j])
  <2> HIDE DEF q
  <2>1. QED
    BY <1>1 DEF Grows, Tidy
<1>5. ASSUME Listens(e), NEW d \in DOMAIN e.m_pending_objects \ D PROVE Held(e, d)
  <2> DEFINE j == e.m_pending_objects[d]
  <2> HIDE DEF p, q
  <2>1. CASE d \in DOMAIN c.m_pending_objects /\ j = c.m_pending_objects[d]
    <3>1. j \in DOMAIN p /\ LetsIn(p[j], d, Len(p[j].queued))
      BY <1>5, <2>1 DEF Tidy, Held, p
    <3>2. CASE j = k
      <4>1. LetsIn(np, d, Len(np.queued))
        BY <3>1, <3>2 DEF Grows, p
      <4>2. QED
        BY <1>1, <3>1, <3>2, <4>1 DEF Held, q
    <3>3. CASE j # k
      BY <1>1, <3>1, <3>3 DEF Held, q
    <3>4. QED
      BY <3>2, <3>3
  <2>2. CASE j = k /\ LetsIn(np, d, Len(np.queued))
    BY <1>1, <2>2 DEF Held, q, p
  <2>3. QED
    BY <2>1, <2>2
<1>6. QED
  BY <1>2, <1>3, <1>4, <1>5 DEF Tidy

LEMMA TellingTidy ==
  ASSUME NEW c, Sound(c), NEW D, Tidy(c, D), NEW m
  PROVE  /\ Tidy(Tell(c, m), D) /\ SameLooks(c, Tell(c, m))
         /\ Tidy(TellAll(c, m), D) /\ SameLooks(c, TellAll(c, m))
<1>1. Plain(c, Tell(c, m)) /\ Plain(c, TellAll(c, m))
  BY DEF Plain, Tell, TellAll, Sound, ClientFields, Listens
<1>2. QED
  BY <1>1, PlainTidy

LEMMA SameLooksOn ==
  ASSUME NEW c, NEW e, NEW f, SameLooks(c, e), SameLooks(e, f)
  PROVE  SameLooks(c, f)
BY DEF SameLooks

\* An object enters: it is pending no more.
LEMMA EntranceTidy ==
  ASSUME NEW c, Sound(c), NEW D, Tidy(c, D), NEW m
  PROVE  LET e == HandleObjectEntrance(c, m)
         IN  /\ Tidy(e, D \ {m.doid}) /\ SameLooks(c, e)
             /\ DOMAIN e.m_pending_objects = DOMAIN c.m_pending_objects \ {m.doid}
             /\ e.m_pending_interests = c.m_pending_interests
             /\ \A d \in DOMAIN e.m_pending_objects : e.m_pending_objects[d] = c.m_pending_objects[d]
<1> DEFINE e == HandleObjectEntrance(c, m)
           found == [c EXCEPT !.m_pending_objects = Without(@, {m.doid})]
           shown == [found EXCEPT
                   !.m_visible_objects = IF m.doid \in DOMAIN @ THEN @ ELSE With(@, m.doid, m.location),
                   !.m_seen_objects = @ \cup {m.doid}]
<1>1. e = found \/ \E x : e = Tell(shown, x)
  BY DEF HandleObjectEntrance
<1>2. /\ found.m_pending_interests = c.m_pending_interests /\ found.dangling = c.dangling
      /\ Listens(found) = Listens(c) /\ found.m_pending_objects = Without(c.m_pending_objects, {m.doid})
  BY DEF Sound, ClientFields, Listens
<1>3. /\ shown.m_pending_interests = c.m_pending_interests /\ shown.dangling = c.dangling
      /\ Listens(shown) = Listens(c) /\ shown.m_pending_objects = Without(c.m_pending_objects, {m.doid})
      /\ DOMAIN shown = ClientFields
  BY DEF Sound, ClientFields, Listens
<1> HIDE DEF found, shown
<1>4. /\ e.m_pending_interests = c.m_pending_interests /\ e.dangling = c.dangling
      /\ Listens(e) = Listens(c) /\ e.m_pending_objects = Without(c.m_pending_objects, {m.doid})
  BY <1>1, <1>2, <1>3 DEF Tell, Listens, ClientFields
<1> HIDE DEF e
<1>5. /\ DOMAIN e.m_pending_objects = DOMAIN c.m_pending_objects \ {m.doid}
      /\ \A d \in DOMAIN e.m_pending_objects : e.m_pending_objects[d] = c.m_pending_objects[d]
  BY <1>4 DEF Without
<1>6. Tidy(e, D \ {m.doid}) /\ SameLooks(c, e)
  BY <1>4, <1>5 DEF Tidy, LooksApart, Held, SameLooks
<1>7. QED
  BY <1>4, <1>5, <1>6 DEF e

\* An operation holds a datagram back.
LEMMA HoldingGrows ==
  ASSUME NEW op, IsOperation(op), NEW m, ObjectMsg(m), NEW np,
         np = [op EXCEPT !.queued = Append(@, m)],
         IF m.kind = "enter_location" THEN LooksAt(op, m.location) ELSE LetsIn(op, m.doid, Len(op.queued))
  PROVE  /\ Grows(op, np)
         /\ m.kind = "enter_location" => LetsIn(np, m.doid, Len(np.queued))
<1> DEFINE q == op.queued
           r == Append(q, m)
<1>1. /\ Len(q) \in Nat /\ Len(r) = Len(q) + 1 /\ r[Len(q) + 1] = m
      /\ \A j \in 1..Len(q) : r[j] = q[j]
  BY HeldBackMore DEF IsOperation
<1>2. np.queued = r /\ np.generates = op.generates /\ np.parent = op.parent /\ np.zones = op.zones
  BY DEF IsOperation, OperationFields
<1> HIDE DEF q, r
<1>3. ASSUME NEW d, NEW n \in 0..Len(q) PROVE LetsIn(op, d, n) <=> LetsIn(np, d, n)
  <2>1. \A j \in 1..n : r[j] = q[j]
    BY <1>1
  <2>2. QED
    BY <1>2, <2>1 DEF LetsIn, q
<1>4. ASSUME NEW d, LetsIn(op, d, Len(q)) PROVE LetsIn(np, d, Len(r))
  <2>1. LetsIn(np, d, Len(q))
    BY <1>1, <1>3, <1>4, SMTT(20)
  <2>2. \A j \in 1..Len(q) : j \in 1..Len(r)
    BY <1>1
  <2>3. QED
    BY <2>1, <2>2 DEF LetsIn
<1>5. m.kind = "enter_location" => LetsIn(np, m.doid, Len(r))
  <2>1. Len(q) + 1 \in 1..Len(r)
    BY <1>1
  <2>2. QED
    BY <1>1, <1>2, <2>1 DEF LetsIn
<1>6. ASSUME Replayable(op) PROVE Replayable(np)
  <2> SUFFICES ASSUME NEW n \in 1..Len(r)
               PROVE  IF r[n].kind = "enter_location" THEN LooksAt(np, r[n].location)
                      ELSE LetsIn(np, r[n].doid, n - 1)
    BY <1>2 DEF Replayable
  <2>1. CASE n \in 1..Len(q)
    <3>1. n - 1 \in 0..Len(q) /\ r[n] = q[n]
      BY <1>1, <2>1
    <3>2. IF q[n].kind = "enter_location" THEN LooksAt(op, q[n].location) ELSE LetsIn(op, q[n].doid, n - 1)
      BY <1>6, <2>1 DEF Replayable, q
    <3>3. QED
      BY <1>2, <1>3, <3>1, <3>2 DEF LooksAt
  <2>2. CASE n = Len(q) + 1
    <3>1. Len(q) \in 0..Len(q) /\ r[n] = m /\ n - 1 = Len(q)
      BY <1>1, <2>2
    <3>2. IF m.kind = "enter_location" THEN LooksAt(op, m.location) ELSE LetsIn(op, m.doid, Len(q))
      BY DEF q
    <3>3. QED
      BY <1>2, <1>3, <3>1, <3>2 DEF LooksAt
  <2>3. QED
    BY <1>1, <2>1, <2>2
<1>7. QED
  BY <1>2, <1>4, <1>5, <1>6 DEF Grows, q

LEMMA HoldingTidy ==
  ASSUME NEW c, Sound(c), NEW D, Tidy(c, D), NEW k \in DOMAIN c.m_pending_interests, NEW m, ObjectMsg(m),
         NEW e, e = HoldBack(c, k, m),
         LET op == c.m_pending_interests[k]
         IN  IF m.kind = "enter_location" THEN LooksAt(op, m.location) ELSE LetsIn(op, m.doid, Len(op.queued))
  PROVE  /\ Tidy(e, D) /\ SameLooks(c, e)
         /\ m.kind = "enter_location" => LetsIn(e.m_pending_interests[k], m.doid, Len(e.m_pending_interests[k].queued))
<1> DEFINE op == c.m_pending_interests[k]
           np == [op EXCEPT !.queued = Append(@, m)]
<1>1. IsOperation(op)
  BY DEF Sound
<1>2. Grows(op, np) /\ (m.kind = "enter_location" => LetsIn(np, m.doid, Len(np.queued)))
  <2> HIDE DEF np
  <2>1. np = [op EXCEPT !.queued = Append(@, m)]
    BY DEF np
  <2> HIDE DEF op
  <2>2. IF m.kind = "enter_location" THEN LooksAt(op, m.location) ELSE LetsIn(op, m.doid, Len(op.queued))
    BY DEF op
  <2>3. QED
    BY <1>1, <2>1, <2>2, HoldingGrows
<1>3. /\ e.m_pending_interests = [c.m_pending_interests EXCEPT ![k] = np]
      /\ e.dangling = c.dangling /\ Listens(e) = Listens(c) /\ e.m_pending_objects = c.m_pending_objects
  BY DEF HoldBack, Sound, ClientFields, Listens
<1> HIDE DEF np
<1>4. e.m_pending_interests[k] = np
  BY <1>3
<1>5. Tidy(e, D) /\ SameLooks(c, e)
  BY <1>2, <1>3, GrowingTidy
<1>6. QED
  BY <1>2, <1>4, <1>5

LEMMA QueueingTidy ==
  ASSUME NEW c, Sound(c), NEW D, Tidy(c, D), Listens(c), NEW m, ObjectMsg(m), m.kind # "enter_location",
         m.doid \in DOMAIN c.m_pending_objects, m.doid \notin D
  PROVE  Tidy(QueuePending(c, m.doid, m), D) /\ SameLooks(c, QueuePending(c, m.doid, m))
<1> DEFINE k == c.m_pending_objects[m.doid]
<1>1. k \in DOMAIN c.m_pending_interests /\ LetsIn(c.m_pending_interests[k], m.doid, Len(c.m_pending_interests[k].queued))
  BY DEF Tidy, Held
<1>2. QueuePending(c, m.doid, m) = HoldBack(c, k, m)
  BY <1>1 DEF QueuePending, HoldBack
<1> HIDE DEF k
<1>3. QED
  BY <1>1, <1>2, HoldingTidy

LEMMA SetFieldTidy ==
  ASSUME NEW c, Sound(c), NEW D, Tidy(c, D), Listens(c), NEW m, ObjectMsg(m), m.kind = "set_field", m.doid \notin D
  PROVE  Tidy(HandleSetField(c, m), D) /\ SameLooks(c, HandleSetField(c, m))
<1>1. SameLooks(c, c)
  BY DEF SameLooks
<1>2. QED
  BY <1>1, QueueingTidy, TellingTidy DEF HandleSetField

LEMMA DeleteRamTidy ==
  ASSUME NEW c, Sound(c), NEW D, Tidy(c, D), Listens(c), NEW m, ObjectMsg(m), m.kind = "delete_ram", m.doid \notin D
  PROVE  Tidy(HandleDeleteRam(c, m), D) /\ SameLooks(c, HandleDeleteRam(c, m))
<1> DEFINE d == m.doid
           e == [c EXCEPT !.m_seen_objects = @ \ {d},
                          !.m_owned_objects = Without(@, {d}),
                          !.m_historical_objects = @ \cup {d},
                          !.m_visible_objects = Without(@, {d})]
           told == (IF d \in c.m_seen_objects THEN <<[kind |-> "disable", doid |-> d]>> ELSE <<>>)
                     \o (IF d \in DOMAIN c.m_owned_objects THEN <<[kind |-> "disable_owner", doid |-> d]>> ELSE <<>>)
           deaf == [c EXCEPT !.m_accept_messages = FALSE]
           left == [c EXCEPT !.m_session_objects = @ \ {d}]
<1>1. Plain(c, e) /\ Plain(c, left) /\ Plain(c, deaf)
  BY DEF Plain, Sound, ClientFields, Listens
<1>2. DOMAIN e = ClientFields /\ DOMAIN left = ClientFields /\ DOMAIN deaf = ClientFields
  BY DEF Sound
<1>3. \/ HandleDeleteRam(c, m) = Eject(deaf)
      \/ m.doid \in DOMAIN c.m_pending_objects /\ HandleDeleteRam(c, m) = QueuePending(c, m.doid, m)
      \/ HandleDeleteRam(c, m) = c
      \/ HandleDeleteRam(c, m) = Eject(left)
      \/ HandleDeleteRam(c, m) = TellAll(e, told)
  BY DEF HandleDeleteRam
<1> HIDE DEF e, told, deaf, left
<1>4. Plain(c, Eject(deaf)) /\ Plain(c, Eject(left)) /\ Plain(c, TellAll(e, told)) /\ Plain(c, c)
  BY <1>1, <1>2 DEF Plain, Eject, Tell, TellAll, ClientFields, Listens
<1>5. QED
  BY <1>3, <1>4, PlainTidy, QueueingTidy

LEMMA ChangingLocationTidy ==
  ASSUME NEW c, Sound(c), NEW D, Tidy(c, D), Listens(c), NEW m, ObjectMsg(m), m.kind = "changing_location",
         m.doid \notin D
  PROVE  Tidy(HandleChangingLocation(c, m), D) /\ SameLooks(c, HandleChangingLocation(c, m))
<1> DEFINE d == m.doid
           moved == [c EXCEPT
             !.m_visible_objects = IF d \in DOMAIN c.m_visible_objects THEN [@ EXCEPT ![d] = m.location] ELSE @,
             !.m_owned_objects = IF d \in DOMAIN c.m_owned_objects THEN [@ EXCEPT ![d] = m.location] ELSE @]
           gone == [moved EXCEPT !.m_seen_objects = @ \ {d},
                                 !.m_historical_objects = @ \cup {d},
                                 !.m_visible_objects = Without(@, {d})]
<1>1. Plain(c, moved) /\ DOMAIN moved = ClientFields
  BY DEF Plain, Sound, ClientFields, Listens
<1>2. Plain(c, gone) /\ DOMAIN gone = ClientFields
  <2> HIDE DEF moved
  <2>1. QED
    BY <1>1 DEF Plain, ClientFields, Listens
<1>3. \/ m.doid \in DOMAIN c.m_pending_objects /\ HandleChangingLocation(c, m) = QueuePending(c, m.doid, m)
      \/ HandleChangingLocation(c, m) = c
      \/ \E x : HandleChangingLocation(c, m) \in {Tell(moved, x), Tell(gone, x)}
  BY DEF HandleChangingLocation, Eject
<1> HIDE DEF moved, gone
<1>4. Plain(c, c) /\ \A x : Plain(c, Tell(moved, x)) /\ Plain(c, Tell(gone, x))
  BY <1>1, <1>2 DEF Plain, Tell, ClientFields, Listens
<1>5. QED
  BY <1>3, <1>4, PlainTidy, QueueingTidy

LEMMA EmplacingTidy ==
  ASSUME NEW c, NEW d, NEW k, NEW x
  PROVE  x \in DOMAIN EmplacePending(c, d, k).m_pending_objects =>
           \/ x \in DOMAIN c.m_pending_objects /\ EmplacePending(c, d, k).m_pending_objects[x] = c.m_pending_objects[x]
           \/ x = d /\ EmplacePending(c, d, k).m_pending_objects[x] = k
<1>1. CASE d \in DOMAIN c.m_pending_objects
  BY <1>1 DEF EmplacePending
<1>2. CASE d \notin DOMAIN c.m_pending_objects
  <2> DEFINE p == With(c.m_pending_objects, d, k)
  <2>1. x \in DOMAIN p =>
           \/ x \in DOMAIN c.m_pending_objects /\ p[x] = c.m_pending_objects[x]
           \/ x = d /\ p[x] = k
    BY <1>2 DEF With
  <2> HIDE DEF p
  <2>2. EmplacePending(c, d, k) = [c EXCEPT !.m_pending_objects = p]
    BY <1>2 DEF EmplacePending, p
  <2>3. EmplacePending(c, d, k).m_pending_objects = p \/ EmplacePending(c, d, k).m_pending_objects = c.m_pending_objects
    BY <2>2
  <2>4. QED
    BY <2>1, <2>3
<1>3. QED
  BY <1>1, <1>2

LEMMA EnterLocationTidy ==
  ASSUME NEW c, Sound(c), NEW D, Tidy(c, D), NEW m, ObjectMsg(m), m.kind = "enter_location"
  PROVE  /\ Tidy(HandleEnterLocation(c, m), D) /\ SameLooks(c, HandleEnterLocation(c, m))
         /\ Looking(c, m.location) = {} => Tidy(HandleEnterLocation(c, m), D \ {m.doid})
<1> DEFINE k == OperationAt(c, m.location)
           d == m.doid
           f == EmplacePending(c, d, k)
           h == HandleEnterLocation(c, m)
<1>1. IF Looking(c, m.location) = {} THEN k = 0 ELSE k \in Looking(c, m.location)
  BY OperationLooks
<1>2. h = IF k = 0 THEN HandleObjectEntrance(c, m) ELSE HoldBack(f, k, m)
  BY DEF HandleEnterLocation, HoldBack
<1>3. /\ f.m_pending_interests = c.m_pending_interests /\ f.dangling = c.dangling
      /\ Listens(f) = Listens(c) /\ DOMAIN f = ClientFields
      /\ \A x \in DOMAIN f.m_pending_objects :
           \/ x \in DOMAIN c.m_pending_objects /\ f.m_pending_objects[x] = c.m_pending_objects[x]
           \/ x = d /\ f.m_pending_objects[x] = k
  <2>1. \A x \in DOMAIN f.m_pending_objects :
           \/ x \in DOMAIN c.m_pending_objects /\ f.m_pending_objects[x] = c.m_pending_objects[x]
           \/ x = d /\ f.m_pending_objects[x] = k
    <3> HIDE DEF k
    <3>1. QED
      BY EmplacingTidy
  <2>2. /\ f.m_pending_interests = c.m_pending_interests /\ f.dangling = c.dangling
        /\ Listens(f) = Listens(c) /\ DOMAIN f = ClientFields
    <3> HIDE DEF k
    <3>1. QED
      BY DEF EmplacePending, Sound, ClientFields, Listens
  <2>3. QED
    BY <2>1, <2>2
<1>4. 0 \notin DOMAIN c.m_pending_interests
  BY DEF Sound
<1> HIDE DEF k, f, h
<1>5. CASE k = 0
  <2>1. h = HandleObjectEntrance(c, m)
    BY <1>2, <1>5
  <2>2. Tidy(h, D \ {d}) /\ SameLooks(c, h)
    BY <2>1, EntranceTidy
  <2>3. Tidy(h, D)
    BY <2>2, FewerAside
  <2>4. QED
    BY <2>2, <2>3 DEF h
<1>6. CASE k # 0
  <2> DEFINE op == c.m_pending_interests[k]
             np == [op EXCEPT !.queued = Append(@, m)]
  <2>1. k \in DOMAIN c.m_pending_interests /\ LooksAt(op, m.location) /\ Looking(c, m.location) # {}
    BY <1>1, <1>6 DEF Looking, LooksAt
  <2>2. IsOperation(op)
    BY <2>1 DEF Sound
  <2>3. Grows(op, np) /\ LetsIn(np, d, Len(np.queued))
    <3> HIDE DEF np, op
    <3>1. np = [op EXCEPT !.queued = Append(@, m)]
      BY DEF np
    <3>2. QED
      BY <2>1, <2>2, <3>1, HoldingGrows
  <2>4. h = HoldBack(f, k, m)
    BY <1>2, <1>6
  <2>5. /\ h.m_pending_interests = [c.m_pending_interests EXCEPT ![k] = np]
        /\ h.dangling = c.dangling /\ Listens(h) = Listens(c) /\ h.m_pending_objects = f.m_pending_objects
    BY <1>3, <2>4 DEF HoldBack, ClientFields, Listens
  <2> HIDE DEF np
  <2>6. \A x \in DOMAIN h.m_pending_objects \ D :
           \/ x \in DOMAIN c.m_pending_objects /\ h.m_pending_objects[x] = c.m_pending_objects[x]
           \/ h.m_pending_objects[x] = k /\ LetsIn(np, x, Len(np.queued))
    BY <1>3, <2>3, <2>5
  <2>7. Tidy(h, D) /\ SameLooks(c, h)
    BY <2>1, <2>3, <2>5, <2>6, GrowingTidy
  <2>8. QED
    BY <2>1, <2>7 DEF h
<1>7. QED
  BY <1>5, <1>6

\* What a datagram leaves to be let in, when nobody else looks where it enters.
LEMMA ObjectDatagramTidy ==
  ASSUME NEW c, Sound(c), NEW D, Tidy(c, D), NEW m, ObjectMsg(m), m.kind # "enter_location" => m.doid \notin D
  PROVE  LET e == HandleObjectDatagram(c, m)
         IN  /\ Tidy(e, D) /\ SameLooks(c, e)
             /\ m.kind = "enter_location" /\ Looking(c, m.location) = {} => Tidy(e, D \ {m.doid})
<1>1. CASE ~Listens(c)
  <2>1. HandleObjectDatagram(c, m) = c
    BY <1>1 DEF HandleObjectDatagram
  <2>2. Tidy(c, D \ {m.doid})
    BY <1>1 DEF Tidy
  <2>3. SameLooks(c, c)
    BY DEF SameLooks
  <2>4. QED
    BY <2>1, <2>2, <2>3
<1>2. CASE Listens(c)
  <2>1. \/ m.kind = "set_field" /\ HandleObjectDatagram(c, m) = HandleSetField(c, m)
        \/ m.kind = "delete_ram" /\ HandleObjectDatagram(c, m) = HandleDeleteRam(c, m)
        \/ m.kind = "enter_location" /\ HandleObjectDatagram(c, m) = HandleEnterLocation(c, m)
        \/ m.kind = "changing_location" /\ HandleObjectDatagram(c, m) = HandleChangingLocation(c, m)
    BY <1>2 DEF HandleObjectDatagram, ObjectMsg, ObjectKinds
  <2>2. QED
    BY <1>2, <2>1, SetFieldTidy, DeleteRamTidy, EnterLocationTidy, ChangingLocationTidy
<1>3. QED
  BY <1>1, <1>2

-----------------------------------------------------------------------------
(* The end of an operation lets in what it holds back.                       *)
LEMMA EntrancesTidy ==
  ASSUME NEW c, Sound(c), Tidy(c, {}), NEW s, Entries(s)
  PROVE  LET e == Entering(c, s)
         IN  /\ Sound(e) /\ Tidy(e, {}) /\ e.m_pending_interests = c.m_pending_interests
             /\ \A j \in 1..Len(s) : s[j].doid \notin DOMAIN e.m_pending_objects
<1>1. Len(s) \in Nat /\ \A k \in 1..Len(s) : EntryMsg(s[k])
  BY ElementOfSeq, LenProperties DEF Entries
<1>2. PICK f : /\ Entering(c, s) = f[Len(s)]
               /\ f[0] = c
               /\ \A k \in 1..Len(s) : f[k] = HandleObjectEntrance(f[k - 1], s[k])
  BY <1>1, EntrancesInTurn
<1> DEFINE Good(k) == /\ Sound(f[k]) /\ Tidy(f[k], {}) /\ f[k].m_pending_interests = c.m_pending_interests
                      /\ \A j \in 1..k : s[j].doid \notin DOMAIN f[k].m_pending_objects
           G == {k \in 0..Len(s) : Good(k)}
<1>3. 0 \in G
  BY <1>1, <1>2
<1>4. ASSUME NEW k \in 1..Len(s), k - 1 \in G PROVE k \in G
  <2> DEFINE b == f[k - 1]
             e == HandleObjectEntrance(b, s[k])
  <2>1. /\ Sound(b) /\ Tidy(b, {}) /\ b.m_pending_interests = c.m_pending_interests
        /\ \A j \in 1..(k - 1) : s[j].doid \notin DOMAIN b.m_pending_objects
    BY <1>4
  <2>2. f[k] = e
    BY <1>2
  <2> HIDE DEF b
  <2>3. Sound(e)
    BY <1>1, <2>1, EntranceSound
  <2>4. /\ Tidy(e, {} \ {s[k].doid}) 
        /\ DOMAIN e.m_pending_objects = DOMAIN b.m_pending_objects \ {s[k].doid}
        /\ e.m_pending_interests = b.m_pending_interests
    BY <2>1, EntranceTidy
  <2> HIDE DEF e
  <2>5. Tidy(e, {})
    <3>1. {} \ {s[k].doid} = {}
      OBVIOUS
    <3>2. QED
      BY <2>4, <3>1
  <2>6. \A j \in 1..k : s[j].doid \notin DOMAIN e.m_pending_objects
    <3>1. \A j \in 1..k : j = k \/ j \in 1..(k - 1)
      OBVIOUS
    <3>2. QED
      BY <2>1, <2>4, <3>1
  <2>7. Good(k)
    BY <2>1, <2>2, <2>3, <2>4, <2>5, <2>6
  <2>8. QED
    BY <2>7
<1> HIDE DEF G
<1>5. Len(s) \in G
  <2>1. \A k \in 0..Len(s) : k \in G
    BY <1>1, <1>3, <1>4, Upwards
  <2>2. QED
    BY <1>1, <2>1
<1>6. QED
  BY <1>2, <1>5 DEF G

\* What is still to be let in after the first n datagrams held back.
Left(op, S, n) == {d \in S : LetsIn(op, d, Len(op.queued)) /\ ~LetsIn(op, d, n)}

\* Nobody looks where the operation does.
Alone(c, op) == \A loc \in Location : LooksAt(op, loc) => Looking(c, loc) = {}

LEMMA ReplayTidy ==
  ASSUME NEW op, IsOperation(op), Replayable(op), NEW S,
         NEW c, Sound(c), Tidy(c, Left(op, S, 0)), Alone(c, op)
  PROVE  LET e == Replaying(c, op.queued) IN Tidy(e, {}) /\ SameLooks(c, e)
<1> DEFINE s == op.queued
<1>1. Len(s) \in Nat /\ \A k \in 1..Len(s) : ObjectMsg(s[k])
  BY ElementOfSeq, LenProperties DEF HeldBack, IsOperation
<1>2. PICK f : /\ Replaying(c, s) = f[Len(s)]
               /\ f[0] = c
               /\ \A k \in 1..Len(s) : f[k] = HandleObjectDatagram(f[k - 1], s[k])
  BY <1>1, DatagramsInTurn
<1> DEFINE Good(k) == Sound(f[k]) /\ SameLooks(c, f[k]) /\ Tidy(f[k], Left(op, S, k))
           G == {k \in 0..Len(s) : Good(k)}
<1>3. 0 \in G
  <2>1. SameLooks(c, c)
    BY DEF SameLooks
  <2>2. QED
    BY <1>1, <1>2, <2>1
<1>4. ASSUME NEW k \in 1..Len(s), k - 1 \in G PROVE k \in G
  <2> DEFINE b == f[k - 1]
             m == s[k]
             e == HandleObjectDatagram(b, m)
             D == Left(op, S, k - 1)
             E == Left(op, S, k)
  <2>1. Sound(b) /\ SameLooks(c, b) /\ Tidy(b, D)
    BY <1>4
  <2>2. f[k] = e /\ ObjectMsg(m)
    BY <1>1, <1>2
  <2>3. IF m.kind = "enter_location" THEN LooksAt(op, m.location) ELSE LetsIn(op, m.doid, k - 1)
    BY DEF Replayable
  <2>4. m.kind # "enter_location" => m.doid \notin D
    BY <2>3 DEF Left
  <2>5. ASSUME NEW x PROVE LetsIn(op, x, k) => LetsIn(op, x, k - 1) \/ (m.kind = "enter_location" /\ x = m.doid)
    <3>1. \A j \in 1..k : j = k \/ j \in 1..(k - 1)
      OBVIOUS
    <3>2. QED
      BY <3>1 DEF LetsIn
  <2>6. m.kind # "enter_location" => D \subseteq E
    BY <2>5 DEF Left
  <2>7. D \ {m.doid} \subseteq E
    BY <2>5 DEF Left
  <2> HIDE DEF b, m, D, E
  <2>8. m.kind = "enter_location" => Looking(b, m.location) = {}
    <3> SUFFICES ASSUME m.kind = "enter_location" PROVE Looking(b, m.location) = {}
      OBVIOUS
    <3>1. Looking(c, m.location) = {}
      BY <2>2, <2>3 DEF Alone, ObjectMsg
    <3>2. QED
      BY <2>1, <3>1 DEF Looking, SameLooks
  <2>9. Sound(e)
    BY <2>1, <2>2, ObjectDatagramSound
  <2>10. Tidy(e, D) /\ SameLooks(b, e) /\ (m.kind = "enter_location" => Tidy(e, D \ {m.doid}))
    BY <2>1, <2>2, <2>4, <2>8, ObjectDatagramTidy
  <2> HIDE DEF e
  <2>11. Tidy(e, E)
    BY <2>6, <2>7, <2>10, FewerAside
  <2>12. SameLooks(c, e)
    BY <2>1, <2>10, SameLooksOn
  <2>13. Good(k)
    BY <2>2, <2>9, <2>11, <2>12 DEF E
  <2>14. QED
    BY <2>13
<1> HIDE DEF G
<1>5. Len(s) \in G
  <2>1. \A k \in 0..Len(s) : k \in G
    <3> HIDE DEF s
    <3>1. QED
      BY <1>1, <1>3, <1>4, Upwards
  <2>2. QED
    BY <1>1, <2>1
<1>6. Good(Len(s))
  BY <1>5 DEF G
<1>7. Left(op, S, Len(s)) = {}
  BY DEF Left
<1>8. QED
  BY <1>2, <1>6, <1>7

LEMMA DoneTidy ==
  ASSUME NEW c, Sound(c), NEW id, NEW context, NEW caller
  PROVE  Plain(c, InterestDone(c, id, context, caller))
<1>1. InterestDone(c, id, context, caller) = c
      \/ \E x : InterestDone(c, id, context, caller) \in {Tell(c, x), Send(c, x)}
  BY DEF InterestDone, Notify
<1>2. Plain(c, c) /\ \A x : Plain(c, Tell(c, x)) /\ Plain(c, Send(c, x))
  BY DEF Plain, Tell, Send, Sound, ClientFields, Listens
<1>3. QED
  BY <1>1, <1>2

LEMMA FinishTidy ==
  ASSUME NEW c, Sound(c), Tidy(c, {}), NEW k \in DOMAIN c.m_pending_interests, NEW late
  PROVE  Tidy(Finish(c, k, late), {}) /\ SameLooks(c, Finish(c, k, late))
<1> DEFINE op == c.m_pending_interests[k]
           entered == Entering(c, op.generates)
           done == InterestDone(entered, op.id, op.context, op.caller)
           closed == [done EXCEPT !.m_pending_interests = Without(@, {k})]
           replayed == Replaying(closed, op.queued)
           S == DOMAIN closed.m_pending_objects
<1>1. IsOperation(op) /\ Entries(op.generates) /\ HeldBack(op.queued) /\ Replayable(op)
  BY DEF Sound, IsOperation, Tidy
<1>2. Finish(c, k, late) = c \/ Finish(c, k, late) = replayed
  BY DEF Finish, Entering, Replaying
<1> HIDE DEF op
<1>3. /\ Sound(entered) /\ Tidy(entered, {}) /\ entered.m_pending_interests = c.m_pending_interests
      /\ \A j \in 1..Len(op.generates) : op.generates[j].doid \notin DOMAIN entered.m_pending_objects
  BY <1>1, EntrancesTidy
<1> HIDE DEF entered
<1>4. Sound(done) /\ Plain(entered, done)
  BY <1>3, DoneSound, DoneTidy
<1>5. Tidy(done, {})
  BY <1>3, <1>4, PlainTidy
<1> HIDE DEF done
<1>6. Sound(closed)
  BY <1>4, ClosingSound
<1>7. /\ closed.m_pending_objects = done.m_pending_objects /\ closed.dangling = done.dangling
      /\ Listens(closed) = Listens(done)
      /\ closed.m_pending_interests = Without(done.m_pending_interests, {k})
  BY <1>4 DEF Sound, ClientFields, Listens
<1> HIDE DEF closed
<1>8. /\ DOMAIN closed.m_pending_interests = DOMAIN c.m_pending_interests \ {k}
      /\ \A j \in DOMAIN closed.m_pending_interests : closed.m_pending_interests[j] = c.m_pending_interests[j]
  BY <1>3, <1>4, <1>7 DEF Without, Plain
<1>9. SameLooks(c, closed)
  BY <1>8 DEF SameLooks
<1>10. Alone(closed, op)
  <2> SUFFICES ASSUME NEW loc \in Location, LooksAt(op, loc), NEW j \in Looking(closed, loc) PROVE FALSE
    BY DEF Alone
  <2>1. j \in DOMAIN c.m_pending_interests /\ j # k /\ LooksAt(c.m_pending_interests[j], loc)
    BY <1>8 DEF Looking, LooksAt
  <2>2. LooksAt(c.m_pending_interests[k], loc)
    BY DEF op
  <2>3. QED
    BY <2>1, <2>2 DEF Tidy, LooksApart
<1>11. Tidy(closed, Left(op, S, 0))
  <2>1. closed.dangling = FALSE /\ \A j \in DOMAIN closed.m_pending_interests : Replayable(closed.m_pending_interests[j])
    BY <1>5, <1>7, <1>8 DEF Tidy
  <2>2. LooksApart(closed)
    BY <1>8 DEF LooksApart, Tidy
  <2>3. ASSUME Listens(closed), NEW d \in DOMAIN closed.m_pending_objects \ Left(op, S, 0)
        PROVE  Held(closed, d)
    <3> DEFINE j == done.m_pending_objects[d]
    <3>1. /\ j \in DOMAIN done.m_pending_interests
          /\ LetsIn(done.m_pending_interests[j], d, Len(done.m_pending_interests[j].queued))
      BY <1>5, <1>7, <2>3 DEF Tidy, Held
    <3>2. done.m_pending_interests = c.m_pending_interests
      BY <1>3, <1>4 DEF Plain
    <3>3. d \in DOMAIN entered.m_pending_objects /\ closed.m_pending_objects[d] = j
      BY <1>4, <1>7 DEF Plain
    <3> HIDE DEF j
    <3>4. j # k
      <4> SUFFICES ASSUME j = k PROVE FALSE
        OBVIOUS
      <4>1. LetsIn(op, d, Len(op.queued))
        BY <3>1, <3>2 DEF op
      <4>2. LetsIn(op, d, 0)
        BY <2>3, <4>1 DEF Left
      <4>3. QED
        BY <1>3, <3>3, <4>2 DEF LetsIn
    <3>5. j \in DOMAIN closed.m_pending_interests /\ closed.m_pending_interests[j] = done.m_pending_interests[j]
      BY <1>8, <3>1, <3>2, <3>4
    <3>6. QED
      BY <3>1, <3>3, <3>5 DEF Held
  <2>4. QED
    BY <2>1, <2>2, <2>3 DEF Tidy
<1> HIDE DEF S, replayed
<1>12. Tidy(replayed, {}) /\ SameLooks(closed, replayed)
  BY <1>1, <1>6, <1>10, <1>11, ReplayTidy DEF replayed
<1>13. SameLooks(c, replayed) /\ SameLooks(c, c)
  BY <1>9, <1>12, SameLooksOn DEF SameLooks
<1>14. QED
  BY <1>2, <1>12, <1>13

LEMMA FinishesTidy ==
  ASSUME NEW c, Sound(c), Tidy(c, {}), NEW s, Len(s) \in Nat
  PROVE  LET e == Finishing(c, s) IN Tidy(e, {}) /\ SameLooks(c, e)
<1>1. PICK f : /\ Finishing(c, s) = f[Len(s)]
               /\ f[0] = c
               /\ \A k \in 1..Len(s) : f[k] = FinishOpen(f[k - 1], s[k])
  BY FinishesInTurn
<1> DEFINE Good(k) == Sound(f[k]) /\ Tidy(f[k], {}) /\ SameLooks(c, f[k])
           G == {k \in 0..Len(s) : Good(k)}
<1>2. 0 \in G
  BY <1>1 DEF SameLooks
<1>3. ASSUME NEW k \in 1..Len(s), k - 1 \in G PROVE k \in G
  <2> DEFINE b == f[k - 1]
  <2>1. Sound(b) /\ Tidy(b, {}) /\ SameLooks(c, b) /\ f[k] = FinishOpen(b, s[k])
    BY <1>1, <1>3
  <2> HIDE DEF b
  <2>2. Sound(f[k]) /\ Tidy(f[k], {}) /\ SameLooks(b, f[k])
    <3>1. CASE s[k] \in DOMAIN b.m_pending_interests
      <4>1. f[k] = Finish(b, s[k], FALSE)
        BY <2>1, <3>1 DEF FinishOpen
      <4>2. QED
        BY <2>1, <3>1, <4>1, FinishSound, FinishTidy
    <3>2. CASE s[k] \notin DOMAIN b.m_pending_interests
      BY <2>1, <3>2 DEF FinishOpen, SameLooks
    <3>3. QED
      BY <3>1, <3>2
  <2>3. SameLooks(c, f[k])
    BY <2>1, <2>2, SameLooksOn
  <2>4. QED
    BY <2>2, <2>3
<1> HIDE DEF G
<1>4. Len(s) \in G
  <2>1. \A k \in 0..Len(s) : k \in G
    BY <1>2, <1>3, Upwards
  <2>2. QED
    BY <2>1
<1>5. QED
  BY <1>1, <1>4 DEF G

-----------------------------------------------------------------------------
(* What answers an operation, and everything else, keeps that too.           *)
LEMMA FinishIfReadyTidy ==
  ASSUME NEW c, Sound(c), Tidy(c, {}), NEW k \in DOMAIN c.m_pending_interests
  PROVE  Tidy(FinishIfReady(c, k), {}) /\ SameLooks(c, FinishIfReady(c, k))
<1>1. FinishIfReady(c, k) = c \/ FinishIfReady(c, k) = Finish(c, k, FALSE)
  BY DEF FinishIfReady
<1>2. SameLooks(c, c)
  BY DEF SameLooks
<1>3. QED
  BY <1>1, <1>2, FinishTidy

LEMMA GeneratingGrows ==
  ASSUME NEW op, IsOperation(op), NEW m, EntryMsg(m), NEW np, np = [op EXCEPT !.generates = Append(@, m)]
  PROVE  Grows(op, np) /\ LetsIn(np, m.doid, Len(np.queued))
<1> DEFINE q == op.generates
           r == Append(q, m)
<1>1. /\ Len(q) \in Nat /\ Len(r) = Len(q) + 1 /\ r[Len(q) + 1] = m
      /\ \A j \in 1..Len(q) : r[j] = q[j]
  BY EntriesMore DEF IsOperation
<1>2. np.queued = op.queued /\ np.generates = r /\ np.parent = op.parent /\ np.zones = op.zones
  BY DEF IsOperation, OperationFields
<1> HIDE DEF q, r
<1>3. ASSUME NEW d, NEW n, LetsIn(op, d, n) PROVE LetsIn(np, d, n)
  <2>1. \A j \in 1..Len(q) : j \in 1..Len(r) /\ r[j] = q[j]
    BY <1>1
  <2>2. QED
    BY <1>2, <1>3, <2>1 DEF LetsIn, q
<1>4. LetsIn(np, m.doid, Len(np.queued))
  <2>1. Len(q) + 1 \in 1..Len(r)
    BY <1>1
  <2>2. QED
    BY <1>1, <1>2, <2>1 DEF LetsIn
<1>5. Replayable(op) => Replayable(np)
  BY <1>2, <1>3 DEF Replayable, LooksAt
<1>6. QED
  BY <1>2, <1>3, <1>4, <1>5 DEF Grows

LEMMA EnterInterestTidy ==
  ASSUME NEW c, Sound(c), Tidy(c, {}), NEW m, EntryMsg(m)
  PROVE  Tidy(HandleEnterInterest(c, m), {}) /\ SameLooks(c, HandleEnterInterest(c, m))
<1>1. CASE m.context \notin DOMAIN c.m_pending_interests
  BY <1>1 DEF HandleEnterInterest, SameLooks
<1>2. CASE m.context \in DOMAIN c.m_pending_interests
  <2> DEFINE k == m.context
             d == m.doid
             f == EmplacePending(c, d, k)
             op == c.m_pending_interests[k]
             np == [op EXCEPT !.generates = Append(@, m)]
             g == Alter(f, k, np)
  <2>1. IsOperation(op)
    BY <1>2 DEF Sound
  <2>2. IsOperation(np)
    BY <2>1, EntriesMore DEF IsOperation, OperationFields
  <2>3. Grows(op, np) /\ LetsIn(np, d, Len(np.queued))
    <3> HIDE DEF np, op
    <3>1. np = [op EXCEPT !.generates = Append(@, m)]
      BY DEF np
    <3>2. QED
      BY <2>1, <3>1, GeneratingGrows
  <2>4. /\ Sound(f) /\ f.m_pending_interests = c.m_pending_interests /\ f.dangling = c.dangling
        /\ Listens(f) = Listens(c)
    <3>1. f.dangling = c.dangling /\ Listens(f) = Listens(c)
      BY DEF EmplacePending, Sound, ClientFields, Listens
    <3>2. QED
      BY <3>1, EmplacingSound
  <2>5. \A x \in DOMAIN f.m_pending_objects :
           \/ x \in DOMAIN c.m_pending_objects /\ f.m_pending_objects[x] = c.m_pending_objects[x]
           \/ x = d /\ f.m_pending_objects[x] = k
    BY EmplacingTidy
  <2>6. HandleEnterInterest(c, m) = FinishIfReady([f EXCEPT !.m_pending_interests[k].generates = Append(@, m)], k)
    BY <1>2 DEF HandleEnterInterest
  <2> HIDE DEF f
  <2>7. [f EXCEPT !.m_pending_interests[k].generates = Append(@, m)] = g
    BY <2>4 DEF Alter, Sound, ClientFields
  <2> HIDE DEF np
  <2>8. Sound(g) /\ k \in DOMAIN g.m_pending_interests
    BY <1>2, <2>2, <2>4, AlteringSound
  <2>9. /\ g.m_pending_interests = [c.m_pending_interests EXCEPT ![k] = np]
        /\ g.dangling = c.dangling /\ Listens(g) = Listens(c) /\ g.m_pending_objects = f.m_pending_objects
    BY <2>4 DEF Alter, Sound, ClientFields, Listens
  <2>10. \A x \in DOMAIN g.m_pending_objects \ {} :
           \/ x \in DOMAIN c.m_pending_objects /\ g.m_pending_objects[x] = c.m_pending_objects[x]
           \/ g.m_pending_objects[x] = k /\ LetsIn(np, x, Len(np.queued))
    BY <2>3, <2>5, <2>9
  <2>11. Tidy(g, {}) /\ SameLooks(c, g)
    <3> HIDE DEF g, op
    <3>1. k \in DOMAIN c.m_pending_interests /\ Grows(c.m_pending_interests[k], np)
      BY <1>2, <2>3 DEF op
    <3>2. QED
      BY <3>1, <2>9, <2>10, GrowingTidy, ZenonT(60)
  <2> HIDE DEF g
  <2>12. Tidy(FinishIfReady(g, k), {}) /\ SameLooks(g, FinishIfReady(g, k))
    BY <2>8, <2>11, FinishIfReadyTidy
  <2>13. QED
    BY <2>6, <2>7, <2>11, <2>12, SameLooksOn
<1>3. QED
  BY <1>1, <1>2

LEMMA ZonesCountTidy ==
  ASSUME NEW c, Sound(c), Tidy(c, {}), NEW m
  PROVE  Tidy(HandleZonesCount(c, m), {}) /\ SameLooks(c, HandleZonesCount(c, m))
<1>1. CASE m.context \notin DOMAIN c.m_pending_interests
  BY <1>1 DEF HandleZonesCount, SameLooks
<1>2. CASE m.context \in DOMAIN c.m_pending_interests
  <2> DEFINE k == m.context
             op == c.m_pending_interests[k]
             np == [op EXCEPT !.total = IF @ = NoTotal THEN m.count ELSE @]
             g == Alter(c, k, np)
  <2>1. IsOperation(np)
    BY <1>2 DEF Sound, IsOperation, OperationFields
  <2>2. Grows(op, np)
    <3>1. np.queued = op.queued /\ np.generates = op.generates /\ np.parent = op.parent /\ np.zones = op.zones
      BY <1>2 DEF Sound, IsOperation, OperationFields
    <3> HIDE DEF np, op
    <3>2. QED
      BY <3>1 DEF Grows, Replayable, LetsIn, LooksAt
  <2>3. HandleZonesCount(c, m) = FinishIfReady([c EXCEPT !.m_pending_interests[k].total =
                                 IF @ = NoTotal THEN m.count ELSE @], k)
    BY <1>2 DEF HandleZonesCount
  <2>4. [c EXCEPT !.m_pending_interests[k].total = IF @ = NoTotal THEN m.count ELSE @] = g
    BY DEF Alter, Sound, ClientFields
  <2> HIDE DEF np
  <2>5. Sound(g) /\ k \in DOMAIN g.m_pending_interests
    BY <1>2, <2>1, AlteringSound
  <2>6. /\ g.m_pending_interests = [c.m_pending_interests EXCEPT ![k] = np]
        /\ g.dangling = c.dangling /\ Listens(g) = Listens(c) /\ g.m_pending_objects = c.m_pending_objects
    BY DEF Alter, Sound, ClientFields, Listens
  <2> HIDE DEF g
  <2>7. Tidy(g, {}) /\ SameLooks(c, g)
    BY <1>2, <2>2, <2>6, GrowingTidy
  <2>8. Tidy(FinishIfReady(g, k), {}) /\ SameLooks(g, FinishIfReady(g, k))
    BY <2>5, <2>7, FinishIfReadyTidy
  <2>9. QED
    BY <2>3, <2>4, <2>7, <2>8, SameLooksOn
<1>3. QED
  BY <1>1, <1>2

LEMMA OwnerTidy ==
  ASSUME NEW c, Sound(c), NEW m
  PROVE  /\ Plain(c, HandleEnterOwner(c, m)) /\ Plain(c, HandleChangingOwner(c, m))
         /\ Plain(c, HandleSessionObject(c, m)) /\ Plain(c, HandleSetClientId(c, m))
         /\ Plain(c, Eject(c))
<1> DEFINE a == [c EXCEPT !.m_owned_objects =
                   IF m.doid \in DOMAIN @ THEN @ ELSE With(@, m.doid, m.location)]
           b == [c EXCEPT !.m_owned_objects = Without(@, {m.doid})]
<1>1. /\ Plain(c, a) /\ DOMAIN a = ClientFields /\ Plain(c, b) /\ DOMAIN b = ClientFields
      /\ Plain(c, c) /\ DOMAIN c = ClientFields
  BY DEF Plain, Sound, ClientFields, Listens
<1>2. Plain(c, HandleSessionObject(c, m))
  BY DEF HandleSessionObject, Plain, Sound, ClientFields, Listens
<1>3. \E x : HandleEnterOwner(c, m) = Tell(a, x)
  BY DEF HandleEnterOwner
<1>4. HandleChangingOwner(c, m) = c \/ \E x : HandleChangingOwner(c, m) \in {Tell(c, x), Tell(b, x)}
  BY DEF HandleChangingOwner, Eject
<1> HIDE DEF a, b
<1>5. \A x : Plain(c, Tell(a, x)) /\ Plain(c, Tell(b, x)) /\ Plain(c, Tell(c, x))
  BY <1>1 DEF Plain, Tell, ClientFields, Listens
<1>6. Plain(c, HandleSetClientId(c, m))
  <2> DEFINE l == IF c.m_channel # c.m_allocated_channel
                  THEN UnsubscribeChannels(c, {c.m_channel}) ELSE c
             s == SubscribeChannels(l, {m.channel})
  <2>1. Sound(l) /\ Plain(c, l)
    <3>1. Sound(UnsubscribeChannels(c, {c.m_channel})) /\ Plain(c, UnsubscribeChannels(c, {c.m_channel}))
      BY SubscribingSound DEF Plain, ClientFields, Listens
    <3>2. QED
      BY <1>1, <3>1
  <2> HIDE DEF l
  <2>2. Sound(s) /\ Plain(l, s)
    BY <2>1, SubscribingSound DEF Plain, ClientFields, Listens
  <2>3. HandleSetClientId(c, m) = [s EXCEPT !.m_channel = m.channel]
    BY DEF HandleSetClientId, l, s
  <2> HIDE DEF s
  <2>4. QED
    BY <2>1, <2>2, <2>3 DEF Plain, Sound, ClientFields, Listens
<1>7. Plain(c, Eject(c))
  BY <1>5 DEF Eject
<1>8. Plain(c, HandleEnterOwner(c, m))
  BY <1>3, <1>5
<1>9. Plain(c, HandleChangingOwner(c, m))
  BY <1>1, <1>4, <1>5
<1>10. QED
  BY <1>2, <1>6, <1>7, <1>8, <1>9

\* Where operations look, interests do.
Watched(c) ==
  \A k \in DOMAIN c.m_pending_interests : \A loc \in Location :
    LooksAt(c.m_pending_interests[k], loc) => \E i \in DOMAIN c.m_interests : LooksAt(c.m_interests[i], loc)

LEMMA SameWatched ==
  ASSUME NEW c, NEW e, SameLooks(c, e), e.m_interests = c.m_interests, Watched(c)
  PROVE  Watched(e)
BY DEF SameLooks, Watched, LooksAt

LEMMA SettledWatched ==
  ASSUME NEW c, NEW e, SameLooks(c, e), DOMAIN c.m_pending_interests = {}
  PROVE  Watched(e)
BY DEF SameLooks, Watched

LEMMA PlainOn ==
  ASSUME NEW c, NEW e, NEW f, Plain(c, e), Plain(e, f)
  PROVE  Plain(c, f)
BY DEF Plain

LEMMA TellingPlain ==
  ASSUME NEW c, DOMAIN c = ClientFields, NEW m
  PROVE  Plain(c, Tell(c, m)) /\ Plain(c, Send(c, m))
BY DEF Plain, Tell, Send, ClientFields, Listens

LEMMA SubscribingPlain ==
  ASSUME NEW c, DOMAIN c = ClientFields, NEW S
  PROVE  /\ Plain(c, SubscribeChannels(c, S)) /\ DOMAIN SubscribeChannels(c, S) = ClientFields
         /\ Plain(c, UnsubscribeChannels(c, S)) /\ DOMAIN UnsubscribeChannels(c, S) = ClientFields
BY DEF Plain, SubscribeChannels, UnsubscribeChannels, Send, ClientFields, Listens

LEMMA AnnihilationTidy ==
  ASSUME NEW c, Sound(c), Tidy(c, {})
  PROVE  Tidy(Annihilate(c), {}) /\ SameLooks(c, Annihilate(c))
<1> DEFINE quit == UnsubscribeChannels(c, c.subscribed)
           bare == [quit EXCEPT !.m_owned_objects = Empty]
           msgs == ForEach(DOMAIN c.m_owned_objects, LAMBDA d : [kind |-> "delete", doid |-> d])
           left == Send(bare, msgs)
           contexts == [n \in 1..(c.m_next_context - 1) |-> c.m_next_context - n]
           after == Finishing(left, contexts)
           e == Annihilate(c)
<1>1. e = IF c.terminated THEN c ELSE [after EXCEPT !.terminated = TRUE]
  BY DEF Annihilate, Finishing
<1>2. Sound(quit) /\ Plain(c, quit)
  BY SubscribingSound, SubscribingPlain DEF Sound
<1> HIDE DEF quit
<1>3. Sound(bare) /\ Plain(quit, bare)
  BY <1>2 DEF Sound, ClientFields, Plain, Listens
<1> HIDE DEF bare, msgs
<1>4. Sound(left) /\ Plain(bare, left)
  BY <1>3, SendingSound, TellingPlain DEF Sound
<1>5. Len(contexts) \in Nat
  <2>1. c.m_next_context - 1 \in Nat
    BY DEF Sound
  <2>2. QED
    BY <2>1
<1> HIDE DEF left, contexts
<1>6. Tidy(left, {}) /\ SameLooks(c, left)
  BY <1>2, <1>3, <1>4, PlainOn, PlainTidy
<1>7. Sound(after) /\ Tidy(after, {}) /\ SameLooks(left, after)
  BY <1>4, <1>5, <1>6, FinishesSound, FinishesTidy
<1> HIDE DEF after, e
<1>8. CASE ~c.terminated
  <2>1. e = [after EXCEPT !.terminated = TRUE]
    BY <1>1, <1>8
  <2>2. Plain(after, e)
    BY <1>7, <2>1 DEF Plain, Sound, ClientFields, Listens
  <2>3. Tidy(e, {}) /\ SameLooks(after, e)
    BY <1>7, <2>2, PlainTidy
  <2>4. QED
    BY <1>6, <1>7, <2>3, SameLooksOn DEF e
<1>9. CASE c.terminated = TRUE
  BY <1>1, <1>9 DEF e, SameLooks
<1>10. QED
  BY <1>8, <1>9

\* With no timer still to be made.
LEMMA TimersTidy ==
  ASSUME NEW c, Sound(c), Tidy(c, {}), posted = {}
  PROVE  /\ Tidy(MakeTimers(c), {}) /\ SameLooks(c, MakeTimers(c))
<1> DEFINE e == MakeTimers(c)
           p == [k \in DOMAIN c.m_pending_interests |->
                   IF k \in posted THEN [c.m_pending_interests[k] EXCEPT !.timer = "armed"]
                   ELSE c.m_pending_interests[k]]
<1>1. /\ e.m_pending_interests = p /\ e.m_pending_objects = c.m_pending_objects
      /\ Listens(e) = Listens(c)
  BY DEF MakeTimers, Sound, ClientFields, Listens
<1>2. e.dangling = FALSE
  <2>1. e.dangling = (c.dangling \/ ~(posted \subseteq DOMAIN c.m_pending_interests))
    BY DEF MakeTimers, Sound, ClientFields
  <2>2. QED
    BY <2>1 DEF Tidy
<1>3. DOMAIN p = DOMAIN c.m_pending_interests /\ \A k \in DOMAIN p : p[k] = c.m_pending_interests[k]
  OBVIOUS
<1> HIDE DEF e, p
<1>4. SameLooks(c, e)
  BY <1>1, <1>3 DEF SameLooks
<1>5. LooksApart(e)
  BY <1>1, <1>3 DEF LooksApart, Tidy
<1>6. (\A k \in DOMAIN p : Replayable(p[k])) /\ (Listens(e) => \A d \in DOMAIN e.m_pending_objects : Held(e, d))
  BY <1>1, <1>3 DEF Tidy, Held
<1>7. QED
  BY <1>1, <1>2, <1>4, <1>5, <1>6 DEF Tidy, e

\* A new operation looks where no interest did, and so no other operation.
LEMMA AddingTidy ==
  ASSUME NEW c, Sound(c), Tidy(c, {}), Watched(c), NEW id, NEW i, NEW context, NEW caller, NEW timer,
         id \notin DOMAIN c.m_interests \/ DOMAIN c.m_pending_interests = {}
  PROVE  LET e == AddInterest(c, id, i, context, caller, timer) IN Tidy(e, {}) /\ Watched(e)
<1> DEFINE b == Noted(c, id, i)
           o == Opened(c, id, i, context, caller, timer)
           new == {LocationChannel(i.parent, z) : z \in NewZones(c, i)}
           e == AddInterest(c, id, i, context, caller, timer)
           op == Operation(id, context, i, NewZones(c, i), caller, timer)
           k == b.m_next_context
<1>1. /\ Sound(b) /\ b.m_interests = With(c.m_interests, id, i) /\ Plain(c, b)
  <2>1. /\ Sound(b) /\ b.m_interests = With(c.m_interests, id, i)
        /\ \A x \in ClientFields \ {"m_interests", "m_seen_objects", "m_historical_objects",
                                    "m_visible_objects", "subscribed", "told", "sent"} : b[x] = c[x]
    BY NotedSound
  <2> HIDE DEF b
  <2>2. QED
    BY <2>1 DEF ClientFields, Plain, Listens
<1>2. DOMAIN b.m_interests = DOMAIN c.m_interests \cup {id}
      /\ \A j \in DOMAIN b.m_interests : b.m_interests[j] = IF j = id THEN i ELSE c.m_interests[j]
  BY <1>1 DEF With
<1>3. Tidy(b, {})
  BY <1>1, PlainTidy
<1>4. Watched(b)
  BY <1>1, <1>2 DEF Watched, Plain
<1>5. CASE NewZones(c, i) = {}
  <2>1. e = InterestDone(b, id, context, caller)
    BY <1>5, AddingUnfolds
  <2> HIDE DEF b, e
  <2>2. Plain(b, e) /\ SameInterests(b, e)
    BY <1>1, <2>1, DoneTidy, DoneSound
  <2>3. QED
    BY <1>3, <1>4, <2>2, PlainTidy, SameWatched DEF SameInterests, e
<1>6. CASE NewZones(c, i) # {}
  <2>1. PICK s : e = Send(SubscribeChannels(o, new), s)
    BY <1>6, AddingUnfolds
  <2>2. /\ op.parent = i.parent /\ op.zones = NewZones(c, i)
        /\ op.queued = <<>>
    BY DEF Operation
  <2>3. o = [b EXCEPT !.m_next_context = @ + 1, !.m_pending_interests = With(@, k, op)]
    BY DEF Opened
  <2> HIDE DEF b, op, o, new, e
  <2>4. /\ DOMAIN o = ClientFields /\ o.m_pending_interests = With(b.m_pending_interests, k, op)
        /\ o.m_pending_objects = b.m_pending_objects /\ o.dangling = b.dangling
        /\ o.m_interests = b.m_interests /\ Listens(o) = Listens(b)
    BY <1>1, <2>3 DEF Sound, ClientFields, Listens
  <2>5. k \notin DOMAIN b.m_pending_interests
    <3>1. k \in Nat /\ \A l \in DOMAIN b.m_pending_interests : l \in 1..(k - 1)
      BY <1>1 DEF Sound
    <3>2. QED
      BY <3>1
  <2> DEFINE p == b.m_pending_interests
             q == o.m_pending_interests
  <2>6. /\ DOMAIN q = DOMAIN p \cup {k} /\ q[k] = op
        /\ \A j \in DOMAIN p : j # k /\ q[j] = p[j]
    BY <2>4, <2>5 DEF With
  <2> HIDE DEF k, p, q
  <2>7. Replayable(op)
    BY <2>2 DEF Replayable
  <2>8. ASSUME NEW loc \in Location, LooksAt(op, loc)
        PROVE  LooksAt(i, loc) /\ ~\E j \in DOMAIN c.m_interests : LooksAt(c.m_interests[j], loc)
    <3>1. loc = <<loc[1], loc[2]>>
      BY DEF Location
    <3>2. loc[1] = i.parent /\ loc[2] \in i.zones /\ LookupInterests(c, i.parent, loc[2]) = {}
      BY <2>2, <2>8 DEF LooksAt, NewZones
    <3>3. QED
      BY <3>1, <3>2, LookupLooks DEF LooksAt
  <2>9. ASSUME NEW loc \in Location, LooksAt(op, loc), NEW j \in DOMAIN p, LooksAt(p[j], loc) PROVE FALSE
    <3>1. p = c.m_pending_interests
      BY <1>1 DEF Plain, p
    <3>2. \E l \in DOMAIN c.m_interests : LooksAt(c.m_interests[l], loc)
      BY <2>9, <3>1 DEF Watched
    <3>3. QED
      BY <2>8, <2>9, <3>2
  <2>10. LooksApart(o)
    <3>1. \A j, l \in DOMAIN p : \A loc \in Location : LooksAt(p[j], loc) /\ LooksAt(p[l], loc) => j = l
      BY <1>3 DEF Tidy, LooksApart, p
    <3>2. QED
      BY <2>6, <2>9, <3>1 DEF LooksApart, q
  <2>11. \A j \in DOMAIN q : Replayable(q[j])
    BY <1>3, <2>6, <2>7 DEF Tidy, p
  <2>12. ASSUME Listens(o), NEW d \in DOMAIN o.m_pending_objects PROVE Held(o, d)
    <3>1. Held(b, d)
      BY <1>3, <2>4, <2>12 DEF Tidy
    <3>2. QED
      BY <2>4, <2>6, <3>1 DEF Held, p, q
  <2>13. Tidy(o, {})
    BY <1>3, <2>4, <2>10, <2>11, <2>12 DEF Tidy, q
  <2>14. Watched(o)
    <3>1. ASSUME NEW loc \in Location, LooksAt(op, loc)
          PROVE  \E j \in DOMAIN o.m_interests : LooksAt(o.m_interests[j], loc)
      <4>1. id \in DOMAIN o.m_interests /\ o.m_interests[id] = i
        BY <1>2, <2>4
      <4>2. QED
        BY <2>8, <3>1, <4>1
    <3>2. ASSUME NEW j \in DOMAIN p, NEW loc \in Location, LooksAt(p[j], loc)
          PROVE  \E l \in DOMAIN o.m_interests : LooksAt(o.m_interests[l], loc)
      BY <1>4, <2>4, <3>2 DEF Watched, p
    <3>3. QED
      BY <2>6, <3>1, <3>2 DEF Watched, q
  <2>15. Plain(o, e) /\ e.m_interests = o.m_interests
    BY <2>1, <2>4 DEF SubscribeChannels, Send, ClientFields, Plain, Listens
  <2>16. QED
    BY <2>13, <2>14, <2>15, PlainTidy, SameWatched DEF e
<1>7. QED
  BY <1>5, <1>6

LEMMA RemovingPlain ==
  ASSUME NEW c, Sound(c), NEW id, NEW i, NEW context, NEW caller
  PROVE  Plain(c, RemoveInterest(c, id, i, context, caller))
<1> DEFINE killed == Killed(c, i)
           a == CloseZones(c, i.parent, killed)
           b == Notify(a, id, caller)
           d == Tell(b, Done(id, context))
           e == RemoveInterest(c, id, i, context, caller)
<1>1. e = [d EXCEPT !.m_interests = Without(@, {id})]
  BY DEF RemoveInterest, Killed
<1> HIDE DEF killed, e
<1>2. /\ Sound(a)
      /\ \A x \in ClientFields \ {"m_seen_objects", "m_historical_objects", "m_visible_objects",
                                  "subscribed", "told", "sent"} : a[x] = c[x]
  BY ClosingZones
<1> HIDE DEF a
<1>3. Plain(c, a) /\ DOMAIN a = ClientFields
  BY <1>2 DEF Plain, ClientFields, Listens, Sound
<1>4. Plain(a, b) /\ DOMAIN b = ClientFields
  <2>1. b = a \/ \E s : b = Send(a, s)
    BY DEF Notify
  <2> HIDE DEF b
  <2>2. CASE b = a
    BY <1>3, <2>2 DEF Plain
  <2>3. ASSUME NEW s, b = Send(a, s) PROVE Plain(a, b) /\ DOMAIN b = ClientFields
    BY <1>3, <2>3 DEF Plain, ClientFields, Listens, Send
  <2>4. QED
    BY <2>1, <2>2, <2>3
<1> HIDE DEF b
<1>5. Plain(b, d) /\ DOMAIN d = ClientFields
  BY <1>4 DEF Plain, ClientFields, Listens, Tell
<1> HIDE DEF d
<1>6. Plain(d, e)
  BY <1>1, <1>5 DEF Plain, ClientFields, Listens
<1>7. QED
  BY <1>3, <1>4, <1>5, <1>6, PlainOn DEF e

\* Nothing else is asked of a client than an interest of a daemon's, which
\* comes when no operation is open.
LEMMA AddRequestTidy ==
  ASSUME NEW c, Sound(c), Tidy(c, {}), NEW m, NEW timer, DOMAIN c.m_pending_interests = {}
  PROVE  Tidy(HandleAddInterest(c, m, timer), {}) /\ Watched(HandleAddInterest(c, m, timer))
<1> DEFINE a == [c EXCEPT !.m_next_context = @ + 1]
           msg == [kind |-> "add_interest", id |-> m.id, context |-> c.m_next_context]
           b == Tell(a, msg)
<1>1. HandleAddInterest(c, m, timer) = AddInterest(b, m.id, m.interest, c.m_next_context, m.sender, timer)
  BY DEF HandleAddInterest
<1>2. Sound(a) /\ Plain(c, a)
  <2>1. a.m_next_context = c.m_next_context + 1 /\ c.m_next_context \in Nat \ {0}
    BY DEF Sound, ClientFields
  <2>2. \A l \in 1..(c.m_next_context - 1) : l \in 1..(c.m_next_context + 1 - 1)
    BY <2>1
  <2>3. QED
    BY <2>1, <2>2 DEF Sound, ClientFields, Plain, Listens
<1> HIDE DEF a, msg
<1>3. Sound(b) /\ Plain(a, b)
  BY <1>2, TellingSound, TellingPlain DEF Sound
<1> HIDE DEF b
<1>4. Tidy(b, {}) /\ SameLooks(c, b)
  BY <1>2, <1>3, PlainOn, PlainTidy
<1>5. DOMAIN b.m_pending_interests = {}
  BY <1>4 DEF SameLooks
<1>6. Watched(b)
  BY <1>5 DEF Watched
<1>7. QED
  BY <1>1, <1>3, <1>4, <1>5, <1>6, AddingTidy

LEMMA RemoveRequestTidy ==
  ASSUME NEW c, Sound(c), Tidy(c, {}), NEW m, DOMAIN c.m_pending_interests = {}
  PROVE  Tidy(HandleRemoveInterest(c, m), {}) /\ Watched(HandleRemoveInterest(c, m))
<1> DEFINE there == m.id \in DOMAIN c.m_interests
           i == IF there THEN c.m_interests[m.id] ELSE [parent |-> 0, zones |-> {}]
           k == IF there THEN m.id ELSE 0
           a == [c EXCEPT !.m_next_context = @ + 1, !.m_interests = With(@, m.id, i)]
           b == Tell(a, [kind |-> "remove_interest", id |-> m.id])
           e == HandleRemoveInterest(c, m)
<1>1. e = RemoveInterest(b, k, i, c.m_next_context, m.sender)
  BY DEF HandleRemoveInterest
<1> HIDE DEF i, k
<1>2. Sound(a) /\ Plain(c, a)
  <2>1. a.m_next_context = c.m_next_context + 1 /\ c.m_next_context \in Nat \ {0}
    BY DEF Sound, ClientFields
  <2>2. \A l \in 1..(c.m_next_context - 1) : l \in 1..(c.m_next_context + 1 - 1)
    BY <2>1
  <2>3. QED
    BY <2>1, <2>2 DEF Sound, ClientFields, Plain, Listens
<1> HIDE DEF a
<1>3. Sound(b) /\ Plain(a, b)
  BY <1>2, TellingSound, TellingPlain DEF Sound
<1> HIDE DEF b
<1>4. Plain(b, e)
  BY <1>1, <1>3, RemovingPlain
<1> HIDE DEF e
<1>5. Tidy(e, {}) /\ SameLooks(c, e)
  BY <1>2, <1>3, <1>4, PlainOn, PlainTidy
<1>6. QED
  BY <1>5, SettledWatched DEF e

\* A datagram that opens or closes an interest comes when no operation is open.
LEMMA DatagramTidy ==
  ASSUME NEW s, NEW c, Sound(c), Tidy(c, {}), Watched(c), NEW m, Fit(s, m), NEW timer,
         m.kind \in {"add_interest", "remove_interest"} => DOMAIN c.m_pending_interests = {}
  PROVE  LET e == HandleDatagram(c, m, timer)
         IN  /\ Tidy(e, {}) /\ Watched(e)
             /\ m.kind \notin {"add_interest", "remove_interest"} => SameLooks(c, e)
<1> DEFINE e == HandleDatagram(c, m, timer)
           Right == Tidy(e, {}) /\ SameLooks(c, e) /\ SameInterests(c, e)
<1>1. CASE ~Listens(c)
  <2>1. HandleDatagram(c, m, timer) = c
    BY <1>1 DEF HandleDatagram
  <2>2. QED
    BY <2>1 DEF SameLooks
<1>2. CASE Listens(c) /\ m.kind = "add_interest"
  <2>1. HandleDatagram(c, m, timer) = HandleAddInterest(c, m, timer)
    BY <1>2 DEF HandleDatagram
  <2>2. QED
    BY <1>2, <2>1, AddRequestTidy
<1>3. CASE Listens(c) /\ m.kind = "remove_interest"
  <2>1. HandleDatagram(c, m, timer) = HandleRemoveInterest(c, m)
    BY <1>3 DEF HandleDatagram
  <2>2. QED
    BY <1>3, <2>1, RemoveRequestTidy
<1>4. CASE Listens(c) /\ m.kind = "set_client_id"
  <2>1. e = HandleSetClientId(c, m)
    BY <1>4 DEF HandleDatagram
  <2>2. Plain(c, HandleSetClientId(c, m))
    BY OwnerTidy
  <2>3. HandleSetClientId(c, m).m_interests = c.m_interests
    <3> DEFINE l == IF c.m_channel # c.m_allocated_channel
                    THEN UnsubscribeChannels(c, {c.m_channel}) ELSE c
               n == SubscribeChannels(l, {m.channel})
    <3>1. DOMAIN l = ClientFields /\ l.m_interests = c.m_interests
      BY DEF UnsubscribeChannels, Send, Sound, ClientFields
    <3>2. HandleSetClientId(c, m) = [n EXCEPT !.m_channel = m.channel]
      BY DEF HandleSetClientId
    <3> HIDE DEF l
    <3>3. DOMAIN n = ClientFields /\ n.m_interests = l.m_interests
      BY <3>1 DEF SubscribeChannels, Send, ClientFields
    <3> HIDE DEF n
    <3>4. QED
      BY <3>1, <3>2, <3>3 DEF ClientFields
  <2> HIDE DEF e
  <2>4. Tidy(e, {}) /\ SameLooks(c, e)
    BY <2>1, <2>2, PlainTidy
  <2>5. Watched(e)
    BY <2>1, <2>3, <2>4, SameWatched
  <2>6. QED
    BY <2>4, <2>5 DEF e
<1>5. CASE Listens(c) /\ m.kind = "enter_interest"
  <2>1. e = HandleEnterInterest(c, m)
    BY <1>5 DEF HandleDatagram
  <2>2. EntryMsg(m)
    BY <1>5 DEF Fit
  <2>3. Right
    BY <2>1, <2>2, EnterInterestTidy, EnterInterestSound
  <2> HIDE DEF e
  <2>4. QED
    BY <2>3, SameWatched DEF SameInterests, e
<1>6. CASE Listens(c) /\ m.kind = "zones_count"
  <2>1. e = HandleZonesCount(c, m)
    BY <1>6 DEF HandleDatagram
  <2>2. Right
    BY <2>1, ZonesCountTidy, ZonesCountSound
  <2> HIDE DEF e
  <2>3. QED
    BY <2>2, SameWatched DEF SameInterests, e
<1>7. CASE Listens(c) /\ m.kind \in {"enter_owner", "changing_owner", "session_object"}
  <2>1. e \in {HandleEnterOwner(c, m), HandleChangingOwner(c, m), HandleSessionObject(c, m)}
    BY <1>7 DEF HandleDatagram
  <2> HIDE DEF e
  <2>2. Plain(c, e) /\ SameInterests(c, e)
    BY <2>1, OwnerTidy, OwnerSound
  <2>3. Right
    BY <2>2, PlainTidy
  <2>4. QED
    BY <2>3, SameWatched DEF SameInterests, e
<1>8. CASE Listens(c) /\ m.kind \in ObjectKinds
  <2>1. e = HandleObjectDatagram(c, m)
    BY <1>8 DEF HandleDatagram, ObjectKinds
  <2>2. ObjectMsg(m)
    BY <1>8 DEF Fit
  <2>3. Right
    BY <2>1, <2>2, ObjectDatagramTidy, ObjectDatagramSound
  <2> HIDE DEF e
  <2>4. QED
    BY <2>3, SameWatched DEF SameInterests, e
<1>9. QED
  BY <1>1, <1>2, <1>3, <1>4, <1>5, <1>6, <1>7, <1>8 DEF Fit, OtherKinds

-----------------------------------------------------------------------------
(* Requests wait, or are such that nothing is closed or altered early.       *)
Crossed(q) == \E k \in 1..Len(q) : q[k].kind \in Crossing

Ordered(s, c, q) ==
  /\ Tidy(c, {}) /\ Watched(c)
  /\ s.hasty => \A k \in 1..Len(q) : q[k].kind \notin {"add_interest", "remove_interest"}
  /\ ~s.hasty => /\ \A j, k \in 1..Len(q) : q[j].kind \in Crossing /\ q[k].kind \in Crossing => j = k
                 /\ Crossed(q) => DOMAIN c.m_pending_interests = {}

OrderInv == Regular => posted = {} /\ Ordered(scenario, client, down)

LEMMA OrderedOn ==
  ASSUME NEW s, NEW c, NEW q, Ordered(s, c, q), NEW e, Tidy(e, {}), Watched(e), SameLooks(c, e)
  PROVE  Ordered(s, e, q)
BY DEF Ordered, SameLooks

\* What the client has handled is told and sent.
LEMMA HandledPlain ==
  ASSUME NEW c, Sound(c)
  PROVE  LET e == [c EXCEPT !.told = <<>>, !.sent = <<>>]
         IN  Plain(c, e) /\ e.m_interests = c.m_interests
BY DEF Sound, ClientFields, Plain, Listens

LEMMA HandledTidy ==
  ASSUME NEW c, Sound(c), Tidy(c, {}), Watched(c), client' = [c EXCEPT !.told = <<>>, !.sent = <<>>]
  PROVE  Tidy(client', {}) /\ Watched(client') /\ SameLooks(c, client')
<1> DEFINE e == [c EXCEPT !.told = <<>>, !.sent = <<>>]
<1>1. Plain(c, e) /\ e.m_interests = c.m_interests
  BY HandledPlain
<1> HIDE DEF e
<1>2. Tidy(e, {}) /\ SameLooks(c, e)
  BY <1>1, PlainTidy
<1>3. Watched(e)
  BY <1>1, <1>2, SameWatched
<1>4. QED
  BY <1>2, <1>3 DEF e

\* Datagrams arrive at the end.
LEMMA RoutedAtTheEnd ==
  ASSUME NEW s, NEW q, Carries(s, q), NEW m
  PROVE  LET r == q \o Routed(m)
         IN  \A k \in 1..Len(r) : \/ k \in 1..Len(q) /\ r[k] = q[k]
                                  \/ k = Len(q) + 1 /\ r[k] = m
<1>1. PICK S : q \in Seq(S)
  BY DEF Carries
<1> DEFINE T == S \cup {m}
           n == Routed(m)
<1>2. q \in Seq(T)
  BY <1>1, SeqMonotonic
<1>3. n \in Seq(T) /\ (n = <<m>> \/ n = <<>>)
  <2>1. m \in T
    OBVIOUS
  <2> HIDE DEF T
  <2>2. <<m>> \in Seq(T) /\ <<>> \in Seq(T)
    BY <2>1
  <2>3. QED
    BY <2>2 DEF Routed
<1> HIDE DEF T, n
<1>4. /\ Len(q \o n) = Len(q) + Len(n) /\ Len(q) \in Nat
      /\ \A k \in 1..(Len(q) + Len(n)) : (q \o n)[k] = IF k <= Len(q) THEN q[k] ELSE n[k - Len(q)]
  BY <1>2, <1>3, ConcatProperties, LenProperties
<1>5. ASSUME NEW k \in 1..Len(q \o n)
      PROVE  \/ k \in 1..Len(q) /\ (q \o n)[k] = q[k]
             \/ k = Len(q) + 1 /\ (q \o n)[k] = m
  <2>1. CASE k <= Len(q)
    BY <1>4, <2>1
  <2>2. CASE ~(k <= Len(q))
    <3>1. n = <<m>> /\ Len(n) = 1
      BY <1>3, <1>4, <2>2
    <3>2. k = Len(q) + 1 /\ k - Len(q) = 1
      BY <1>4, <2>2, <3>1
    <3>3. QED
      BY <1>4, <2>2, <3>1, <3>2
  <2>3. QED
    BY <2>1, <2>2
<1>6. QED
  BY <1>5 DEF n

LEMMA RoutedOrdered ==
  ASSUME NEW s, NEW q, Carries(s, q), NEW c, Ordered(s, c, q), NEW m,
         s.hasty => m.kind \notin {"add_interest", "remove_interest"},
         ~s.hasty /\ m.kind \in Crossing => DOMAIN c.m_pending_interests = {} /\ ~Crossed(q)
  PROVE  Ordered(s, c, q \o Routed(m))
<1> DEFINE r == q \o Routed(m)
<1>1. \A k \in 1..Len(r) : \/ k \in 1..Len(q) /\ r[k] = q[k]
                           \/ k = Len(q) + 1 /\ r[k] = m
  BY RoutedAtTheEnd
<1> HIDE DEF r
<1>2. ASSUME s.hasty PROVE \A k \in 1..Len(r) : r[k].kind \notin {"add_interest", "remove_interest"}
  BY <1>1, <1>2 DEF Ordered
<1>3. ASSUME ~s.hasty
      PROVE  /\ \A j, k \in 1..Len(r) : r[j].kind \in Crossing /\ r[k].kind \in Crossing => j = k
             /\ Crossed(r) => DOMAIN c.m_pending_interests = {}
  BY <1>1, <1>3 DEF Ordered, Crossed
<1>4. QED
  BY <1>2, <1>3 DEF Ordered, r

\* Objects and the state server send nothing else.
LEMMA EmitOrdered ==
  ASSUME Carries(scenario, down), Ordered(scenario, client, down), NEW m,
         m.kind \notin Crossing, Emit(m)
  PROVE  Ordered(scenario, client, down')
BY RoutedOrdered DEF Emit, Crossing

LEMMA EmitBothOrdered ==
  ASSUME Carries(scenario, down), Ordered(scenario, client, down), NEW m, NEW n,
         m.kind \notin Crossing, n.kind \notin Crossing, Fit(scenario, m), EmitBoth(m, n)
  PROVE  Ordered(scenario, client, down')
<1> DEFINE r == down \o Routed(m)
<1>1. Ordered(scenario, client, r) /\ Carries(scenario, r)
  BY RoutedOrdered, CarriesRouted DEF Crossing
<1>2. down' = r \o Routed(n)
  BY DEF EmitBoth
<1> HIDE DEF r
<1>3. QED
  BY <1>1, <1>2, RoutedOrdered DEF Crossing

LEMMA TakenOrdered ==
  ASSUME NEW s, NEW q, Carries(s, q), q # <<>>, NEW c, Ordered(s, c, q)
  PROVE  /\ Ordered(s, c, Tail(q))
         /\ Head(q).kind \in {"add_interest", "remove_interest"} =>
              DOMAIN c.m_pending_interests = {} /\ ~s.hasty
         /\ ~s.hasty /\ Head(q).kind \in Crossing => ~Crossed(Tail(q))
<1>1. PICK S : q \in Seq(S)
  BY DEF Carries
<1>2. /\ Head(q) = q[1] /\ 1 \in 1..Len(q)
      /\ \A k \in 1..Len(Tail(q)) : k + 1 \in 1..Len(q) /\ k + 1 # 1 /\ Tail(q)[k] = q[k + 1]
  <2>1. Len(q) \in Nat /\ Len(q) # 0 /\ Len(Tail(q)) = Len(q) - 1
    BY <1>1
  <2>2. Head(q) = q[1]
    BY <1>1
  <2>3. \A k \in 1..Len(Tail(q)) : Tail(q)[k] = q[k + 1]
    BY <1>1
  <2>4. QED
    BY <2>1, <2>2, <2>3
<1> DEFINE t == Tail(q)
<1> HIDE DEF t
<1>3. ASSUME ~s.hasty
      PROVE  /\ \A j, k \in 1..Len(t) : t[j].kind \in Crossing /\ t[k].kind \in Crossing => j = k
             /\ Crossed(t) => Crossed(q)
             /\ Head(q).kind \in Crossing => ~Crossed(t)
  <2>1. \A j, k \in 1..Len(q) : q[j].kind \in Crossing /\ q[k].kind \in Crossing => j = k
    BY <1>3 DEF Ordered
  <2>2. ASSUME NEW j \in 1..Len(t), NEW k \in 1..Len(t), t[j].kind \in Crossing, t[k].kind \in Crossing
        PROVE  j = k
    <3>1. j + 1 \in 1..Len(q) /\ k + 1 \in 1..Len(q) /\ t[j] = q[j + 1] /\ t[k] = q[k + 1]
      BY <1>2 DEF t
    <3>2. j + 1 = k + 1
      BY <2>1, <2>2, <3>1
    <3>3. j \in Int /\ k \in Int
      OBVIOUS
    <3>4. QED
      BY <3>2, <3>3
  <2>3. QED
    BY <1>2, <2>1, <2>2 DEF Crossed, t
<1>4. ASSUME s.hasty PROVE \A k \in 1..Len(t) : t[k].kind \notin {"add_interest", "remove_interest"}
  BY <1>2, <1>4 DEF Ordered, t
<1>5. Ordered(s, c, t)
  BY <1>3, <1>4 DEF Ordered
<1>6. Head(q).kind \in {"add_interest", "remove_interest"} => DOMAIN c.m_pending_interests = {} /\ ~s.hasty
  BY <1>2 DEF Ordered, Crossed, Crossing
<1>7. QED
  BY <1>3, <1>5, <1>6 DEF t

LEMMA GameAddsOrdered ==
  ASSUME Inv, Regular, posted = {}, Ordered(scenario, client, down), NEW id, NEW i, GameAddsInterest(id, i)
  PROVE  posted' = {} /\ Ordered(scenario, client', down)
<1> DEFINE added == AddInterest(client, id, i, -requests - 1, client.m_channel, "armed")
<1>1. PICK e \in {added, MakeTimers(added)} : client' = [e EXCEPT !.told = <<>>, !.sent = <<>>]
  <2> DEFINE opens == added.m_next_context # client.m_next_context
             Becomes(c) == client' = [c EXCEPT !.told = <<>>, !.sent = <<>>]
  <2>1. \E c \in {IF opens THEN MakeTimers(added) ELSE added} : Becomes(c)
    BY DEF GameAddsInterest
  <2> HIDE DEF added, opens, Becomes
  <2>2. \E c \in {added, MakeTimers(added)} : Becomes(c)
    BY <2>1
  <2>3. QED
    BY <2>2 DEF Becomes
<1>2. posted' = {}
  BY DEF GameAddsInterest
<1>3. Sound(client) /\ Tidy(client, {}) /\ Watched(client)
  BY DEF Inv, Sane, Ordered
<1>4. ~scenario.hasty => DOMAIN client.m_pending_interests = {} /\ ~Crossed(down)
  BY DEF GameAddsInterest, MayAsk, Settled, Crossed
<1>5. id \notin DOMAIN client.m_interests \/ DOMAIN client.m_pending_interests = {}
  BY <1>4 DEF GameAddsInterest, Regular, Orderly
<1>6. Sound(added) /\ Tidy(added, {}) /\ Watched(added)
  BY <1>3, <1>5, AddingSound, AddingTidy
<1> HIDE DEF added
<1>7. Sound(e) /\ Tidy(e, {}) /\ Watched(e)
  <2> DEFINE f == MakeTimers(added)
  <2>1. Tidy(f, {}) /\ SameLooks(added, f)
    BY <1>6, TimersTidy
  <2>2. Sound(f) /\ f.m_interests = added.m_interests
    <3> DEFINE p == [k \in DOMAIN added.m_pending_interests |->
                       IF k \in posted THEN [added.m_pending_interests[k] EXCEPT !.timer = "armed"]
                       ELSE added.m_pending_interests[k]]
    <3>1. /\ DOMAIN f = ClientFields /\ f.m_pending_interests = p
          /\ \A x \in ClientFields \ {"m_pending_interests", "dangling"} : f[x] = added[x]
      BY <1>6 DEF MakeTimers, Sound, ClientFields
    <3>2. \A k \in DOMAIN p : k \in DOMAIN added.m_pending_interests /\ p[k] = added.m_pending_interests[k]
      OBVIOUS
    <3> HIDE DEF f, p
    <3>3. QED
      BY <1>6, <3>1, <3>2 DEF Sound, ClientFields
  <2> HIDE DEF f
  <2>3. Watched(f)
    BY <1>6, <2>1, <2>2, SameWatched
  <2>4. QED
    BY <1>6, <2>1, <2>2, <2>3 DEF f
<1>8. Tidy(client', {}) /\ Watched(client')
  BY <1>1, <1>7, HandledTidy
<1>9. Ordered(scenario, client', down)
  BY <1>4, <1>8 DEF Ordered
<1>10. QED
  BY <1>2, <1>9

LEMMA HandledOrdered ==
  ASSUME Ordered(scenario, client, down), ~Threaded,
         NEW e, Sound(e), Tidy(e, {}), Watched(e), SameLooks(client, e), Handled(e)
  PROVE  posted' = {} /\ Ordered(scenario, client', down)
<1>1. posted' = {} /\ client' = [e EXCEPT !.told = <<>>, !.sent = <<>>]
  BY DEF Handled
<1>2. Tidy(client', {}) /\ Watched(client') /\ SameLooks(e, client')
  BY <1>1, HandledTidy
<1>3. SameLooks(client, client')
  BY <1>2, SameLooksOn
<1>4. QED
  BY <1>1, <1>2, <1>3, OrderedOn

LEMMA GameRemovesOrdered ==
  ASSUME Inv, Regular, Ordered(scenario, client, down), NEW id, GameRemovesInterest(id)
  PROVE  posted' = {} /\ Ordered(scenario, client', down)
<1>1. Sound(client) /\ Tidy(client, {}) /\ ~Threaded
  BY DEF Inv, Sane, Ordered, Regular
<1>2. DOMAIN client.m_pending_interests = {}
  BY DEF GameRemovesInterest, MayAsk, Settled, Regular, Orderly
<1> DEFINE i == client.m_interests[id]
           r == RemoveInterest(client, id, i, 0, NoCaller)
<1>3. PICK e \in {r, Eject(client)} : Handled(e)
  BY DEF GameRemovesInterest
<1>4. Sound(r) /\ Plain(client, r)
  BY <1>1, RemovingSound, RemovingPlain
<1>5. Sound(Eject(client)) /\ Plain(client, Eject(client))
  BY <1>1, TellingSound, OwnerTidy DEF Eject
<1> HIDE DEF r
<1>6. Tidy(e, {}) /\ SameLooks(client, e) /\ Sound(e)
  BY <1>1, <1>4, <1>5, PlainTidy
<1>7. Watched(e)
  BY <1>2, <1>6, SettledWatched
<1>8. QED
  BY <1>1, <1>3, <1>6, <1>7, HandledOrdered

LEMMA DisconnectOrdered ==
  ASSUME Inv, Regular, Ordered(scenario, client, down), Disconnect
  PROVE  posted' = {} /\ Ordered(scenario, client', down)
<1> DEFINE e == Annihilate(client)
<1>1. Sound(client) /\ Tidy(client, {}) /\ Watched(client) /\ ~Threaded
  BY DEF Inv, Sane, Ordered, Regular
<1>2. Sound(e) /\ e.m_interests = client.m_interests /\ Tidy(e, {}) /\ SameLooks(client, e)
  BY <1>1, AnnihilationSound, AnnihilationTidy
<1>3. Handled(e)
  BY DEF Disconnect
<1> HIDE DEF e
<1>4. Watched(e)
  BY <1>1, <1>2, SameWatched
<1>5. QED
  BY <1>1, <1>2, <1>3, <1>4, HandledOrdered

LEMMA FinishOrdered ==
  ASSUME Inv, Regular, Ordered(scenario, client, down), NEW k \in DOMAIN client.m_pending_interests,
         Handled(Finish(client, k, TRUE))
  PROVE  posted' = {} /\ Ordered(scenario, client', down)
<1> DEFINE e == Finish(client, k, TRUE)
<1>1. Sound(client) /\ Tidy(client, {}) /\ Watched(client) /\ ~Threaded
  BY DEF Inv, Sane, Ordered, Regular
<1>2. Sound(e) /\ e.m_interests = client.m_interests /\ Tidy(e, {}) /\ SameLooks(client, e)
  BY <1>1, FinishSound, FinishTidy DEF SameInterests
<1> HIDE DEF e
<1>3. Watched(e)
  BY <1>1, <1>2, SameWatched
<1>4. QED
  BY <1>1, <1>2, <1>3, HandledOrdered DEF e

LEMMA TakeDatagramOrdered ==
  ASSUME Inv, Regular, posted = {}, Ordered(scenario, client, down), TakeDatagram
  PROVE  posted' = {} /\ Ordered(scenario, client', down')
<1> DEFINE m == Head(down)
           e == HandleDatagram(client, m, "armed")
<1>1. /\ down # <<>> /\ down' = Tail(down) /\ ~Threaded
      /\ Handled(e) \/ UNCHANGED <<client, posted>>
  BY DEF TakeDatagram, Regular
<1>2. Sound(client) /\ Tidy(client, {}) /\ Watched(client) /\ Carries(scenario, down)
  BY DEF Inv, Sane, Ordered
<1>3. Fit(scenario, m) /\ Carries(scenario, Tail(down))
  BY <1>1, <1>2, HeadFits
<1>4. /\ Ordered(scenario, client, Tail(down))
      /\ m.kind \in {"add_interest", "remove_interest"} =>
           DOMAIN client.m_pending_interests = {} /\ ~scenario.hasty
      /\ ~scenario.hasty /\ m.kind \in Crossing => ~Crossed(Tail(down))
  BY <1>1, <1>2, TakenOrdered
<1>5. /\ Sound(e) /\ Tidy(e, {}) /\ Watched(e)
      /\ m.kind \notin {"add_interest", "remove_interest"} => SameLooks(client, e)
  <2>1. Sound(e)
    BY <1>2, <1>3, DatagramSound DEF Keeps
  <2>2. /\ Tidy(e, {}) /\ Watched(e)
        /\ m.kind \notin {"add_interest", "remove_interest"} => SameLooks(client, e)
    BY <1>2, <1>3, <1>4, DatagramTidy
  <2>3. QED
    BY <2>1, <2>2
<1> HIDE DEF m, e
<1>6. CASE UNCHANGED <<client, posted>>
  BY <1>1, <1>4, <1>6
<1>7. CASE Handled(e)
  <2>1. posted' = {} /\ client' = [e EXCEPT !.told = <<>>, !.sent = <<>>]
    BY <1>1, <1>7 DEF Handled
  <2>2. Tidy(client', {}) /\ Watched(client') /\ SameLooks(e, client')
    BY <1>5, <2>1, HandledTidy
  <2>3. Ordered(scenario, client', Tail(down))
    <3>1. CASE m.kind \in {"add_interest", "remove_interest"}
      <4>1. ~scenario.hasty /\ ~Crossed(Tail(down))
        BY <1>4, <3>1 DEF Crossing
      <4>2. QED
        BY <1>4, <2>2, <4>1 DEF Ordered
    <3>2. CASE m.kind \notin {"add_interest", "remove_interest"}
      <4>1. SameLooks(client, client')
        BY <1>5, <2>2, <3>2, SameLooksOn
      <4>2. QED
        BY <1>4, <2>2, <4>1, OrderedOn
    <3>3. QED
      BY <3>1, <3>2
  <2>4. QED
    BY <1>1, <2>1, <2>3
<1>8. QED
  BY <1>1, <1>6, <1>7

LEMMA TakeRequestOrdered ==
  ASSUME Inv, Ordered(scenario, client, down), TakeRequest
  PROVE  Ordered(scenario, client, down')
<1> DEFINE msg == Head(up)
           count == [kind |-> "zones_count", to |-> {msg.sender}, context |-> msg.context,
                     count |-> Cardinality(Children(msg))]
<1>1. down' = down \/ Emit(count)
  BY DEF TakeRequest, world
<1>2. count.kind \notin Crossing
  BY DEF Crossing
<1> HIDE DEF count
<1>3. QED
  BY <1>1, <1>2, EmitOrdered DEF Inv

LEMMA AnswerOrdered ==
  ASSUME Inv, Ordered(scenario, client, down), NEW q, NEW d, Answer(q, d)
  PROVE  Ordered(scenario, client, down')
<1>1. CASE d \in Children(q)
  <2>1. PICK kind \in {"enter_interest", "enter_location"} : Emit(Entry(kind, d, {q.sender}, q.context))
    BY <1>1 DEF Answer
  <2>2. Entry(kind, d, {q.sender}, q.context).kind \notin Crossing
    BY DEF Entry, Crossing
  <2>3. QED
    BY <2>1, <2>2, EmitOrdered DEF Inv
<1>2. CASE d \notin Children(q)
  BY <1>2 DEF Answer
<1>3. QED
  BY <1>1, <1>2

LEMMA MoveOrdered ==
  ASSUME Inv, Ordered(scenario, client, down), NEW d \in DOMAIN objs, NEW loc \in Location, Move(d, loc)
  PROVE  Ordered(scenario, client, down')
<1> DEFINE msg == [kind |-> "changing_location", to |-> Audience(d), doid |-> d, location |-> loc]
           enter == [Entry("enter_location", d, {loc}, 0) EXCEPT !.location = loc]
<1>1. EmitBoth(msg, enter)
  BY DEF Move
<1>2. enter.kind \notin Crossing
  BY DEF Entry, Crossing
<1>3. Fit(scenario, msg) /\ msg.kind \notin Crossing
  <2>1. msg.kind = "changing_location" /\ msg.doid \in Doid /\ msg.location \in Location
    BY DEF Inv, ObjectsSane
  <2> HIDE DEF msg
  <2>2. QED
    BY <2>1 DEF Fit, ObjectMsg, ObjectKinds, OtherKinds, Crossing
<1> HIDE DEF msg, enter
<1>4. QED
  BY <1>1, <1>2, <1>3, EmitBothOrdered DEF Inv

LEMMA SetOwnerOrdered ==
  ASSUME Inv, Ordered(scenario, client, down), NEW d \in DOMAIN objs, NEW owner, SetOwner(d, owner)
  PROVE  Ordered(scenario, client, down')
<1> DEFINE msg == [kind |-> "changing_owner", to |-> {objs[d].owner} \ {NoOwner}, doid |-> d, owner |-> owner]
           enter == Entry("enter_owner", d, {owner} \ {NoOwner}, 0)
<1>1. EmitBoth(msg, enter)
  BY DEF SetOwner
<1>2. enter.kind \notin Crossing
  BY DEF Entry, Crossing
<1>3. Fit(scenario, msg) /\ msg.kind \notin Crossing
  <2>1. msg.kind = "changing_owner"
    OBVIOUS
  <2> HIDE DEF msg
  <2>2. QED
    BY <2>1 DEF Fit, ObjectKinds, OtherKinds, Crossing
<1> HIDE DEF msg, enter
<1>4. QED
  BY <1>1, <1>2, <1>3, EmitBothOrdered DEF Inv

LEMMA EvolveOrdered ==
  ASSUME Inv, Ordered(scenario, client, down), Evolve
  PROVE  Ordered(scenario, client, down')
<1>1. scenario.places \subseteq Location
  BY ClientVisibilityAssumption DEF Inv, Sane
<1>2. ASSUME NEW d \in DOMAIN objs, NEW loc \in scenario.places, Move(d, loc)
      PROVE  Ordered(scenario, client, down')
  BY <1>1, <1>2, MoveOrdered
<1>3. ASSUME NEW d \in DOMAIN objs, Delete(d)
      PROVE  Ordered(scenario, client, down')
  <2>1. PICK ai : Emit([kind |-> "delete_ram", to |-> Audience(d), doid |-> d, ai_deletion |-> ai])
    BY <1>3 DEF Delete
  <2> DEFINE msg == [kind |-> "delete_ram", to |-> Audience(d), doid |-> d, ai_deletion |-> ai]
  <2>2. msg.kind \notin Crossing /\ Emit(msg)
    BY <2>1 DEF Crossing
  <2> HIDE DEF msg
  <2>3. QED
    BY <2>2, EmitOrdered DEF Inv
<1>4. ASSUME NEW d \in DOMAIN objs, NEW v \in Value, SetField(d, v)
      PROVE  Ordered(scenario, client, down')
  <2> DEFINE msg == [kind |-> "set_field", to |-> Audience(d), doid |-> d, value |-> v]
  <2>1. msg.kind \notin Crossing /\ Emit(msg)
    BY <1>4 DEF Crossing, SetField
  <2> HIDE DEF msg
  <2>2. QED
    BY <2>1, EmitOrdered DEF Inv
<1>5. ASSUME NEW d \in DOMAIN objs, NEW owner, SetOwner(d, owner)
      PROVE  Ordered(scenario, client, down')
  BY <1>5, SetOwnerOrdered
<1>6. ASSUME NEW d \in Doid, NEW loc \in scenario.places, Generate(d, loc)
      PROVE  Ordered(scenario, client, down')
  <2> DEFINE msg == [kind |-> "enter_location", to |-> {loc}, doid |-> d,
                     location |-> loc, value |-> FirstValue, context |-> 0]
  <2>1. msg.kind \notin Crossing /\ Emit(msg)
    BY <1>6 DEF Crossing, Generate
  <2> HIDE DEF msg
  <2>2. QED
    BY <2>1, EmitOrdered DEF Inv
<1>7. QED
  BY <1>2, <1>3, <1>4, <1>5, <1>6 DEF Evolve

\* A daemon's request: it waits like the game's.
LEMMA CommandOrdered ==
  ASSUME Inv, Regular, Ordered(scenario, client, down), NEW kind, NEW m, Command(kind, m),
         m.kind = "add_interest" => kind = "daemon adds",
         m.kind = "remove_interest" => kind = "daemon removes"
  PROVE  Ordered(scenario, client, down')
<1>1. /\ down' = down \o Routed(m) /\ kind \in scenario.requests
      /\ ~scenario.hasty => DOMAIN client.m_pending_interests = {} /\ ~Crossed(down)
  BY DEF Command, MayAsk, Emit, Settled, Crossed
<1>2. scenario.hasty => m.kind \notin {"add_interest", "remove_interest"}
  BY <1>1 DEF Regular, Orderly
<1>3. Carries(scenario, down)
  BY DEF Inv
<1>4. QED
  BY <1>1, <1>2, <1>3, RoutedOrdered

LEMMA DirectOrdered ==
  ASSUME Inv, Regular, Ordered(scenario, client, down), Direct
  PROVE  Ordered(scenario, client, down')
<1>1. ASSUME NEW id, NEW i,
             Command("daemon adds", [kind |-> "add_interest", to |-> ToClient, sender |-> Caller,
                                     id |-> id, interest |-> i])
      PROVE  Ordered(scenario, client, down')
  <2> DEFINE m == [kind |-> "add_interest", to |-> ToClient, sender |-> Caller, id |-> id, interest |-> i]
  <2>1. Command("daemon adds", m) /\ m.kind = "add_interest"
    BY <1>1
  <2> HIDE DEF m
  <2>2. QED
    BY <2>1, CommandOrdered
<1>2. ASSUME NEW id,
             Command("daemon removes", [kind |-> "remove_interest", to |-> ToClient, sender |-> Caller, id |-> id])
      PROVE  Ordered(scenario, client, down')
  <2> DEFINE m == [kind |-> "remove_interest", to |-> ToClient, sender |-> Caller, id |-> id]
  <2>1. Command("daemon removes", m) /\ m.kind = "remove_interest"
    BY <1>2
  <2> HIDE DEF m
  <2>2. QED
    BY <2>1, CommandOrdered
<1>3. ASSUME NEW d, NEW add,
             Command("session", [kind |-> "session_object", to |-> ToClient, doid |-> d, add |-> add])
      PROVE  Ordered(scenario, client, down')
  <2> DEFINE m == [kind |-> "session_object", to |-> ToClient, doid |-> d, add |-> add]
  <2>1. Command("session", m) /\ m.kind = "session_object"
    BY <1>3
  <2> HIDE DEF m
  <2>2. QED
    BY <2>1, CommandOrdered
<1>4. ASSUME Command("set channel", [kind |-> "set_client_id", to |-> ToClient, channel |-> ClientChannel(2)])
      PROVE  Ordered(scenario, client, down')
  <2> DEFINE m == [kind |-> "set_client_id", to |-> ToClient, channel |-> ClientChannel(2)]
  <2>1. Command("set channel", m) /\ m.kind = "set_client_id"
    BY <1>4
  <2> HIDE DEF m
  <2>2. QED
    BY <2>1, CommandOrdered
<1>5. QED
  BY <1>1, <1>2, <1>3, <1>4 DEF Direct

LEMMA InitOrdered == Init => OrderInv
<1> SUFFICES ASSUME Init PROVE posted = {} /\ Ordered(scenario, client, down)
  BY DEF OrderInv
<1>1. DOMAIN client.m_pending_interests = {} /\ DOMAIN client.m_pending_objects = {} /\ client.dangling = FALSE
  BY DEF Init, NewClient, Empty
<1>2. Tidy(client, {}) /\ Watched(client)
  BY <1>1 DEF Tidy, Watched, LooksApart
<1>3. posted = {} /\ down = <<>>
  BY DEF Init
<1>4. Len(down) = 0
  BY <1>3
<1>5. QED
  BY <1>1, <1>2, <1>3, <1>4 DEF Ordered, Crossed

LEMMA NextOrdered == Inv /\ OrderInv /\ [Next]_vars => OrderInv'
<1> SUFFICES ASSUME Inv, OrderInv, [Next]_vars, Regular'
             PROVE  posted' = {} /\ Ordered(scenario', client', down')
  BY DEF OrderInv
<1> DEFINE Goal == posted' = {} /\ Ordered(scenario', client', down')
<1>1. scenario' = scenario
  BY DEF Next, Play, Run, Evolve, Direct, vars, GameAddsInterest, GameRemovesInterest, Disconnect, TakeDatagram,
         TakeRequest, MakeTimer, TimerFires, Timeout, Answer, Move, Delete, SetField, SetOwner, Generate,
         Change, Command
<1>2. Regular /\ posted = {} /\ Ordered(scenario, client, down) /\ ~Threaded
  BY <1>1 DEF OrderInv, Regular, Orderly, Threaded
<1>3. CASE Play
  <2>1. ASSUME NEW id, NEW i, GameAddsInterest(id, i) PROVE Goal
    BY <1>1, <1>2, <2>1, GameAddsOrdered DEF GameAddsInterest
  <2>2. ASSUME NEW id, GameRemovesInterest(id) PROVE Goal
    BY <1>1, <1>2, <2>2, GameRemovesOrdered DEF GameRemovesInterest
  <2>3. ASSUME Disconnect PROVE Goal
    BY <1>1, <1>2, <2>3, DisconnectOrdered DEF Disconnect
  <2>4. QED
    BY <1>3, <2>1, <2>2, <2>3 DEF Play
<1>4. CASE Run
  <2>1. ASSUME TakeDatagram PROVE Goal
    BY <1>1, <1>2, <2>1, TakeDatagramOrdered
  <2>2. ASSUME TakeRequest PROVE Goal
    BY <1>1, <1>2, <2>2, TakeRequestOrdered DEF TakeRequest
  <2>3. ~MakeTimer
    BY <1>2 DEF MakeTimer
  <2>4. ASSUME NEW k \in DOMAIN client.m_pending_interests, TimerFires(k) PROVE Goal
    <3>1. Handled(Finish(client, k, TRUE)) /\ down' = down
      BY <1>2, <2>4 DEF TimerFires
    <3>2. QED
      BY <1>1, <1>2, <3>1, FinishOrdered
  <2>5. ASSUME NEW k \in DOMAIN client.m_pending_interests, Timeout(k) PROVE Goal
    BY <1>2, <2>5 DEF Timeout
  <2>6. ASSUME NEW q, NEW d, Answer(q, d) PROVE Goal
    BY <1>1, <1>2, <2>6, AnswerOrdered DEF Answer
  <2>7. QED
    BY <1>4, <2>1, <2>2, <2>3, <2>4, <2>5, <2>6 DEF Run
<1>5. CASE Evolve
  <2>1. UNCHANGED <<client, posted>>
    BY <1>5 DEF Evolve, Move, Delete, SetField, SetOwner, Generate, Change
  <2>2. QED
    BY <1>1, <1>2, <1>5, <2>1, EvolveOrdered
<1>6. CASE Direct
  <2>1. UNCHANGED <<client, posted>>
    BY <1>6 DEF Direct, Command
  <2>2. QED
    BY <1>1, <1>2, <1>6, <2>1, DirectOrdered
<1>7. CASE UNCHANGED vars
  BY <1>2, <1>7 DEF vars
<1>8. QED
  BY <1>3, <1>4, <1>5, <1>6, <1>7 DEF Next

(* Types; what is seen and what is visible are the same objects.  And unless *)
(* interests are closed or altered while operations are open, or directors   *)
(* route on threads of their own, no datagram about a pending object finds   *)
(* the operation gone that holds it back (Client.cpp:859: "the dg should be  *)
(* queued under the appropriate iop").                                       *)
THEOREM TypesHold == Spec => []TypeOK
<1>1. Inv /\ OrderInv => TypeOK
  <2> SUFFICES ASSUME Inv, OrderInv PROVE TypeOK
    OBVIOUS
  <2>1. OperationsAreThere
    BY DEF OrderInv, Ordered, Tidy, OperationsAreThere
  <2>2. Sound(client) /\ client.told = <<>> /\ client.sent = <<>>
    BY DEF Inv, Sane
  <2>3. DOMAIN client.m_interests \subseteq InterestId
    BY ClientVisibilityAssumption DEF Inv, Sane
  <2>4. ASSUME NEW k \in DOMAIN client.m_pending_interests PROVE k < client.m_next_context
    <3>1. k \in 1..(client.m_next_context - 1) /\ client.m_next_context \in Nat
      BY <2>2 DEF Sound
    <3>2. QED
      BY <3>1
  <2>5. QED
    BY <2>1, <2>2, <2>3, <2>4 DEF TypeOK, Sound
<1>2. QED
  BY <1>1, Invariant, InitOrdered, NextOrdered, PTL DEF Spec
=============================================================================
