------------------------- MODULE DBStateServer_proofs -------------------------
(***************************************************************************)
(* The database state server, for any objects, fields, values and          *)
(* scenarios: nothing waits for an answer that will not come, and nothing  *)
(* is answered twice unless it was unloaded.                               *)
(***************************************************************************)
EXTENDS DBStateServer, NaturalsInduction, SequenceTheorems, FiniteSetTheorems, TLAPS

-----------------------------------------------------------------------------
(* Inductions.                                                               *)
LEMMA LeastElement ==
  ASSUME NEW N \in SUBSET Nat, N # {}
  PROVE  \E n \in N : \A m \in N : n <= m
<1>1. IsWellFoundedOn(OpToRel(<, Nat), Nat)
  BY NatLessThanWellFounded
<1>2. PICK n \in N : \A m \in N : ~ (<<m, n>> \in OpToRel(<, Nat))
  BY <1>1, WFMin
<1>3. \A m \in N : ~ (m < n)
  BY <1>2 DEF OpToRel
<1>4. QED
  BY <1>3

(* What holds at first and is kept by every step holds at last.              *)
LEMMA Upwards ==
  ASSUME NEW n \in Nat, NEW G, 0 \in G, \A k \in 1..n : k - 1 \in G => k \in G
  PROVE  \A k \in 0..n : k \in G
<1> SUFFICES ASSUME (0..n) \ G # {} PROVE FALSE
  OBVIOUS
<1> DEFINE N == (0..n) \ G
<1>1. PICK k \in N : \A m \in N : k <= m
  <2>1. N \in SUBSET Nat /\ N # {}
    OBVIOUS
  <2> HIDE DEF N
  <2>2. QED
    BY <2>1, LeastElement
<1>2. k \in 1..n /\ k - 1 \in 0..n /\ ~(k <= k - 1)
  BY <1>1
<1>3. QED
  BY <1>1, <1>2

LEMMA ChooseOnly ==
  ASSUME NEW y PROVE (CHOOSE z \in {y} : TRUE) = y
OBVIOUS

(* What was queued on a loader is replayed, and then forwarded, one datagram  *)
(* after another.  (The two differ in the handler only, which no lemma can    *)
(* have as a parameter.)                                                     *)
Replaying(c, s) == InTurn(ObjectHandle, c, s)
Forwarding(c, s) == InTurn(HandleDatagram, c, s)

LEMMA ReplaysInTurn ==
  ASSUME NEW c, NEW s, Len(s) \in Nat
  PROVE  \E f : /\ Replaying(c, s) = f[Len(s)]
                /\ f[0] = c
                /\ \A k \in 1..Len(s) : f[k] = ObjectHandle(f[k - 1], s[k])
<1> DEFINE Turn(f, k) == IF k = 0 THEN c
                          ELSE CHOOSE y \in {ObjectHandle(x, s[k]) : x \in {f[k - 1]}} : TRUE
           Upto(f, n) == f = [k \in 0..n |-> Turn(f, k)]
           G == {n \in 0..Len(s) : \E f : Upto(f, n)}
<1>1. \A f : \A k \in 1..Len(s) : Turn(f, k) = ObjectHandle(f[k - 1], s[k])
  <2> SUFFICES ASSUME NEW f, NEW k \in 1..Len(s) PROVE Turn(f, k) = ObjectHandle(f[k - 1], s[k])
    OBVIOUS
  <2>1. {ObjectHandle(x, s[k]) : x \in {f[k - 1]}} = {ObjectHandle(f[k - 1], s[k])}
    OBVIOUS
  <2>2. k # 0
    OBVIOUS
  <2>3. QED
    BY <2>1, <2>2, ChooseOnly
<1>2. \A f : Turn(f, 0) = c
  OBVIOUS
<1>3. 0 \in G
  <2> HIDE DEF Turn
  <2>1. PICK f : f = [k \in 0..0 |-> c]
    OBVIOUS
  <2>2. f = [k \in 0..0 |-> Turn(f, k)]
    BY <1>2, <2>1
  <2>3. QED
    BY <2>2
<1>4. ASSUME NEW n \in 1..Len(s), n - 1 \in G PROVE n \in G
  <2>1. PICK f : Upto(f, n - 1)
    BY <1>4
  <2> DEFINE last == ObjectHandle(f[n - 1], s[n])
  <2> HIDE DEF Turn, last
  <2>2. PICK g : g = [k \in 0..n |-> IF k = n THEN last ELSE f[k]]
    OBVIOUS
  <2>3. n \in Nat /\ \A k \in 0..(n - 1) : k \in 0..n /\ k # n /\ g[k] = f[k]
    BY <2>2
  <2>4. ASSUME NEW k \in 0..n PROVE g[k] = Turn(g, k)
    <3>1. CASE k = n
      <4>1. g[k] = last /\ g[k - 1] = f[n - 1]
        BY <2>2, <2>3, <3>1
      <4>2. QED
        BY <1>1, <3>1, <4>1 DEF last
    <3>2. CASE k # n /\ k # 0
      <4>1. k \in 1..Len(s) /\ k \in 0..(n - 1) /\ k - 1 \in 0..(n - 1)
        BY <3>2
      <4>2. f[k] = Turn(f, k)
        BY <2>1, <4>1
      <4>3. Turn(f, k) = Turn(g, k)
        BY <1>1, <2>3, <4>1
      <4>4. QED
        BY <2>3, <4>1, <4>2, <4>3
    <3>3. CASE k = 0
      <4>1. 0 \in 0..(n - 1)
        OBVIOUS
      <4>2. g[0] = f[0] /\ f[0] = Turn(f, 0)
        BY <2>1, <2>3, <4>1
      <4>3. QED
        BY <1>2, <3>3, <4>2
    <3>4. QED
      BY <3>1, <3>2, <3>3
  <2>5. g = [k \in 0..n |-> Turn(g, k)]
    BY <2>2, <2>4
  <2>6. QED
    BY <2>5
<1>5. \E f : Upto(f, Len(s))
  <2> HIDE DEF G
  <2>1. \A k \in 0..Len(s) : k \in G
    BY <1>3, <1>4, Upwards
  <2>2. QED
    BY <2>1 DEF G
<1>6. PICK f : f = CHOOSE x : Upto(x, Len(s))
  OBVIOUS
<1>7. Upto(f, Len(s))
  BY <1>5, <1>6
<1>8. Replaying(c, s) = f[Len(s)]
  BY <1>6 DEF InTurn, Replaying
<1> HIDE DEF Turn
<1>9. \A k \in 0..Len(s) : f[k] = Turn(f, k)
  BY <1>7
<1>10. QED
  BY <1>1, <1>2, <1>8, <1>9

LEMMA ForwardsInTurn ==
  ASSUME NEW c, NEW s, Len(s) \in Nat
  PROVE  \E f : /\ Forwarding(c, s) = f[Len(s)]
                /\ f[0] = c
                /\ \A k \in 1..Len(s) : f[k] = HandleDatagram(f[k - 1], s[k])
<1> DEFINE Turn(f, k) == IF k = 0 THEN c
                          ELSE CHOOSE y \in {HandleDatagram(x, s[k]) : x \in {f[k - 1]}} : TRUE
           Upto(f, n) == f = [k \in 0..n |-> Turn(f, k)]
           G == {n \in 0..Len(s) : \E f : Upto(f, n)}
<1>1. \A f : \A k \in 1..Len(s) : Turn(f, k) = HandleDatagram(f[k - 1], s[k])
  <2> SUFFICES ASSUME NEW f, NEW k \in 1..Len(s) PROVE Turn(f, k) = HandleDatagram(f[k - 1], s[k])
    OBVIOUS
  <2>1. {HandleDatagram(x, s[k]) : x \in {f[k - 1]}} = {HandleDatagram(f[k - 1], s[k])}
    OBVIOUS
  <2>2. k # 0
    OBVIOUS
  <2>3. QED
    BY <2>1, <2>2, ChooseOnly
<1>2. \A f : Turn(f, 0) = c
  OBVIOUS
<1>3. 0 \in G
  <2> HIDE DEF Turn
  <2>1. PICK f : f = [k \in 0..0 |-> c]
    OBVIOUS
  <2>2. f = [k \in 0..0 |-> Turn(f, k)]
    BY <1>2, <2>1
  <2>3. QED
    BY <2>2
<1>4. ASSUME NEW n \in 1..Len(s), n - 1 \in G PROVE n \in G
  <2>1. PICK f : Upto(f, n - 1)
    BY <1>4
  <2> DEFINE last == HandleDatagram(f[n - 1], s[n])
  <2> HIDE DEF Turn, last
  <2>2. PICK g : g = [k \in 0..n |-> IF k = n THEN last ELSE f[k]]
    OBVIOUS
  <2>3. n \in Nat /\ \A k \in 0..(n - 1) : k \in 0..n /\ k # n /\ g[k] = f[k]
    BY <2>2
  <2>4. ASSUME NEW k \in 0..n PROVE g[k] = Turn(g, k)
    <3>1. CASE k = n
      <4>1. g[k] = last /\ g[k - 1] = f[n - 1]
        BY <2>2, <2>3, <3>1
      <4>2. QED
        BY <1>1, <3>1, <4>1 DEF last
    <3>2. CASE k # n /\ k # 0
      <4>1. k \in 1..Len(s) /\ k \in 0..(n - 1) /\ k - 1 \in 0..(n - 1)
        BY <3>2
      <4>2. f[k] = Turn(f, k)
        BY <2>1, <4>1
      <4>3. Turn(f, k) = Turn(g, k)
        BY <1>1, <2>3, <4>1
      <4>4. QED
        BY <2>3, <4>1, <4>2, <4>3
    <3>3. CASE k = 0
      <4>1. 0 \in 0..(n - 1)
        OBVIOUS
      <4>2. g[0] = f[0] /\ f[0] = Turn(f, 0)
        BY <2>1, <2>3, <4>1
      <4>3. QED
        BY <1>2, <3>3, <4>2
    <3>4. QED
      BY <3>1, <3>2, <3>3
  <2>5. g = [k \in 0..n |-> Turn(g, k)]
    BY <2>2, <2>4
  <2>6. QED
    BY <2>5
<1>5. \E f : Upto(f, Len(s))
  <2> HIDE DEF G
  <2>1. \A k \in 0..Len(s) : k \in G
    BY <1>3, <1>4, Upwards
  <2>2. QED
    BY <2>1 DEF G
<1>6. PICK f : f = CHOOSE x : Upto(x, Len(s))
  OBVIOUS
<1>7. Upto(f, Len(s))
  BY <1>5, <1>6
<1>8. Forwarding(c, s) = f[Len(s)]
  BY <1>6 DEF InTurn, Forwarding
<1> HIDE DEF Turn
<1>9. \A k \in 0..Len(s) : f[k] = Turn(f, k)
  BY <1>7
<1>10. QED
  BY <1>1, <1>2, <1>8, <1>9

-----------------------------------------------------------------------------
(* Types.                                                                    *)
Updates == UNION {[S -> Value] : S \in SUBSET Field}
DbUpdates == UNION {[S -> Value] : S \in SUBSET DbField}
Loaded == [Field -> Value]

Messages == [id : Nat \ {0}, op : UNION {s.requests : s \in Scenarios}]

Loaders == [context : Nat, valid : SUBSET Nat, updates : Updates, queue : Seq(Messages)]

Questions == {"GET_OBJECT", "GET_FIELDS"}

\* What is routed to the database, and carries a context if it is a question.
Routed ==
  {o \in [context : Nat \cup {NoContext},
          op : [type : Questions \cup {"SET_FIELDS", "DELETE_OBJECT"}, doid : Doid,
                get_fields : SUBSET DbField, set_fields : DbUpdates, criteria_fields : {Nothing}]] :
     o.context \in Nat <=> o.op.type \in Questions}

ServerFields ==
  {"m_objs", "m_loading", "m_next_context", "m_context_datagrams", "m_inactive_loads",
   "routed", "told"}

Typed(s) ==
  /\ DOMAIN s = ServerFields
  /\ s.m_objs \in [Doid -> Loaded \cup {Missing}]
  /\ s.m_next_context \in Nat
  /\ s.m_loading \in [DOMAIN s.m_loading -> Loaders]
  /\ DOMAIN s.m_loading \subseteq Doid
  /\ s.m_context_datagrams \in [DOMAIN s.m_context_datagrams -> Messages]
  /\ DOMAIN s.m_context_datagrams \subseteq 0..(s.m_next_context - 1)
  /\ s.m_inactive_loads \in [DOMAIN s.m_inactive_loads -> SUBSET Nat]
  /\ DOMAIN s.m_inactive_loads \subseteq Doid
  /\ s.routed \in Seq(Routed)

(* The questions among the database's operations and its answers.            *)
Entries(q) ==
  {[context |-> q[k].context, doid |-> q[k].op.doid, type |-> q[k].op.type] :
     k \in {j \in 1..Len(q) : q[j].context # NoContext}}

Given(q) ==
  {[context |-> q[k].context, doid |-> q[k].doid, type |-> q[k].type] : k \in 1..Len(q)}

\* What a server has under way in the middle of a handler, beside E.
UnderWay(s, E) == E \cup Entries(s.routed)

Contexts(E) == {e.context : e \in E}

OpenReads(s, d) == IF d \in DOMAIN s.m_inactive_loads THEN s.m_inactive_loads[d] ELSE {}

Reads(s, d) ==
  {c \in DOMAIN s.m_context_datagrams :
     s.m_context_datagrams[c].op.doid = d /\ s.m_context_datagrams[c].op.kind = "get_all"}

(* A question is what the context says that it carries, and no loader takes  *)
(* another's answer for its own.                                             *)
Recognised(s, U) ==
  \A e \in U :
    /\ e.context \in 0..(s.m_next_context - 1)
    /\ \A d \in DOMAIN s.m_loading :
         e.context \in ValidContexts(s.m_loading[d]) => e.doid = d /\ e.type = "GET_OBJECT"
    /\ e.context \in DOMAIN s.m_context_datagrams =>
         /\ s.m_context_datagrams[e.context].op.doid = e.doid
         /\ s.m_context_datagrams[e.context].op.kind = "get_all" => e.type = "GET_OBJECT"

LoadersOrderly(s) ==
  \A d \in DOMAIN s.m_loading :
    /\ ValidContexts(s.m_loading[d]) \subseteq 0..(s.m_next_context - 1)
    /\ ~IsActive(s, d)
    /\ \A k \in 1..Len(s.m_loading[d].queue) :
         /\ s.m_loading[d].queue[k].op.doid = d
         /\ s.m_loading[d].queue[k].op.kind # "activate"

CallersOrderly(s) ==
  \A c \in DOMAIN s.m_context_datagrams :
    s.m_context_datagrams[c].op.kind \in {"get_field", "get_fields", "get_all"}

ReadsOrderly(s) == \A d \in Doid : OpenReads(s, d) = Reads(s, d)

Orderly(s) == LoadersOrderly(s) /\ CallersOrderly(s) /\ ReadsOrderly(s)

(* Everybody waits for something that is under way, but for the answers X    *)
(* that the server and Y that a loader is about to get.                      *)
Awaits(s, U, X, Y) ==
  /\ DOMAIN s.m_context_datagrams \subseteq Contexts(U) \cup X
  /\ \A d \in DOMAIN s.m_loading :
       ValidContexts(s.m_loading[d]) \cap (Contexts(U) \cup Y) # {}

Fine(s, E, X, Y) ==
  /\ Typed(s) /\ Orderly(s)
  /\ Recognised(s, UnderWay(s, E)) /\ Awaits(s, UnderWay(s, E), X, Y)

GoodOp(op) ==
  /\ op.doid \in Doid /\ op.asked \subseteq Field /\ op.fields \in Updates

LEMMA MessagesAreGood == \A m \in Messages : GoodOp(m.op)
BY DBStateServerAssumption DEF Messages, GoodOp, Updates

LEMMA NoContextIsNone == NoContext \notin Nat /\ NoContext = -1
BY DEF NoContext

(* Sequences of what is routed.                                              *)
LEMMA AppendFacts ==
  ASSUME NEW S, NEW q \in Seq(S), NEW x
  PROVE  /\ Len(Append(q, x)) = Len(q) + 1 /\ Len(q) \in Nat
         /\ \A k \in 1..Len(q) : Append(q, x)[k] = q[k] /\ k # Len(q) + 1
         /\ Append(q, x)[Len(q) + 1] = x
         /\ 1..(Len(q) + 1) = (1..Len(q)) \cup {Len(q) + 1}
<1>1. Len(q) \in Nat
  OBVIOUS
<1>2. q \in Seq(S \cup {x}) /\ x \in S \cup {x}
  OBVIOUS
<1>3. QED
  BY <1>1, <1>2

LEMMA EntriesAppend ==
  ASSUME NEW q \in Seq(Routed), NEW o \in Routed
  PROVE  /\ Append(q, o) \in Seq(Routed)
         /\ Entries(Append(q, o)) =
              Entries(q) \cup IF o.context = NoContext THEN {}
                              ELSE {[context |-> o.context, doid |-> o.op.doid, type |-> o.op.type]}
<1> DEFINE E(r, k) == [context |-> r[k].context, doid |-> r[k].op.doid, type |-> r[k].op.type]
           n == Len(q) + 1
           r == Append(q, o)
<1>1. /\ r \in Seq(Routed) /\ Len(q) \in Nat /\ Len(r) = n /\ r[n] = o
      /\ \A k \in 1..Len(q) : r[k] = q[k] /\ k # n
      /\ 1..n = (1..Len(q)) \cup {n}
  BY AppendFacts
<1>2. \A k \in 1..Len(q) : E(r, k) = E(q, k)
  BY <1>1
<1>3. Entries(q) = {E(q, k) : k \in {j \in 1..Len(q) : q[j].context # NoContext}}
  BY DEF Entries
<1>4. Entries(r) = {E(r, k) : k \in {j \in 1..Len(r) : r[j].context # NoContext}}
  BY DEF Entries
<1>5. E(r, n) = [context |-> o.context, doid |-> o.op.doid, type |-> o.op.type]
  BY <1>1
<1> DEFINE A == {j \in 1..Len(q) : q[j].context # NoContext}
           B == IF o.context = NoContext THEN {} ELSE {n}
<1>6. {j \in 1..Len(r) : r[j].context # NoContext} = A \cup B
  BY <1>1
<1>7. {E(r, k) : k \in A \cup B} = {E(q, k) : k \in A} \cup {E(r, k) : k \in B}
  <2>1. A \subseteq 1..Len(q)
    OBVIOUS
  <2> HIDE DEF A, B, E
  <2>2. QED
    BY <1>2, <2>1
<1>8. {E(r, k) : k \in B} = IF o.context = NoContext THEN {}
                          ELSE {[context |-> o.context, doid |-> o.op.doid, type |-> o.op.type]}
  <2> HIDE DEF E
  <2>1. QED
    BY <1>5
<1> HIDE DEF E
<1>9. QED
  BY <1>1, <1>3, <1>4, <1>6, <1>7, <1>8 DEF r

-----------------------------------------------------------------------------
(* What a handler does to a server, piece by piece.                          *)

\* Answers and changes of loaded objects wait for nobody.
Same(s, t) ==
  /\ DOMAIN t = ServerFields
  /\ \A x \in ServerFields \ {"told", "m_objs"} : t[x] = s[x]

LEMMA OrderlySame ==
  ASSUME NEW s, NEW t, Orderly(s), t.m_loading = s.m_loading, t.m_next_context = s.m_next_context,
         t.m_context_datagrams = s.m_context_datagrams, t.m_inactive_loads = s.m_inactive_loads,
         \A d \in DOMAIN s.m_loading : t.m_objs[d] = s.m_objs[d]
  PROVE  Orderly(t)
<1>1. \A d : Reads(t, d) = Reads(s, d) /\ OpenReads(t, d) = OpenReads(s, d)
  BY DEF Reads, OpenReads
<1>2. LoadersOrderly(t)
  BY DEF Orderly, LoadersOrderly, IsActive
<1>3. CallersOrderly(t)
  BY DEF Orderly, CallersOrderly
<1>4. QED
  BY <1>1, <1>2, <1>3 DEF Orderly, ReadsOrderly

LEMMA FineSame ==
  ASSUME NEW s, NEW t, NEW E, NEW X, NEW Y, Fine(s, E, X, Y), Same(s, t),
         t.m_objs \in [Doid -> Loaded \cup {Missing}],
         \A d \in DOMAIN s.m_loading : t.m_objs[d] = s.m_objs[d]
  PROVE  Fine(t, E, X, Y)
<1>1. /\ t.m_loading = s.m_loading /\ t.m_next_context = s.m_next_context
      /\ t.m_context_datagrams = s.m_context_datagrams
      /\ t.m_inactive_loads = s.m_inactive_loads /\ t.routed = s.routed
  BY DEF Same, ServerFields
<1>2. Typed(t)
  BY <1>1 DEF Fine, Typed, Same
<1>3. Orderly(t)
  BY <1>1, OrderlySame DEF Fine
<1>4. UnderWay(t, E) = UnderWay(s, E)
  BY <1>1 DEF UnderWay
<1>5. Recognised(t, UnderWay(s, E)) /\ Awaits(t, UnderWay(s, E), X, Y)
  BY <1>1 DEF Fine, Recognised, Awaits
<1>6. QED
  BY <1>2, <1>3, <1>4, <1>5 DEF Fine

LEMMA FineTell ==
  ASSUME NEW s, NEW E, NEW X, NEW Y, Fine(s, E, X, Y), NEW m, NEW a
  PROVE  Fine(Tell(s, m, a), E, X, Y)
<1>1. DOMAIN s = ServerFields /\ s.m_objs \in [Doid -> Loaded \cup {Missing}]
  BY DEF Fine, Typed
<1>2. Same(s, Tell(s, m, a)) /\ Tell(s, m, a).m_objs = s.m_objs
  BY <1>1 DEF Same, Tell, ServerFields
<1>3. QED
  BY <1>1, <1>2, FineSame

\* An order to the database has no answer.
LEMMA FineOrder ==
  ASSUME NEW s, NEW E, NEW X, NEW Y, Fine(s, E, X, Y), NEW o, o \in Routed, o.context = NoContext,
         NEW t, t = [s EXCEPT !.routed = Append(@, o)]
  PROVE  Fine(t, E, X, Y)
<1>1. DOMAIN s = ServerFields /\ s.routed \in Seq(Routed)
  BY DEF Fine, Typed
<1>2. /\ DOMAIN t = ServerFields /\ t.routed = Append(s.routed, o)
      /\ t.m_loading = s.m_loading /\ t.m_next_context = s.m_next_context
      /\ t.m_context_datagrams = s.m_context_datagrams
      /\ t.m_inactive_loads = s.m_inactive_loads /\ t.m_objs = s.m_objs
  BY <1>1 DEF ServerFields
<1>3. t.routed \in Seq(Routed) /\ Entries(t.routed) = Entries(s.routed)
  <2>1. Entries(Append(s.routed, o)) = Entries(s.routed) \cup {}
    BY <1>1, EntriesAppend
  <2>2. QED
    BY <1>1, <1>2, <2>1, EntriesAppend
<1>4. Typed(t)
  BY <1>2, <1>3 DEF Fine, Typed
<1>5. Orderly(t)
  BY <1>2, OrderlySame DEF Fine
<1>6. UnderWay(t, E) = UnderWay(s, E)
  BY <1>3 DEF UnderWay
<1>7. Recognised(t, UnderWay(s, E)) /\ Awaits(t, UnderWay(s, E), X, Y)
  BY <1>2 DEF Fine, Recognised, Awaits
<1>8. QED
  BY <1>4, <1>5, <1>6, <1>7 DEF Fine

(* A question for datagram m, with the next context.                         *)
LEMMA QueryFacts ==
  ASSUME NEW s, DOMAIN s = ServerFields, NEW m, NEW op
  PROVE  LET t == Query(s, m, op)
         IN  /\ DOMAIN t = ServerFields
             /\ t.m_next_context = s.m_next_context + 1
             /\ t.m_context_datagrams = With(s.m_context_datagrams, s.m_next_context, m)
             /\ t.routed = Append(s.routed, [context |-> s.m_next_context, op |-> op])
             /\ t.m_loading = s.m_loading /\ t.m_inactive_loads = s.m_inactive_loads
             /\ t.m_objs = s.m_objs /\ t.told = s.told
BY DEF Query, Route, ServerFields

LEMMA WithFacts ==
  ASSUME NEW g, NEW x, NEW v
  PROVE  /\ DOMAIN With(g, x, v) = DOMAIN g \cup {x}
         /\ With(g, x, v)[x] = v
         /\ \A y \in DOMAIN g : y # x => With(g, x, v)[y] = g[y]
BY DEF With

LEMMA WithTyped ==
  ASSUME NEW R, NEW g, g \in [DOMAIN g -> R], NEW x, NEW v \in R
  PROVE  With(g, x, v) \in [DOMAIN With(g, x, v) -> R]
BY DEF With

LEMMA WithoutFacts ==
  ASSUME NEW g, NEW x
  PROVE  /\ DOMAIN Without(g, x) = DOMAIN g \ {x}
         /\ \A y \in DOMAIN g : y # x => Without(g, x)[y] = g[y]
BY DEF Without

LEMMA WithoutTyped ==
  ASSUME NEW R, NEW g, g \in [DOMAIN g -> R], NEW x
  PROVE  Without(g, x) \in [DOMAIN Without(g, x) -> R]
BY DEF Without

\* What is routed as a question, once it is under way.
Question(o) == [context |-> o.context, doid |-> o.op.doid, type |-> o.op.type]

RoutesMore(s, t, o) ==
  /\ s.routed \in Seq(Routed) /\ o \in Routed /\ o.context \in Nat
  /\ t.routed = Append(s.routed, o)

LEMMA UnderWayMore ==
  ASSUME NEW s, NEW t, NEW E, NEW o, RoutesMore(s, t, o)
  PROVE  /\ t.routed \in Seq(Routed)
         /\ UnderWay(t, E) = UnderWay(s, E) \cup {Question(o)}
         /\ Contexts(UnderWay(t, E)) = Contexts(UnderWay(s, E)) \cup {o.context}
<1>1. Entries(t.routed) = Entries(s.routed) \cup {Question(o)}
  BY EntriesAppend, NoContextIsNone DEF Question, RoutesMore
<1>2. UnderWay(t, E) = UnderWay(s, E) \cup {Question(o)}
  BY <1>1 DEF UnderWay
<1>3. Question(o).context = o.context
  BY DEF Question
<1>4. Contexts(UnderWay(s, E) \cup {Question(o)}) = Contexts(UnderWay(s, E)) \cup {Question(o).context}
  BY DEF Contexts
<1>5. t.routed \in Seq(Routed)
  BY EntriesAppend DEF RoutesMore
<1>6. QED
  BY ONLY <1>2, <1>3, <1>4, <1>5

LEMMA RangeMore ==
  ASSUME NEW n \in Nat
  PROVE  /\ n + 1 \in Nat /\ (n + 1) - 1 = n /\ n \notin 0..(n - 1)
         /\ 0..n = (0..(n - 1)) \cup {n}
OBVIOUS

\* From s to t, the database is asked op on behalf of m.
Asked(s, t, m, op) ==
  /\ m \in Messages /\ m.op.kind \in {"get_field", "get_fields", "get_all"}
  /\ [context |-> s.m_next_context, op |-> op] \in Routed /\ op.type \in Questions
  /\ op.doid = m.op.doid
  /\ m.op.kind = "get_all" => op.type = "GET_OBJECT"
  /\ DOMAIN t = ServerFields
  /\ t.m_next_context = s.m_next_context + 1
  /\ t.m_context_datagrams = With(s.m_context_datagrams, s.m_next_context, m)
  /\ t.routed = Append(s.routed, [context |-> s.m_next_context, op |-> op])
  /\ t.m_loading = s.m_loading /\ t.m_objs = s.m_objs
  /\ t.m_inactive_loads \in [DOMAIN t.m_inactive_loads -> SUBSET Nat]
  /\ DOMAIN t.m_inactive_loads \subseteq Doid

LEMMA FineAsked ==
  ASSUME NEW s, NEW E, NEW X, NEW Y, Fine(s, E, X, Y),
         NEW t, NEW m, NEW op, Asked(s, t, m, op), ReadsOrderly(t)
  PROVE  Fine(t, E, X, Y)
<1> DEFINE c == s.m_next_context
           e == [context |-> c, doid |-> op.doid, type |-> op.type]
           U == UnderWay(s, E)
<1> USE DEF Asked
<1>1. /\ c \in Nat /\ s.routed \in Seq(Routed)
      /\ DOMAIN s.m_context_datagrams \subseteq 0..(c - 1)
      /\ s.m_context_datagrams \in [DOMAIN s.m_context_datagrams -> Messages]
  BY DEF Fine, Typed
<1>2. /\ t.routed \in Seq(Routed) /\ UnderWay(t, E) = U \cup {e}
      /\ Contexts(UnderWay(t, E)) = Contexts(U) \cup {c}
  <2> DEFINE o == [context |-> c, op |-> op]
  <2>1. /\ o \in Routed /\ o.context = c /\ o.op = op /\ t.routed = Append(s.routed, o)
        /\ o.context \in Nat /\ s.routed \in Seq(Routed)
    BY <1>1
  <2> HIDE DEF o, c, U, e
  <2>2. /\ t.routed \in Seq(Routed)
        /\ UnderWay(t, E) = UnderWay(s, E) \cup {Question(o)}
        /\ Contexts(UnderWay(t, E)) = Contexts(UnderWay(s, E)) \cup {o.context}
    <3>1. RoutesMore(s, t, o)
      BY <2>1 DEF RoutesMore
    <3>2. QED
      BY <2>1, <3>1, UnderWayMore
  <2>3. Question(o) = e
    BY <2>1 DEF Question, e
  <2>4. QED
    BY <2>1, <2>2, <2>3 DEF U
<1>3. /\ DOMAIN t.m_context_datagrams = DOMAIN s.m_context_datagrams \cup {c}
      /\ t.m_context_datagrams[c] = m
      /\ \A k \in DOMAIN s.m_context_datagrams :
           k # c /\ t.m_context_datagrams[k] = s.m_context_datagrams[k]
      /\ t.m_context_datagrams \in [DOMAIN t.m_context_datagrams -> Messages]
  <2>1. \A k \in DOMAIN s.m_context_datagrams : k # c
    BY <1>1, RangeMore
  <2>2. t.m_context_datagrams = With(s.m_context_datagrams, c, m)
    OBVIOUS
  <2> HIDE DEF c
  <2>3. QED
    BY ONLY <1>1, <2>1, <2>2, m \in Messages DEF With
<1>4. t.m_next_context \in Nat /\ 0..(t.m_next_context - 1) = (0..(c - 1)) \cup {c}
  <2>1. t.m_next_context = c + 1
    OBVIOUS
  <2> HIDE DEF c
  <2>2. c + 1 \in Nat /\ 0..((c + 1) - 1) = (0..(c - 1)) \cup {c}
    <3>1. c \in Nat
      BY <1>1
    <3>2. QED
      BY ONLY <3>1
  <2>3. QED
    BY ONLY <2>1, <2>2
<1> HIDE DEF c
<1>5. Typed(t)
  BY <1>1, <1>2, <1>3, <1>4 DEF Fine, Typed
<1>6. Orderly(t)
  <2>1. LoadersOrderly(t)
    <3>1. \A d \in DOMAIN s.m_loading : IsActive(t, d) <=> IsActive(s, d)
      BY DEF IsActive
    <3>2. LoadersOrderly(s)
      BY DEF Fine, Orderly
    <3>3. 0..(c - 1) \subseteq 0..(t.m_next_context - 1)
      BY <1>4
    <3>4. QED
      <4> SUFFICES ASSUME NEW d \in DOMAIN s.m_loading
                   PROVE  /\ ValidContexts(s.m_loading[d]) \subseteq 0..(t.m_next_context - 1)
                          /\ ~IsActive(t, d)
                          /\ \A k \in 1..Len(s.m_loading[d].queue) :
                               /\ s.m_loading[d].queue[k].op.doid = d
                               /\ s.m_loading[d].queue[k].op.kind # "activate"
        BY DEF LoadersOrderly
      <4>1. ValidContexts(s.m_loading[d]) \subseteq 0..(c - 1)
        BY <3>2 DEF LoadersOrderly, c
      <4>2. ~IsActive(t, d)
        BY <3>1, <3>2, Zenon DEF LoadersOrderly
      <4>3. QED
        BY <3>2, <3>3, <4>1, <4>2 DEF LoadersOrderly
  <2>2. CallersOrderly(t)
    BY <1>3 DEF Fine, Orderly, CallersOrderly
  <2>3. QED
    BY <2>1, <2>2 DEF Orderly
<1>7. Recognised(t, U \cup {e})
  <2> SUFFICES ASSUME NEW b \in U \cup {e}
               PROVE  /\ b.context \in 0..(t.m_next_context - 1)
                      /\ \A d \in DOMAIN t.m_loading :
                           b.context \in ValidContexts(t.m_loading[d]) => b.doid = d /\ b.type = "GET_OBJECT"
                      /\ b.context \in DOMAIN t.m_context_datagrams =>
                           /\ t.m_context_datagrams[b.context].op.doid = b.doid
                           /\ t.m_context_datagrams[b.context].op.kind = "get_all" => b.type = "GET_OBJECT"
    BY DEF Recognised
  <2>1. CASE b \in U
    <3>1. /\ b.context \in 0..(c - 1)
          /\ \A d \in DOMAIN s.m_loading :
               b.context \in ValidContexts(s.m_loading[d]) => b.doid = d /\ b.type = "GET_OBJECT"
          /\ b.context \in DOMAIN s.m_context_datagrams =>
               /\ s.m_context_datagrams[b.context].op.doid = b.doid
               /\ s.m_context_datagrams[b.context].op.kind = "get_all" => b.type = "GET_OBJECT"
      BY <2>1 DEF Fine, Recognised, c
    <3>2. b.context # c
      BY <3>1, <1>1, RangeMore
    <3>3. QED
      BY <3>1, <3>2, <1>3, <1>4
  <2>2. CASE b = e
    <3>1. b.context = c /\ b.doid = m.op.doid /\ b.type = op.type
      BY <2>2
    <3>2. \A d \in DOMAIN s.m_loading : c \notin ValidContexts(s.m_loading[d])
      <4>1. \A d \in DOMAIN s.m_loading : ValidContexts(s.m_loading[d]) \subseteq 0..(c - 1)
        BY DEF Fine, Orderly, LoadersOrderly, c
      <4>2. QED
        BY <4>1, <1>1, RangeMore
    <3>3. QED
      BY <3>1, <3>2, <1>3, <1>4
  <2>3. QED
    BY <2>1, <2>2
<1>8. Awaits(t, U \cup {e}, X, Y)
  <2>1. DOMAIN s.m_context_datagrams \subseteq Contexts(U) \cup X
    BY DEF Fine, Awaits
  <2>2. \A d \in DOMAIN s.m_loading : ValidContexts(s.m_loading[d]) \cap (Contexts(U) \cup Y) # {}
    BY DEF Fine, Awaits
  <2> HIDE DEF U, e
  <2>3. Contexts(U \cup {e}) = Contexts(U) \cup {c}
    BY <1>2
  <2>4. DOMAIN t.m_context_datagrams \subseteq Contexts(U \cup {e}) \cup X
    BY <2>1, <2>3, <1>3
  <2>5. \A d \in DOMAIN t.m_loading : ValidContexts(t.m_loading[d]) \cap (Contexts(U \cup {e}) \cup Y) # {}
    BY <2>2, <2>3
  <2>6. QED
    BY <2>4, <2>5 DEF Awaits
<1>9. QED
  BY <1>2, <1>5, <1>6, <1>7, <1>8 DEF Fine

LEMMA ReadsMore ==
  ASSUME NEW s, NEW t, NEW c, NEW m, c \notin DOMAIN s.m_context_datagrams,
         t.m_context_datagrams = With(s.m_context_datagrams, c, m)
  PROVE  \A d : Reads(t, d) = Reads(s, d) \cup {k \in {c} : m.op.doid = d /\ m.op.kind = "get_all"}
<1>1. /\ DOMAIN t.m_context_datagrams = DOMAIN s.m_context_datagrams \cup {c}
      /\ t.m_context_datagrams[c] = m
      /\ \A k \in DOMAIN s.m_context_datagrams :
           k # c /\ t.m_context_datagrams[k] = s.m_context_datagrams[k]
  BY DEF With
<1> SUFFICES ASSUME NEW d, NEW k
             PROVE  k \in Reads(t, d) <=>
                      k \in Reads(s, d) \/ (m.op.doid = d /\ m.op.kind = "get_all" /\ k = c)
  OBVIOUS
<1>2. CASE k = c
  BY <1>1, <1>2 DEF Reads
<1>3. CASE k # c
  BY <1>1, <1>3 DEF Reads
<1>4. QED
  BY <1>2, <1>3

LEMMA FineQuery ==
  ASSUME NEW s, NEW E, NEW X, NEW Y, Fine(s, E, X, Y),
         NEW m \in Messages, m.op.kind \in {"get_field", "get_fields"},
         NEW op, [context |-> s.m_next_context, op |-> op] \in Routed, op.type \in Questions,
         op.doid = m.op.doid
  PROVE  Fine(Query(s, m, op), E, X, Y)
<1> DEFINE t == Query(s, m, op)
<1>1. /\ DOMAIN s = ServerFields /\ s.m_next_context \in Nat
      /\ DOMAIN s.m_context_datagrams \subseteq 0..(s.m_next_context - 1)
      /\ s.m_inactive_loads \in [DOMAIN s.m_inactive_loads -> SUBSET Nat]
      /\ DOMAIN s.m_inactive_loads \subseteq Doid
  BY DEF Fine, Typed
<1>2. s.m_next_context \notin DOMAIN s.m_context_datagrams
  BY <1>1, RangeMore
<1>3. /\ DOMAIN t = ServerFields
      /\ t.m_next_context = s.m_next_context + 1
      /\ t.m_context_datagrams = With(s.m_context_datagrams, s.m_next_context, m)
      /\ t.routed = Append(s.routed, [context |-> s.m_next_context, op |-> op])
      /\ t.m_loading = s.m_loading /\ t.m_inactive_loads = s.m_inactive_loads
      /\ t.m_objs = s.m_objs
  BY <1>1 DEF Query, Route, ServerFields
<1> HIDE DEF t
<1>4. ReadsOrderly(t)
  <2>1. \A d \in Doid : OpenReads(s, d) = Reads(s, d)
    BY DEF Fine, Orderly, ReadsOrderly
  <2>2. \A d : Reads(t, d) = Reads(s, d)
    <3>1. \A d : Reads(t, d) = Reads(s, d)
                    \cup {k \in {s.m_next_context} : m.op.doid = d /\ m.op.kind = "get_all"}
      BY <1>2, <1>3, ReadsMore, SMTT(20)
    <3>2. m.op.kind # "get_all"
      OBVIOUS
    <3>3. QED
      BY ONLY <3>1, <3>2
  <2>3. \A d : OpenReads(t, d) = OpenReads(s, d)
    BY <1>3 DEF OpenReads
  <2>4. QED
    BY <2>1, <2>2, <2>3 DEF ReadsOrderly
<1>5. QED
  <2>1. Asked(s, t, m, op)
    BY <1>1, <1>3 DEF Asked
  <2>2. QED
    BY <1>4, <2>1, FineAsked DEF t

LEMMA RoutedQuestion ==
  ASSUME NEW c \in Nat, NEW type \in Questions, NEW d \in Doid, NEW G \in SUBSET DbField
  PROVE  [context |-> c, op |-> Operation(type, d, G, Nothing)] \in Routed
<1>1. Nothing \in DbUpdates
  BY DEF Nothing, DbUpdates
<1>2. QED
  BY <1>1 DEF Routed, Operation, Questions

LEMMA RoutedOrder ==
  ASSUME NEW type \in {"SET_FIELDS", "DELETE_OBJECT"}, NEW d \in Doid, NEW sets \in DbUpdates
  PROVE  [context |-> NoContext, op |-> Operation(type, d, {}, sets)] \in Routed
BY NoContextIsNone DEF Routed, Operation, Questions

(* A GET_ALL of a stored object is a read that a loader may rely on.         *)
LEMMA FineGetAll ==
  ASSUME NEW s, NEW E, NEW X, NEW Y, Fine(s, E, X, Y), NEW m \in Messages, m.op.kind = "get_all"
  PROVE  Fine(HandleGetAll(s, m), E, X, Y)
<1> DEFINE d == m.op.doid
           c == s.m_next_context
           op == Operation("GET_OBJECT", d, {}, Nothing)
           t == [Query(s, m, op) EXCEPT !.m_inactive_loads = With(@, d, OpenReads(s, d) \cup {c})]
<1>1. /\ DOMAIN s = ServerFields /\ c \in Nat /\ d \in Doid
      /\ DOMAIN s.m_context_datagrams \subseteq 0..(c - 1)
      /\ s.m_inactive_loads \in [DOMAIN s.m_inactive_loads -> SUBSET Nat]
      /\ DOMAIN s.m_inactive_loads \subseteq Doid
  BY MessagesAreGood DEF Fine, Typed, GoodOp
<1>2. [context |-> c, op |-> op] \in Routed /\ op.type \in Questions
      /\ op.doid = d /\ op.type = "GET_OBJECT"
  BY <1>1, RoutedQuestion DEF Operation, Questions
<1>3. CASE ~IsActivatedObject(s, d)
  <2>1. HandleGetAll(s, m) = t
    BY <1>3 DEF HandleGetAll, OpenReads
  <2>2. /\ DOMAIN t = ServerFields
        /\ t.m_next_context = s.m_next_context + 1
        /\ t.m_context_datagrams = With(s.m_context_datagrams, s.m_next_context, m)
        /\ t.routed = Append(s.routed, [context |-> s.m_next_context, op |-> op])
        /\ t.m_loading = s.m_loading /\ t.m_objs = s.m_objs
        /\ t.m_inactive_loads = With(s.m_inactive_loads, d, OpenReads(s, d) \cup {c})
    <3> HIDE DEF op
    <3>1. QED
      BY <1>1 DEF Query, Route, ServerFields
  <2>3. s.m_next_context \notin DOMAIN s.m_context_datagrams
    BY <1>1, RangeMore
  <2> HIDE DEF t, op
  <2>4. OpenReads(s, d) \cup {c} \subseteq Nat
    BY <1>1 DEF OpenReads
  <2>5. /\ t.m_inactive_loads \in [DOMAIN t.m_inactive_loads -> SUBSET Nat]
        /\ DOMAIN t.m_inactive_loads = DOMAIN s.m_inactive_loads \cup {d}
        /\ t.m_inactive_loads[d] = OpenReads(s, d) \cup {c}
        /\ \A x \in DOMAIN s.m_inactive_loads : x # d => t.m_inactive_loads[x] = s.m_inactive_loads[x]
    BY <1>1, <2>2, <2>4 DEF With
  <2>6. \A x : OpenReads(t, x) = OpenReads(s, x) \cup {k \in {c} : x = d}
    BY <2>5 DEF OpenReads
  <2>7. \A x : Reads(t, x) = Reads(s, x) \cup {k \in {c} : x = d}
    <3>1. \A x : Reads(t, x) = Reads(s, x)
                   \cup {k \in {c} : m.op.doid = x /\ m.op.kind = "get_all"}
      BY <2>2, <2>3, ReadsMore
    <3>2. QED
      BY <3>1
  <2>8. ReadsOrderly(t)
    <3>1. \A x \in Doid : OpenReads(s, x) = Reads(s, x)
      BY DEF Fine, Orderly, ReadsOrderly
    <3>2. QED
      BY <2>6, <2>7, <3>1 DEF ReadsOrderly
  <2>9. Fine(t, E, X, Y)
    <3>1. Asked(s, t, m, op)
      BY <1>1, <1>2, <2>2, <2>5 DEF Asked
    <3>2. QED
      BY <2>8, <3>1, FineAsked
  <2>10. QED
    BY <2>1, <2>9
<1>4. CASE IsActivatedObject(s, d)
  BY <1>4 DEF HandleGetAll
<1>5. QED
  BY <1>3, <1>4

LEMMA FineGet ==
  ASSUME NEW s, NEW E, NEW X, NEW Y, Fine(s, E, X, Y),
         NEW m \in Messages, m.op.kind \in {"get_field", "get_fields"}
  PROVE  Fine(HandleGetFields(s, m), E, X, Y)
<1> DEFINE G == m.op.asked \cap DbField
           op == Operation("GET_FIELDS", m.op.doid, G, Nothing)
<1>1. s.m_next_context \in Nat /\ m.op.doid \in Doid /\ G \subseteq DbField
  BY MessagesAreGood DEF Fine, Typed, GoodOp
<1>2. [context |-> s.m_next_context, op |-> op] \in Routed /\ op.type \in Questions
      /\ op.doid = m.op.doid
  <2> HIDE DEF G
  <2>1. QED
    BY <1>1, RoutedQuestion DEF Operation, Questions
<1>3. CASE IsActivatedObject(s, m.op.doid)
  BY <1>3 DEF HandleGetFields
<1>4. CASE ~IsActivatedObject(s, m.op.doid) /\ G = {}
  <2>1. HandleGetFields(s, m) = Tell(s, m, Fields(Default, m.op.asked))
    BY <1>4 DEF HandleGetFields
  <2>2. QED
    BY <2>1, FineTell
<1>5. CASE ~IsActivatedObject(s, m.op.doid) /\ G # {}
  <2>1. HandleGetFields(s, m) = Query(s, m, op)
    BY <1>5 DEF HandleGetFields
  <2> HIDE DEF op
  <2>2. QED
    BY <1>2, <2>1, FineQuery
<1>6. QED
  BY <1>3, <1>4, <1>5

\* From s to t, a loader of d begins: it relies on open reads, or asks.
Begins(s, t, d, loader) ==
  /\ d \in Doid /\ ~IsActive(s, d) /\ loader \in Loaders
  /\ loader.context = s.m_next_context /\ loader.valid = OpenReads(s, d) /\ loader.queue = <<>>
  /\ DOMAIN t = ServerFields
  /\ t.m_next_context = s.m_next_context + 1
  /\ t.m_loading = With(s.m_loading, d, loader)
  /\ t.m_context_datagrams = s.m_context_datagrams /\ t.m_objs = s.m_objs
  /\ t.m_inactive_loads = s.m_inactive_loads

LEMMA BeginsFacts ==
  ASSUME NEW s, NEW t, NEW d, NEW loader, Typed(s), Begins(s, t, d, loader)
  PROVE  /\ s.m_next_context \in Nat
         /\ DOMAIN t.m_loading = DOMAIN s.m_loading \cup {d}
         /\ t.m_loading[d] = loader
         /\ \A x \in DOMAIN s.m_loading : x # d => t.m_loading[x] = s.m_loading[x]
         /\ t.m_loading \in [DOMAIN t.m_loading -> Loaders]
         /\ DOMAIN t.m_loading \subseteq Doid
         /\ 0..(t.m_next_context - 1) = (0..(s.m_next_context - 1)) \cup {s.m_next_context}
         /\ t.m_next_context \in Nat
         /\ ValidContexts(loader) = {s.m_next_context} \cup OpenReads(s, d)
<1>1. /\ s.m_next_context \in Nat /\ s.m_loading \in [DOMAIN s.m_loading -> Loaders]
      /\ DOMAIN s.m_loading \subseteq Doid
  BY DEF Typed
<1>2. t.m_next_context = s.m_next_context + 1 /\ t.m_loading = With(s.m_loading, d, loader)
      /\ loader \in Loaders /\ d \in Doid
  BY DEF Begins
<1>3. /\ DOMAIN t.m_loading = DOMAIN s.m_loading \cup {d}
      /\ t.m_loading[d] = loader
      /\ \A x \in DOMAIN s.m_loading : x # d => t.m_loading[x] = s.m_loading[x]
      /\ t.m_loading \in [DOMAIN t.m_loading -> Loaders]
  BY <1>1, <1>2 DEF With
<1>4. 0..(t.m_next_context - 1) = (0..(s.m_next_context - 1)) \cup {s.m_next_context}
      /\ t.m_next_context \in Nat
  <2> DEFINE n == s.m_next_context
  <2>1. n \in Nat /\ t.m_next_context = n + 1
    BY <1>1, <1>2
  <2> HIDE DEF n
  <2>2. 0..(t.m_next_context - 1) = (0..(n - 1)) \cup {n} /\ t.m_next_context \in Nat
    BY ONLY <2>1
  <2>3. QED
    BY <2>2 DEF n
<1>5. QED
  BY <1>1, <1>2, <1>3, <1>4 DEF Begins, ValidContexts

LEMMA BeginsOrderly ==
  ASSUME NEW s, NEW t, NEW d, NEW loader, Typed(s), Orderly(s), Begins(s, t, d, loader)
  PROVE  Orderly(t)
<1>1. /\ DOMAIN t.m_loading = DOMAIN s.m_loading \cup {d}
      /\ t.m_loading[d] = loader
      /\ \A x \in DOMAIN s.m_loading : x # d => t.m_loading[x] = s.m_loading[x]
      /\ 0..(t.m_next_context - 1) = (0..(s.m_next_context - 1)) \cup {s.m_next_context}
      /\ ValidContexts(loader) = {s.m_next_context} \cup OpenReads(s, d)
  BY BeginsFacts
<1>2. /\ t.m_context_datagrams = s.m_context_datagrams /\ t.m_objs = s.m_objs
      /\ t.m_inactive_loads = s.m_inactive_loads
      /\ d \in Doid /\ ~IsActive(s, d) /\ loader.queue = <<>>
  BY Zenon DEF Begins
<1>3. OpenReads(s, d) \subseteq 0..(s.m_next_context - 1)
  BY <1>2 DEF Orderly, ReadsOrderly, Reads, Typed
<1>4. \A x : IsActive(t, x) <=> IsActive(s, x)
  BY <1>2 DEF IsActive
<1>5. LoadersOrderly(t)
  <2> SUFFICES ASSUME NEW x \in DOMAIN t.m_loading
               PROVE  /\ ValidContexts(t.m_loading[x]) \subseteq 0..(t.m_next_context - 1)
                      /\ ~IsActive(t, x)
                      /\ \A k \in 1..Len(t.m_loading[x].queue) :
                           /\ t.m_loading[x].queue[k].op.doid = x
                           /\ t.m_loading[x].queue[k].op.kind # "activate"
    BY DEF LoadersOrderly
  <2>1. CASE x = d
    <3>1. ~IsActive(t, x)
      BY <1>2, <1>4, <2>1, Zenon
    <3>2. ValidContexts(t.m_loading[x]) \subseteq 0..(t.m_next_context - 1)
      BY <1>1, <1>3, <2>1
    <3>3. Len(t.m_loading[x].queue) = 0
      BY <1>1, <1>2, <2>1
    <3>4. QED
      BY <3>1, <3>2, <3>3
  <2>2. CASE x # d
    <3>1. x \in DOMAIN s.m_loading /\ t.m_loading[x] = s.m_loading[x]
      BY <1>1, <2>2
    <3>2. /\ ValidContexts(s.m_loading[x]) \subseteq 0..(s.m_next_context - 1)
          /\ \A k \in 1..Len(s.m_loading[x].queue) :
               /\ s.m_loading[x].queue[k].op.doid = x
               /\ s.m_loading[x].queue[k].op.kind # "activate"
      BY <3>1 DEF Orderly, LoadersOrderly
    <3>3. ~IsActive(s, x)
      BY <3>1, Zenon DEF Orderly, LoadersOrderly
    <3>4. ~IsActive(t, x)
      BY <1>4, <3>3, Zenon
    <3>5. QED
      BY <1>1, <3>1, <3>2, <3>4
  <2>3. QED
    BY <2>1, <2>2
<1>6. CallersOrderly(t)
  BY <1>2 DEF Orderly, CallersOrderly
<1>7. \A x : Reads(t, x) = Reads(s, x) /\ OpenReads(t, x) = OpenReads(s, x)
  BY <1>2 DEF Reads, OpenReads
<1>8. QED
  BY <1>5, <1>6, <1>7 DEF Orderly, ReadsOrderly

(* Whoever a new loader relies on is a reader of the same object.            *)
LEMMA BeginsRecognised ==
  ASSUME NEW s, NEW t, NEW d, NEW loader, NEW U, Typed(s), Orderly(s), Recognised(s, U),
         Begins(s, t, d, loader)
  PROVE  Recognised(t, U)
<1>1. /\ DOMAIN t.m_loading = DOMAIN s.m_loading \cup {d}
      /\ t.m_loading[d] = loader
      /\ \A x \in DOMAIN s.m_loading : x # d => t.m_loading[x] = s.m_loading[x]
      /\ s.m_next_context \in Nat
      /\ 0..(t.m_next_context - 1) = (0..(s.m_next_context - 1)) \cup {s.m_next_context}
      /\ ValidContexts(loader) = {s.m_next_context} \cup OpenReads(s, d)
  BY BeginsFacts
<1>2. t.m_context_datagrams = s.m_context_datagrams /\ d \in Doid
  BY DEF Begins
<1>3. OpenReads(s, d) = Reads(s, d)
  BY <1>2 DEF Orderly, ReadsOrderly
<1> SUFFICES ASSUME NEW b \in U
             PROVE  /\ b.context \in 0..(t.m_next_context - 1)
                    /\ \A x \in DOMAIN t.m_loading :
                         b.context \in ValidContexts(t.m_loading[x]) => b.doid = x /\ b.type = "GET_OBJECT"
                    /\ b.context \in DOMAIN t.m_context_datagrams =>
                         /\ t.m_context_datagrams[b.context].op.doid = b.doid
                         /\ t.m_context_datagrams[b.context].op.kind = "get_all" => b.type = "GET_OBJECT"
  BY DEF Recognised
<1>4. /\ b.context \in 0..(s.m_next_context - 1)
      /\ \A x \in DOMAIN s.m_loading :
           b.context \in ValidContexts(s.m_loading[x]) => b.doid = x /\ b.type = "GET_OBJECT"
      /\ b.context \in DOMAIN s.m_context_datagrams =>
           /\ s.m_context_datagrams[b.context].op.doid = b.doid
           /\ s.m_context_datagrams[b.context].op.kind = "get_all" => b.type = "GET_OBJECT"
  BY DEF Recognised
<1>5. b.context # s.m_next_context
  BY <1>1, <1>4, RangeMore
<1>6. b.context \in ValidContexts(loader) => b.doid = d /\ b.type = "GET_OBJECT"
  BY <1>1, <1>3, <1>4, <1>5 DEF Reads
<1>7. QED
  BY <1>1, <1>2, <1>4, <1>6

LEMMA FineBegins ==
  ASSUME NEW s, NEW E, NEW Y, Fine(s, E, {}, Y), NEW t, NEW d, NEW loader, Begins(s, t, d, loader),
         OpenReads(s, d) # {}, t.routed = s.routed
  PROVE  Fine(t, E, {}, Y)
<1> DEFINE U == UnderWay(s, E)
<1>1. Typed(s) /\ Orderly(s) /\ Recognised(s, U) /\ Awaits(s, U, {}, Y)
  BY DEF Fine
<1>2. /\ DOMAIN t.m_loading = DOMAIN s.m_loading \cup {d}
      /\ t.m_loading[d] = loader
      /\ \A x \in DOMAIN s.m_loading : x # d => t.m_loading[x] = s.m_loading[x]
      /\ t.m_loading \in [DOMAIN t.m_loading -> Loaders]
      /\ DOMAIN t.m_loading \subseteq Doid
      /\ 0..(t.m_next_context - 1) = (0..(s.m_next_context - 1)) \cup {s.m_next_context}
      /\ t.m_next_context \in Nat
      /\ ValidContexts(loader) = {s.m_next_context} \cup OpenReads(s, d)
  BY <1>1, BeginsFacts
<1>3. /\ t.m_context_datagrams = s.m_context_datagrams /\ t.m_objs = s.m_objs
      /\ t.m_inactive_loads = s.m_inactive_loads /\ DOMAIN t = ServerFields /\ d \in Doid
  BY DEF Begins
<1>4. Typed(t)
  BY <1>1, <1>2, <1>3 DEF Typed
<1>5. Orderly(t) /\ Recognised(t, U)
  BY <1>1, BeginsOrderly, BeginsRecognised
<1>6. UnderWay(t, E) = U
  BY DEF UnderWay
<1>7. Awaits(t, U, {}, Y)
  <2>1. \A c \in OpenReads(s, d) : c \in Contexts(U)
    BY <1>1, <1>3 DEF Orderly, ReadsOrderly, Reads, Awaits
  <2> HIDE DEF U
  <2>2. ValidContexts(t.m_loading[d]) \cap (Contexts(U) \cup Y) # {}
    BY <1>2, <2>1
  <2>3. \A x \in DOMAIN t.m_loading : ValidContexts(t.m_loading[x]) \cap (Contexts(U) \cup Y) # {}
    BY <1>1, <1>2, <2>2 DEF Awaits
  <2>4. QED
    BY <1>1, <1>3, <2>3 DEF Awaits
<1>8. QED
  BY <1>4, <1>5, <1>6, <1>7 DEF Fine

LEMMA FineBeginsAsking ==
  ASSUME NEW s, NEW E, NEW X, NEW Y, Fine(s, E, X, Y), NEW t, NEW d, NEW loader,
         Begins(s, t, d, loader), OpenReads(s, d) = {},
         NEW o, RoutesMore(s, t, o), o.context = s.m_next_context, o.op.doid = d,
         o.op.type = "GET_OBJECT"
  PROVE  Fine(t, E, X, Y)
<1> DEFINE U == UnderWay(s, E)
           c == s.m_next_context
<1>1. Typed(s) /\ Orderly(s) /\ Recognised(s, U) /\ Awaits(s, U, X, Y)
  BY DEF Fine
<1>2. /\ DOMAIN t.m_loading = DOMAIN s.m_loading \cup {d}
      /\ t.m_loading[d] = loader
      /\ \A x \in DOMAIN s.m_loading : x # d => t.m_loading[x] = s.m_loading[x]
      /\ t.m_loading \in [DOMAIN t.m_loading -> Loaders]
      /\ DOMAIN t.m_loading \subseteq Doid
      /\ 0..(t.m_next_context - 1) = (0..(c - 1)) \cup {c}
      /\ c \in Nat /\ t.m_next_context \in Nat
      /\ ValidContexts(loader) = {c}
  BY <1>1, BeginsFacts
<1>3. /\ t.m_context_datagrams = s.m_context_datagrams /\ t.m_objs = s.m_objs
      /\ t.m_inactive_loads = s.m_inactive_loads /\ DOMAIN t = ServerFields /\ d \in Doid
  BY DEF Begins
<1>4. /\ t.routed \in Seq(Routed)
      /\ UnderWay(t, E) = U \cup {Question(o)}
      /\ Contexts(UnderWay(t, E)) = Contexts(U) \cup {c}
  BY UnderWayMore
<1>5. Typed(t)
  <2>1. 0..(c - 1) \subseteq 0..(t.m_next_context - 1)
    BY <1>2
  <2>2. QED
    BY <1>1, <1>2, <1>3, <1>4, <2>1 DEF Typed
<1>6. Orderly(t) /\ Recognised(t, U)
  BY <1>1, BeginsOrderly, BeginsRecognised
<1>7. Recognised(t, U \cup {Question(o)})
  <2>1. Question(o).context = c /\ Question(o).doid = d /\ Question(o).type = "GET_OBJECT"
    BY DEF Question
  <2>2. \A x \in DOMAIN s.m_loading : c \notin ValidContexts(s.m_loading[x])
    <3>1. \A x \in DOMAIN s.m_loading : ValidContexts(s.m_loading[x]) \subseteq 0..(c - 1)
      BY <1>1 DEF Orderly, LoadersOrderly
    <3>2. c \notin 0..(c - 1)
      BY <1>2, RangeMore
    <3>3. QED
      BY <3>1, <3>2
  <2>3. c \notin DOMAIN t.m_context_datagrams
    <3>1. DOMAIN s.m_context_datagrams \subseteq 0..(c - 1)
      BY <1>1 DEF Typed
    <3>2. c \notin 0..(c - 1)
      BY <1>2, RangeMore
    <3>3. QED
      BY <1>3, <3>1, <3>2
  <2>4. \A x \in DOMAIN t.m_loading : c \in ValidContexts(t.m_loading[x]) => x = d
    BY <1>2, <2>2
  <2>5. c \in 0..(t.m_next_context - 1)
    BY <1>2
  <2> HIDE DEF c, U
  <2>6. QED
    BY <1>6, <2>1, <2>3, <2>4, <2>5 DEF Recognised
<1>8. Awaits(t, U \cup {Question(o)}, X, Y)
  <2>1. Contexts(U \cup {Question(o)}) = Contexts(U) \cup {c}
    BY <1>4
  <2> HIDE DEF U
  <2>2. ValidContexts(t.m_loading[d]) \cap (Contexts(U) \cup {c} \cup Y) # {}
    BY <1>2
  <2>3. \A x \in DOMAIN t.m_loading : ValidContexts(t.m_loading[x]) \cap (Contexts(U) \cup {c} \cup Y) # {}
    BY <1>1, <1>2, <2>2 DEF Awaits
  <2>4. DOMAIN t.m_context_datagrams \subseteq Contexts(U) \cup {c} \cup X
    BY <1>1, <1>3 DEF Awaits
  <2>5. QED
    BY <2>1, <2>3, <2>4 DEF Awaits
<1>9. QED
  BY <1>4, <1>5, <1>6, <1>7, <1>8 DEF Fine

LEMMA FineActivate ==
  ASSUME NEW s, NEW E, NEW Y, Fine(s, E, {}, Y), NEW m \in Messages
  PROVE  Fine(HandleActivate(s, m.op), E, {}, Y)
<1> DEFINE d == m.op.doid
           c == s.m_next_context
           loader == [context |-> c, valid |-> OpenReads(s, d), updates |-> m.op.fields, queue |-> <<>>]
           t == [s EXCEPT !.m_next_context = @ + 1, !.m_loading = With(@, d, loader)]
           op == Operation("GET_OBJECT", d, {}, Nothing)
<1>1. /\ DOMAIN s = ServerFields /\ c \in Nat /\ d \in Doid /\ m.op.fields \in Updates
      /\ s.m_inactive_loads \in [DOMAIN s.m_inactive_loads -> SUBSET Nat]
      /\ s.routed \in Seq(Routed)
  BY MessagesAreGood DEF Fine, Typed, GoodOp
<1>2. CASE ~Activatable(s, d)
  BY <1>2, Zenon DEF HandleActivate
<1>3. CASE Activatable(s, d)
  <2>1. loader \in Loaders
    <3>1. OpenReads(s, d) \subseteq Nat
      BY <1>1 DEF OpenReads
    <3>2. QED
      BY <1>1, <3>1 DEF Loaders
  <2>2. ~IsActive(s, d)
    BY <1>3, Zenon DEF Activatable, IsActivatedObject
  <2>3. HandleActivate(s, m.op) = Begin(t, d)
    BY <1>3 DEF HandleActivate, OpenReads
  <2>4. /\ DOMAIN t = ServerFields /\ t.m_next_context = c + 1
        /\ t.m_loading = With(s.m_loading, d, loader)
        /\ t.m_context_datagrams = s.m_context_datagrams /\ t.m_objs = s.m_objs
        /\ t.m_inactive_loads = s.m_inactive_loads /\ t.routed = s.routed
    <3> HIDE DEF loader
    <3>1. QED
      BY <1>1 DEF ServerFields
  <2>5. /\ loader.context = c /\ loader.valid = OpenReads(s, d) /\ loader.queue = <<>>
    OBVIOUS
  <2> HIDE DEF t, loader, op
  <2>6. Begins(s, t, d, loader)
    BY <1>1, <2>1, <2>2, <2>4, <2>5 DEF Begins
  <2>7. t.m_loading[d] = loader
    BY <2>4 DEF With
  <2>8. CASE OpenReads(s, d) # {}
    <3>1. Begin(t, d) = t
      BY <2>5, <2>7, <2>8 DEF Begin
    <3>2. QED
      BY <2>3, <2>4, <2>6, <2>8, <3>1, FineBegins
  <2>9. CASE OpenReads(s, d) = {}
    <3> DEFINE o == [context |-> c, op |-> op]
               r == Route(t, c, op)
    <3>1. Begin(t, d) = r
      BY <2>5, <2>7, <2>9 DEF Begin, op
    <3>2. o \in Routed /\ o.op.doid = d /\ o.op.type = "GET_OBJECT" /\ o.context = c
      BY <1>1, RoutedQuestion DEF Operation, Questions, op
    <3>3. /\ DOMAIN r = ServerFields /\ r.m_next_context = t.m_next_context
          /\ r.m_loading = t.m_loading
          /\ r.m_context_datagrams = t.m_context_datagrams /\ r.m_objs = t.m_objs
          /\ r.m_inactive_loads = t.m_inactive_loads
          /\ r.routed = Append(t.routed, o)
      BY <2>4 DEF Route, ServerFields
    <3> HIDE DEF r, o
    <3>4. Begins(s, r, d, loader)
      BY <2>6, <3>3 DEF Begins
    <3>5. RoutesMore(s, r, o)
      BY <1>1, <2>4, <3>2, <3>3 DEF RoutesMore
    <3>6. Fine(r, E, {}, Y)
      BY <2>9, <3>2, <3>4, <3>5, FineBeginsAsking
    <3>7. QED
      BY <2>3, <3>1, <3>6
  <2>10. QED
    BY <2>8, <2>9
<1>4. QED
  BY <1>2, <1>3

LEMMA FineDatagram ==
  ASSUME NEW s, NEW E, NEW X, NEW Y, Fine(s, E, X, Y), NEW m \in Messages,
         m.op.kind = "activate" => X = {}
  PROVE  Fine(HandleDatagram(s, m), E, X, Y)
<1> DEFINE kind == m.op.kind
<1>0. m.op.doid \in Doid /\ m.op.fields \in Updates
  BY MessagesAreGood DEF GoodOp
<1>1. CASE kind = "activate"
  BY <1>1, FineActivate DEF HandleDatagram
<1>2. CASE kind = "get_activated"
  <2>1. HandleDatagram(s, m) = HandleGetActivated(s, m)
    BY <1>2 DEF HandleDatagram
  <2>2. QED
    BY <2>1, FineTell, Zenon DEF HandleGetActivated
<1>3. CASE kind = "delete_disk"
  <2> DEFINE o == [context |-> NoContext, op |-> Operation("DELETE_OBJECT", m.op.doid, {}, Nothing)]
  <2>1. HandleDatagram(s, m) = HandleDeleteDisk(s, m.op)
    BY <1>3 DEF HandleDatagram
  <2>2. o \in Routed /\ o.context = NoContext
    BY <1>0, RoutedOrder DEF Nothing, DbUpdates
  <2>3. HandleDeleteDisk(s, m.op) = s \/ HandleDeleteDisk(s, m.op) = [s EXCEPT !.routed = Append(@, o)]
    BY DEF HandleDeleteDisk, Route
  <2> HIDE DEF o
  <2>4. QED
    BY <2>1, <2>2, <2>3, FineOrder
<1>4. CASE kind = "set"
  <2> DEFINE F == [f \in DOMAIN m.op.fields \cap DbField |-> m.op.fields[f]]
             o == [context |-> NoContext, op |-> Operation("SET_FIELDS", m.op.doid, {}, F)]
  <2>1. HandleDatagram(s, m) = HandleSetFields(s, m.op)
    BY <1>4 DEF HandleDatagram
  <2>2. F \in DbUpdates
    <3> DEFINE D == DOMAIN m.op.fields \cap DbField
    <3>1. \A f \in D : m.op.fields[f] \in Value
      BY <1>0 DEF Updates
    <3>2. F \in [D -> Value] /\ D \in SUBSET DbField
      BY <3>1
    <3> HIDE DEF F, D
    <3>3. QED
      BY <3>2 DEF DbUpdates
  <2>3. HandleSetFields(s, m.op) = s \/ HandleSetFields(s, m.op) = [s EXCEPT !.routed = Append(@, o)]
    BY DEF HandleSetFields, Route
  <2> HIDE DEF F
  <2>4. o \in Routed /\ o.context = NoContext
    BY <1>0, <2>2, RoutedOrder
  <2> HIDE DEF o
  <2>5. QED
    BY <2>1, <2>3, <2>4, FineOrder
<1>5. CASE kind \in {"get_field", "get_fields"}
  BY <1>5, FineGet DEF HandleDatagram
<1>6. CASE kind = "get_all"
  BY <1>6, FineGetAll DEF HandleDatagram
<1>7. CASE kind \notin {"activate", "get_activated", "delete_disk", "set", "get_field", "get_fields",
                        "get_all"}
  BY <1>7 DEF HandleDatagram
<1>8. QED
  BY <1>1, <1>2, <1>3, <1>4, <1>5, <1>6, <1>7

-----------------------------------------------------------------------------
(* What a datagram does to a loaded object, and to the queue of a loader.    *)

\* From s to t, nothing changed but the object d and what was told.
Handled(s, t, d) ==
  /\ Same(s, t)
  /\ t.m_objs \in [Doid -> Loaded \cup {Missing}]
  /\ \A x \in Doid : x # d => t.m_objs[x] = s.m_objs[x]

LEMMA HandledTwice ==
  ASSUME NEW s, NEW t, NEW u, NEW d, Handled(s, t, d), Handled(t, u, d)
  PROVE  Handled(s, u, d)
BY DEF Handled, Same

LEMMA UpdatedTyped ==
  ASSUME NEW x \in Loaded, NEW F \in Updates
  PROVE  Updated(x, F) \in Loaded
<1>1. \A f \in DOMAIN F : F[f] \in Value
  BY DEF Updates
<1>2. DOMAIN x = Field /\ \A f \in Field : x[f] \in Value
  BY DEF Loaded
<1>3. QED
  BY <1>1, <1>2 DEF Updated, Loaded

LEMMA ObjectHandles ==
  ASSUME NEW s, DOMAIN s = ServerFields, s.m_objs \in [Doid -> Loaded \cup {Missing}],
         NEW m \in Messages
  PROVE  Handled(s, ObjectHandle(s, m), m.op.doid)
<1> DEFINE d == m.op.doid
           x == s.m_objs[d]
           t == ObjectHandle(s, m)
<1>0. d \in Doid /\ m.op.fields \in Updates
  BY MessagesAreGood DEF GoodOp
<1>1. Handled(s, s, d)
  BY DEF Handled, Same
<1>2. \A y \in Loaded \cup {Missing} : Handled(s, [s EXCEPT !.m_objs[d] = y], d)
  BY <1>0 DEF Handled, Same, ServerFields
<1>3. \A a : Handled(s, Tell(s, m, a), d)
  BY DEF Handled, Same, ServerFields, Tell
<1>4. CASE x = Missing
  BY <1>1, <1>4 DEF ObjectHandle
<1>5. CASE x # Missing /\ m.op.kind = "set"
  <2>1. t = [s EXCEPT !.m_objs[d] = Updated(x, m.op.fields)]
    BY <1>5 DEF ObjectHandle
  <2>2. x \in Loaded
    BY <1>0, <1>5
  <2> HIDE DEF t, x
  <2>3. Updated(x, m.op.fields) \in Loaded
    BY <1>0, <2>2, UpdatedTyped
  <2>4. QED
    BY <1>2, <2>1, <2>3 DEF t
<1>6. CASE x # Missing /\ m.op.kind = "delete_ram"
  <2>1. t = [s EXCEPT !.m_objs[d] = Missing]
    BY <1>6 DEF ObjectHandle
  <2> HIDE DEF t
  <2>2. QED
    BY <1>2, <2>1 DEF t
<1>7. CASE x # Missing /\ m.op.kind \in {"get_field", "get_fields", "get_all"}
  <2>1. t = Tell(s, m, RamAnswer(m.op, x))
    BY <1>7 DEF ObjectHandle
  <2> HIDE DEF t
  <2>2. QED
    BY <1>3, <2>1 DEF t
<1>8. CASE x # Missing /\ m.op.kind \notin {"set", "delete_ram", "get_field", "get_fields", "get_all"}
  BY <1>1, <1>8 DEF ObjectHandle
<1>9. QED
  BY <1>4, <1>5, <1>6, <1>7, <1>8

LEMMA FineObject ==
  ASSUME NEW s, NEW E, NEW X, NEW Y, Fine(s, E, X, Y), NEW m \in Messages
  PROVE  Fine(ObjectHandle(s, m), E, X, Y)
<1> DEFINE d == m.op.doid
           t == ObjectHandle(s, m)
<1>1. /\ DOMAIN s = ServerFields /\ s.m_objs \in [Doid -> Loaded \cup {Missing}]
      /\ DOMAIN s.m_loading \subseteq Doid
  BY DEF Fine, Typed
<1>2. CASE s.m_objs[d] = Missing
  BY <1>2 DEF ObjectHandle
<1>3. CASE s.m_objs[d] # Missing
  <2>1. d \notin DOMAIN s.m_loading
    BY <1>3 DEF Fine, Orderly, LoadersOrderly, IsActive
  <2>2. Handled(s, t, d)
    BY <1>1, ObjectHandles
  <2> HIDE DEF t
  <2>3. Same(s, t) /\ t.m_objs \in [Doid -> Loaded \cup {Missing}]
        /\ \A x \in DOMAIN s.m_loading : t.m_objs[x] = s.m_objs[x]
    BY <1>1, <2>1, <2>2 DEF Handled
  <2>4. QED
    BY <2>3, FineSame DEF t
<1>4. QED
  BY <1>2, <1>3

LEMMA ReplayHandles ==
  ASSUME NEW s, DOMAIN s = ServerFields, s.m_objs \in [Doid -> Loaded \cup {Missing}],
         NEW d, NEW q \in Seq(Messages), \A k \in 1..Len(q) : q[k].op.doid = d
  PROVE  Handled(s, Replay(s, q), d)
<1>1. Len(q) \in Nat /\ \A k \in 1..Len(q) : q[k] \in Messages
  OBVIOUS
<1>2. PICK f : /\ Replaying(s, q) = f[Len(q)]
               /\ f[0] = s
               /\ \A k \in 1..Len(q) : f[k] = ObjectHandle(f[k - 1], q[k])
  BY <1>1, ReplaysInTurn
<1> DEFINE G == {k \in 0..Len(q) : Handled(s, f[k], d)}
<1>3. 0 \in G
  BY <1>1, <1>2 DEF Handled, Same
<1>4. ASSUME NEW k \in 1..Len(q), k - 1 \in G PROVE k \in G
  <2>1. Handled(s, f[k - 1], d)
    BY <1>4
  <2>2. DOMAIN f[k - 1] = ServerFields /\ f[k - 1].m_objs \in [Doid -> Loaded \cup {Missing}]
    BY <2>1 DEF Handled, Same
  <2>3. Handled(f[k - 1], f[k], d)
    BY <1>1, <1>2, <2>2, ObjectHandles
  <2>4. Handled(s, f[k], d)
    BY <2>1, <2>3, HandledTwice
  <2>5. QED
    BY <1>1, <2>4
<1> HIDE DEF G
<1>5. \A k \in 0..Len(q) : k \in G
  BY <1>1, <1>3, <1>4, Upwards
<1>6. Handled(s, f[Len(q)], d)
  BY <1>1, <1>5 DEF G
<1>7. QED
  BY <1>2, <1>6 DEF Replaying, Replay

LEMMA FineForward ==
  ASSUME NEW s, NEW E, NEW X, NEW Y, Fine(s, E, X, Y), NEW q \in Seq(Messages),
         \A k \in 1..Len(q) : q[k].op.kind # "activate"
  PROVE  Fine(ForwardDatagrams(s, q), E, X, Y)
<1>1. Len(q) \in Nat /\ \A k \in 1..Len(q) : q[k] \in Messages
  OBVIOUS
<1>2. PICK f : /\ Forwarding(s, q) = f[Len(q)]
               /\ f[0] = s
               /\ \A k \in 1..Len(q) : f[k] = HandleDatagram(f[k - 1], q[k])
  BY <1>1, ForwardsInTurn
<1> DEFINE G == {k \in 0..Len(q) : Fine(f[k], E, X, Y)}
<1>3. 0 \in G
  BY <1>1, <1>2
<1>4. ASSUME NEW k \in 1..Len(q), k - 1 \in G PROVE k \in G
  <2>1. Fine(f[k - 1], E, X, Y) /\ q[k] \in Messages /\ q[k].op.kind # "activate"
    BY <1>1, <1>4
  <2>2. Fine(HandleDatagram(f[k - 1], q[k]), E, X, Y)
    BY <2>1, FineDatagram
  <2>3. QED
    BY <1>1, <1>2, <2>2
<1> HIDE DEF G
<1>5. \A k \in 0..Len(q) : k \in G
  BY <1>1, <1>3, <1>4, Upwards
<1>6. Fine(f[Len(q)], E, X, Y)
  BY <1>1, <1>5 DEF G
<1>7. QED
  BY <1>2, <1>6 DEF Forwarding, ForwardDatagrams

-----------------------------------------------------------------------------
(* An answer: the caller has it, and so has the loader.                      *)

\* The answer c is for the loader of d, if for any, and is the object.
Takes(s, c, d, type) ==
  \A x \in DOMAIN s.m_loading : c \in ValidContexts(s.m_loading[x]) => x = d /\ type = "GET_OBJECT"

\* From s to t, the loader of d is discarded.
Discards(s, t, d) ==
  /\ DOMAIN t = ServerFields
  /\ t.m_loading = Without(s.m_loading, d)
  /\ \A x \in ServerFields \ {"told", "m_objs", "m_loading"} : t[x] = s[x]
  /\ t.m_objs \in [Doid -> Loaded \cup {Missing}]
  /\ \A x \in Doid : x # d => t.m_objs[x] = s.m_objs[x]

LEMMA FineDiscards ==
  ASSUME NEW s, NEW E, NEW X, NEW c, Fine(s, E, X, {c}), NEW t, NEW d, NEW type,
         Discards(s, t, d), Takes(s, c, d, type)
  PROVE  Fine(t, E, X, {})
<1> DEFINE U == UnderWay(s, E)
<1>1. /\ t.m_next_context = s.m_next_context /\ t.routed = s.routed
      /\ t.m_context_datagrams = s.m_context_datagrams
      /\ t.m_inactive_loads = s.m_inactive_loads /\ DOMAIN t = ServerFields
      /\ t.m_loading = Without(s.m_loading, d)
      /\ t.m_objs \in [Doid -> Loaded \cup {Missing}]
      /\ \A x \in Doid : x # d => t.m_objs[x] = s.m_objs[x]
  BY DEF Discards, ServerFields
<1>2. Typed(s) /\ Orderly(s) /\ Recognised(s, U) /\ Awaits(s, U, X, {c})
  BY DEF Fine
<1>3. /\ DOMAIN t.m_loading = DOMAIN s.m_loading \ {d}
      /\ \A x \in DOMAIN t.m_loading : t.m_loading[x] = s.m_loading[x] /\ x # d /\ x \in Doid
      /\ t.m_loading \in [DOMAIN t.m_loading -> Loaders]
  <2>1. s.m_loading \in [DOMAIN s.m_loading -> Loaders] /\ DOMAIN s.m_loading \subseteq Doid
    BY <1>2 DEF Typed
  <2>2. QED
    BY <1>1, <2>1 DEF Without
<1>4. Typed(t)
  BY <1>1, <1>2, <1>3 DEF Typed
<1>5. Orderly(t)
  <2>1. LoadersOrderly(t)
    <3> SUFFICES ASSUME NEW x \in DOMAIN t.m_loading
                 PROVE  /\ ValidContexts(t.m_loading[x]) \subseteq 0..(t.m_next_context - 1)
                        /\ ~IsActive(t, x)
                        /\ \A k \in 1..Len(t.m_loading[x].queue) :
                             /\ t.m_loading[x].queue[k].op.doid = x
                             /\ t.m_loading[x].queue[k].op.kind # "activate"
      BY DEF LoadersOrderly
    <3>1. t.m_loading[x] = s.m_loading[x] /\ x \in DOMAIN s.m_loading /\ t.m_objs[x] = s.m_objs[x]
      BY <1>1, <1>3
    <3>2. QED
      BY <1>1, <1>2, <3>1 DEF Orderly, LoadersOrderly, IsActive
  <2>2. CallersOrderly(t)
    BY <1>1, <1>2 DEF Orderly, CallersOrderly
  <2>3. \A x : Reads(t, x) = Reads(s, x) /\ OpenReads(t, x) = OpenReads(s, x)
    BY <1>1 DEF Reads, OpenReads
  <2>4. QED
    BY <1>2, <2>1, <2>2, <2>3 DEF Orderly, ReadsOrderly
<1>6. UnderWay(t, E) = U
  BY <1>1 DEF UnderWay
<1> HIDE DEF U
<1>7. Recognised(t, U)
  BY <1>1, <1>2, <1>3 DEF Recognised
<1>8. Awaits(t, U, X, {})
  <2>1. \A x \in DOMAIN t.m_loading : ValidContexts(t.m_loading[x]) \cap Contexts(U) # {}
    <3> SUFFICES ASSUME NEW x \in DOMAIN t.m_loading
                 PROVE  ValidContexts(s.m_loading[x]) \cap Contexts(U) # {}
      BY <1>3
    <3>1. c \notin ValidContexts(s.m_loading[x])
      BY <1>3 DEF Takes
    <3>2. ValidContexts(s.m_loading[x]) \cap (Contexts(U) \cup {c}) # {}
      BY <1>2, <1>3 DEF Awaits
    <3>3. QED
      BY <3>1, <3>2
  <2>2. DOMAIN t.m_context_datagrams \subseteq Contexts(U) \cup X
    BY <1>1, <1>2 DEF Awaits
  <2>3. QED
    BY <2>1, <2>2 DEF Awaits
<1>9. QED
  BY <1>4, <1>5, <1>6, <1>7, <1>8 DEF Fine

\* An answer that no loader waits for.
LEMMA FineUnasked ==
  ASSUME NEW s, NEW E, NEW X, NEW c, Fine(s, E, X, {c}),
         \A x \in DOMAIN s.m_loading : c \notin ValidContexts(s.m_loading[x])
  PROVE  Fine(s, E, X, {})
<1> DEFINE U == UnderWay(s, E)
<1>1. Awaits(s, U, X, {c})
  BY DEF Fine
<1> HIDE DEF U
<1>2. Awaits(s, U, X, {})
  BY <1>1 DEF Awaits
<1>3. QED
  BY <1>2 DEF Fine, U

\* What the database answers about an object that it has.
GoodAnswer(r) ==
  /\ r.doid \in Doid
  /\ r.type = "GET_OBJECT" /\ r.outcome # DB!Failure => r.outcome.fields \in [DbField -> Value]

LEMMA LoadTyped ==
  ASSUME NEW loader \in Loaders, NEW x \in [DbField -> Value]
  PROVE  Load(loader, x) \in Loaded
<1>1. loader.updates \in Updates
  BY DEF Loaders
<1>2. \A f \in DOMAIN loader.updates : loader.updates[f] \in Value
  BY <1>1 DEF Updates
<1>3. \A f \in DbField : x[f] \in Value
  OBVIOUS
<1>4. \A f \in Field : Default[f] \in Value
  BY DBStateServerAssumption
<1>5. QED
  BY <1>2, <1>3, <1>4 DEF Load, Loaded

LEMMA FineLoader ==
  ASSUME NEW s, NEW E, NEW X, NEW r, Fine(s, E, X, {r.context}), GoodAnswer(r),
         Takes(s, r.context, r.doid, r.type)
  PROVE  Fine(LoaderReceive(s, r), E, X, {})
<1> DEFINE d == r.doid
           loader == s.m_loading[d]
           c == r.context
<1>1. CASE \/ ~IsLoading(s, d) \/ r.type # "GET_OBJECT"
           \/ IsLoading(s, d) /\ c \notin ValidContexts(loader)
  <2>1. LoaderReceive(s, r) = s
    BY <1>1 DEF LoaderReceive
  <2>2. \A x \in DOMAIN s.m_loading : c \notin ValidContexts(s.m_loading[x])
    BY <1>1 DEF Takes, IsLoading
  <2>3. QED
    BY <2>1, <2>2, FineUnasked
<1>2. CASE IsLoading(s, d) /\ r.type = "GET_OBJECT" /\ c \in ValidContexts(loader)
  <2>1. /\ DOMAIN s = ServerFields /\ s.m_objs \in [Doid -> Loaded \cup {Missing}]
        /\ loader \in Loaders /\ d \in Doid /\ d \in DOMAIN s.m_loading
    BY <1>2 DEF Fine, Typed, IsLoading, GoodAnswer
  <2>2. /\ loader.queue \in Seq(Messages)
        /\ \A k \in 1..Len(loader.queue) : loader.queue[k].op.doid = d
        /\ \A k \in 1..Len(loader.queue) : loader.queue[k].op.kind # "activate"
    BY <2>1 DEF Fine, Orderly, LoadersOrderly, Loaders
  <2>3. ASSUME NEW u, Handled(s, u, d) PROVE Fine(Finalize(u, d), E, X, {})
    <3> DEFINE t == [u EXCEPT !.m_loading = Without(@, d)]
    <3>1. DOMAIN u = ServerFields /\ u.m_loading = s.m_loading
      BY <2>3 DEF Handled, Same, ServerFields
    <3>2. Finalize(u, d) = ForwardDatagrams(t, loader.queue)
      BY <3>1 DEF Finalize
    <3>3. Discards(s, t, d)
      BY <2>3, <3>1 DEF Handled, Same, Discards, ServerFields
    <3> HIDE DEF t
    <3>4. Fine(t, E, X, {})
      BY <3>3, FineDiscards
    <3>5. QED
      BY <2>2, <3>2, <3>4, FineForward
  <2>4. CASE r.outcome = DB!Failure
    <3>1. LoaderReceive(s, r) = Finalize(s, d)
      BY <1>2, <2>4 DEF LoaderReceive
    <3>2. Handled(s, s, d)
      BY <2>1 DEF Handled, Same
    <3>3. QED
      BY <2>3, <3>1, <3>2
  <2>5. CASE r.outcome # DB!Failure
    <3> DEFINE t == [s EXCEPT !.m_objs[d] = Load(loader, r.outcome.fields)]
               u == Replay(t, loader.queue)
    <3>1. LoaderReceive(s, r) = Finalize(u, d)
      BY <1>2, <2>5 DEF LoaderReceive
    <3>2. r.outcome.fields \in [DbField -> Value]
      BY <1>2, <2>5 DEF GoodAnswer
    <3> HIDE DEF loader
    <3>3. Load(loader, r.outcome.fields) \in Loaded
      BY <2>1, <3>2, LoadTyped
    <3>4. Handled(s, t, d)
      BY <2>1, <3>3 DEF Handled, Same, ServerFields
    <3>5. DOMAIN t = ServerFields /\ t.m_objs \in [Doid -> Loaded \cup {Missing}]
      BY <3>4 DEF Handled, Same
    <3> HIDE DEF t
    <3>6. Handled(t, u, d)
      BY <2>2, <3>5, ReplayHandles
    <3>7. Handled(s, u, d)
      BY <3>4, <3>6, HandledTwice
    <3> HIDE DEF u
    <3>8. QED
      BY <2>3, <3>1, <3>7
  <2>6. QED
    BY <2>4, <2>5
<1>3. QED
  BY <1>1, <1>2

\* From s to t, the caller with context c has his answer.
Satisfies(s, t, c) ==
  /\ DOMAIN t = ServerFields
  /\ t.m_context_datagrams = Without(s.m_context_datagrams, c)
  /\ \A x \in ServerFields \ {"told", "m_context_datagrams", "m_inactive_loads"} : t[x] = s[x]
  /\ t.m_inactive_loads \in [DOMAIN t.m_inactive_loads -> SUBSET Nat]
  /\ DOMAIN t.m_inactive_loads \subseteq Doid
  /\ \A d \in Doid : OpenReads(t, d) = OpenReads(s, d) \ {c}

LEMMA FineSatisfies ==
  ASSUME NEW s, NEW E, NEW c, NEW Y, Fine(s, E, {c}, Y), NEW t, Satisfies(s, t, c)
  PROVE  Fine(t, E, {}, Y) /\ t.m_loading = s.m_loading
<1> DEFINE U == UnderWay(s, E)
<1>1. /\ t.m_next_context = s.m_next_context /\ t.routed = s.routed
      /\ t.m_objs = s.m_objs /\ t.m_loading = s.m_loading
      /\ DOMAIN t = ServerFields
      /\ t.m_context_datagrams = Without(s.m_context_datagrams, c)
      /\ t.m_inactive_loads \in [DOMAIN t.m_inactive_loads -> SUBSET Nat]
      /\ DOMAIN t.m_inactive_loads \subseteq Doid
  BY DEF Satisfies, ServerFields
<1>2. Typed(s) /\ Orderly(s) /\ Recognised(s, U) /\ Awaits(s, U, {c}, Y)
  BY DEF Fine
<1>3. /\ DOMAIN t.m_context_datagrams = DOMAIN s.m_context_datagrams \ {c}
      /\ \A k \in DOMAIN t.m_context_datagrams : t.m_context_datagrams[k] = s.m_context_datagrams[k]
      /\ t.m_context_datagrams \in [DOMAIN t.m_context_datagrams -> Messages]
  <2>1. s.m_context_datagrams \in [DOMAIN s.m_context_datagrams -> Messages]
    BY <1>2 DEF Typed
  <2>2. QED
    BY <1>1, <2>1 DEF Without
<1>4. Typed(t)
  BY <1>1, <1>2, <1>3 DEF Typed
<1>5. Orderly(t)
  <2>1. LoadersOrderly(t)
    BY <1>1, <1>2 DEF Orderly, LoadersOrderly, IsActive
  <2>2. CallersOrderly(t)
    BY <1>2, <1>3 DEF Orderly, CallersOrderly
  <2>3. \A d : Reads(t, d) = Reads(s, d) \ {c}
    BY <1>3 DEF Reads
  <2>4. QED
    BY <1>2, <2>1, <2>2, <2>3 DEF Orderly, ReadsOrderly, Satisfies
<1>6. UnderWay(t, E) = U
  BY <1>1 DEF UnderWay
<1> HIDE DEF U
<1>7. Recognised(t, U)
  BY <1>1, <1>2, <1>3 DEF Recognised
<1>8. Awaits(t, U, {}, Y)
  BY <1>1, <1>2, <1>3 DEF Awaits
<1>9. QED
  BY <1>1, <1>4, <1>5, <1>6, <1>7, <1>8 DEF Fine

LEMMA OneOrMore ==
  ASSUME NEW n \in Nat, NEW S \in SUBSET (0..(n - 1)), NEW c \in S, ~(Cardinality(S) > 1)
  PROVE  S = {c}
<1>1. IsFiniteSet(0..(n - 1))
  BY FS_Interval
<1>2. IsFiniteSet(S) /\ Cardinality(S) \in Nat
  BY <1>1, FS_Subset, FS_CardinalityType
<1>3. IsFiniteSet(S \ {c}) /\ Cardinality(S \ {c}) = Cardinality(S) - 1
  BY <1>2, FS_RemoveElement
<1>4. Cardinality(S \ {c}) \in Nat
  BY <1>3, FS_CardinalityType
<1>5. Cardinality(S \ {c}) = 0
  BY <1>2, <1>3, <1>4
<1>6. S \ {c} = {}
  BY <1>3, <1>5, FS_EmptySet
<1>7. QED
  BY <1>6

LEMMA ForgetFacts ==
  ASSUME NEW s, DOMAIN s = ServerFields, NEW d, NEW c, NEW n \in Nat,
         s.m_inactive_loads \in [DOMAIN s.m_inactive_loads -> SUBSET Nat],
         DOMAIN s.m_inactive_loads \subseteq Doid,
         OpenReads(s, d) \subseteq 0..(n - 1), c \in OpenReads(s, d)
  PROVE  LET t == Forget(s, d, c)
         IN  /\ DOMAIN t = ServerFields
             /\ \A x \in ServerFields \ {"m_inactive_loads"} : t[x] = s[x]
             /\ t.m_inactive_loads \in [DOMAIN t.m_inactive_loads -> SUBSET Nat]
             /\ DOMAIN t.m_inactive_loads \subseteq Doid
             /\ \A x \in Doid : OpenReads(t, x) = OpenReads(s, x) \ {k \in {c} : x = d}
<1> DEFINE t == Forget(s, d, c)
           loads == s.m_inactive_loads
<1>1. d \in DOMAIN loads /\ OpenReads(s, d) = loads[d]
  BY DEF OpenReads
<1>2. DOMAIN t = ServerFields /\ \A x \in ServerFields \ {"m_inactive_loads"} : t[x] = s[x]
  BY DEF Forget, ServerFields
<1>4. CASE Cardinality(loads[d]) > 1
  <2>1. t.m_inactive_loads = [loads EXCEPT ![d] = loads[d] \ {c}]
    <3>1. t = [s EXCEPT !.m_inactive_loads[d] = loads[d] \ {c}]
      BY <1>4 DEF Forget
    <3> HIDE DEF t
    <3>2. QED
      BY <3>1 DEF ServerFields
  <2> HIDE DEF t
  <2>2. \A x \in Doid : OpenReads(t, x) = OpenReads(s, x) \ {k \in {c} : x = d}
    BY <1>1, <2>1 DEF OpenReads
  <2>3. t.m_inactive_loads \in [DOMAIN t.m_inactive_loads -> SUBSET Nat]
        /\ DOMAIN t.m_inactive_loads \subseteq Doid
    BY <1>1, <2>1
  <2>4. QED
    BY <1>2, <2>2, <2>3 DEF t
<1>5. CASE ~(Cardinality(loads[d]) > 1)
  <2>1. t.m_inactive_loads = Without(loads, d)
    <3>1. t = [s EXCEPT !.m_inactive_loads = Without(loads, d)]
      BY <1>5 DEF Forget
    <3> HIDE DEF t
    <3>2. QED
      BY <3>1 DEF ServerFields
  <2>2. loads[d] = {c}
    <3>1. loads[d] \in SUBSET (0..(n - 1)) /\ c \in loads[d]
      BY <1>1
    <3> HIDE DEF loads
    <3>2. QED
      BY <1>5, <3>1, OneOrMore
  <2> HIDE DEF t
  <2>3. \A x \in Doid : OpenReads(t, x) = OpenReads(s, x) \ {k \in {c} : x = d}
    BY <1>1, <2>1, <2>2 DEF OpenReads, Without
  <2>4. t.m_inactive_loads \in [DOMAIN t.m_inactive_loads -> SUBSET Nat]
        /\ DOMAIN t.m_inactive_loads \subseteq Doid
    BY <2>1 DEF Without
  <2>5. QED
    BY <1>2, <2>3, <2>4 DEF t
<1>6. QED
  BY <1>4, <1>5

LEMMA FineResponse ==
  ASSUME NEW s, NEW E, NEW Y, NEW r, Fine(s, E, {r.context}, Y)
  PROVE  Fine(HandleResponse(s, r), E, {}, Y) /\ HandleResponse(s, r).m_loading = s.m_loading
<1> DEFINE c == r.context
           m == s.m_context_datagrams[c]
           d == m.op.doid
           t == [s EXCEPT !.m_context_datagrams = Without(@, c)]
<1>1. /\ DOMAIN s = ServerFields /\ s.m_next_context \in Nat
      /\ s.m_inactive_loads \in [DOMAIN s.m_inactive_loads -> SUBSET Nat]
      /\ DOMAIN s.m_inactive_loads \subseteq Doid
      /\ DOMAIN s.m_context_datagrams \subseteq 0..(s.m_next_context - 1)
      /\ s.m_context_datagrams \in [DOMAIN s.m_context_datagrams -> Messages]
  BY DEF Fine, Typed
<1>2. CASE c \notin DOMAIN s.m_context_datagrams
  <2>1. HandleResponse(s, r) = s
    BY <1>2 DEF HandleResponse
  <2> DEFINE U == UnderWay(s, E)
  <2>2. Awaits(s, U, {c}, Y)
    BY DEF Fine
  <2> HIDE DEF U
  <2>3. Awaits(s, U, {}, Y)
    BY <1>2, <2>2 DEF Awaits
  <2>4. QED
    BY <2>1, <2>3 DEF Fine, U
<1>3. CASE c \in DOMAIN s.m_context_datagrams
  <2>1. m.op.kind \in {"get_field", "get_fields", "get_all"} /\ d \in Doid
    BY <1>1, <1>3, MessagesAreGood DEF Fine, Orderly, CallersOrderly, GoodOp
  <2>2. \A x \in Doid : OpenReads(s, x) = Reads(s, x)
    BY DEF Fine, Orderly, ReadsOrderly
  <2>3. /\ DOMAIN t = ServerFields
        /\ t.m_context_datagrams = Without(s.m_context_datagrams, c)
        /\ \A x \in ServerFields \ {"m_context_datagrams"} : t[x] = s[x]
    BY <1>1 DEF ServerFields
  <2> HIDE DEF t
  <2>4. \A x : OpenReads(t, x) = OpenReads(s, x)
    BY <2>3 DEF OpenReads, ServerFields
  <2>5. \A u : \A a : DOMAIN u = ServerFields =>
                 /\ DOMAIN Tell(u, m, a) = ServerFields
                 /\ \A x \in ServerFields \ {"told"} : Tell(u, m, a)[x] = u[x]
    BY DEF Tell, ServerFields
  <2>6. CASE m.op.kind # "get_all"
    <3>1. \A x \in Doid : c \notin OpenReads(s, x)
      BY <2>2, <2>6 DEF Reads
    <3>2. PICK a : HandleResponse(s, r) = Tell(t, m, a)
      BY <1>3, <2>1, <2>6 DEF HandleResponse, t
    <3> DEFINE u == Tell(t, m, a)
    <3>3. DOMAIN u = ServerFields /\ \A x \in ServerFields \ {"told"} : u[x] = t[x]
      BY <2>3, <2>5
    <3> HIDE DEF u, m
    <3>4. Satisfies(s, u, c)
      BY <1>1, <2>3, <3>1, <3>3 DEF Satisfies, ServerFields, OpenReads
    <3>5. QED
      BY <3>2, <3>4, FineSatisfies DEF u
  <2>7. CASE m.op.kind = "get_all"
    <3> DEFINE f == Forget(t, d, c)
    <3>1. c \in Reads(s, d) /\ \A x \in Doid : x # d => c \notin Reads(s, x)
      BY <1>3, <2>7 DEF Reads
    <3>2. c \in OpenReads(t, d) /\ OpenReads(t, d) \subseteq 0..(s.m_next_context - 1)
      BY <1>1, <2>1, <2>2, <2>4, <3>1 DEF Reads
    <3>3. /\ DOMAIN f = ServerFields
          /\ \A x \in ServerFields \ {"m_inactive_loads"} : f[x] = t[x]
          /\ f.m_inactive_loads \in [DOMAIN f.m_inactive_loads -> SUBSET Nat]
          /\ DOMAIN f.m_inactive_loads \subseteq Doid
          /\ \A x \in Doid : OpenReads(f, x) = OpenReads(t, x) \ {k \in {c} : x = d}
      <4>1. /\ t.m_inactive_loads \in [DOMAIN t.m_inactive_loads -> SUBSET Nat]
            /\ DOMAIN t.m_inactive_loads \subseteq Doid
        BY <1>1, <2>3 DEF ServerFields
      <4>2. DOMAIN t = ServerFields /\ s.m_next_context \in Nat
        BY <1>1, <2>3
      <4> HIDE DEF d, c
      <4>3. QED
        BY ONLY <3>2, <4>1, <4>2, ForgetFacts
    <3>4. \A x \in Doid : OpenReads(f, x) = OpenReads(s, x) \ {c}
      BY <2>2, <2>4, <3>1, <3>3
    <3>5. \/ HandleResponse(s, r) = f
          \/ \E a : HandleResponse(s, r) = Tell(f, m, a)
      BY <1>3, <2>7 DEF HandleResponse, t
    <3> HIDE DEF f, m
    <3>6. Satisfies(s, f, c)
      BY <2>3, <3>3, <3>4 DEF Satisfies, ServerFields
    <3>7. ASSUME NEW a PROVE Satisfies(s, Tell(f, m, a), c)
      <4> DEFINE u == Tell(f, m, a)
      <4>1. DOMAIN u = ServerFields /\ \A x \in ServerFields \ {"told"} : u[x] = f[x]
        BY <2>5, <3>3
      <4> HIDE DEF u
      <4>2. \A x : OpenReads(u, x) = OpenReads(f, x)
        BY <4>1 DEF OpenReads, ServerFields
      <4>3. Satisfies(s, u, c)
        BY <2>3, <3>3, <3>4, <4>1, <4>2 DEF Satisfies, ServerFields
      <4>4. QED
        BY <4>3 DEF u
    <3>8. QED
      BY <3>5, <3>6, <3>7, FineSatisfies
  <2>8. QED
    BY <2>6, <2>7
<1>4. QED
  BY <1>2, <1>3

-----------------------------------------------------------------------------
(* The database, and what is on its way.                                     *)
Outcomes == {DB!Failure} \cup [tag : {"snapshot"}, fields : DbUpdates]

Answers ==
  {r \in [context : Nat, doid : Doid, type : Questions, outcome : Outcomes] :
     r.type = "GET_OBJECT" /\ r.outcome # DB!Failure => r.outcome.fields \in [DbField -> Value]}

AskedAt(q, k) == [context |-> q[k].context, doid |-> q[k].op.doid, type |-> q[k].op.type]
GivenAt(q, k) == [context |-> q[k].context, doid |-> q[k].doid, type |-> q[k].type]

LEMMA InEntries ==
  \A q, e : e \in Entries(q) <=> \E k \in 1..Len(q) : q[k].context # NoContext /\ e = AskedAt(q, k)
BY DEF Entries, AskedAt

LEMMA InGiven ==
  \A q, e : e \in Given(q) <=> \E k \in 1..Len(q) : e = GivenAt(q, k)
BY DEF Given, GivenAt

LEMMA EntriesConcat ==
  ASSUME NEW p \in Seq(Routed), NEW q \in Seq(Routed)
  PROVE  p \o q \in Seq(Routed) /\ Entries(p \o q) = Entries(p) \cup Entries(q)
<1> DEFINE r == p \o q
<1>1. /\ r \in Seq(Routed) /\ Len(r) = Len(p) + Len(q) /\ Len(p) \in Nat /\ Len(q) \in Nat
      /\ \A k \in 1..Len(p) : r[k] = p[k]
      /\ \A k \in 1..Len(q) : r[Len(p) + k] = q[k]
  OBVIOUS
<1> HIDE DEF r
<1>2. \A k \in 1..Len(p) : k \in 1..Len(r) /\ AskedAt(r, k) = AskedAt(p, k) /\ r[k].context = p[k].context
  BY <1>1 DEF AskedAt
<1>3. \A k \in 1..Len(q) : /\ Len(p) + k \in 1..Len(r) /\ AskedAt(r, Len(p) + k) = AskedAt(q, k)
                           /\ r[Len(p) + k].context = q[k].context
  BY <1>1 DEF AskedAt
<1>4. \A k \in 1..Len(r) : k \in 1..Len(p) \/ \E j \in 1..Len(q) : k = Len(p) + j
  <2> SUFFICES ASSUME NEW k \in 1..Len(r), k \notin 1..Len(p)
               PROVE  \E j \in 1..Len(q) : k = Len(p) + j
    OBVIOUS
  <2>1. k - Len(p) \in 1..Len(q) /\ k = Len(p) + (k - Len(p))
    BY <1>1
  <2>2. QED
    BY <2>1
<1>5. ASSUME NEW e PROVE e \in Entries(r) <=> e \in Entries(p) \cup Entries(q)
  <2>1. ASSUME e \in Entries(r) PROVE e \in Entries(p) \cup Entries(q)
    <3>1. PICK k \in 1..Len(r) : r[k].context # NoContext /\ e = AskedAt(r, k)
      BY <2>1, InEntries
    <3>2. CASE k \in 1..Len(p)
      BY <1>2, <3>1, <3>2, InEntries
    <3>3. CASE \E j \in 1..Len(q) : k = Len(p) + j
      BY <1>3, <3>1, <3>3, InEntries
    <3>4. QED
      BY <1>4, <3>2, <3>3
  <2>2. ASSUME e \in Entries(p) PROVE e \in Entries(r)
    BY <1>2, <2>2, InEntries
  <2>3. ASSUME e \in Entries(q) PROVE e \in Entries(r)
    BY <1>3, <2>3, InEntries
  <2>4. QED
    BY <2>1, <2>2, <2>3
<1>6. QED
  BY <1>1, <1>5 DEF r

LEMMA RemoveAtFacts ==
  ASSUME NEW S, NEW q \in Seq(S), NEW k \in 1..Len(q)
  PROVE  /\ RemoveAt(q, k) \in Seq(S) /\ Len(RemoveAt(q, k)) = Len(q) - 1
         /\ \A j \in 1..(k - 1) : RemoveAt(q, k)[j] = q[j]
         /\ \A j \in k..(Len(q) - 1) : RemoveAt(q, k)[j] = q[j + 1]
         /\ Len(q) \in Nat /\ k \in Nat
<1> DEFINE a == SubSeq(q, 1, k - 1)
           b == SubSeq(q, k + 1, Len(q))
<1>1. Len(q) \in Nat /\ k \in Nat
  OBVIOUS
<1>2. a \in Seq(S) /\ Len(a) = k - 1 /\ \A j \in 1..(k - 1) : a[j] = q[j]
  OBVIOUS
<1>3. b \in Seq(S) /\ Len(b) = Len(q) - k /\ \A j \in 1..(Len(q) - k) : b[j] = q[j + k]
  OBVIOUS
<1>4. RemoveAt(q, k) = a \o b
  BY DEF RemoveAt
<1> HIDE DEF a, b
<1>5. /\ a \o b \in Seq(S) /\ Len(a \o b) = Len(a) + Len(b)
      /\ \A j \in 1..Len(a) : (a \o b)[j] = a[j]
      /\ \A j \in 1..Len(b) : (a \o b)[Len(a) + j] = b[j]
  <2>1. a \in Seq(S) /\ b \in Seq(S)
    BY <1>2, <1>3
  <2>2. QED
    BY ONLY <2>1
<1>6. ASSUME NEW j \in k..(Len(q) - 1) PROVE (a \o b)[j] = q[j + 1]
  <2>1. j - Len(a) \in 1..Len(b) /\ Len(a) + (j - Len(a)) = j /\ (j - Len(a)) + k = j + 1
    BY <1>1, <1>2, <1>3
  <2> DEFINE i == j - Len(a)
  <2>2. i \in 1..Len(b) /\ i \in 1..(Len(q) - k) /\ Len(a) + i = j /\ i + k = j + 1
    BY <1>3, <2>1
  <2> HIDE DEF i
  <2>3. b[i] = q[i + k]
    BY ONLY <1>3, <2>2
  <2>4. (a \o b)[Len(a) + i] = b[i]
    BY ONLY <1>5, <2>2
  <2>5. QED
    BY ONLY <2>2, <2>3, <2>4
<1>7. QED
  BY <1>1, <1>2, <1>3, <1>4, <1>5, <1>6

LEMMA EntriesRemove ==
  ASSUME NEW q \in Seq(Routed), NEW k \in 1..Len(q)
  PROVE  /\ RemoveAt(q, k) \in Seq(Routed)
         /\ \A e : e \in Entries(q) <=>
              e \in Entries(RemoveAt(q, k)) \/ (q[k].context # NoContext /\ e = AskedAt(q, k))
<1> DEFINE r == RemoveAt(q, k)
<1>1. /\ r \in Seq(Routed) /\ Len(r) = Len(q) - 1 /\ Len(q) \in Nat /\ k \in Nat
      /\ \A j \in 1..(k - 1) : r[j] = q[j]
      /\ \A j \in k..(Len(q) - 1) : r[j] = q[j + 1]
  BY RemoveAtFacts
<1> HIDE DEF r
<1>2. \A j \in 1..(k - 1) : j \in 1..Len(q) /\ j \in 1..Len(r) /\ AskedAt(r, j) = AskedAt(q, j)
                            /\ r[j].context = q[j].context
  BY <1>1 DEF AskedAt
<1>3. \A j \in k..(Len(q) - 1) : j + 1 \in 1..Len(q) /\ j \in 1..Len(r) /\ AskedAt(r, j) = AskedAt(q, j + 1)
                            /\ r[j].context = q[j + 1].context
  BY <1>1 DEF AskedAt
<1>4. \A j \in 1..Len(r) : j \in 1..(k - 1) \/ j \in k..(Len(q) - 1)
  BY <1>1
<1>5. \A j \in 1..Len(q) : j = k \/ j \in 1..(k - 1) \/ \E i \in k..(Len(q) - 1) : j = i + 1
  <2> SUFFICES ASSUME NEW j \in 1..Len(q), j # k, j \notin 1..(k - 1)
               PROVE  \E i \in k..(Len(q) - 1) : j = i + 1
    OBVIOUS
  <2>1. j - 1 \in k..(Len(q) - 1) /\ j = (j - 1) + 1
    BY <1>1
  <2>2. QED
    BY <2>1
<1>6. ASSUME NEW e
      PROVE  e \in Entries(q) <=> e \in Entries(r) \/ (q[k].context # NoContext /\ e = AskedAt(q, k))
  <2>1. ASSUME e \in Entries(r) PROVE e \in Entries(q)
    <3>1. PICK j \in 1..Len(r) : r[j].context # NoContext /\ e = AskedAt(r, j)
      BY <2>1, InEntries
    <3>2. CASE j \in 1..(k - 1)
      BY <1>2, <3>1, <3>2, InEntries
    <3>3. CASE j \in k..(Len(q) - 1)
      BY <1>3, <3>1, <3>3, InEntries
    <3>4. QED
      BY <1>4, <3>2, <3>3
  <2>2. ASSUME q[k].context # NoContext, e = AskedAt(q, k) PROVE e \in Entries(q)
    BY <2>2, InEntries
  <2>3. ASSUME e \in Entries(q), ~(q[k].context # NoContext /\ e = AskedAt(q, k)) PROVE e \in Entries(r)
    <3>1. PICK j \in 1..Len(q) : q[j].context # NoContext /\ e = AskedAt(q, j)
      BY <2>3, InEntries
    <3>2. j # k
      BY <2>3, <3>1
    <3>3. CASE j \in 1..(k - 1)
      BY <1>2, <3>1, <3>3, InEntries
    <3>4. CASE \E i \in k..(Len(q) - 1) : j = i + 1
      BY <1>3, <3>1, <3>4, InEntries
    <3>5. QED
      BY <1>5, <3>2, <3>3, <3>4
  <2>4. QED
    BY <2>1, <2>2, <2>3
<1>7. QED
  BY <1>1, <1>6 DEF r

LEMMA GivenAppend ==
  ASSUME NEW q \in Seq(Answers), NEW r \in Answers
  PROVE  /\ Append(q, r) \in Seq(Answers)
         /\ \A e : e \in Given(Append(q, r)) <=>
              e \in Given(q) \/ e = [context |-> r.context, doid |-> r.doid, type |-> r.type]
<1> DEFINE a == Append(q, r)
           n == Len(q) + 1
<1>1. /\ a \in Seq(Answers) /\ Len(q) \in Nat /\ Len(a) = n /\ a[n] = r
      /\ \A k \in 1..Len(q) : a[k] = q[k] /\ k # n
      /\ 1..n = (1..Len(q)) \cup {n}
  BY AppendFacts
<1> HIDE DEF a, n
<1>2. GivenAt(a, n) = [context |-> r.context, doid |-> r.doid, type |-> r.type]
      /\ \A k \in 1..Len(q) : GivenAt(a, k) = GivenAt(q, k)
  BY <1>1 DEF GivenAt
<1>3. \A e : e \in Given(a) <=> e \in Given(q) \/ e = GivenAt(a, n)
  BY <1>1, <1>2, InGiven
<1>4. QED
  BY <1>1, <1>2, <1>3 DEF a

LEMMA GivenTail ==
  ASSUME NEW q \in Seq(Answers), q # <<>>
  PROVE  /\ Tail(q) \in Seq(Answers) /\ Head(q) \in Answers
         /\ \A e : e \in Given(q) <=> e \in Given(Tail(q)) \/ e = GivenAt(q, 1)
         /\ GivenAt(q, 1) = [context |-> Head(q).context, doid |-> Head(q).doid, type |-> Head(q).type]
<1> DEFINE t == Tail(q)
<1>1. /\ t \in Seq(Answers) /\ Head(q) = q[1] /\ q[1] \in Answers /\ Len(q) \in Nat /\ Len(q) >= 1
      /\ Len(t) = Len(q) - 1 /\ \A k \in 1..Len(t) : t[k] = q[k + 1]
  OBVIOUS
<1> HIDE DEF t
<1>2. \A k \in 1..Len(t) : k + 1 \in 1..Len(q) /\ GivenAt(t, k) = GivenAt(q, k + 1)
  BY <1>1 DEF GivenAt
<1>3. \A k \in 1..Len(q) : k = 1 \/ \E j \in 1..Len(t) : k = j + 1
  <2> SUFFICES ASSUME NEW k \in 1..Len(q), k # 1 PROVE \E j \in 1..Len(t) : k = j + 1
    OBVIOUS
  <2>1. k - 1 \in 1..Len(t) /\ k = (k - 1) + 1
    BY <1>1
  <2>2. QED
    BY <2>1
<1>4. \A e : e \in Given(q) <=> e \in Given(t) \/ e = GivenAt(q, 1)
  <2> SUFFICES ASSUME NEW e PROVE e \in Given(q) <=> e \in Given(t) \/ e = GivenAt(q, 1)
    OBVIOUS
  <2>1. ASSUME e \in Given(t) PROVE e \in Given(q)
    BY <1>2, <2>1, InGiven
  <2>2. ASSUME e = GivenAt(q, 1) PROVE e \in Given(q)
    BY <1>1, <2>2, InGiven
  <2>3. ASSUME e \in Given(q), e # GivenAt(q, 1) PROVE e \in Given(t)
    BY <1>2, <1>3, <2>3, InGiven
  <2>4. QED
    BY <2>1, <2>2, <2>3
<1>5. QED
  BY <1>1, <1>4 DEF GivenAt, t

-----------------------------------------------------------------------------
(* What is on its way is what is waited for, in every reachable state.       *)
AllRequests == UNION {s.requests : s \in Scenarios}

OnTheWay == Entries(db) \cup Given(back)

IInv ==
  /\ scenario \in Scenarios
  /\ request \in Seq(AllRequests)
  /\ db \in Seq(Routed)
  /\ back \in Seq(Answers)
  /\ stored \in [Doid -> [DbField -> Value] \cup {Missing}]
  /\ dbss.routed = <<>> /\ dbss.told = <<>>
  /\ Fine(dbss, OnTheWay, {}, {})

LEMMA NoEntries == <<>> \in Seq(Routed) /\ Entries(<<>>) = {} /\ Given(<<>>) = {}
<1>1. Len(<<>>) = 0 /\ <<>> \in Seq(Routed)
  OBVIOUS
<1> DEFINE q == <<>>
<1>2. 1..Len(q) = {}
  OBVIOUS
<1> HIDE DEF q
<1>3. Entries(q) = {} /\ Given(q) = {}
  BY <1>2, InEntries, InGiven
<1>4. QED
  BY <1>1, <1>3 DEF q

LEMMA InitIInv == Init => IInv
<1> SUFFICES ASSUME Init PROVE IInv
  OBVIOUS
<1>1. /\ scenario \in Scenarios /\ request = <<>> /\ dbss = NewServer /\ db = <<>> /\ back = <<>>
      /\ stored = [d \in Doid |-> IF d \in scenario.stored
                                  THEN [f \in DbField |-> Default[f]] ELSE Missing]
  BY DEF Init
<1>2. stored \in [Doid -> [DbField -> Value] \cup {Missing}]
  <2>1. [f \in DbField |-> Default[f]] \in [DbField -> Value]
    BY DBStateServerAssumption
  <2>2. QED
    BY <1>1, <2>1
<1>3. /\ DOMAIN dbss = ServerFields
      /\ dbss.m_objs = [d \in Doid |-> Missing]
      /\ dbss.m_loading = Nothing /\ dbss.m_next_context = 0
      /\ dbss.m_context_datagrams = Nothing /\ dbss.m_inactive_loads = Nothing
      /\ dbss.routed = <<>> /\ dbss.told = <<>>
  BY <1>1 DEF NewServer, ServerFields
<1>4. DOMAIN Nothing = {} /\ \A R : Nothing \in [{} -> R]
  BY DEF Nothing
<1>5. Typed(dbss)
  <2>1. dbss.m_objs \in [Doid -> Loaded \cup {Missing}]
    BY <1>3
  <2>2. dbss.routed \in Seq(Routed)
    BY <1>3, NoEntries
  <2>3. /\ dbss.m_loading \in [DOMAIN dbss.m_loading -> Loaders]
        /\ dbss.m_context_datagrams \in [DOMAIN dbss.m_context_datagrams -> Messages]
        /\ dbss.m_inactive_loads \in [DOMAIN dbss.m_inactive_loads -> SUBSET Nat]
    BY <1>3, <1>4
  <2>4. QED
    BY <1>3, <1>4, <2>1, <2>2, <2>3 DEF Typed
<1>6. Orderly(dbss)
  BY <1>3, <1>4 DEF Orderly, LoadersOrderly, CallersOrderly, ReadsOrderly, OpenReads, Reads
<1>7. UnderWay(dbss, OnTheWay) = {}
  BY <1>1, <1>3, NoEntries DEF UnderWay, OnTheWay
<1>8. Recognised(dbss, {}) /\ Awaits(dbss, {}, {}, {})
  BY <1>3, <1>4 DEF Recognised, Awaits
<1>9. Fine(dbss, OnTheWay, {}, {})
  BY <1>5, <1>6, <1>7, <1>8 DEF Fine
<1>10. /\ request \in Seq(AllRequests) /\ db \in Seq(Routed) /\ back \in Seq(Answers)
  BY <1>1, NoEntries
<1>11. QED
  BY <1>1, <1>2, <1>3, <1>9, <1>10 DEF IInv

(* What a handler routed is on its way.                                      *)
LEMMA BecomeFine ==
  ASSUME NEW s, NEW F, db \in Seq(Routed), Fine(s, Entries(db) \cup F, {}, {}), Become(s)
  PROVE  /\ db' \in Seq(Routed) /\ dbss'.routed = <<>> /\ dbss'.told = <<>>
         /\ Fine(dbss', Entries(db') \cup F, {}, {})
<1>1. DOMAIN s = ServerFields /\ s.routed \in Seq(Routed)
  BY DEF Fine, Typed
<1>2. dbss' = [s EXCEPT !.routed = <<>>, !.told = <<>>] /\ db' = db \o s.routed
  BY DEF Become
<1> DEFINE t == dbss'
<1>3. /\ DOMAIN t = ServerFields /\ t.routed = <<>> /\ t.told = <<>>
      /\ t.m_objs = s.m_objs /\ t.m_next_context = s.m_next_context
      /\ t.m_loading = s.m_loading /\ t.m_context_datagrams = s.m_context_datagrams
      /\ t.m_inactive_loads = s.m_inactive_loads
  BY <1>1, <1>2 DEF ServerFields
<1> HIDE DEF t
<1>4. db' \in Seq(Routed) /\ Entries(db') = Entries(db) \cup Entries(s.routed)
  BY <1>1, <1>2, EntriesConcat
<1>5. UnderWay(t, Entries(db') \cup F) = UnderWay(s, Entries(db) \cup F)
  BY <1>3, <1>4, NoEntries DEF UnderWay
<1>6. Typed(t)
  BY <1>3, NoEntries DEF Fine, Typed
<1>7. Orderly(t)
  BY <1>3, OrderlySame DEF Fine
<1>8. ASSUME NEW U, Recognised(s, U), Awaits(s, U, {}, {})
      PROVE  Recognised(t, U) /\ Awaits(t, U, {}, {})
  BY <1>3, <1>8 DEF Recognised, Awaits
<1>9. Fine(t, Entries(db') \cup F, {}, {})
  BY <1>5, <1>6, <1>7, <1>8 DEF Fine
<1>10. QED
  BY <1>3, <1>4, <1>9 DEF t

LEMMA FineQueue ==
  ASSUME NEW s, NEW E, NEW X, NEW Y, Fine(s, E, X, Y), NEW m \in Messages, IsLoading(s, m.op.doid)
  PROVE  Fine(LoaderQueue(s, m), E, X, Y)
<1> DEFINE d == m.op.doid
           t == [s EXCEPT !.m_loading[d].queue = Append(@, m)]
           loader == s.m_loading[d]
           q == Append(loader.queue, m)
<1>1. CASE m.op.kind = "activate"
  BY <1>1 DEF LoaderQueue
<1>2. CASE m.op.kind # "activate"
  <2>1. /\ DOMAIN s = ServerFields /\ s.m_loading \in [DOMAIN s.m_loading -> Loaders]
        /\ DOMAIN s.m_loading \subseteq Doid /\ d \in DOMAIN s.m_loading /\ loader \in Loaders
    BY DEF Fine, Typed, IsLoading
  <2>2. loader.queue \in Seq(Messages)
    BY <2>1 DEF Loaders
  <2>3. /\ q \in Seq(Messages) /\ Len(q) = Len(loader.queue) + 1 /\ q[Len(loader.queue) + 1] = m
        /\ \A k \in 1..Len(loader.queue) : q[k] = loader.queue[k]
        /\ 1..Len(q) = (1..Len(loader.queue)) \cup {Len(loader.queue) + 1}
    <3>1. Append(loader.queue, m) \in Seq(Messages)
      BY <2>2
    <3> HIDE DEF loader
    <3>2. QED
      BY <2>2, <3>1, AppendFacts
  <2> DEFINE l == [loader EXCEPT !.queue = q]
  <2>4. l \in Loaders /\ l.queue = q /\ ValidContexts(l) = ValidContexts(loader)
    <3> HIDE DEF q, loader
    <3>1. QED
      BY <2>1, <2>3 DEF Loaders, ValidContexts
  <2>5. /\ DOMAIN t = ServerFields /\ t.m_loading = [s.m_loading EXCEPT ![d] = l]
        /\ t.m_next_context = s.m_next_context /\ t.m_context_datagrams = s.m_context_datagrams
        /\ t.m_inactive_loads = s.m_inactive_loads /\ t.m_objs = s.m_objs
        /\ t.routed = s.routed
    BY <2>1 DEF ServerFields
  <2>6. LoaderQueue(s, m) = t
    BY <1>2 DEF LoaderQueue
  <2> HIDE DEF t, l, q, loader
  <2>7. /\ DOMAIN t.m_loading = DOMAIN s.m_loading
        /\ t.m_loading \in [DOMAIN t.m_loading -> Loaders]
        /\ \A x \in DOMAIN s.m_loading : ValidContexts(t.m_loading[x]) = ValidContexts(s.m_loading[x])
        /\ t.m_loading[d] = l
        /\ \A x \in DOMAIN s.m_loading : x # d => t.m_loading[x] = s.m_loading[x]
    BY <2>1, <2>4, <2>5 DEF loader
  <2>8. Typed(t)
    BY <2>5, <2>7 DEF Fine, Typed
  <2>9. Orderly(t)
    <3>1. LoadersOrderly(t)
      <4> SUFFICES ASSUME NEW x \in DOMAIN s.m_loading
                   PROVE  /\ ValidContexts(t.m_loading[x]) \subseteq 0..(t.m_next_context - 1)
                          /\ ~IsActive(t, x)
                          /\ \A k \in 1..Len(t.m_loading[x].queue) :
                               /\ t.m_loading[x].queue[k].op.doid = x
                               /\ t.m_loading[x].queue[k].op.kind # "activate"
        BY <2>7 DEF LoadersOrderly
      <4>1. /\ ValidContexts(s.m_loading[x]) \subseteq 0..(s.m_next_context - 1)
            /\ s.m_objs[x] = Missing
            /\ \A k \in 1..Len(s.m_loading[x].queue) :
                 /\ s.m_loading[x].queue[k].op.doid = x
                 /\ s.m_loading[x].queue[k].op.kind # "activate"
        BY DEF Fine, Orderly, LoadersOrderly, IsActive
      <4>2. ValidContexts(t.m_loading[x]) \subseteq 0..(t.m_next_context - 1) /\ ~IsActive(t, x)
        BY <2>5, <2>7, <4>1 DEF IsActive
      <4>3. ASSUME NEW k \in 1..Len(t.m_loading[x].queue)
            PROVE  /\ t.m_loading[x].queue[k].op.doid = x
                   /\ t.m_loading[x].queue[k].op.kind # "activate"
        <5>1. CASE x = d
          <6>1. t.m_loading[x].queue = q
            BY <2>4, <2>7, <5>1
          <6>2. CASE k \in 1..Len(loader.queue)
            BY <2>3, <4>1, <5>1, <6>1, <6>2 DEF loader
          <6>3. CASE k = Len(loader.queue) + 1
            <7>1. q[k] = m
              BY <2>3, <6>3
            <7>2. QED
              BY <1>2, <5>1, <6>1, <7>1
          <6>4. QED
            BY <2>3, <6>1, <6>2, <6>3
        <5>2. CASE x # d
          BY <2>7, <4>1, <5>2
        <5>3. QED
          BY <5>1, <5>2
      <4>4. QED
        BY <4>2, <4>3
    <3>2. CallersOrderly(t)
      BY <2>5 DEF Fine, Orderly, CallersOrderly
    <3>3. \A x : Reads(t, x) = Reads(s, x) /\ OpenReads(t, x) = OpenReads(s, x)
      BY <2>5 DEF Reads, OpenReads
    <3>4. QED
      BY <3>1, <3>2, <3>3 DEF Fine, Orderly, ReadsOrderly
  <2>10. UnderWay(t, E) = UnderWay(s, E)
    BY <2>5 DEF UnderWay
  <2>11. ASSUME NEW U, Recognised(s, U), Awaits(s, U, X, Y)
         PROVE  Recognised(t, U) /\ Awaits(t, U, X, Y)
    BY <2>5, <2>7, <2>11 DEF Recognised, Awaits
  <2>12. Fine(t, E, X, Y)
    BY <2>8, <2>9, <2>10, <2>11 DEF Fine
  <2>13. QED
    BY <2>6, <2>12
<1>3. QED
  BY <1>1, <1>2

\* A loader has nothing to do with what the server makes of its datagrams.
LEMMA LoadingIgnores ==
  ASSUME NEW s, NEW m, IsLoading(s, m.op.doid)
  PROVE  HandleDatagram(s, m) = s
<1>1. ~Activatable(s, m.op.doid) /\ IsActivatedObject(s, m.op.doid)
  BY Zenon DEF Activatable, IsActivatedObject
<1>2. HandleActivate(s, m.op) = s
  BY <1>1, Zenon DEF HandleActivate
<1>3. HandleGetActivated(s, m) = s /\ HandleDeleteDisk(s, m.op) = s
  BY Zenon DEF HandleGetActivated, HandleDeleteDisk
<1>4. HandleSetFields(s, m.op) = s
  BY Zenon DEF HandleSetFields
<1>5. HandleGetFields(s, m) = s /\ HandleGetAll(s, m) = s
  BY <1>1, Zenon DEF HandleGetFields, HandleGetAll
<1>6. QED
  BY <1>2, <1>3, <1>4, <1>5 DEF HandleDatagram

LEMMA ReceiveIInv ==
  ASSUME IInv, NEW op \in scenario.requests, Receive(op)
  PROVE  IInv'
<1> DEFINE m == [id |-> Len(request) + 1, op |-> op]
           F == Given(back)
<1>1. op \in AllRequests /\ request' = Append(request, op) /\ UNCHANGED <<scenario, back, stored>>
  BY DEF IInv, Receive, AllRequests
<1>2. request' \in Seq(AllRequests) /\ Len(request) \in Nat
  BY <1>1 DEF IInv
<1>3. m \in Messages
  BY <1>1, <1>2 DEF Messages, AllRequests
<1>4. PICK s : Become(s) /\ (\/ s = HandleByParticipant(HandleDatagram(dbss, m), m)
                             \/ s = HandleDatagram(HandleByParticipant(dbss, m), m))
  BY DEF Receive
<1> HIDE DEF m
<1>5. Fine(dbss, OnTheWay, {}, {})
  BY DEF IInv
<1>6. Fine(HandleDatagram(dbss, m), OnTheWay, {}, {})
  BY <1>3, <1>5, FineDatagram
<1>7. Fine(s, OnTheWay, {}, {})
  <2>1. CASE IsLoading(dbss, m.op.doid)
    <3>1. \A x : HandleByParticipant(x, m) = LoaderQueue(x, m)
      BY <2>1, Zenon DEF HandleByParticipant
    <3>2. HandleDatagram(dbss, m) = dbss
      BY <2>1, LoadingIgnores
    <3>3. Fine(LoaderQueue(dbss, m), OnTheWay, {}, {})
      BY <1>3, <1>5, <2>1, FineQueue
    <3>4. Fine(HandleDatagram(LoaderQueue(dbss, m), m), OnTheWay, {}, {})
      BY <1>3, <3>3, FineDatagram
    <3>5. QED
      BY <1>4, <3>1, <3>2, <3>3, <3>4
  <2>2. CASE ~IsLoading(dbss, m.op.doid)
    <3>1. \A x : HandleByParticipant(x, m) \in {x, ObjectHandle(x, m)}
      BY <2>2, Zenon DEF HandleByParticipant
    <3>2. ASSUME NEW x, Fine(x, OnTheWay, {}, {}) PROVE Fine(HandleByParticipant(x, m), OnTheWay, {}, {})
      <4>1. Fine(ObjectHandle(x, m), OnTheWay, {}, {})
        BY <1>3, <3>2, FineObject
      <4>2. QED
        BY <3>1, <3>2, <4>1
    <3>3. Fine(HandleDatagram(HandleByParticipant(dbss, m), m), OnTheWay, {}, {})
      <4>1. Fine(HandleByParticipant(dbss, m), OnTheWay, {}, {})
        BY <1>5, <3>2
      <4>2. QED
        BY <1>3, <4>1, FineDatagram
    <3>4. Fine(HandleByParticipant(HandleDatagram(dbss, m), m), OnTheWay, {}, {})
      BY <1>6, <3>2
    <3>5. QED
      BY <1>4, <3>3, <3>4
  <2>3. QED
    BY <2>1, <2>2
<1>8. /\ db' \in Seq(Routed) /\ dbss'.routed = <<>> /\ dbss'.told = <<>>
      /\ Fine(dbss', Entries(db') \cup F, {}, {})
  <2>1. db \in Seq(Routed) /\ Fine(s, Entries(db) \cup F, {}, {})
    BY <1>7 DEF OnTheWay, IInv
  <2> HIDE DEF F
  <2>2. QED
    BY <1>4, <2>1, BecomeFine
<1>9. QED
  BY <1>1, <1>2, <1>8 DEF IInv, OnTheWay

LEMMA RunTyped ==
  ASSUME NEW o \in Routed, NEW x \in [DbField -> Value] \cup {Missing}
  PROVE  /\ DB!Effect(o.op, x) \in [DbField -> Value] \cup {Missing}
         /\ DB!Gets(o.op) => DB!Outcome(o.op, x) \in Outcomes
         /\ o.op.type = "GET_OBJECT" /\ DB!Outcome(o.op, x) # DB!Failure =>
              DB!Outcome(o.op, x).fields \in [DbField -> Value]
<1> DEFINE op == o.op
<1>1. /\ op.type \in Questions \cup {"SET_FIELDS", "DELETE_OBJECT"}
      /\ op.set_fields \in DbUpdates /\ op.get_fields \in SUBSET DbField
  BY DEF Routed
<1>2. DB!Gets(op) <=> op.type \in Questions
  BY DEF DB!Gets, Questions
<1> HIDE DEF op
<1>3. DB!Effect(op, x) \in [DbField -> Value] \cup {Missing}
  <2>1. CASE op.type = "DELETE_OBJECT"
    BY <2>1 DEF DB!Effect
  <2>2. CASE op.type # "DELETE_OBJECT" /\ DB!Matches(op, x)
    <3>1. x \in [DbField -> Value]
      BY <2>2 DEF DB!Matches
    <3>2. \A f \in DOMAIN op.set_fields : op.set_fields[f] \in Value
      BY <1>1 DEF DbUpdates
    <3>3. DB!Modified(op, x) \in [DbField -> Value]
      BY <3>1, <3>2 DEF DB!Modified, DB!Changes
    <3>4. DB!Effect(op, x) \in {x, DB!Modified(op, x)}
      BY <2>2, Zenon DEF DB!Effect
    <3>5. QED
      BY <3>3, <3>4
  <2>3. CASE op.type # "DELETE_OBJECT" /\ ~DB!Matches(op, x)
    <3>1. DB!Effect(op, x) = x
      BY <2>3, Zenon DEF DB!Effect
    <3>2. QED
      BY <3>1
  <2>4. QED
    BY <2>1, <2>2, <2>3
<1>4. ASSUME DB!Gets(op)
      PROVE  /\ DB!Outcome(op, x) \in Outcomes
             /\ op.type = "GET_OBJECT" /\ DB!Outcome(op, x) # DB!Failure =>
                  DB!Outcome(op, x).fields \in [DbField -> Value]
  <2>1. DB!VerifyClass(op)
    BY <1>2, <1>4 DEF DB!VerifyClass, DB!Writes, Questions
  <2>2. CASE x = Missing
    <3>1. DB!Outcome(op, x) = DB!Failure
      BY <2>2, Zenon DEF DB!Outcome
    <3>2. QED
      BY <3>1 DEF Outcomes
  <2>3. CASE x # Missing
    <3>1. x \in [DbField -> Value]
      BY <2>3
    <3> DEFINE S == IF op.type = "GET_OBJECT" THEN DbField ELSE op.get_fields \cap DbField
               g == [f \in S |-> x[f]]
    <3>2. DB!Outcome(op, x) = [tag |-> "snapshot", fields |-> g]
      <4>1. CASE op.type = "GET_OBJECT"
        BY <2>1, <2>3, <4>1 DEF DB!Outcome, DB!Snapshot
      <4>2. CASE op.type = "GET_FIELDS"
        BY <2>1, <2>3, <4>2 DEF DB!Outcome, DB!Snapshot, DB!Reads
      <4>3. QED
        BY <1>2, <1>4, <4>1, <4>2 DEF Questions
    <3>3. S \in SUBSET DbField /\ g \in [S -> Value]
      BY <3>1
    <3>4. op.type = "GET_OBJECT" => S = DbField
      OBVIOUS
    <3> HIDE DEF S, g
    <3>5. g \in DbUpdates
      BY <3>3 DEF DbUpdates
    <3>6. QED
      BY <3>2, <3>3, <3>4, <3>5 DEF Outcomes
  <2>4. QED
    BY <2>2, <2>3
<1>5. op.type = "GET_OBJECT" => DB!Gets(op)
  BY <1>2 DEF Questions
<1>6. QED
  BY <1>3, <1>4, <1>5 DEF op

LEMMA RunIInv ==
  ASSUME IInv, NEW k \in 1..Len(db), RunOperation(k)
  PROVE  IInv'
<1> DEFINE o == db[k]
           x == stored[o.op.doid]
           r == [context |-> o.context, doid |-> o.op.doid, type |-> o.op.type,
                 outcome |-> DB!Outcome(o.op, x)]
<1>1. /\ stored' = [stored EXCEPT ![o.op.doid] = DB!Effect(o.op, x)]
      /\ db' = RemoveAt(db, k)
      /\ back' = IF DB!Gets(o.op) THEN Append(back, r) ELSE back
      /\ UNCHANGED <<scenario, request, dbss, told>>
  BY DEF RunOperation
<1>2. o \in Routed /\ o.op.doid \in Doid
  BY DEF IInv, Routed
<1>3. x \in [DbField -> Value] \cup {Missing}
  BY <1>2 DEF IInv
<1> HIDE DEF x
<1>4. /\ DB!Effect(o.op, x) \in [DbField -> Value] \cup {Missing}
      /\ DB!Gets(o.op) => DB!Outcome(o.op, x) \in Outcomes
      /\ o.op.type = "GET_OBJECT" /\ DB!Outcome(o.op, x) # DB!Failure =>
           DB!Outcome(o.op, x).fields \in [DbField -> Value]
  BY <1>2, <1>3, RunTyped
<1>5. stored' \in [Doid -> [DbField -> Value] \cup {Missing}]
  BY <1>1, <1>2, <1>4 DEF IInv
<1>6. /\ db' \in Seq(Routed)
      /\ \A e : e \in Entries(db) <=>
           e \in Entries(db') \/ (o.context # NoContext /\ e = AskedAt(db, k))
  BY <1>1, EntriesRemove DEF IInv
<1>7. DB!Gets(o.op) <=> o.context # NoContext
  <2>1. o.context \in Nat <=> o.op.type \in Questions
    BY <1>2 DEF Routed
  <2>2. o.context \in Nat \cup {NoContext}
    BY <1>2 DEF Routed
  <2>3. DB!Gets(o.op) <=> o.op.type \in Questions
    BY DEF DB!Gets, Questions
  <2>4. QED
    BY <2>1, <2>2, <2>3, NoContextIsNone
<1>8. AskedAt(db, k) = [context |-> o.context, doid |-> o.op.doid, type |-> o.op.type]
  BY DEF AskedAt
<1>9. /\ back' \in Seq(Answers)
      /\ \A e : e \in Given(back') <=>
           e \in Given(back) \/ (o.context # NoContext /\ e = AskedAt(db, k))
  <2>1. CASE DB!Gets(o.op)
    <3>1. o.op.type \in Questions /\ o.context \in Nat
      BY <1>2, <2>1 DEF DB!Gets, Questions, Routed
    <3>2. r \in Answers
      BY <1>2, <1>4, <2>1, <3>1 DEF Answers
    <3>3. back' = Append(back, r)
      BY <1>1, <2>1
    <3>4. r.context = o.context /\ r.doid = o.op.doid /\ r.type = o.op.type
      OBVIOUS
    <3> HIDE DEF r, o
    <3>5. /\ back' \in Seq(Answers)
          /\ \A e : e \in Given(back') <=>
               e \in Given(back) \/ e = [context |-> r.context, doid |-> r.doid, type |-> r.type]
      BY <3>2, <3>3, GivenAppend DEF IInv
    <3>6. QED
      BY <1>7, <1>8, <2>1, <3>4, <3>5
  <2>2. CASE ~DB!Gets(o.op)
    <3>1. back' = back
      BY <1>1, <2>2, Zenon
    <3>2. o.context = NoContext
      BY <1>7, <2>2
    <3>3. QED
      BY <3>1, <3>2 DEF IInv
  <2>3. QED
    BY <2>1, <2>2
<1>10. OnTheWay' = OnTheWay
  <2>1. \A e : e \in Entries(db') \cup Given(back') <=> e \in Entries(db) \cup Given(back)
    BY <1>6, <1>9
  <2>2. QED
    BY <2>1 DEF OnTheWay
<1>11. Fine(dbss, OnTheWay, {}, {}) /\ dbss' = dbss
  BY <1>1 DEF IInv
<1>12. QED
  BY <1>1, <1>5, <1>6, <1>9, <1>10, <1>11 DEF IInv

\* The first answer on its way is for those who wait for it.
LEMMA AnswerComes ==
  ASSUME IInv, back # <<>>
  PROVE  /\ Fine(dbss, Entries(db) \cup Given(Tail(back)), {Head(back).context}, {Head(back).context})
         /\ Takes(dbss, Head(back).context, Head(back).doid, Head(back).type)
         /\ GoodAnswer(Head(back)) /\ Tail(back) \in Seq(Answers)
<1> DEFINE r == Head(back)
           c == r.context
           F == Entries(db) \cup Given(Tail(back))
           e == [context |-> c, doid |-> r.doid, type |-> r.type]
<1>3. /\ Tail(back) \in Seq(Answers) /\ r \in Answers
      /\ \A x : x \in Given(back) <=> x \in Given(Tail(back)) \/ x = GivenAt(back, 1)
      /\ GivenAt(back, 1) = e
  BY GivenTail DEF IInv
<1>4. OnTheWay = F \cup {e}
  BY <1>3 DEF OnTheWay
<1>5. e.context = c /\ e.doid = r.doid /\ e.type = r.type
  OBVIOUS
<1>6. GoodAnswer(r)
  BY <1>3 DEF Answers, GoodAnswer
<1> HIDE DEF r, c, e, F
<1>7. Fine(dbss, F \cup {e}, {}, {})
  BY <1>4 DEF IInv
<1>8. UnderWay(dbss, F \cup {e}) = UnderWay(dbss, F) \cup {e}
  BY DEF UnderWay
<1>9. Contexts(UnderWay(dbss, F) \cup {e}) = Contexts(UnderWay(dbss, F)) \cup {c}
  BY <1>5 DEF Contexts
<1>10. Recognised(dbss, UnderWay(dbss, F) \cup {e}) /\ Awaits(dbss, UnderWay(dbss, F) \cup {e}, {}, {})
  BY <1>7, <1>8 DEF Fine
<1>11. Takes(dbss, c, r.doid, r.type)
  BY <1>5, <1>10 DEF Takes, Recognised
<1>12. Fine(dbss, F, {c}, {c})
  <2> DEFINE U == UnderWay(dbss, F)
  <2>1. Recognised(dbss, U \cup {e}) /\ Awaits(dbss, U \cup {e}, {}, {})
        /\ Contexts(U \cup {e}) = Contexts(U) \cup {c}
    BY <1>9, <1>10
  <2> HIDE DEF U
  <2>2. Recognised(dbss, U)
    BY <2>1 DEF Recognised
  <2>3. Awaits(dbss, U, {c}, {c})
    BY <2>1 DEF Awaits
  <2>4. QED
    BY <1>7, <2>2, <2>3 DEF Fine, U
<1>13. QED
  BY <1>3, <1>6, <1>11, <1>12 DEF r, c, F

LEMMA AnswerIInv ==
  ASSUME IInv, ReceiveAnswer
  PROVE  IInv'
<1> DEFINE r == Head(back)
           c == r.context
           F == Entries(db) \cup Given(Tail(back))
<1>1. /\ back # <<>> /\ back' = Tail(back) /\ UNCHANGED <<scenario, request, stored>>
      /\ \E s : Become(s) /\ (\/ s = LoaderReceive(HandleResponse(dbss, r), r)
                              \/ s = HandleResponse(LoaderReceive(dbss, r), r))
  BY DEF ReceiveAnswer
<1>2. PICK s : Become(s) /\ (\/ s = LoaderReceive(HandleResponse(dbss, r), r)
                             \/ s = HandleResponse(LoaderReceive(dbss, r), r))
  BY <1>1
<1>3. /\ Fine(dbss, F, {c}, {c}) /\ Takes(dbss, c, r.doid, r.type) /\ GoodAnswer(r)
      /\ Tail(back) \in Seq(Answers)
  BY <1>1, AnswerComes
<1> HIDE DEF r, c, F
<1>13. Fine(s, F, {}, {})
  <2>1. CASE s = LoaderReceive(HandleResponse(dbss, r), r)
    <3> DEFINE t == HandleResponse(dbss, r)
    <3>1. Fine(t, F, {}, {c}) /\ t.m_loading = dbss.m_loading
      BY <1>3, FineResponse DEF c
    <3>2. s = LoaderReceive(t, r)
      BY <2>1
    <3> HIDE DEF t
    <3>3. Takes(t, c, r.doid, r.type)
      BY <1>3, <3>1 DEF Takes
    <3>4. QED
      BY <1>3, <3>1, <3>2, <3>3, FineLoader DEF c
  <2>2. CASE s = HandleResponse(LoaderReceive(dbss, r), r)
    <3> DEFINE t == LoaderReceive(dbss, r)
    <3>1. Fine(t, F, {c}, {})
      BY <1>3, FineLoader DEF c
    <3>2. s = HandleResponse(t, r)
      BY <2>2
    <3> HIDE DEF t
    <3>3. QED
      BY <3>1, <3>2, FineResponse DEF c
  <2>3. QED
    BY <1>2, <2>1, <2>2
<1>14. /\ db' \in Seq(Routed) /\ dbss'.routed = <<>> /\ dbss'.told = <<>>
       /\ Fine(dbss', Entries(db') \cup Given(Tail(back)), {}, {})
  <2>1. db \in Seq(Routed) /\ Fine(s, Entries(db) \cup Given(Tail(back)), {}, {})
    BY <1>13 DEF IInv, F
  <2>2. QED
    BY <1>2, <2>1, BecomeFine
<1>15. QED
  BY <1>1, <1>3, <1>14 DEF IInv, OnTheWay

LEMMA NextIInv ==
  ASSUME IInv, [Next]_vars
  PROVE  IInv'
<1>1. CASE UNCHANGED vars
  <2>1. UNCHANGED <<scenario, request, dbss, db, back, stored>>
    BY <1>1 DEF vars
  <2>2. QED
    BY <2>1 DEF IInv, OnTheWay
<1>2. CASE \E op \in scenario.requests : Receive(op)
  BY <1>2, ReceiveIInv
<1>3. CASE \E k \in 1..Len(db) : RunOperation(k)
  BY <1>3, RunIInv
<1>4. CASE ReceiveAnswer
  BY <1>4, AnswerIInv
<1>5. QED
  BY <1>1, <1>2, <1>3, <1>4 DEF Next, Work

(* What is on its way is known by its context, and Open is where it is.      *)
LEMMA OpenContexts ==
  ASSUME IInv
  PROVE  Contexts(OnTheWay) = Open \ {NoContext}
<1>1. back \in Seq(Answers) /\ \A k \in 1..Len(back) : back[k].context \in Nat
  BY DEF IInv, Answers
<1>2. \A q, k : AskedAt(q, k).context = q[k].context /\ GivenAt(q, k).context = q[k].context
  BY DEF AskedAt, GivenAt
<1>3. ASSUME NEW c PROVE c \in Contexts(OnTheWay) <=> c \in Open /\ c # NoContext
  <2>1. c \in Contexts(OnTheWay) <=> \E e : (e \in Entries(db) \/ e \in Given(back)) /\ c = e.context
    BY DEF Contexts, OnTheWay
  <2>2. (\E e \in Entries(db) : c = e.context) <=>
          \E k \in 1..Len(db) : db[k].context # NoContext /\ c = db[k].context
    BY <1>2, InEntries
  <2>3. (\E e \in Given(back) : c = e.context) <=> \E k \in 1..Len(back) : c = back[k].context
    BY <1>2, InGiven
  <2>4. \A k \in 1..Len(back) : back[k].context # NoContext
    BY <1>1, NoContextIsNone
  <2>5. c \in Open <=> (\E k \in 1..Len(back) : c = back[k].context) \/ \E k \in 1..Len(db) : c = db[k].context
    BY DEF Open
  <2>6. QED
    BY <2>1, <2>2, <2>3, <2>4, <2>5
<1>4. QED
  BY <1>3

LEMMA IInvAwaited ==
  ASSUME IInv
  PROVE  Awaited
<1>1. /\ Typed(dbss) /\ Orderly(dbss) /\ dbss.routed = <<>> /\ dbss.told = <<>>
      /\ Recognised(dbss, UnderWay(dbss, OnTheWay)) /\ Awaits(dbss, UnderWay(dbss, OnTheWay), {}, {})
  BY DEF IInv, Fine
<1>2. UnderWay(dbss, OnTheWay) = OnTheWay
  BY <1>1, NoEntries DEF UnderWay
<1>3. Contexts(OnTheWay) = Open \ {NoContext}
  BY OpenContexts
<1>4. TypeOK
  <2>1. \A c \in Contexts(OnTheWay) : c \in 0..(dbss.m_next_context - 1)
    BY <1>1, <1>2 DEF Recognised, Contexts
  <2>2. stored \in [Doid -> [DbField -> Value] \cup {Missing}]
    BY DEF IInv
  <2>3. QED
    BY <1>1, <1>3, <2>1, <2>2 DEF TypeOK, Typed, Loaded
<1>5. \A d \in DOMAIN dbss.m_loading : ValidContexts(dbss.m_loading[d]) \cap Open # {}
  BY <1>1, <1>2, <1>3 DEF Awaits
<1>6. \A d \in DOMAIN dbss.m_loading : ~IsActive(dbss, d)
  BY <1>1, Zenon DEF Orderly, LoadersOrderly
<1>7. DOMAIN dbss.m_context_datagrams \subseteq Open
  BY <1>1, <1>2, <1>3 DEF Awaits
<1>8. \A d \in Doid :
       (IF d \in DOMAIN dbss.m_inactive_loads THEN dbss.m_inactive_loads[d] ELSE {}) =
         {c \in DOMAIN dbss.m_context_datagrams :
            LET op == dbss.m_context_datagrams[c].op IN op.doid = d /\ op.kind = "get_all"}
  BY <1>1 DEF Orderly, ReadsOrderly, OpenReads, Reads
<1>9. QED
  BY <1>4, <1>5, <1>6, <1>7, <1>8, Zenon DEF Awaited

(* Nothing waits for an answer that will not come: whatever is sent, however  *)
(* the database orders what it may reorder, and in whichever order the server *)
(* and a loader are handed a datagram.                                        *)
THEOREM NothingWaitsInVain == Spec => []Awaited
<1>1. Init => IInv
  BY InitIInv
<1>2. IInv /\ [Next]_vars => IInv'
  BY NextIInv
<1>3. IInv => Awaited
  BY IInvAwaited
<1>4. QED
  BY <1>1, <1>2, <1>3, PTL DEF Spec

-----------------------------------------------------------------------------
(* Where an answer to request i is: among those told, h and then the ones     *)
(* that the server is telling, or with a question that the database was asked. *)
IsSeq(q) == \E S : q \in Seq(S)

ToldAt(h, s, i) == {j \in 1..Len(h \o s.told) : (h \o s.told)[j][1] = i}
AskedBy(s, i) == {c \in DOMAIN s.m_context_datagrams : s.m_context_datagrams[c].id = i}

Said(h, s, i) ==
  {<<"told", j>> : j \in ToldAt(h, s, i)} \cup {<<"asked", c>> : c \in AskedBy(s, i)}

AtMostOne(P) == \A p, q \in P : p = q

LEMMA SaidIs ==
  \A h, s, i, p : p \in Said(h, s, i) <=> \/ \E j \in ToldAt(h, s, i) : p = <<"told", j>>
                                          \/ \E c \in AskedBy(s, i) : p = <<"asked", c>>
BY DEF Said

LEMMA SaidSame ==
  ASSUME NEW h, NEW s, NEW t, NEW i, ToldAt(h, t, i) = ToldAt(h, s, i), AskedBy(t, i) = AskedBy(s, i)
  PROVE  Said(h, t, i) = Said(h, s, i)
BY DEF Said

\* From s to t, only what is said to m changed, and that once.
Says(h, s, t, m) ==
  /\ IsSeq(t.told)
  /\ \A i : i # m.id => Said(h, t, i) = Said(h, s, i)
  /\ Said(h, s, m.id) = {} => AtMostOne(Said(h, t, m.id))

\* From s to t, nothing is said.
Silent(h, s, t) == IsSeq(t.told) /\ \A i : Said(h, t, i) = Said(h, s, i)

LEMMA SilentSays ==
  ASSUME NEW h, NEW s, NEW t, NEW m, Silent(h, s, t)
  PROVE  Says(h, s, t, m)
BY DEF Silent, Says, AtMostOne

LEMMA SilentSame ==
  ASSUME NEW h, NEW s, NEW t, IsSeq(s.told), t.told = s.told,
         t.m_context_datagrams = s.m_context_datagrams
  PROVE  Silent(h, s, t)
BY SaidSame DEF Silent, ToldAt, AskedBy

\* To q, heard after h, x is added.
Adding(h, q, r, x) == IsSeq(h) /\ IsSeq(q) /\ r = Append(q, x)
Added(p, r, x) == IsSeq(p) /\ r = Append(p, x)

LEMMA HeardMore ==
  ASSUME NEW h, NEW q, NEW r, NEW x, Adding(h, q, r, x)
  PROVE  IsSeq(r) /\ Added(h \o q, h \o r, x)
<1> USE DEF Adding
<1>1. PICK S : h \in Seq(S)
  BY DEF IsSeq
<1>2. PICK R : q \in Seq(R)
  BY DEF IsSeq
<1> DEFINE W == S \cup R \cup {x}
<1>3. h \in Seq(W) /\ q \in Seq(W) /\ x \in W
  BY <1>1, <1>2
<1> HIDE DEF W
<1>4. Append(q, x) \in Seq(W) /\ h \o q \in Seq(W)
  BY <1>3
<1>5. h \o Append(q, x) = Append(h \o q, x)
  BY <1>3, <1>4
<1>6. QED
  BY <1>4, <1>5 DEF IsSeq, Added

LEMMA TellSays ==
  ASSUME NEW h, NEW s, IsSeq(h), IsSeq(s.told), NEW m, NEW a, NEW t,
         t.told = Append(s.told, <<m.id, a>>), t.m_context_datagrams = s.m_context_datagrams
  PROVE  Says(h, s, t, m)
<1> DEFINE p == h \o s.told
           q == h \o t.told
           x == <<m.id, a>>
<1>1. IsSeq(t.told) /\ IsSeq(p) /\ q = Append(p, x)
  <2>1. Adding(h, s.told, t.told, x)
    BY DEF Adding
  <2>2. IsSeq(t.told) /\ Added(p, q, x)
    BY <2>1, HeardMore
  <2>3. QED
    BY <2>2 DEF Added
<1>2. PICK S : p \in Seq(S)
  BY <1>1 DEF IsSeq
<1> HIDE DEF p, q, x
<1>3. /\ Len(q) = Len(p) + 1 /\ Len(p) \in Nat
      /\ \A k \in 1..Len(p) : q[k] = p[k] /\ k # Len(p) + 1
      /\ q[Len(p) + 1] = x
      /\ 1..(Len(p) + 1) = (1..Len(p)) \cup {Len(p) + 1}
  BY <1>1, <1>2, AppendFacts
<1>4. x[1] = m.id
  BY DEF x
<1>5. \A i : AskedBy(t, i) = AskedBy(s, i)
  BY DEF AskedBy
<1>6. \A i : ToldAt(h, s, i) = {j \in 1..Len(p) : p[j][1] = i}
             /\ ToldAt(h, t, i) = {j \in 1..Len(q) : q[j][1] = i}
  BY DEF ToldAt, p, q
<1>7. ASSUME NEW i, i # m.id PROVE Said(h, t, i) = Said(h, s, i)
  <2>1. ToldAt(h, t, i) = ToldAt(h, s, i)
    <3>1. \A j \in 1..Len(q) : q[j][1] = i <=> j \in 1..Len(p) /\ p[j][1] = i
      <4>1. \A j \in 1..Len(p) : j \in 1..Len(q) /\ q[j] = p[j]
        BY <1>3
      <4>2. \A j \in 1..Len(q) : j \in 1..Len(p) \/ j = Len(p) + 1
        BY <1>3
      <4>3. q[Len(p) + 1][1] # i
        BY <1>3, <1>4, <1>7
      <4>4. Len(p) + 1 \notin 1..Len(p)
        BY <1>3
      <4>5. QED
        BY <4>1, <4>2, <4>3, <4>4
    <3>2. \A j \in 1..Len(p) : j \in 1..Len(q)
      BY <1>3
    <3>3. {j \in 1..Len(q) : q[j][1] = i} = {j \in 1..Len(p) : p[j][1] = i}
      BY <3>1, <3>2
    <3>4. QED
      BY <1>6, <3>3
  <2>2. QED
    BY <1>5, <2>1, SaidSame
<1>8. ASSUME Said(h, s, m.id) = {} PROVE AtMostOne(Said(h, t, m.id))
  <2>1. ToldAt(h, s, m.id) = {} /\ AskedBy(s, m.id) = {}
    BY <1>8 DEF Said
  <2>2. ToldAt(h, t, m.id) = {Len(p) + 1}
    <3>0. {j \in 1..Len(p) : p[j][1] = m.id} = {}
      BY ONLY <1>6, <2>1
    <3>1. \A j \in 1..Len(p) : q[j][1] # m.id
      BY ONLY <1>3, <3>0
    <3>2. \A j \in 1..Len(q) : j \in 1..Len(p) \/ j = Len(p) + 1
      BY <1>3
    <3>3. Len(p) + 1 \in 1..Len(q) /\ q[Len(p) + 1][1] = m.id
      BY <1>3, <1>4
    <3>4. {j \in 1..Len(q) : q[j][1] = m.id} = {Len(p) + 1}
      BY <3>1, <3>2, <3>3
    <3>5. QED
      BY <1>6, <3>4
  <2>3. Said(h, t, m.id) = {<<"told", Len(p) + 1>>}
    BY <1>5, <2>1, <2>2 DEF Said
  <2>4. QED
    BY <2>3 DEF AtMostOne
<1>9. QED
  BY <1>1, <1>7, <1>8 DEF Says

LEMMA AskSays ==
  ASSUME NEW h, NEW s, IsSeq(s.told), NEW m, NEW c, NEW t, t.told = s.told,
         c \notin DOMAIN s.m_context_datagrams,
         t.m_context_datagrams = With(s.m_context_datagrams, c, m)
  PROVE  Says(h, s, t, m)
<1>1. \A i : ToldAt(h, t, i) = ToldAt(h, s, i)
  BY DEF ToldAt
<1>2. /\ DOMAIN t.m_context_datagrams = DOMAIN s.m_context_datagrams \cup {c}
      /\ t.m_context_datagrams[c] = m
      /\ \A k \in DOMAIN s.m_context_datagrams :
           k # c /\ t.m_context_datagrams[k] = s.m_context_datagrams[k]
  BY DEF With
<1>3. ASSUME NEW i, i # m.id PROVE Said(h, t, i) = Said(h, s, i)
  <2>1. AskedBy(t, i) = AskedBy(s, i)
    BY <1>2, <1>3 DEF AskedBy
  <2>2. QED
    BY <1>1, <2>1, SaidSame
<1>4. ASSUME Said(h, s, m.id) = {} PROVE AtMostOne(Said(h, t, m.id))
  <2>1. ToldAt(h, s, m.id) = {} /\ AskedBy(s, m.id) = {}
    BY <1>4 DEF Said
  <2>2. AskedBy(t, m.id) = {c}
    BY <1>2, <2>1 DEF AskedBy
  <2>3. Said(h, t, m.id) = {<<"asked", c>>}
    BY <1>1, <2>1, <2>2 DEF Said
  <2>4. QED
    BY <2>3 DEF AtMostOne
<1>5. QED
  BY <1>3, <1>4 DEF Says

LEMMA SilentThenSays ==
  ASSUME NEW h, NEW s, NEW t, NEW u, NEW m, Silent(h, s, t), Says(h, t, u, m)
  PROVE  Says(h, s, u, m)
BY DEF Silent, Says

LEMMA SaysThenSilent ==
  ASSUME NEW h, NEW s, NEW t, NEW u, NEW m, Says(h, s, t, m), Silent(h, t, u)
  PROVE  Says(h, s, u, m)
BY DEF Silent, Says

LEMMA SilentStays ==
  ASSUME NEW h, NEW s, IsSeq(s.told)
  PROVE  Silent(h, s, s)
BY DEF Silent

LEMMA TellFacts ==
  ASSUME NEW s, DOMAIN s = ServerFields, NEW m, NEW a, NEW t, t = Tell(s, m, a)
  PROVE  /\ DOMAIN t = ServerFields
         /\ t.told = Append(s.told, <<m.id, a>>)
         /\ t.m_context_datagrams = s.m_context_datagrams /\ t.m_objs = s.m_objs
         /\ t.m_loading = s.m_loading
BY DEF Tell, ServerFields

LEMMA RouteFacts ==
  ASSUME NEW s, DOMAIN s = ServerFields, NEW c, NEW op, NEW t, t = Route(s, c, op)
  PROVE  /\ DOMAIN t = ServerFields
         /\ t.told = s.told
         /\ t.m_context_datagrams = s.m_context_datagrams /\ t.m_objs = s.m_objs
         /\ t.m_loading = s.m_loading
BY DEF Route, ServerFields

Getting == {"get_field", "get_fields", "get_all"}

\* Whether the server's handler of m asks, tells or does neither.
LEMMA ServerSays ==
  ASSUME NEW h, IsSeq(h), NEW s, Typed(s), IsSeq(s.told), NEW m
  PROVE  /\ Says(h, s, HandleDatagram(s, m), m)
         /\ HandleDatagram(s, m).m_objs = s.m_objs
<1> DEFINE d == m.op.doid
           c == s.m_next_context
<1>1. /\ DOMAIN s = ServerFields /\ c \in Nat
      /\ c \notin DOMAIN s.m_context_datagrams
  BY RangeMore DEF Typed
<1>2. \A t : t.told = s.told /\ t.m_context_datagrams = s.m_context_datagrams => Says(h, s, t, m)
  BY SilentSame, SilentSays
<1>3. Says(h, s, s, m)
  BY <1>2
<1>4. ASSUME NEW a PROVE Says(h, s, Tell(s, m, a), m) /\ Tell(s, m, a).m_objs = s.m_objs
  <2> DEFINE t == Tell(s, m, a)
  <2>1. /\ t.told = Append(s.told, <<m.id, a>>)
        /\ t.m_context_datagrams = s.m_context_datagrams /\ t.m_objs = s.m_objs
    BY <1>1, TellFacts
  <2> HIDE DEF t
  <2>2. Says(h, s, t, m)
    BY <2>1, TellSays
  <2>3. QED
    BY <2>1, <2>2 DEF t
<1>5. ASSUME NEW context, NEW op
      PROVE  Says(h, s, Route(s, context, op), m) /\ Route(s, context, op).m_objs = s.m_objs
  <2> DEFINE t == Route(s, context, op)
  <2>1. t.told = s.told /\ t.m_context_datagrams = s.m_context_datagrams /\ t.m_objs = s.m_objs
    BY <1>1, RouteFacts
  <2> HIDE DEF t
  <2>2. QED
    BY <1>2, <2>1 DEF t
<1>6. ASSUME NEW op, NEW t, t.told = Query(s, m, op).told, t.m_objs = Query(s, m, op).m_objs,
             t.m_context_datagrams = Query(s, m, op).m_context_datagrams
      PROVE  Says(h, s, t, m) /\ t.m_objs = s.m_objs
  <2>1. t.told = s.told /\ t.m_objs = s.m_objs
        /\ t.m_context_datagrams = With(s.m_context_datagrams, c, m)
    BY <1>1, <1>6 DEF Query, Route, ServerFields
  <2> HIDE DEF c
  <2>2. QED
    BY <1>1, <2>1, AskSays
<1>7. /\ Says(h, s, HandleActivate(s, m.op), m)
      /\ HandleActivate(s, m.op).m_objs = s.m_objs
  <2>1. CASE ~Activatable(s, d)
    <3>1. HandleActivate(s, m.op) = s
      BY <2>1, Zenon DEF HandleActivate
    <3>2. QED
      BY <1>3, <3>1
  <2>2. CASE Activatable(s, d)
    <3> DEFINE loader == [context |-> c, valid |-> OpenReads(s, d), updates |-> m.op.fields, queue |-> <<>>]
               t == [s EXCEPT !.m_next_context = @ + 1, !.m_loading = With(@, d, loader)]
               u == Begin(t, d)
    <3>1. HandleActivate(s, m.op) = u
      BY <2>2 DEF HandleActivate, OpenReads
    <3> HIDE DEF loader
    <3>2. /\ DOMAIN t = ServerFields /\ t.told = s.told /\ t.m_objs = s.m_objs
          /\ t.m_context_datagrams = s.m_context_datagrams
      BY <1>1 DEF ServerFields
    <3> HIDE DEF t
    <3>3. u = t \/ \E context, op : u = Route(t, context, op)
      BY DEF Begin
    <3>4. u.told = t.told /\ u.m_context_datagrams = t.m_context_datagrams /\ u.m_objs = t.m_objs
      BY <3>2, <3>3, RouteFacts
    <3> HIDE DEF u
    <3>5. QED
      BY <1>2, <3>1, <3>2, <3>4
  <2>3. QED
    BY <2>1, <2>2
<1>8. /\ Says(h, s, HandleGetActivated(s, m), m)
      /\ HandleGetActivated(s, m).m_objs = s.m_objs
  <2>1. HandleGetActivated(s, m) = s \/ \E a : HandleGetActivated(s, m) = Tell(s, m, a)
    BY DEF HandleGetActivated
  <2>2. QED
    BY <1>3, <1>4, <2>1
<1>9. /\ Says(h, s, HandleDeleteDisk(s, m.op), m)
      /\ HandleDeleteDisk(s, m.op).m_objs = s.m_objs
  <2>1. HandleDeleteDisk(s, m.op) = s \/ \E x, op : HandleDeleteDisk(s, m.op) = Route(s, x, op)
    BY DEF HandleDeleteDisk
  <2>2. QED
    BY <1>3, <1>5, <2>1
<1>10. /\ Says(h, s, HandleSetFields(s, m.op), m)
       /\ HandleSetFields(s, m.op).m_objs = s.m_objs
  <2>1. HandleSetFields(s, m.op) = s \/ \E x, op : HandleSetFields(s, m.op) = Route(s, x, op)
    BY DEF HandleSetFields
  <2>2. QED
    BY <1>3, <1>5, <2>1
<1>11. /\ Says(h, s, HandleGetFields(s, m), m)
       /\ HandleGetFields(s, m).m_objs = s.m_objs
  <2>1. \/ HandleGetFields(s, m) = s
        \/ \E a : HandleGetFields(s, m) = Tell(s, m, a)
        \/ \E op : HandleGetFields(s, m) = Query(s, m, op)
    BY DEF HandleGetFields
  <2>2. QED
    BY <1>3, <1>4, <1>6, <2>1
<1>12. /\ Says(h, s, HandleGetAll(s, m), m)
       /\ HandleGetAll(s, m).m_objs = s.m_objs
  <2>1. CASE IsActivatedObject(s, d)
    BY <1>3, <2>1 DEF HandleGetAll
  <2>2. CASE ~IsActivatedObject(s, d)
    <3> DEFINE q == Query(s, m, Operation("GET_OBJECT", d, {}, Nothing))
               t == [q EXCEPT !.m_inactive_loads = With(@, d, OpenReads(s, d) \cup {c})]
    <3>1. HandleGetAll(s, m) = t
      BY <2>2 DEF HandleGetAll, OpenReads
    <3>2. DOMAIN q = ServerFields
      BY <1>1 DEF Query, Route, ServerFields
    <3>3. t.told = q.told /\ t.m_objs = q.m_objs /\ t.m_context_datagrams = q.m_context_datagrams
      <4> HIDE DEF q
      <4>1. QED
        BY <3>2 DEF ServerFields
    <3> HIDE DEF t
    <3>4. QED
      BY <1>6, <3>1, <3>3
  <2>3. QED
    BY <2>1, <2>2
<1>13. HandleDatagram(s, m) \in
         {s, HandleActivate(s, m.op), HandleGetActivated(s, m), HandleDeleteDisk(s, m.op),
          HandleSetFields(s, m.op), HandleGetFields(s, m), HandleGetAll(s, m)}
  BY DEF HandleDatagram
<1>14. QED
  BY <1>3, <1>7, <1>8, <1>9, <1>10, <1>11, <1>12, <1>13

LEMMA ActiveIgnores ==
  ASSUME NEW s, NEW m, IsActive(s, m.op.doid), m.op.kind \in Getting
  PROVE  HandleDatagram(s, m) = s
<1>1. IsActivatedObject(s, m.op.doid)
  BY Zenon DEF IsActivatedObject
<1>2. HandleGetFields(s, m) = s /\ HandleGetAll(s, m) = s
  BY <1>1, Zenon DEF HandleGetFields, HandleGetAll
<1>3. QED
  BY <1>2 DEF HandleDatagram, Getting

LEMMA ObjectSays ==
  ASSUME NEW h, IsSeq(h), NEW s, DOMAIN s = ServerFields, s.m_objs \in [Doid -> Loaded \cup {Missing}],
         IsSeq(s.told), NEW m \in Messages
  PROVE  /\ Says(h, s, ObjectHandle(s, m), m)
         /\ m.op.kind \notin Getting \/ s.m_objs[m.op.doid] = Missing => Silent(h, s, ObjectHandle(s, m))
         /\ s.m_objs[m.op.doid] # Missing /\ m.op.kind # "delete_ram" =>
              ObjectHandle(s, m).m_objs[m.op.doid] # Missing
<1> DEFINE d == m.op.doid
           x == s.m_objs[d]
           t == ObjectHandle(s, m)
<1>0. d \in Doid /\ m.op.fields \in Updates
  BY MessagesAreGood DEF GoodOp
<1>1. Silent(h, s, s)
  BY SilentStays
<1>2. \A u : u.told = s.told /\ u.m_context_datagrams = s.m_context_datagrams => Silent(h, s, u)
  BY SilentSame
<1>3. CASE x = Missing
  <2>1. t = s
    BY <1>3 DEF ObjectHandle
  <2>2. QED
    BY <1>1, <1>3, <2>1, SilentSays
<1>4. CASE x # Missing /\ m.op.kind = "set"
  <2>1. t = [s EXCEPT !.m_objs[d] = Updated(x, m.op.fields)]
    BY <1>4 DEF ObjectHandle
  <2>2. x \in Loaded
    BY <1>0, <1>4
  <2> HIDE DEF t, x
  <2>3. Updated(x, m.op.fields) \in Loaded
    BY <1>0, <2>2, UpdatedTyped
  <2>4. Updated(x, m.op.fields) # Missing
    BY <2>3, DBStateServerAssumption DEF Loaded
  <2>5. /\ t.told = s.told /\ t.m_context_datagrams = s.m_context_datagrams
        /\ t.m_objs[d] = Updated(x, m.op.fields)
    BY <1>0, <2>1 DEF ServerFields
  <2>6. Silent(h, s, t)
    BY <1>2, <2>5
  <2>7. QED
    BY <2>4, <2>5, <2>6, SilentSays DEF t
<1>5. CASE x # Missing /\ m.op.kind = "delete_ram"
  <2>1. t = [s EXCEPT !.m_objs[d] = Missing]
    BY <1>5 DEF ObjectHandle
  <2> HIDE DEF t
  <2>2. t.told = s.told /\ t.m_context_datagrams = s.m_context_datagrams
    BY <2>1 DEF ServerFields
  <2>3. Silent(h, s, t)
    BY <1>2, <2>2
  <2>4. QED
    BY <1>5, <2>3, SilentSays DEF t
<1>6. CASE x # Missing /\ m.op.kind \in Getting
  <2> DEFINE a == RamAnswer(m.op, x)
  <2>1. t = Tell(s, m, a)
    BY <1>6 DEF ObjectHandle, Getting
  <2> HIDE DEF t, a
  <2>2. /\ t.told = Append(s.told, <<m.id, a>>)
        /\ t.m_context_datagrams = s.m_context_datagrams /\ t.m_objs = s.m_objs
    BY <2>1, TellFacts
  <2>3. Says(h, s, t, m)
    BY <2>2, TellSays
  <2>4. QED
    BY <1>6, <2>2, <2>3 DEF t
<1>7. CASE x # Missing /\ m.op.kind \notin Getting \cup {"set", "delete_ram"}
  <2>1. t = s
    BY <1>7 DEF ObjectHandle, Getting
  <2>2. QED
    BY <1>1, <1>7, <2>1, SilentSays
<1>8. QED
  BY <1>3, <1>4, <1>5, <1>6, <1>7

(* Of a queue the ids increase, so that no datagram is in it twice.          *)
InOrder(q) == \A j, k \in 1..Len(q) : j < k => q[j].id < q[k].id

\* What a question of the queue, not yet answered, has after n of it are replayed.
Replayed(h, s, u, d, q, n) ==
  \A j \in 1..n : Said(h, s, q[j].id) = {} =>
    /\ AtMostOne(Said(h, u, q[j].id))
    /\ Said(h, u, q[j].id) # {} /\ (\A k \in (j + 1)..n : q[k].op.kind # "delete_ram") =>
         q[j].op.kind \in Getting /\ u.m_objs[d] # Missing

OthersUnheard(h, s, u, q, n) ==
  \A i : (\A k \in 1..n : q[k].id # i) => Said(h, u, i) = Said(h, s, i)

LEMMA ReplayOne ==
  ASSUME NEW h, IsSeq(h), NEW s, NEW u, DOMAIN u = ServerFields,
         u.m_objs \in [Doid -> Loaded \cup {Missing}], IsSeq(u.told),
         NEW d, NEW q \in Seq(Messages), \A k \in 1..Len(q) : q[k].op.doid = d, InOrder(q),
         NEW n \in 1..Len(q),
         Replayed(h, s, u, d, q, n - 1), OthersUnheard(h, s, u, q, n - 1),
         NEW v, v = ObjectHandle(u, q[n])
  PROVE  IsSeq(v.told) /\ Replayed(h, s, v, d, q, n) /\ OthersUnheard(h, s, v, q, n)
<1> DEFINE m == q[n]
<1>1. m \in Messages /\ m.op.doid = d /\ n \in Nat /\ Len(q) \in Nat
  OBVIOUS
<1>2. \A k \in 1..(n - 1) : k \in 1..Len(q) /\ k \in 1..n /\ q[k].id # m.id
  <2>1. \A k \in 1..(n - 1) : q[k].id < m.id
    BY <1>1 DEF InOrder
  <2> DEFINE M == Messages
  <2>0. \A x \in M : x.id \in Nat
    BY DEF Messages
  <2>1a. m \in M /\ \A k \in 1..(n - 1) : q[k] \in M
    BY <1>1
  <2> HIDE DEF M, m
  <2>2. \A k \in 1..(n - 1) : q[k].id \in Nat
    BY <2>0, <2>1a
  <2>3. m.id \in Nat
    BY <2>0, <2>1a
  <2>4. QED
    BY <1>1, <2>1, <2>2, <2>3
<1> HIDE DEF m
<1>3. /\ Says(h, u, v, m)
      /\ m.op.kind \notin Getting \/ u.m_objs[d] = Missing => Silent(h, u, v)
      /\ u.m_objs[d] # Missing /\ m.op.kind # "delete_ram" => v.m_objs[d] # Missing
  <2>1. v = ObjectHandle(u, m)
    BY DEF m
  <2>2. QED
    BY <1>1, <2>1, ObjectSays
<1>4. OthersUnheard(h, s, v, q, n)
  <2> SUFFICES ASSUME NEW i, \A k \in 1..n : q[k].id # i PROVE Said(h, v, i) = Said(h, s, i)
    BY DEF OthersUnheard
  <2>1. i # m.id
    BY <1>1 DEF m
  <2>2. Said(h, u, i) = Said(h, s, i)
    BY <1>2 DEF OthersUnheard
  <2>3. QED
    BY <1>3, <2>1, <2>2 DEF Says
<1>5. Replayed(h, s, v, d, q, n)
  <2> SUFFICES ASSUME NEW j \in 1..n, Said(h, s, q[j].id) = {}
               PROVE  /\ AtMostOne(Said(h, v, q[j].id))
                      /\ Said(h, v, q[j].id) # {} /\ (\A k \in (j + 1)..n : q[k].op.kind # "delete_ram") =>
                           q[j].op.kind \in Getting /\ v.m_objs[d] # Missing
    BY DEF Replayed
  <2>1. CASE j = n
    <3>1. Said(h, u, m.id) = {}
      BY <1>2, <2>1 DEF OthersUnheard, m
    <3>2. AtMostOne(Said(h, v, m.id))
      BY <1>3, <3>1 DEF Says
    <3>3. ASSUME Said(h, v, m.id) # {} PROVE m.op.kind \in Getting /\ v.m_objs[d] # Missing
      <4>1. ~Silent(h, u, v)
        BY <3>1, <3>3 DEF Silent
      <4>2. m.op.kind \in Getting /\ u.m_objs[d] # Missing
        BY <1>3, <4>1
      <4>3. m.op.kind # "delete_ram"
        BY <4>2 DEF Getting
      <4>4. QED
        BY <1>3, <4>2, <4>3
    <3>4. QED
      BY <2>1, <3>2, <3>3 DEF m
  <2>2. CASE j \in 1..(n - 1)
    <3>1. /\ AtMostOne(Said(h, u, q[j].id))
          /\ Said(h, u, q[j].id) # {} /\ (\A k \in (j + 1)..(n - 1) : q[k].op.kind # "delete_ram") =>
               q[j].op.kind \in Getting /\ u.m_objs[d] # Missing
      BY <2>2 DEF Replayed
    <3>2. Said(h, v, q[j].id) = Said(h, u, q[j].id)
      BY <1>2, <1>3, <2>2 DEF Says
    <3>3. ASSUME Said(h, v, q[j].id) # {}, \A k \in (j + 1)..n : q[k].op.kind # "delete_ram"
          PROVE  q[j].op.kind \in Getting /\ v.m_objs[d] # Missing
      <4>1. \A k \in (j + 1)..(n - 1) : q[k].op.kind # "delete_ram"
        BY <1>1, <3>3
      <4>2. m.op.kind # "delete_ram"
        <5>1. n \in (j + 1)..n
          BY <1>1, <2>2
        <5>2. QED
          BY <3>3, <5>1 DEF m
      <4>3. QED
        BY <1>3, <3>1, <3>2, <3>3, <4>1, <4>2
    <3>4. QED
      BY <3>1, <3>2, <3>3
  <2>3. QED
    BY <1>1, <2>1, <2>2
<1>6. QED
  BY <1>3, <1>4, <1>5 DEF Says

LEMMA ReplaySays ==
  ASSUME NEW h, IsSeq(h), NEW s, DOMAIN s = ServerFields, s.m_objs \in [Doid -> Loaded \cup {Missing}],
         IsSeq(s.told), NEW d, NEW q \in Seq(Messages), \A k \in 1..Len(q) : q[k].op.doid = d, InOrder(q)
  PROVE  /\ Handled(s, Replay(s, q), d)
         /\ IsSeq(Replay(s, q).told)
         /\ Replayed(h, s, Replay(s, q), d, q, Len(q))
         /\ OthersUnheard(h, s, Replay(s, q), q, Len(q))
<1>1. Len(q) \in Nat /\ \A k \in 1..Len(q) : q[k] \in Messages
  OBVIOUS
<1>2. PICK f : /\ Replaying(s, q) = f[Len(q)]
               /\ f[0] = s
               /\ \A k \in 1..Len(q) : f[k] = ObjectHandle(f[k - 1], q[k])
  BY <1>1, ReplaysInTurn
<1> DEFINE P(k) == /\ Handled(s, f[k], d) /\ IsSeq(f[k].told)
                   /\ Replayed(h, s, f[k], d, q, k) /\ OthersUnheard(h, s, f[k], q, k)
           S == {k \in 0..Len(q) : P(k)}
<1>3. 0 \in S
  <2>1. Handled(s, f[0], d) /\ IsSeq(f[0].told)
    BY <1>2 DEF Handled, Same
  <2>2. Replayed(h, s, f[0], d, q, 0) /\ OthersUnheard(h, s, f[0], q, 0)
    BY <1>2 DEF Replayed, OthersUnheard
  <2>3. QED
    BY <1>1, <2>1, <2>2
<1>4. ASSUME NEW k \in 1..Len(q), k - 1 \in S PROVE k \in S
  <2>1. P(k - 1)
    BY <1>4
  <2>2. DOMAIN f[k - 1] = ServerFields /\ f[k - 1].m_objs \in [Doid -> Loaded \cup {Missing}]
    BY <2>1 DEF Handled, Same
  <2>3. Handled(f[k - 1], f[k], d)
    BY <1>1, <1>2, <2>2, ObjectHandles
  <2>4. Handled(s, f[k], d)
    BY <2>1, <2>3, HandledTwice
  <2>5. IsSeq(f[k].told) /\ Replayed(h, s, f[k], d, q, k) /\ OthersUnheard(h, s, f[k], q, k)
    BY <1>2, <2>1, <2>2, ReplayOne
  <2>6. QED
    BY <1>1, <2>4, <2>5
<1> HIDE DEF S, P
<1>5. \A k \in 0..Len(q) : k \in S
  BY <1>1, <1>3, <1>4, Upwards
<1>6. P(Len(q))
  BY <1>1, <1>5 DEF S
<1>7. QED
  BY <1>2, <1>6 DEF Replaying, Replay, P

LEMMA ForwardSays ==
  ASSUME NEW h, IsSeq(h), NEW s, NEW E, NEW X, NEW Y, Fine(s, E, X, Y), IsSeq(s.told),
         NEW d, NEW q \in Seq(Messages), \A k \in 1..Len(q) : q[k].op.doid = d, InOrder(q),
         \A k \in 1..Len(q) : q[k].op.kind # "activate",
         NEW u, u = ForwardDatagrams(s, q)
  PROVE  /\ IsSeq(u.told)
         /\ OthersUnheard(h, s, u, q, Len(q))
         /\ \A j \in 1..Len(q) :
              /\ AtMostOne(Said(h, s, q[j].id))
              /\ Said(h, s, q[j].id) # {} => q[j].op.kind \in Getting /\ s.m_objs[d] # Missing
              => AtMostOne(Said(h, u, q[j].id))
<1> DEFINE Ready(j) == /\ AtMostOne(Said(h, s, q[j].id))
                       /\ Said(h, s, q[j].id) # {} => q[j].op.kind \in Getting /\ s.m_objs[d] # Missing
<1>1. Len(q) \in Nat /\ \A k \in 1..Len(q) : q[k] \in Messages
  OBVIOUS
<1>2. PICK f : /\ Forwarding(s, q) = f[Len(q)]
               /\ f[0] = s
               /\ \A k \in 1..Len(q) : f[k] = HandleDatagram(f[k - 1], q[k])
  BY <1>1, ForwardsInTurn
<1>3. \A j, k \in 1..Len(q) : j < k => q[j].id # q[k].id
  <2>1. \A k \in 1..Len(q) : q[k].id \in Nat
    <3>1. \A x \in Messages : x.id \in Nat
      BY DEF Messages
    <3>2. QED
      BY <1>1, <3>1
  <2>2. QED
    BY <2>1 DEF InOrder
<1> DEFINE P(k) == /\ Fine(f[k], E, X, Y) /\ IsSeq(f[k].told) /\ f[k].m_objs = s.m_objs
                   /\ OthersUnheard(h, s, f[k], q, k)
                   /\ \A j \in 1..k : Ready(j) => AtMostOne(Said(h, f[k], q[j].id))
           S == {k \in 0..Len(q) : P(k)}
<1>4. 0 \in S
  <2>1. OthersUnheard(h, s, f[0], q, 0)
    BY <1>2 DEF OthersUnheard
  <2>2. QED
    BY <1>1, <1>2, <2>1
<1> HIDE DEF Ready
<1>5. ASSUME NEW k \in 1..Len(q), k - 1 \in S PROVE k \in S
  <2> DEFINE v == f[k - 1]
             w == f[k]
             m == q[k]
  <2>1. /\ Fine(v, E, X, Y) /\ IsSeq(v.told) /\ v.m_objs = s.m_objs
        /\ OthersUnheard(h, s, v, q, k - 1)
        /\ \A j \in 1..(k - 1) : Ready(j) => AtMostOne(Said(h, v, q[j].id))
    BY <1>5
  <2>2. w = HandleDatagram(v, m) /\ m \in Messages /\ m.op.kind # "activate" /\ m.op.doid = d
        /\ k \in Nat
    BY <1>1, <1>2
  <2>3. \A j \in 1..(k - 1) : j \in 1..Len(q) /\ q[j].id # m.id
    BY <1>1, <1>3
  <2>3a. \A j \in 1..k : j = k \/ j \in 1..(k - 1)
    BY <1>1
  <2> HIDE DEF v, w, S
  <2>4. Fine(w, E, X, Y)
    <3> HIDE DEF m
    <3>1. QED
      BY <2>1, <2>2, FineDatagram
  <2>5. Says(h, v, w, m) /\ w.m_objs = s.m_objs
    <3>1. Typed(v)
      BY <2>1 DEF Fine
    <3> HIDE DEF m
    <3>2. QED
      BY <2>1, <2>2, <3>1, ServerSays
  <2>6. IsSeq(w.told)
    BY <2>5 DEF Says
  <2>7. OthersUnheard(h, s, w, q, k)
    <3> SUFFICES ASSUME NEW i, \A j \in 1..k : q[j].id # i PROVE Said(h, w, i) = Said(h, s, i)
      BY DEF OthersUnheard
    <3>1. i # m.id
      BY <2>2
    <3>2. Said(h, v, i) = Said(h, s, i)
      <4>1. \A j \in 1..(k - 1) : j \in 1..k
        BY <2>2
      <4>2. QED
        BY <2>1, <4>1 DEF OthersUnheard
    <3>3. QED
      BY <2>5, <3>1, <3>2 DEF Says
  <2>8. ASSUME NEW j \in 1..k, Ready(j) PROVE AtMostOne(Said(h, w, q[j].id))
    <3>1. CASE j \in 1..(k - 1)
      <4>1. Said(h, w, q[j].id) = Said(h, v, q[j].id)
        BY <2>3, <2>5, <3>1 DEF Says
      <4>2. QED
        BY <2>1, <2>8, <3>1, <4>1
    <3>2. CASE j = k
      <4>1. Said(h, v, m.id) = Said(h, s, m.id)
        BY <2>1, <2>3 DEF OthersUnheard
      <4>2. CASE Said(h, s, m.id) = {}
        BY <2>5, <3>2, <4>1, <4>2 DEF Says
      <4>3. CASE Said(h, s, m.id) # {}
        <5>1. m.op.kind \in Getting /\ s.m_objs[d] # Missing /\ AtMostOne(Said(h, s, m.id))
          BY <2>8, <3>2, <4>3 DEF Ready
        <5>2. IsActive(v, m.op.doid)
          BY <2>1, <2>2, <5>1 DEF IsActive
        <5>3. w = v
          BY <2>2, <5>1, <5>2, ActiveIgnores
        <5>4. QED
          BY <3>2, <4>1, <5>1, <5>3
      <4>4. QED
        BY <4>2, <4>3
    <3>3. QED
      BY <2>3a, <3>1, <3>2
  <2>9. P(k)
    BY <2>4, <2>5, <2>6, <2>7, <2>8 DEF w
  <2>10. QED
    BY <1>1, <2>9 DEF S
<1> HIDE DEF S, P
<1>6. \A k \in 0..Len(q) : k \in S
  BY <1>1, <1>4, <1>5, Upwards
<1>7. P(Len(q))
  BY <1>1, <1>6 DEF S
<1>8. u = f[Len(q)]
  BY <1>2 DEF Forwarding, ForwardDatagrams
<1>9. QED
  BY <1>7, <1>8 DEF P, Ready

\* From s to t, a loader that was there keeps its queue, a new one has none.
LoadersKept(s, t) ==
  \A d \in DOMAIN t.m_loading :
    \/ t.m_loading[d].queue = <<>>
    \/ d \in DOMAIN s.m_loading /\ t.m_loading[d].queue = s.m_loading[d].queue

LEMMA LoadersSame ==
  ASSUME NEW s, NEW t, t.m_loading = s.m_loading
  PROVE  LoadersKept(s, t)
BY DEF LoadersKept

LEMMA ServerKeeps ==
  ASSUME NEW s, DOMAIN s = ServerFields, NEW m
  PROVE  /\ LoadersKept(s, HandleDatagram(s, m))
         /\ m.op.kind # "activate" => HandleDatagram(s, m).m_loading = s.m_loading
<1> DEFINE d == m.op.doid
           c == s.m_next_context
<1>1. \A a : Tell(s, m, a).m_loading = s.m_loading
  BY TellFacts
<1>2. \A x, op : Route(s, x, op).m_loading = s.m_loading
  BY RouteFacts
<1>3. \A op : Query(s, m, op).m_loading = s.m_loading /\ DOMAIN Query(s, m, op) = ServerFields
  BY DEF Query, Route, ServerFields
<1>4. HandleGetActivated(s, m).m_loading = s.m_loading
  <2>1. HandleGetActivated(s, m) = s \/ \E a : HandleGetActivated(s, m) = Tell(s, m, a)
    BY DEF HandleGetActivated
  <2>2. QED
    BY <1>1, <2>1
<1>5. HandleDeleteDisk(s, m.op).m_loading = s.m_loading
  <2>1. HandleDeleteDisk(s, m.op) = s \/ \E x, op : HandleDeleteDisk(s, m.op) = Route(s, x, op)
    BY DEF HandleDeleteDisk
  <2>2. QED
    BY <1>2, <2>1
<1>6. HandleSetFields(s, m.op).m_loading = s.m_loading
  <2>1. HandleSetFields(s, m.op) = s \/ \E x, op : HandleSetFields(s, m.op) = Route(s, x, op)
    BY DEF HandleSetFields
  <2>2. QED
    BY <1>2, <2>1
<1>7. HandleGetFields(s, m).m_loading = s.m_loading
  <2>1. \/ HandleGetFields(s, m) = s
        \/ \E a : HandleGetFields(s, m) = Tell(s, m, a)
        \/ \E op : HandleGetFields(s, m) = Query(s, m, op)
    BY DEF HandleGetFields
  <2>2. QED
    BY <1>1, <1>3, <2>1
<1>8. HandleGetAll(s, m).m_loading = s.m_loading
  <2>1. CASE IsActivatedObject(s, d)
    BY <2>1 DEF HandleGetAll
  <2>2. CASE ~IsActivatedObject(s, d)
    <3> DEFINE q == Query(s, m, Operation("GET_OBJECT", d, {}, Nothing))
               t == [q EXCEPT !.m_inactive_loads = With(@, d, OpenReads(s, d) \cup {c})]
    <3>1. HandleGetAll(s, m) = t
      BY <2>2 DEF HandleGetAll, OpenReads
    <3>2. DOMAIN q = ServerFields /\ q.m_loading = s.m_loading
      BY <1>3
    <3> HIDE DEF q
    <3>3. QED
      BY <3>1, <3>2 DEF ServerFields
  <2>3. QED
    BY <2>1, <2>2
<1>9. LoadersKept(s, HandleActivate(s, m.op))
  <2>1. CASE ~Activatable(s, d)
    <3>1. HandleActivate(s, m.op) = s
      BY <2>1, Zenon DEF HandleActivate
    <3>2. QED
      BY <3>1, LoadersSame
  <2>2. CASE Activatable(s, d)
    <3> DEFINE loader == [context |-> c, valid |-> OpenReads(s, d), updates |-> m.op.fields, queue |-> <<>>]
               t == [s EXCEPT !.m_next_context = @ + 1, !.m_loading = With(@, d, loader)]
               u == Begin(t, d)
    <3>1. HandleActivate(s, m.op) = u
      BY <2>2 DEF HandleActivate, OpenReads
    <3>2. loader.queue = <<>>
      OBVIOUS
    <3> HIDE DEF loader
    <3>3. DOMAIN t = ServerFields /\ t.m_loading = With(s.m_loading, d, loader)
      BY DEF ServerFields
    <3> HIDE DEF t
    <3>4. u = t \/ \E context, op : u = Route(t, context, op)
      BY DEF Begin
    <3>5. u.m_loading = With(s.m_loading, d, loader)
      BY <3>3, <3>4, RouteFacts
    <3> HIDE DEF u
    <3>6. LoadersKept(s, u)
      <4>1. DOMAIN u.m_loading = DOMAIN s.m_loading \cup {d}
        BY <3>5 DEF With
      <4>2. u.m_loading[d] = loader
        BY <3>5 DEF With
      <4>3. \A x \in DOMAIN s.m_loading : x # d => u.m_loading[x] = s.m_loading[x]
        BY <3>5 DEF With
      <4>4. QED
        BY <3>2, <4>1, <4>2, <4>3 DEF LoadersKept
    <3>7. QED
      BY <3>1, <3>6
  <2>3. QED
    BY <2>1, <2>2
<1>10. /\ HandleDatagram(s, m) \in
            {s, HandleActivate(s, m.op), HandleGetActivated(s, m), HandleDeleteDisk(s, m.op),
             HandleSetFields(s, m.op), HandleGetFields(s, m), HandleGetAll(s, m)}
       /\ m.op.kind # "activate" => HandleDatagram(s, m) \in
            {s, HandleGetActivated(s, m), HandleDeleteDisk(s, m.op),
             HandleSetFields(s, m.op), HandleGetFields(s, m), HandleGetAll(s, m)}
  BY DEF HandleDatagram
<1>11. \A t \in {s, HandleGetActivated(s, m), HandleDeleteDisk(s, m.op),
             HandleSetFields(s, m.op), HandleGetFields(s, m), HandleGetAll(s, m)} :
         t.m_loading = s.m_loading
  BY <1>4, <1>5, <1>6, <1>7, <1>8
<1> HIDE DEF d, c
<1>12. QED
  BY <1>9, <1>10, <1>11, LoadersSame

\* Forwarding discards and begins no loader.
LEMMA ForwardKeeps ==
  ASSUME NEW s, NEW E, NEW X, NEW Y, Fine(s, E, X, Y), NEW q \in Seq(Messages),
         \A k \in 1..Len(q) : q[k].op.kind # "activate"
  PROVE  ForwardDatagrams(s, q).m_loading = s.m_loading
<1>1. Len(q) \in Nat /\ \A k \in 1..Len(q) : q[k] \in Messages
  OBVIOUS
<1>2. PICK f : /\ Forwarding(s, q) = f[Len(q)]
               /\ f[0] = s
               /\ \A k \in 1..Len(q) : f[k] = HandleDatagram(f[k - 1], q[k])
  BY <1>1, ForwardsInTurn
<1> DEFINE G == {k \in 0..Len(q) : Fine(f[k], E, X, Y) /\ f[k].m_loading = s.m_loading}
<1>3. 0 \in G
  BY <1>1, <1>2
<1>4. ASSUME NEW k \in 1..Len(q), k - 1 \in G PROVE k \in G
  <2>1. /\ Fine(f[k - 1], E, X, Y) /\ q[k] \in Messages /\ q[k].op.kind # "activate"
        /\ f[k - 1].m_loading = s.m_loading
    BY <1>1, <1>4
  <2>2. Fine(HandleDatagram(f[k - 1], q[k]), E, X, Y)
    BY <2>1, FineDatagram
  <2>3. DOMAIN f[k - 1] = ServerFields
    BY <2>1 DEF Fine, Typed
  <2>4. HandleDatagram(f[k - 1], q[k]).m_loading = f[k - 1].m_loading
    BY <2>1, <2>3, ServerKeeps
  <2>5. QED
    BY <1>1, <1>2, <2>1, <2>2, <2>4
<1> HIDE DEF G
<1>5. \A k \in 0..Len(q) : k \in G
  BY <1>1, <1>3, <1>4, Upwards
<1>6. f[Len(q)].m_loading = s.m_loading
  BY <1>1, <1>5 DEF G
<1>7. QED
  BY <1>2, <1>6 DEF Forwarding, ForwardDatagrams
-----------------------------------------------------------------------------
(* A question that was not overtaken by an unload is in at most one place:   *)
(* among the answers, with the database, or in the queue of a loader.        *)
Kept(R, i) == \A k \in (i + 1)..Len(R) : ~(R[k].kind = "delete_ram" /\ R[k].doid = R[i].doid)

QueuedAs(q, R) ==
  /\ InOrder(q)
  /\ \A k \in 1..Len(q) : q[k].id \in 1..Len(R) /\ R[q[k].id] = q[k].op

IsQueued(s, i) ==
  \E d \in DOMAIN s.m_loading : \E k \in 1..Len(s.m_loading[d].queue) : s.m_loading[d].queue[k].id = i

\* Of the requests R, after the answers h.
Once(h, s, R) ==
  /\ IsSeq(h) /\ IsSeq(s.told)
  /\ \A i : Said(h, s, i) # {} => i \in 1..Len(R)
  /\ \A d \in DOMAIN s.m_loading : QueuedAs(s.m_loading[d].queue, R)
  /\ \A i \in 1..Len(R) : Kept(R, i) =>
       AtMostOne(Said(h, s, i)) /\ (IsQueued(s, i) => Said(h, s, i) = {})

OnceInv == Once(told, dbss, request)

LEMMA NoneAtMostOne == \A P : P = {} => AtMostOne(P)
BY DEF AtMostOne

\* From s to t, an answer may have come instead of a question, and no more.
Lessens(h, s, t) ==
  /\ IsSeq(t.told)
  /\ t.m_loading = s.m_loading
  /\ \A i : /\ AtMostOne(Said(h, s, i)) => AtMostOne(Said(h, t, i))
            /\ Said(h, s, i) = {} => Said(h, t, i) = {}

LEMMA OnceLessens ==
  ASSUME NEW h, NEW s, NEW t, NEW R, Once(h, s, R), Lessens(h, s, t)
  PROVE  Once(h, t, R)
BY DEF Once, Lessens, IsQueued

\* The caller with context c is told, or is not, and waits no longer.
LEMMA ResponseLessens ==
  ASSUME NEW h, IsSeq(h), NEW s, Typed(s), CallersOrderly(s), IsSeq(s.told), NEW r
  PROVE  Lessens(h, s, HandleResponse(s, r))
<1> DEFINE c == r.context
           m == s.m_context_datagrams[c]
           d == m.op.doid
           t == [s EXCEPT !.m_context_datagrams = Without(@, c)]
<1>0. DOMAIN s = ServerFields
  BY DEF Typed
<1>1. CASE c \notin DOMAIN s.m_context_datagrams
  <2>1. HandleResponse(s, r) = s
    BY <1>1 DEF HandleResponse
  <2>2. QED
    BY <2>1 DEF Lessens
<1>2. CASE c \in DOMAIN s.m_context_datagrams
  <2>1. /\ DOMAIN t = ServerFields /\ t.told = s.told /\ t.m_loading = s.m_loading
        /\ t.m_context_datagrams = Without(s.m_context_datagrams, c)
    BY <1>0 DEF ServerFields
  <2> HIDE DEF t
  <2>2. \A i : ToldAt(h, t, i) = ToldAt(h, s, i) /\ AskedBy(t, i) = AskedBy(s, i) \ {c}
    BY <2>1 DEF ToldAt, AskedBy, Without
  <2>3. c \in AskedBy(s, m.id)
    BY <1>2 DEF AskedBy
  <2>4. \A i : Said(h, t, i) \subseteq Said(h, s, i)
    BY <2>2 DEF Said
  <2>5. ASSUME AtMostOne(Said(h, s, m.id)) PROVE Said(h, t, m.id) = {}
    <3>1. <<"asked", c>> \in Said(h, s, m.id)
      BY <2>3 DEF Said
    <3>2. ASSUME NEW j \in ToldAt(h, s, m.id) PROVE FALSE
      <4>1. <<"told", j>> \in Said(h, s, m.id)
        BY DEF Said
      <4>2. <<"told", j>> = <<"asked", c>>
        BY <2>5, <3>1, <4>1 DEF AtMostOne
      <4>3. QED
        BY <4>2
    <3>3. ASSUME NEW x \in AskedBy(s, m.id) PROVE x = c
      <4>1. <<"asked", x>> \in Said(h, s, m.id)
        BY DEF Said
      <4>2. <<"asked", x>> = <<"asked", c>>
        BY <2>5, <3>1, <4>1 DEF AtMostOne
      <4>3. QED
        BY <4>2
    <3>4. QED
      BY <2>2, <3>2, <3>3 DEF Said
  <2>6. ASSUME NEW u, IsSeq(u.told), u.m_loading = s.m_loading,
               \A i : i # m.id => Said(h, u, i) = Said(h, t, i),
               Said(h, t, m.id) = {} => AtMostOne(Said(h, u, m.id))
        PROVE  Lessens(h, s, u)
    <3>1. \A i : AtMostOne(Said(h, s, i)) => AtMostOne(Said(h, t, i))
      BY <2>4 DEF AtMostOne
    <3>2. Said(h, s, m.id) # {}
      BY <2>3 DEF Said
    <3> HIDE DEF m
    <3>3. QED
      BY <2>4, <2>5, <2>6, <3>1, <3>2 DEF Lessens
  <2>7. ASSUME NEW u, DOMAIN u = ServerFields, u.told = t.told, u.m_loading = t.m_loading,
               u.m_context_datagrams = t.m_context_datagrams
        PROVE  Lessens(h, s, u) /\ \A a : Lessens(h, s, Tell(u, m, a))
    <3>1. \A i : Said(h, u, i) = Said(h, t, i)
      BY <2>7 DEF Said, ToldAt, AskedBy
    <3>2. Lessens(h, s, u)
      BY <2>1, <2>6, <2>7, <3>1, NoneAtMostOne
    <3> HIDE DEF m
    <3>3. ASSUME NEW a PROVE Lessens(h, s, Tell(u, m, a))
      <4> DEFINE v == Tell(u, m, a)
      <4>1. /\ v.told = Append(u.told, <<m.id, a>>) /\ v.m_loading = u.m_loading
            /\ v.m_context_datagrams = u.m_context_datagrams
        BY ONLY <2>7, TellFacts
      <4> HIDE DEF v
      <4>2. IsSeq(u.told)
        BY <2>1, <2>7
      <4>3. Says(h, u, v, m)
        BY <4>1, <4>2, TellSays
      <4>4. Lessens(h, s, v)
        BY <2>1, <2>6, <2>7, <3>1, <4>1, <4>3 DEF Says
      <4>5. QED
        BY <4>4 DEF v
    <3>4. QED
      BY <3>2, <3>3
  <2>8. CASE m.op.kind # "get_all"
    <3>1. m.op.kind \in {"get_field", "get_fields"}
      BY <1>2, <2>8 DEF CallersOrderly
    <3>2. PICK a : HandleResponse(s, r) = Tell(t, m, a)
      BY <1>2, <3>1 DEF HandleResponse, t
    <3> HIDE DEF m
    <3>3. \A x : Lessens(h, s, Tell(t, m, x))
      BY <2>1, <2>7
    <3>4. QED
      BY <3>2, <3>3
  <2>9. CASE m.op.kind = "get_all"
    <3> DEFINE f == Forget(t, d, c)
    <3>1. /\ DOMAIN f = ServerFields /\ f.told = t.told /\ f.m_loading = t.m_loading
          /\ f.m_context_datagrams = t.m_context_datagrams
      BY <2>1 DEF Forget, ServerFields
    <3>2. \/ HandleResponse(s, r) = f
          \/ \E a : HandleResponse(s, r) = Tell(f, m, a)
      BY <1>2, <2>9 DEF HandleResponse, t
    <3> HIDE DEF f, m
    <3>3. QED
      BY <2>7, <3>1, <3>2
  <2>10. QED
    BY <2>8, <2>9
<1>3. QED
  BY <1>1, <1>2
\* After replaying q, a question of it that was kept, if answered, came from the
\* object, and the object is still there.
Ready(h, u, R, d, q) ==
  \A j \in 1..Len(q) : Kept(R, q[j].id) =>
    /\ AtMostOne(Said(h, u, q[j].id))
    /\ Said(h, u, q[j].id) # {} => q[j].op.kind \in Getting /\ u.m_objs[d] # Missing

LEMMA OnceFinalize ==
  ASSUME NEW h, NEW s, NEW E, NEW X, NEW c, Fine(s, E, X, {c}), NEW R, Once(h, s, R),
         NEW d \in DOMAIN s.m_loading, NEW type, Takes(s, c, d, type),
         NEW q, q = s.m_loading[d].queue,
         NEW u, Handled(s, u, d), IsSeq(u.told), OthersUnheard(h, s, u, q, Len(q)), Ready(h, u, R, d, q)
  PROVE  Once(h, Finalize(u, d), R)
<1> DEFINE t == [u EXCEPT !.m_loading = Without(@, d)]
           v == Finalize(u, d)
<1>1. /\ d \in Doid /\ q \in Seq(Messages) /\ Len(q) \in Nat
      /\ \A k \in 1..Len(q) : q[k].op.doid = d
      /\ \A k \in 1..Len(q) : q[k].op.kind # "activate"
      /\ \A x \in DOMAIN s.m_loading : \A k \in 1..Len(s.m_loading[x].queue) :
           s.m_loading[x].queue[k].op.doid = x
  <2>1. Typed(s) /\ LoadersOrderly(s)
    BY DEF Fine, Orderly
  <2>2. s.m_loading[d] \in Loaders /\ d \in Doid
    BY <2>1 DEF Typed
  <2>3. s.m_loading[d].queue \in Seq(Messages)
    BY <2>2 DEF Loaders
  <2>4. q \in Seq(Messages) /\ Len(q) \in Nat
    BY <2>3
  <2>5. QED
    BY <2>1, <2>2, <2>4 DEF LoadersOrderly
<1>2. DOMAIN u = ServerFields /\ u.m_loading = s.m_loading
  BY DEF Handled, Same, ServerFields
<1>3. v = ForwardDatagrams(t, q)
  BY <1>2 DEF Finalize
<1>4. Discards(s, t, d)
  BY <1>2 DEF Handled, Same, Discards, ServerFields
<1>5. /\ t.told = u.told /\ t.m_context_datagrams = u.m_context_datagrams /\ t.m_objs = u.m_objs
      /\ t.m_loading = Without(s.m_loading, d)
  BY <1>2 DEF ServerFields
<1> HIDE DEF t, v
<1>6. Fine(t, E, X, {})
  BY <1>4, FineDiscards
<1>7. QueuedAs(q, R) /\ IsSeq(h) /\ InOrder(q)
  BY DEF Once, QueuedAs
<1>8. IsSeq(t.told)
  BY <1>5
<1>9. \A i : Said(h, t, i) = Said(h, u, i)
  BY <1>5 DEF Said, ToldAt, AskedBy
<1>10. /\ IsSeq(v.told) /\ OthersUnheard(h, t, v, q, Len(q))
       /\ \A j \in 1..Len(q) :
            /\ AtMostOne(Said(h, t, q[j].id))
            /\ Said(h, t, q[j].id) # {} => q[j].op.kind \in Getting /\ t.m_objs[d] # Missing
            => AtMostOne(Said(h, v, q[j].id))
  BY ONLY <1>1, <1>3, <1>6, <1>7, <1>8, ForwardSays
<1>11. v.m_loading = Without(s.m_loading, d)
  BY <1>1, <1>3, <1>5, <1>6, ForwardKeeps
<1>12. \A j \in 1..Len(q) : Kept(R, q[j].id) => AtMostOne(Said(h, v, q[j].id))
  BY <1>5, <1>9, <1>10 DEF Ready
<1>13. \A i : (\A k \in 1..Len(q) : q[k].id # i) => Said(h, v, i) = Said(h, s, i)
  BY <1>9, <1>10 DEF OthersUnheard
<1>14. \A i : Said(h, v, i) # {} => i \in 1..Len(R)
  <2> SUFFICES ASSUME NEW i, Said(h, v, i) # {} PROVE i \in 1..Len(R)
    OBVIOUS
  <2>1. CASE \A k \in 1..Len(q) : q[k].id # i
    BY <1>13, <2>1 DEF Once
  <2>2. CASE \E k \in 1..Len(q) : q[k].id = i
    BY <1>7, <2>2 DEF QueuedAs
  <2>3. QED
    BY <2>1, <2>2
<1>15. DOMAIN v.m_loading = DOMAIN s.m_loading \ {d}
       /\ \A x \in DOMAIN v.m_loading : v.m_loading[x] = s.m_loading[x]
  BY <1>11 DEF Without
<1>16. \A x \in DOMAIN v.m_loading : QueuedAs(v.m_loading[x].queue, R)
  BY <1>15 DEF Once
<1>17. ASSUME NEW i \in 1..Len(R), Kept(R, i)
       PROVE  AtMostOne(Said(h, v, i)) /\ (IsQueued(v, i) => Said(h, v, i) = {})
  <2>1. CASE \A k \in 1..Len(q) : q[k].id # i
    <3>1. Said(h, v, i) = Said(h, s, i)
      BY <1>13, <2>1
    <3>2. IsQueued(v, i) => IsQueued(s, i)
      BY <1>15 DEF IsQueued
    <3>3. QED
      BY <1>17, <3>1, <3>2 DEF Once
  <2>2. CASE \E k \in 1..Len(q) : q[k].id = i
    <3>1. PICK k \in 1..Len(q) : q[k].id = i
      BY <2>2
    <3>2. AtMostOne(Said(h, v, i))
      BY <1>12, <1>17, <3>1
    <3>3. ~IsQueued(v, i)
      <4> SUFFICES ASSUME NEW x \in DOMAIN v.m_loading, NEW j \in 1..Len(v.m_loading[x].queue),
                          v.m_loading[x].queue[j].id = i
                   PROVE  FALSE
        BY DEF IsQueued
      <4>1. x \in DOMAIN s.m_loading /\ x # d /\ v.m_loading[x] = s.m_loading[x]
        BY <1>15
      <4>2. R[i] = s.m_loading[x].queue[j].op
        BY <4>1 DEF Once, QueuedAs
      <4>3. R[i] = q[k].op
        BY <1>7, <3>1 DEF QueuedAs
      <4>4. s.m_loading[x].queue[j].op.doid = x /\ q[k].op.doid = d
        BY <1>1, <4>1
      <4>5. QED
        BY <4>1, <4>2, <4>3, <4>4
    <3>4. QED
      BY <3>2, <3>3
  <2>3. QED
    BY <2>1, <2>2
<1>18. Once(h, v, R)
  BY <1>7, <1>10, <1>14, <1>16, <1>17 DEF Once
<1>19. QED
  BY <1>18 DEF v

\* Nothing in the queue unloads the object after a question that was kept.
LEMMA KeptInQueue ==
  ASSUME NEW R, NEW q, NEW d, Len(q) \in Nat, Len(R) \in Nat, QueuedAs(q, R), \A k \in 1..Len(q) : q[k].op.doid = d,
         NEW j \in 1..Len(q), Kept(R, q[j].id)
  PROVE  \A k \in (j + 1)..Len(q) : q[k].op.kind # "delete_ram"
<1> SUFFICES ASSUME NEW k \in (j + 1)..Len(q) PROVE q[k].op.kind # "delete_ram"
  OBVIOUS
<1>1. j < k /\ k \in 1..Len(q)
  OBVIOUS
<1>2. /\ q[j].id < q[k].id /\ q[j].id \in 1..Len(R) /\ q[k].id \in 1..Len(R)
      /\ R[q[j].id] = q[j].op /\ R[q[k].id] = q[k].op
  BY <1>1 DEF QueuedAs, InOrder
<1> DEFINE a == q[j].id
           b == q[k].id
<1>3. b \in (a + 1)..Len(R)
  <2>1. a \in 1..Len(R) /\ b \in 1..Len(R) /\ a < b
    BY <1>2
  <2> HIDE DEF a, b
  <2>2. QED
    BY <2>1
<1>4. ~(R[b].kind = "delete_ram" /\ R[b].doid = R[a].doid)
  BY <1>3 DEF Kept
<1>5. R[b].doid = R[a].doid
  BY <1>1, <1>2
<1>6. QED
  BY <1>2, <1>4, <1>5

LEMMA OnceLoader ==
  ASSUME NEW h, NEW s, NEW E, NEW X, NEW r, Fine(s, E, X, {r.context}), GoodAnswer(r),
         Takes(s, r.context, r.doid, r.type), NEW R, Len(R) \in Nat, Once(h, s, R)
  PROVE  Once(h, LoaderReceive(s, r), R)
<1> DEFINE d == r.doid
           loader == s.m_loading[d]
           c == r.context
           q == loader.queue
<1>1. CASE \/ ~IsLoading(s, d) \/ r.type # "GET_OBJECT"
           \/ IsLoading(s, d) /\ c \notin ValidContexts(loader)
  <2>1. LoaderReceive(s, r) = s
    BY <1>1 DEF LoaderReceive
  <2>2. QED
    BY <2>1
<1>2. CASE IsLoading(s, d) /\ r.type = "GET_OBJECT" /\ c \in ValidContexts(loader)
  <2>1. /\ DOMAIN s = ServerFields /\ s.m_objs \in [Doid -> Loaded \cup {Missing}]
        /\ loader \in Loaders /\ d \in Doid /\ d \in DOMAIN s.m_loading
    BY <1>2 DEF Fine, Typed, IsLoading, GoodAnswer
  <2>2. /\ q \in Seq(Messages)
        /\ \A k \in 1..Len(q) : q[k].op.doid = d
        /\ \A k \in 1..Len(q) : q[k].op.kind # "activate"
    BY <2>1 DEF Fine, Orderly, LoadersOrderly, Loaders
  <2>3. QueuedAs(q, R) /\ InOrder(q) /\ IsSeq(h) /\ IsSeq(s.told)
    BY <2>1 DEF Once, QueuedAs
  <2>4. Len(q) \in Nat
    BY <2>2
  <2>5. \A j \in 1..Len(q) : Kept(R, q[j].id) => Said(h, s, q[j].id) = {}
    <3> SUFFICES ASSUME NEW j \in 1..Len(q), Kept(R, q[j].id) PROVE Said(h, s, q[j].id) = {}
      OBVIOUS
    <3>1. q[j].id \in 1..Len(R)
      BY <2>3 DEF QueuedAs
    <3>2. IsQueued(s, q[j].id)
      BY <2>1 DEF IsQueued
    <3> HIDE DEF q
    <3>3. QED
      BY <3>1, <3>2 DEF Once
  <2> HIDE DEF q
  <2>6. CASE r.outcome = DB!Failure
    <3>1. LoaderReceive(s, r) = Finalize(s, d)
      BY <1>2, <2>6 DEF LoaderReceive
    <3>2. Handled(s, s, d) /\ OthersUnheard(h, s, s, q, Len(q))
      BY <2>1 DEF Handled, Same, OthersUnheard
    <3>3. Ready(h, s, R, d, q)
      BY <2>5, NoneAtMostOne DEF Ready
    <3>4. q = s.m_loading[d].queue
      BY DEF q
    <3> HIDE DEF d, c
    <3>5. Once(h, Finalize(s, d), R)
      BY <2>1, <2>3, <3>2, <3>3, <3>4, OnceFinalize DEF d
    <3>6. QED
      BY <3>1, <3>5
  <2>7. CASE r.outcome # DB!Failure
    <3> DEFINE t == [s EXCEPT !.m_objs[d] = Load(loader, r.outcome.fields)]
               u == Replay(t, q)
    <3>1. LoaderReceive(s, r) = Finalize(u, d)
      BY <1>2, <2>7 DEF LoaderReceive, q
    <3>2. r.outcome.fields \in [DbField -> Value]
      BY <1>2, <2>7 DEF GoodAnswer
    <3>2a. q = s.m_loading[d].queue
      BY DEF q
    <3> HIDE DEF loader
    <3>3. Load(loader, r.outcome.fields) \in Loaded
      BY <2>1, <3>2, LoadTyped
    <3>4. Handled(s, t, d) /\ t.told = s.told /\ t.m_context_datagrams = s.m_context_datagrams
      BY <2>1, <3>3 DEF Handled, Same, ServerFields
    <3>5. DOMAIN t = ServerFields /\ t.m_objs \in [Doid -> Loaded \cup {Missing}]
      BY <3>4 DEF Handled, Same
    <3> HIDE DEF t
    <3>6. /\ Handled(t, u, d) /\ IsSeq(u.told)
          /\ Replayed(h, t, u, d, q, Len(q))
          /\ OthersUnheard(h, t, u, q, Len(q))
      BY <2>2, <2>3, <3>4, <3>5, ReplaySays
    <3>7. Handled(s, u, d)
      BY <3>4, <3>6, HandledTwice
    <3> HIDE DEF u
    <3>8. \A i : Said(h, t, i) = Said(h, s, i)
      BY <3>4 DEF Said, ToldAt, AskedBy
    <3>9. OthersUnheard(h, s, u, q, Len(q))
      BY <3>6, <3>8 DEF OthersUnheard
    <3>10. Ready(h, u, R, d, q)
      <4> SUFFICES ASSUME NEW j \in 1..Len(q), Kept(R, q[j].id)
                   PROVE  /\ AtMostOne(Said(h, u, q[j].id))
                          /\ Said(h, u, q[j].id) # {} => q[j].op.kind \in Getting /\ u.m_objs[d] # Missing
        BY DEF Ready
      <4>1. Said(h, t, q[j].id) = {}
        BY <2>5, <3>8
      <4>2. \A k \in (j + 1)..Len(q) : q[k].op.kind # "delete_ram"
        BY <2>2, <2>3, <2>4, KeptInQueue
      <4>3. QED
        BY <3>6, <4>1, <4>2 DEF Replayed
    <3> HIDE DEF c
    <3>11. Once(h, Finalize(u, d), R)
      <4> HIDE DEF d
      <4>1. QED
        BY <2>1, <3>2a, <3>6, <3>7, <3>9, <3>10, OnceFinalize DEF d
    <3>12. QED
      BY <3>1, <3>11
  <2>8. QED
    BY <2>6, <2>7
<1>3. QED
  BY <1>1, <1>2
(* A new request R[n]: nobody has heard of it.                               *)
LEMMA KeptBefore ==
  ASSUME NEW S, NEW R \in Seq(S), NEW op, NEW i \in 1..Len(R), Kept(Append(R, op), i)
  PROVE  Kept(R, i)
<1> DEFINE Q == Append(R, op)
<1>1. /\ Len(Q) = Len(R) + 1 /\ Len(R) \in Nat
      /\ \A k \in 1..Len(R) : Q[k] = R[k]
  BY AppendFacts
<1> HIDE DEF Q
<1>2. \A k \in (i + 1)..Len(R) : k \in (i + 1)..Len(Q) /\ k \in 1..Len(R)
  BY <1>1
<1>3. Kept(Q, i)
  BY DEF Q
<1>4. QED
  BY <1>1, <1>2, <1>3 DEF Kept

LEMMA QueuedBefore ==
  ASSUME NEW S, NEW R \in Seq(S), NEW op, NEW q, QueuedAs(q, R)
  PROVE  QueuedAs(q, Append(R, op))
<1>1. /\ Len(Append(R, op)) = Len(R) + 1 /\ Len(R) \in Nat
      /\ \A k \in 1..Len(R) : Append(R, op)[k] = R[k]
      /\ 1..(Len(R) + 1) = (1..Len(R)) \cup {Len(R) + 1}
  BY AppendFacts
<1>2. QED
  BY <1>1 DEF QueuedAs

LEMMA QueuedNow ==
  ASSUME NEW S, NEW R \in Seq(S), NEW m, m.id = Len(R) + 1,
         NEW T, NEW q \in Seq(T), QueuedAs(q, R)
  PROVE  QueuedAs(Append(q, m), Append(R, m.op))
<1> DEFINE Q == Append(R, m.op)
           p == Append(q, m)
<1>1. /\ Len(Q) = Len(R) + 1 /\ Len(R) \in Nat /\ Q[Len(R) + 1] = m.op
      /\ \A k \in 1..Len(R) : Q[k] = R[k]
      /\ 1..(Len(R) + 1) = (1..Len(R)) \cup {Len(R) + 1}
  BY AppendFacts
<1>2. /\ Len(p) = Len(q) + 1 /\ Len(q) \in Nat /\ p[Len(q) + 1] = m
      /\ \A k \in 1..Len(q) : p[k] = q[k]
      /\ 1..(Len(q) + 1) = (1..Len(q)) \cup {Len(q) + 1}
  BY AppendFacts
<1>3. \A k \in 1..Len(q) : q[k].id \in 1..Len(R) /\ R[q[k].id] = q[k].op
  BY DEF QueuedAs
<1> HIDE DEF p, Q
<1>4. \A k \in 1..Len(p) : p[k].id \in 1..Len(Q) /\ Q[p[k].id] = p[k].op
  <2>1. \A k \in 1..Len(q) : p[k].id \in 1..Len(Q) /\ Q[p[k].id] = p[k].op
    BY <1>1, <1>2, <1>3
  <2>2. p[Len(q) + 1].id \in 1..Len(Q) /\ Q[p[Len(q) + 1].id] = p[Len(q) + 1].op
    BY <1>1, <1>2
  <2>3. QED
    BY <1>2, <2>1, <2>2
<1>5. InOrder(p)
  <2> SUFFICES ASSUME NEW j \in 1..Len(p), NEW k \in 1..Len(p), j < k PROVE p[j].id < p[k].id
    BY DEF InOrder
  <2>1. j \in 1..Len(q)
    BY <1>2
  <2>2. CASE k \in 1..Len(q)
    BY <1>2, <2>1, <2>2 DEF QueuedAs, InOrder
  <2>3. CASE k = Len(q) + 1
    <3>1. p[j].id \in 1..Len(R) /\ p[k].id = Len(R) + 1
      BY <1>2, <1>3, <2>1, <2>3
    <3>2. QED
      BY <1>1, <3>1
  <2>4. QED
    BY <1>2, <2>2, <2>3
<1>6. QED
  BY <1>4, <1>5 DEF QueuedAs, p, Q

\* Said to, or queued by, one who was there to hear it.
LEMMA OnceSaid ==
  ASSUME NEW h, NEW s, NEW t, NEW S, NEW R \in Seq(S), NEW m, m.id = Len(R) + 1,
         Once(h, s, R), Says(h, s, t, m), LoadersKept(s, t)
  PROVE  Once(h, t, Append(R, m.op))
<1> DEFINE Q == Append(R, m.op)
           n == Len(R) + 1
<1>1. /\ Len(Q) = n /\ Len(R) \in Nat /\ n \notin 1..Len(R)
      /\ 1..n = (1..Len(R)) \cup {n}
  BY AppendFacts
<1>2. \A i \in 1..Len(R) : Kept(Q, i) => Kept(R, i)
  BY KeptBefore
<1>3. \A q : QueuedAs(q, R) => QueuedAs(q, Q)
  BY QueuedBefore
<1> HIDE DEF Q
<1>4. Said(h, s, n) = {}
  BY <1>1 DEF Once
<1>5. \A i : i # n => Said(h, t, i) = Said(h, s, i)
  BY DEF Says
<1>6. AtMostOne(Said(h, t, n))
  BY <1>4 DEF Says
<1>7. \A d \in DOMAIN t.m_loading : QueuedAs(t.m_loading[d].queue, Q)
  <2> SUFFICES ASSUME NEW d \in DOMAIN t.m_loading PROVE QueuedAs(t.m_loading[d].queue, Q)
    OBVIOUS
  <2>1. CASE t.m_loading[d].queue = <<>>
    <3>1. Len(t.m_loading[d].queue) = 0
      BY <2>1
    <3>2. QED
      BY <3>1 DEF QueuedAs, InOrder
  <2>2. CASE d \in DOMAIN s.m_loading /\ t.m_loading[d].queue = s.m_loading[d].queue
    BY <1>3, <2>2 DEF Once
  <2>3. QED
    BY <2>1, <2>2 DEF LoadersKept
<1>8. \A i : IsQueued(t, i) => IsQueued(s, i) /\ i \in 1..Len(R)
  <2> SUFFICES ASSUME NEW d \in DOMAIN t.m_loading, NEW k \in 1..Len(t.m_loading[d].queue)
               PROVE  /\ IsQueued(s, t.m_loading[d].queue[k].id)
                      /\ t.m_loading[d].queue[k].id \in 1..Len(R)
    BY DEF IsQueued
  <2>1. t.m_loading[d].queue # <<>>
    <3>1. Len(t.m_loading[d].queue) # 0
      OBVIOUS
    <3>2. QED
      BY <3>1
  <2>2. d \in DOMAIN s.m_loading /\ t.m_loading[d].queue = s.m_loading[d].queue
    BY <2>1 DEF LoadersKept
  <2>3. QED
    BY <2>2 DEF IsQueued, Once, QueuedAs
<1>9. \A i : Said(h, t, i) # {} => i \in 1..Len(Q)
  BY <1>1, <1>5 DEF Once
<1>10. \A i \in 1..Len(Q) : Kept(Q, i) =>
         AtMostOne(Said(h, t, i)) /\ (IsQueued(t, i) => Said(h, t, i) = {})
  BY <1>1, <1>2, <1>5, <1>6, <1>8 DEF Once
<1>11. IsSeq(h) /\ IsSeq(t.told)
  BY DEF Once, Says
<1> HIDE DEF n
<1>12. Once(h, t, Q)
  BY <1>7, <1>9, <1>10, <1>11 DEF Once
<1>13. QED
  BY <1>12 DEF Q

LEMMA OnceQueued ==
  ASSUME NEW h, NEW s, Typed(s), NEW S, NEW R \in Seq(S), NEW m, m.id = Len(R) + 1,
         Once(h, s, R), IsLoading(s, m.op.doid)
  PROVE  Once(h, LoaderQueue(s, m), Append(R, m.op))
<1> DEFINE d == m.op.doid
           q == s.m_loading[d].queue
           t == [s EXCEPT !.m_loading[d].queue = Append(@, m)]
           Q == Append(R, m.op)
           n == Len(R) + 1
<1>1. /\ Len(Q) = n /\ Len(R) \in Nat /\ n \notin 1..Len(R)
      /\ 1..n = (1..Len(R)) \cup {n}
  BY AppendFacts
<1>2. \A i \in 1..Len(R) : Kept(Q, i) => Kept(R, i)
  BY KeptBefore
<1>3. /\ DOMAIN s = ServerFields /\ d \in DOMAIN s.m_loading /\ s.m_loading[d] \in Loaders
  BY DEF Typed, IsLoading
<1>4. q \in Seq(Messages) /\ QueuedAs(q, R)
  BY <1>3 DEF Loaders, Once
<1>5. CASE m.op.kind = "activate"
  <2>1. LoaderQueue(s, m) = s
    BY <1>5 DEF LoaderQueue
  <2>2. LoadersKept(s, s)
    BY LoadersSame
  <2>3. Says(h, s, s, m)
    BY NoneAtMostOne DEF Says, Once
  <2>4. QED
    BY <2>1, <2>2, <2>3, OnceSaid
<1>6. CASE m.op.kind # "activate"
  <2>1. LoaderQueue(s, m) = t
    BY <1>6 DEF LoaderQueue
  <2>2. /\ t.told = s.told /\ t.m_context_datagrams = s.m_context_datagrams
        /\ DOMAIN t.m_loading = DOMAIN s.m_loading
        /\ t.m_loading[d].queue = Append(q, m)
        /\ \A x \in DOMAIN s.m_loading : x # d => t.m_loading[x] = s.m_loading[x]
    BY <1>3 DEF ServerFields, Loaders
  <2> HIDE DEF t
  <2>3. \A i : Said(h, t, i) = Said(h, s, i)
    BY <2>2 DEF Said, ToldAt, AskedBy
  <2>4. QueuedAs(Append(q, m), Q)
    <3> HIDE DEF q
    <3>1. QED
      BY <1>4, QueuedNow
  <2>5. /\ Len(Append(q, m)) = Len(q) + 1 /\ Append(q, m)[Len(q) + 1] = m
        /\ \A k \in 1..Len(q) : Append(q, m)[k] = q[k]
        /\ 1..(Len(q) + 1) = (1..Len(q)) \cup {Len(q) + 1}
    <3> HIDE DEF q
    <3>1. QED
      BY <1>4, AppendFacts
  <2>6. \A p : QueuedAs(p, R) => QueuedAs(p, Q)
    BY QueuedBefore
  <2> HIDE DEF Q
  <2>7. \A x \in DOMAIN t.m_loading : QueuedAs(t.m_loading[x].queue, Q)
    BY <2>2, <2>4, <2>6 DEF Once
  <2>8. \A i : IsQueued(t, i) => IsQueued(s, i) \/ i = n
    <3> SUFFICES ASSUME NEW x \in DOMAIN t.m_loading, NEW k \in 1..Len(t.m_loading[x].queue)
                 PROVE  IsQueued(s, t.m_loading[x].queue[k].id) \/ t.m_loading[x].queue[k].id = n
      BY DEF IsQueued
    <3>1. CASE x # d
      BY <2>2, <3>1 DEF IsQueued
    <3>2. CASE x = d /\ k \in 1..Len(q)
      <4>1. t.m_loading[x].queue[k] = s.m_loading[d].queue[k]
        BY <2>2, <2>5, <3>2
      <4>2. QED
        BY <1>3, <3>2, <4>1 DEF IsQueued
    <3>3. CASE x = d /\ k = Len(q) + 1
      <4>1. t.m_loading[x].queue[k] = m
        BY <2>2, <2>5, <3>3
      <4>2. QED
        BY <4>1
    <3>4. x = d => k \in 1..Len(q) \/ k = Len(q) + 1
      <4>1. Len(t.m_loading[d].queue) = Len(q) + 1
        BY ONLY <2>2, <2>5
      <4>2. x = d => k \in 1..(Len(q) + 1)
        BY <4>1
      <4>3. QED
        BY ONLY <2>5, <4>2
    <3>5. QED
      BY <3>1, <3>2, <3>3, <3>4
  <2>9. Said(h, s, n) = {}
    BY <1>1 DEF Once
  <2> HIDE DEF n
  <2>10. \A i \in 1..Len(Q) : Kept(Q, i) =>
           AtMostOne(Said(h, t, i)) /\ (IsQueued(t, i) => Said(h, t, i) = {})
    BY <1>1, <1>2, <2>3, <2>8, <2>9, NoneAtMostOne DEF Once, Q
  <2>11. \A i : Said(h, t, i) # {} => i \in 1..Len(Q)
    BY <1>1, <2>3 DEF Once, Q
  <2>12. Once(h, t, Q)
    BY <2>2, <2>7, <2>10, <2>11 DEF Once
  <2>13. QED
    BY <2>1, <2>12 DEF Q
<1>7. QED
  BY <1>5, <1>6

\* A datagram for an object that is not loading: the object or the server answers.
LEMMA OneSays ==
  ASSUME NEW h, IsSeq(h), NEW s, NEW E, NEW Y, Fine(s, E, {}, Y), IsSeq(s.told), NEW m \in Messages,
         NEW t, \/ t = ObjectHandle(HandleDatagram(s, m), m)
                \/ t = HandleDatagram(ObjectHandle(s, m), m)
  PROVE  Says(h, s, t, m) /\ LoadersKept(s, t)
<1> DEFINE d == m.op.doid
           a == HandleDatagram(s, m)
           b == ObjectHandle(s, m)
<1>1. Typed(s) /\ DOMAIN s = ServerFields /\ s.m_objs \in [Doid -> Loaded \cup {Missing}]
  BY DEF Fine, Typed
<1>2. Says(h, s, a, m) /\ a.m_objs = s.m_objs
  BY <1>1, ServerSays
<1>3. LoadersKept(s, a)
  BY <1>1, ServerKeeps
<1>4. /\ Says(h, s, b, m)
      /\ m.op.kind \notin Getting \/ s.m_objs[d] = Missing => Silent(h, s, b)
      /\ s.m_objs[d] # Missing /\ m.op.kind # "delete_ram" => b.m_objs[d] # Missing
  BY <1>1, ObjectSays
<1>5. Handled(s, b, d)
  BY <1>1, ObjectHandles
<1>6. Fine(b, E, {}, Y)
  BY FineObject
<1>7. CASE IsActive(s, d) /\ m.op.kind \in Getting
  <2>1. a = s
    BY <1>7, ActiveIgnores
  <2>2. m.op.kind # "delete_ram" /\ s.m_objs[d] # Missing
    BY <1>7 DEF Getting, IsActive
  <2>3. IsActive(b, d)
    BY <1>4, <2>2 DEF IsActive
  <2>4. HandleDatagram(b, m) = b
    <3> HIDE DEF b
    <3>1. QED
      BY <1>7, <2>3, ActiveIgnores
  <2>5. t = b
    BY <2>1, <2>4
  <2>6. b.m_loading = s.m_loading
    BY <1>5 DEF Handled, Same, ServerFields
  <2> HIDE DEF b
  <2>7. QED
    BY <1>4, <2>5, <2>6, LoadersSame
<1>8. CASE ~IsActive(s, d) \/ m.op.kind \notin Getting
  <2>1. m.op.kind \notin Getting \/ s.m_objs[d] = Missing
    BY <1>8 DEF IsActive
  <2>2. CASE t = ObjectHandle(a, m)
    <3>1. DOMAIN a = ServerFields /\ a.m_objs \in [Doid -> Loaded \cup {Missing}]
      <4>1. Fine(a, E, {}, Y)
        BY FineDatagram
      <4>2. QED
        BY <4>1 DEF Fine, Typed
    <3>2. IsSeq(a.told)
      BY <1>2 DEF Says
    <3> HIDE DEF a
    <3>3. Silent(h, a, t)
      BY <1>2, <2>1, <2>2, <3>1, <3>2, ObjectSays
    <3>4. Says(h, s, t, m)
      BY <1>2, <3>3, SaysThenSilent
    <3>5. Handled(a, t, d)
      BY <2>2, <3>1, ObjectHandles
    <3>6. t.m_loading = a.m_loading
      BY <3>5 DEF Handled, Same, ServerFields
    <3>7. QED
      BY <1>3, <3>4, <3>6 DEF LoadersKept
  <2>3. CASE t = HandleDatagram(b, m)
    <3>1. Silent(h, s, b) /\ b.m_loading = s.m_loading
      BY <1>4, <1>5, <2>1 DEF Handled, Same, ServerFields
    <3>2. Typed(b) /\ DOMAIN b = ServerFields /\ IsSeq(b.told)
      BY <1>6, <3>1 DEF Fine, Typed, Silent
    <3> HIDE DEF b
    <3>3. Says(h, b, t, m) /\ LoadersKept(b, t)
      BY <2>3, <3>2, ServerSays, ServerKeeps
    <3>4. Says(h, s, t, m)
      BY <3>1, <3>3, SilentThenSays
    <3>5. QED
      BY <3>1, <3>3, <3>4 DEF LoadersKept
  <2>4. QED
    BY <2>2, <2>3
<1>9. QED
  BY <1>7, <1>8
LEMMA HeardNothing ==
  ASSUME NEW q, IsSeq(q)
  PROVE  q \o <<>> = q
<1>1. PICK S : q \in Seq(S)
  BY DEF IsSeq
<1>2. QED
  BY <1>1

LEMMA HeardAll ==
  ASSUME NEW q, NEW r, IsSeq(q), IsSeq(r)
  PROVE  IsSeq(q \o r)
<1>1. PICK S : q \in Seq(S)
  BY DEF IsSeq
<1>2. PICK T : r \in Seq(T)
  BY DEF IsSeq
<1> DEFINE W == S \cup T
<1>3. q \in Seq(W) /\ r \in Seq(W)
  BY <1>1, <1>2
<1> HIDE DEF W
<1>4. q \o r \in Seq(W)
  BY <1>3
<1>5. QED
  BY <1>4 DEF IsSeq

\* What a handler answered is told.
LEMMA BecomeOnce ==
  ASSUME NEW s, DOMAIN s = ServerFields, NEW R, Once(told, s, R), Become(s)
  PROVE  Once(told', dbss', R)
<1>1. dbss' = [s EXCEPT !.routed = <<>>, !.told = <<>>] /\ told' = told \o s.told
  BY DEF Become
<1> DEFINE t == dbss'
<1>2. /\ t.told = <<>> /\ t.m_loading = s.m_loading /\ t.m_context_datagrams = s.m_context_datagrams
  BY <1>1 DEF ServerFields
<1> HIDE DEF t
<1>3. IsSeq(told') /\ IsSeq(t.told)
  <2>1. IsSeq(told) /\ IsSeq(s.told)
    BY DEF Once
  <2>2. IsSeq(<<>>)
    <3>1. <<>> \in Seq({})
      OBVIOUS
    <3>2. QED
      BY <3>1 DEF IsSeq
  <2>3. QED
    BY <1>1, <1>2, <2>1, <2>2, HeardAll
<1>4. told' \o t.told = told \o s.told
  BY <1>1, <1>2, <1>3, HeardNothing
<1>5. \A i : Said(told', t, i) = Said(told, s, i)
  BY <1>2, <1>4 DEF Said, ToldAt, AskedBy
<1>6. \A i : IsQueued(t, i) <=> IsQueued(s, i)
  BY <1>2 DEF IsQueued
<1>7. Once(told', t, R)
  BY <1>2, <1>3, <1>5, <1>6 DEF Once
<1>8. QED
  BY <1>7 DEF t

LEMMA InitOnce == Init => OnceInv
<1> SUFFICES ASSUME Init PROVE OnceInv
  OBVIOUS
<1>1. /\ request = <<>> /\ dbss = NewServer /\ told = <<>>
  BY DEF Init
<1>2. /\ dbss.m_loading = Nothing /\ dbss.m_context_datagrams = Nothing /\ dbss.told = <<>>
  BY <1>1 DEF NewServer
<1>3. DOMAIN Nothing = {}
  BY DEF Nothing
<1>4. IsSeq(told) /\ IsSeq(dbss.told)
  <2>1. <<>> \in Seq({})
    OBVIOUS
  <2>2. QED
    BY <1>1, <1>2, <2>1 DEF IsSeq
<1>5. told \o dbss.told = told
  BY <1>2, <1>4, HeardNothing
<1>6. \A i : Said(told, dbss, i) = {}
  <2>1. Len(told) = 0
    BY <1>1
  <2>2. \A i : ToldAt(told, dbss, i) = {}
    BY <1>5, <2>1 DEF ToldAt
  <2>3. \A i : AskedBy(dbss, i) = {}
    BY <1>2, <1>3 DEF AskedBy
  <2>4. QED
    BY <2>2, <2>3 DEF Said
<1>7. QED
  BY <1>2, <1>3, <1>4, <1>6, NoneAtMostOne DEF OnceInv, Once

LEMMA ReceiveOnce ==
  ASSUME IInv, OnceInv, NEW op \in scenario.requests, Receive(op)
  PROVE  OnceInv'
<1> DEFINE m == [id |-> Len(request) + 1, op |-> op]
           d == m.op.doid
<1>1. op \in AllRequests /\ request' = Append(request, op)
  BY DEF IInv, Receive, AllRequests
<1>2. request \in Seq(AllRequests) /\ Len(request) \in Nat
  BY DEF IInv
<1>3. m \in Messages /\ m.id = Len(request) + 1 /\ m.op = op
  BY <1>1, <1>2 DEF Messages, AllRequests
<1>4. PICK s : Become(s) /\ (\/ s = HandleByParticipant(HandleDatagram(dbss, m), m)
                             \/ s = HandleDatagram(HandleByParticipant(dbss, m), m))
  BY DEF Receive
<1> HIDE DEF m
<1>5. Fine(dbss, OnTheWay, {}, {}) /\ Typed(dbss)
  BY DEF IInv, Fine
<1>6. Once(told, dbss, request) /\ IsSeq(told) /\ IsSeq(dbss.told)
  BY DEF OnceInv, Once
<1>7. Once(told, s, request') /\ DOMAIN s = ServerFields
  <2>1. CASE IsLoading(dbss, d)
    <3>1. \A x : HandleByParticipant(x, m) = LoaderQueue(x, m)
      BY <2>1, Zenon DEF HandleByParticipant
    <3>2. HandleDatagram(dbss, m) = dbss
      BY <2>1, LoadingIgnores
    <3>3. Fine(LoaderQueue(dbss, m), OnTheWay, {}, {})
      BY <1>3, <1>5, <2>1, FineQueue
    <3>4. IsLoading(LoaderQueue(dbss, m), d)
      BY <1>5, <2>1 DEF IsLoading, LoaderQueue, Typed, ServerFields
    <3>5. HandleDatagram(LoaderQueue(dbss, m), m) = LoaderQueue(dbss, m)
      BY <3>4, LoadingIgnores
    <3>6. s = LoaderQueue(dbss, m)
      BY <1>4, <3>1, <3>2, <3>5
    <3>7. Once(told, LoaderQueue(dbss, m), Append(request, m.op))
      BY <1>2, <1>3, <1>5, <1>6, <2>1, OnceQueued
    <3>8. QED
      BY <1>1, <1>3, <3>3, <3>6, <3>7 DEF Fine, Typed
  <2>2. CASE ~IsLoading(dbss, d)
    <3>1. \/ s = ObjectHandle(HandleDatagram(dbss, m), m)
          \/ s = HandleDatagram(ObjectHandle(dbss, m), m)
      <4>1. CASE IsActive(dbss, d)
        <5>1. \A x : HandleByParticipant(x, m) = ObjectHandle(x, m)
          BY <2>2, <4>1, Zenon DEF HandleByParticipant
        <5>2. QED
          BY <1>4, <5>1
      <4>2. CASE ~IsActive(dbss, d)
        <5>1. \A x : HandleByParticipant(x, m) = x
          BY <2>2, <4>2, Zenon DEF HandleByParticipant
        <5>2. s = HandleDatagram(dbss, m)
          BY <1>4, <5>1
        <5>3. ObjectHandle(dbss, m) = dbss
          BY <4>2 DEF ObjectHandle, IsActive
        <5>4. QED
          BY <5>2, <5>3
      <4>3. QED
        BY <4>1, <4>2
    <3>2. Says(told, dbss, s, m) /\ LoadersKept(dbss, s)
      BY <1>3, <1>5, <1>6, <3>1, OneSays
    <3>3. Once(told, s, Append(request, m.op))
      BY <1>2, <1>3, <1>6, <3>2, OnceSaid
    <3>4. Fine(s, OnTheWay, {}, {})
      <4>1. Fine(ObjectHandle(HandleDatagram(dbss, m), m), OnTheWay, {}, {})
        BY <1>3, <1>5, FineDatagram, FineObject
      <4>2. Fine(HandleDatagram(ObjectHandle(dbss, m), m), OnTheWay, {}, {})
        BY <1>3, <1>5, FineDatagram, FineObject
      <4>3. QED
        BY <3>1, <4>1, <4>2
    <3>5. QED
      BY <1>1, <1>3, <3>3, <3>4 DEF Fine, Typed
  <2>3. QED
    BY <2>1, <2>2
<1>8. QED
  BY <1>4, <1>7, BecomeOnce DEF OnceInv

LEMMA AnswerOnce ==
  ASSUME IInv, OnceInv, ReceiveAnswer
  PROVE  OnceInv'
<1> DEFINE r == Head(back)
           c == r.context
           F == Entries(db) \cup Given(Tail(back))
<1>1. /\ back # <<>> /\ request' = request
      /\ \E s : Become(s) /\ (\/ s = LoaderReceive(HandleResponse(dbss, r), r)
                              \/ s = HandleResponse(LoaderReceive(dbss, r), r))
  BY DEF ReceiveAnswer
<1>2. PICK s : Become(s) /\ (\/ s = LoaderReceive(HandleResponse(dbss, r), r)
                             \/ s = HandleResponse(LoaderReceive(dbss, r), r))
  BY <1>1
<1>3. /\ Fine(dbss, F, {c}, {c}) /\ Takes(dbss, c, r.doid, r.type) /\ GoodAnswer(r)
  BY <1>1, AnswerComes
<1> HIDE DEF r
<1>4. Once(told, dbss, request) /\ IsSeq(told) /\ IsSeq(dbss.told) /\ Len(request) \in Nat
  BY DEF OnceInv, Once, IInv
<1>5. Once(told, s, request) /\ DOMAIN s = ServerFields
  <2>1. CASE s = LoaderReceive(HandleResponse(dbss, r), r)
    <3> DEFINE t == HandleResponse(dbss, r)
    <3>1. Fine(t, F, {}, {c}) /\ t.m_loading = dbss.m_loading
      BY <1>3, FineResponse
    <3>2. Lessens(told, dbss, t)
      BY <1>3, <1>4, ResponseLessens DEF Fine, Orderly
    <3>3. s = LoaderReceive(t, r)
      BY <2>1
    <3> HIDE DEF t, F
    <3>4. Once(told, t, request)
      BY <1>4, <3>2, OnceLessens
    <3>5. Takes(t, c, r.doid, r.type)
      BY <1>3, <3>1 DEF Takes
    <3>6. Once(told, s, request)
      BY <1>3, <1>4, <3>1, <3>3, <3>4, <3>5, OnceLoader
    <3>7. Fine(s, F, {}, {})
      BY <1>3, <3>1, <3>3, <3>5, FineLoader
    <3>8. QED
      BY <3>6, <3>7 DEF Fine, Typed
  <2>2. CASE s = HandleResponse(LoaderReceive(dbss, r), r)
    <3> DEFINE t == LoaderReceive(dbss, r)
    <3> HIDE DEF F
    <3>1. Fine(t, F, {c}, {})
      BY <1>3, FineLoader
    <3>2. Once(told, t, request)
      BY <1>3, <1>4, OnceLoader
    <3>3. s = HandleResponse(t, r)
      BY <2>2
    <3> HIDE DEF t
    <3>4. IsSeq(t.told)
      BY <3>2 DEF Once
    <3>5. Lessens(told, t, s)
      BY <1>4, <3>1, <3>3, <3>4, ResponseLessens DEF Fine, Orderly
    <3>6. Fine(s, F, {}, {})
      BY <3>1, <3>3, FineResponse
    <3>7. QED
      BY <3>2, <3>5, <3>6, OnceLessens DEF Fine, Typed
  <2>3. QED
    BY <1>2, <2>1, <2>2
<1>6. QED
  BY <1>1, <1>2, <1>5, BecomeOnce DEF OnceInv

LEMMA NextOnce ==
  ASSUME IInv, OnceInv, [Next]_vars
  PROVE  OnceInv'
<1>1. CASE UNCHANGED <<request, dbss, told>>
  BY <1>1 DEF OnceInv
<1>2. CASE UNCHANGED vars
  BY <1>1, <1>2 DEF vars
<1>3. CASE \E op \in scenario.requests : Receive(op)
  BY <1>3, ReceiveOnce
<1>4. CASE \E k \in 1..Len(db) : RunOperation(k)
  BY <1>1, <1>4 DEF RunOperation
<1>5. CASE ReceiveAnswer
  BY <1>5, AnswerOnce
<1>6. QED
  BY <1>2, <1>3, <1>4, <1>5 DEF Next, Work

LEMMA OnceAnswered ==
  ASSUME IInv, OnceInv
  PROVE  AnsweredOnce
<1> SUFFICES ASSUME NEW j \in 1..Len(told), NEW k \in 1..Len(told), j # k, told[j][1] = told[k][1]
             PROVE  \E i \in (told[j][1] + 1)..Len(request) :
                      request[i].kind = "delete_ram" /\ request[i].doid = request[told[j][1]].doid
  BY DEF AnsweredOnce
<1> DEFINE n == told[j][1]
<1>1. told \o dbss.told = told
  BY HeardNothing DEF IInv, OnceInv, Once
<1>2. j \in ToldAt(told, dbss, n) /\ k \in ToldAt(told, dbss, n)
  BY <1>1 DEF ToldAt
<1> HIDE DEF n
<1>3. <<"told", j>> \in Said(told, dbss, n) /\ <<"told", k>> \in Said(told, dbss, n)
  BY <1>2 DEF Said
<1>4. ~AtMostOne(Said(told, dbss, n))
  <2>1. <<"told", j>> # <<"told", k>>
    OBVIOUS
  <2>2. QED
    BY <1>3, <2>1 DEF AtMostOne
<1>5. n \in 1..Len(request)
  BY <1>3 DEF OnceInv, Once
<1>6. ~Kept(request, n)
  BY <1>4, <1>5 DEF OnceInv, Once
<1>7. QED
  BY <1>6 DEF Kept, n

(* A question is answered once, unless the object was unloaded after it came: *)
(* what the object answers when a loader replays its queue, the server does   *)
(* not answer again when the queue is forwarded to it.                        *)
THEOREM QuestionsAnsweredOnce == Spec => []AnsweredOnce
<1>1. Init => IInv /\ OnceInv
  BY InitIInv, InitOnce
<1>2. (IInv /\ OnceInv) /\ [Next]_vars => (IInv /\ OnceInv)'
  BY NextIInv, NextOnce
<1>3. IInv /\ OnceInv => AnsweredOnce
  BY OnceAnswered
<1>4. QED
  BY <1>1, <1>2, <1>3, PTL DEF Spec
=============================================================================
