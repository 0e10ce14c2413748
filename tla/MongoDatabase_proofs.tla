------------------------- MODULE MongoDatabase_proofs -------------------------
(***************************************************************************)
(* For every set of objects, fields and requests: is_independent_of is     *)
(* symmetric and independent operations commute; and the scheduling        *)
(* guarantees of DatabaseServer, by the inductive invariant IInv.          *)
(*                                                                         *)
(* The MongoDB backend, for any number of threads, objects, requests and   *)
(* failing calls: it is a backend of the scheduler, so what is proved of   *)
(* DatabaseServer holds of it; it never hands out a doid that is in use; its *)
(* threads are together a serial database, and what they answer is what    *)
(* happened.                                                               *)
(***************************************************************************)
EXTENDS MongoDatabase, SequenceTheorems, TLAPS

(* DBOperation.h:139: "this relation must also be symmetric".  The overrides *)
(* delegate to one another so that each pair of types is decided in one      *)
(* place.                                                                    *)
THEOREM IndependenceIsSymmetric ==
  ASSUME NEW a \in Operation, NEW b \in Operation
  PROVE  IsIndependentOf(a, b) <=> IsIndependentOf(b, a)
<1> DEFINE ca == Changes(a)
           cb == Changes(b)
           ka == Criteria(a)
           kb == Criteria(b)
           ra == Reads(a)
           rb == Reads(b)
<1>1. /\ a.type \in OperationType
      /\ b.type \in OperationType
  BY DEF Operation
<1>2. /\ (ca \cap cb = {}) <=> (cb \cap ca = {})
      /\ (ca \cap (cb \cup kb) = {}) <=> (ca \cap cb = {} /\ ca \cap kb = {})
      /\ (cb \cap (ca \cup ka) = {}) <=> (cb \cap ca = {} /\ cb \cap ka = {})
  OBVIOUS
<1> HIDE DEF ca, cb, ka, kb, ra, rb
<1>3. CASE a.doid # b.doid
  BY <1>3 DEF IsIndependentOf
<1>4. CASE a.doid = b.doid
  BY <1>1, <1>2, <1>4 DEF IsIndependentOf, GetIndependentOf, SetIndependentOf,
     UpdateIndependentOf, Gets, Writes, OperationType, ca, cb, ka, kb, ra, rb
<1>5. QED
  BY <1>3, <1>4

-----------------------------------------------------------------------------
(* What an operation that writes fields outside S leaves of x on S.          *)
LEMMA EffectOutside ==
  ASSUME NEW a \in Operation, NEW x \in Object,
         NEW S \in SUBSET Field, a.type # "DELETE_OBJECT", S \cap Changes(a) = {}
  PROVE  /\ Effect(a, x) \in Object
         /\ \A h \in S : Effect(a, x)[h] = x[h]
<1>1. Effect(a, x) = x \/ Effect(a, x) = Modified(a, x)
  BY DEF Effect
<1>2. \A h \in S : Modified(a, x)[h] = x[h]
  BY DEF Modified
<1>3. \A h \in Changes(a) : a.set_fields[h] \in Stored
  BY DEF Operation, FieldValues, Changes
<1>4. Modified(a, x) \in Object
  BY <1>3 DEF Modified, Object
<1>5. QED
  BY <1>1, <1>2, <1>4

(* Running an operation that b is independent of does not change what b      *)
(* will find.                                                                *)
LEMMA UnaffectedBy ==
  ASSUME NEW a \in Operation, NEW b \in Operation, NEW x \in Object,
         a.doid = b.doid, IsIndependentOf(a, b),
         a.type # "DELETE_OBJECT", b.type # "DELETE_OBJECT"
  PROVE  /\ Outcome(b, Effect(a, x)) = Outcome(b, x)
         /\ Matches(b, Effect(a, x)) <=> Matches(b, x)
<1> DEFINE y == Effect(a, x)
<1>0. /\ b.type \in OperationType /\ a.type \in OperationType
      /\ Criteria(b) \subseteq Field /\ Reads(b) \subseteq Field
  BY DEF Operation, FieldValues, Criteria, Reads
<1>1. /\ x # Missing
      /\ y # Missing
  <2>1. {} \in SUBSET Field /\ {} \cap Changes(a) = {}
    OBVIOUS
  <2>2. y \in Object
    BY <2>1, EffectOutside
  <2>3. QED
    BY <2>2, DBOperationAssumption DEF Object, Stored
<1>2. CASE ~Writes(a)
  <2>1. y = x
    BY <1>2 DEF Effect
  <2>2. QED
    BY <2>1
<1>3. CASE Writes(a) /\ b.type = "GET_FIELDS"
  <2>1. Reads(b) \cap Changes(a) = {}
    BY <1>3 DEF IsIndependentOf, Writes, Gets, GetIndependentOf, SetIndependentOf, UpdateIndependentOf
  <2>2. \A h \in Reads(b) \cap Class : y[h] = x[h]
    BY <2>1, <1>0, EffectOutside
  <2>3. Snapshot(Reads(b) \cap Class, y) = Snapshot(Reads(b) \cap Class, x)
    BY <2>2 DEF Snapshot
  <2>4. QED
    BY <1>1, <1>3, <2>3 DEF Outcome, Matches
<1>4. CASE Writes(a) /\ b.type = "GET_OBJECT"
  BY <1>4 DEF IsIndependentOf, Writes, Gets, GetIndependentOf, SetIndependentOf, UpdateIndependentOf
<1>5. CASE Writes(a) /\ b.type = "SET_FIELDS"
  BY <1>1, <1>5 DEF Outcome, Matches
<1>6. CASE Writes(a) /\ b.type = "UPDATE_FIELDS"
  <2>1. Criteria(b) \cap Changes(a) = {}
    BY <1>6 DEF IsIndependentOf, Writes, Gets, GetIndependentOf, SetIndependentOf, UpdateIndependentOf
  <2>2. \A h \in Criteria(b) : y[h] = x[h]
    BY <2>1, <1>0, EffectOutside
  <2>3. CriteriaMet(b, y) <=> CriteriaMet(b, x)
    BY <2>2 DEF CriteriaMet
  <2>4. Mismatch(Criteria(b), y) = Mismatch(Criteria(b), x)
    BY <2>2 DEF Mismatch
  <2>5. QED
    BY <1>1, <1>6, <2>3, <2>4 DEF Outcome, Matches
<1>7. QED
  BY <1>0, <1>2, <1>3, <1>4, <1>5, <1>6 DEF OperationType

(* DBOperation.h:128-132: independent operations may run in parallel,        *)
(* because neither affects the outcome of the other and their order is       *)
(* unimportant.                                                              *)
THEOREM IndependentCommute ==
  ASSUME NEW a \in Operation, NEW b \in Operation, a.doid = b.doid,
         IsIndependentOf(a, b), NEW x \in Object \cup {Missing}
  PROVE  Commute(a, b, x)
<1>1. CASE x = Missing
  BY <1>1 DEF Commute, Effect, Outcome, Matches
<1>2. CASE x \in Object
  <2>1. /\ a.type # "DELETE_OBJECT"
        /\ b.type # "DELETE_OBJECT"
    BY IndependenceIsSymmetric DEF IsIndependentOf, Gets
  <2>2. /\ a.type \in OperationType /\ Criteria(a) \subseteq Field /\ Reads(a) \subseteq Field
        /\ b.type \in OperationType /\ Criteria(b) \subseteq Field /\ Reads(b) \subseteq Field
    BY DEF Operation, FieldValues, Criteria, Reads
  <2>3. IsIndependentOf(b, a)
    BY IndependenceIsSymmetric
  <2>4. /\ Outcome(b, Effect(a, x)) = Outcome(b, x)
        /\ Matches(b, Effect(a, x)) <=> Matches(b, x)
    BY <1>2, <2>1, <2>2, UnaffectedBy
  <2>5. /\ Outcome(a, Effect(b, x)) = Outcome(a, x)
        /\ Matches(a, Effect(b, x)) <=> Matches(a, x)
    BY <1>2, <2>1, <2>2, <2>3, UnaffectedBy
  <2>6. Effect(a, Effect(b, x)) = Effect(b, Effect(a, x))
    <3>1. CASE ~Writes(a)
      BY <3>1, <2>1 DEF Effect
    <3>2. CASE ~Writes(b)
      BY <3>2, <2>1 DEF Effect
    <3>3. CASE Writes(a) /\ Writes(b)
      <4>1. Changes(a) \cap Changes(b) = {}
        BY <3>3 DEF IsIndependentOf, Writes, Gets, SetIndependentOf, UpdateIndependentOf
      <4>2. Modified(a, Modified(b, x)) = Modified(b, Modified(a, x))
        BY <4>1, Zenon DEF Modified
      <4>3. QED
        BY <4>2, <2>1, <2>4, <2>5 DEF Effect
    <3>4. QED
      BY <3>1, <3>2, <3>3
  <2>7. QED
    BY <2>4, <2>5, <2>6 DEF Commute
<1>3. QED
  BY <1>1, <1>2

-----------------------------------------------------------------------------
(* The scheduler.                                                            *)

LEMMA RequestsAreOperations ==
  /\ \A op \in Requests : op \in Operation
  /\ \A op \in Malformed : op \in Operation
BY DatabaseServerAssumption

LEMMA InitIInv == Init => IInv
BY DEF Init, IInv, TypeOK, Received, Accounted, QueueInArrivalOrder,
       SubmittedIsRunning, RunningIndependent, NothingStuck

(* A new id is larger than every id in the system, and appending a request   *)
(* keeps the requests received before.                                       *)
LEMMA Arrival ==
  ASSUME TypeOK, NEW op \in Operation, request' = Append(request, op)
  PROVE  /\ request' \in Seq(Operation)
         /\ Len(request') = Len(request) + 1
         /\ Received' = Received \cup {Len(request) + 1}
         /\ request'[Len(request) + 1] = op
         /\ \A i \in Received : request'[i] = request[i]
         /\ Received \subseteq Nat
BY DEF TypeOK, Received

LEMMA SeqFacts ==
  ASSUME NEW S, NEW q \in Seq(S)
  PROVE  /\ Len(q) \in Nat
         /\ \A k \in 1..Len(q) : q[k] \in S
         /\ q # <<>> => Head(q) = q[1] /\ 1 \in 1..Len(q)
         /\ Len(q) = 0 <=> q = <<>>
OBVIOUS

LEMMA HandleOperationStep ==
  ASSUME IInv, NEW op \in Requests, HandleOperation(op)
  PROVE  IInv'
<1> DEFINE i == Len(request) + 1
           d == op.doid
<1>1. op \in Operation /\ d \in Doid
  BY RequestsAreOperations DEF Operation
<1>2. request' = Append(request, op) /\ UNCHANGED <<cleared, dropped>>
  BY DEF HandleOperation
<1>3. /\ request' \in Seq(Operation)
      /\ Len(request') = i
      /\ Received' = Received \cup {i}
      /\ request'[i] = op
      /\ \A r \in Received : request'[r] = request[r]
      /\ Received \subseteq Nat
      /\ i \in Nat /\ i \notin Received /\ \A r \in Received : r < i
  BY <1>1, <1>2, Arrival DEF IInv, TypeOK, Received
<1>4. /\ queue \in [Doid -> Seq(Received)]
      /\ running \in [Doid -> SUBSET Received]
      /\ submitted \subseteq Received
      /\ cleared \subseteq Received
      /\ dropped \subseteq Received
  BY DEF IInv, TypeOK
<1>5. /\ \A e \in Doid : Len(queue[e]) \in Nat
      /\ \A e \in Doid : \A k \in 1..Len(queue[e]) : queue[e][k] \in Received
      /\ \A e \in Doid : \A r \in running[e] : r \in Received
      /\ \A r \in Received : request[r].doid \in Doid
  <2>1. \A e \in Doid : queue[e] \in Seq(Received) /\ running[e] \in SUBSET Received
    BY <1>4
  <2>2. \A e \in Doid : Len(queue[e]) \in Nat
    BY <2>1, SeqFacts
  <2>3. \A e \in Doid : \A k \in 1..Len(queue[e]) : queue[e][k] \in Received
    BY <2>1, SeqFacts
  <2>4. \A r \in Received : request[r] \in Operation
    BY ElementOfSeq DEF IInv, TypeOK, Received
  <2>5. QED
    BY <2>1, <2>2, <2>3, <2>4 DEF Operation
<1>6. d = op.doid
  OBVIOUS
<1> HIDE DEF i, d
<1>a. CASE /\ queue[d] = <<>>
           /\ CanOperationStart(op, running[d])
           /\ running' = [running EXCEPT ![d] = @ \cup {i}]
           /\ submitted' = submitted \cup {i}
           /\ UNCHANGED queue
  <2>0. /\ \A e \in Doid : queue'[e] = queue[e]
        /\ Len(queue[d]) = 0
        /\ \A e \in Doid : running'[e] = IF e = d THEN running[d] \cup {i} ELSE running[e]
    BY <1>1, <1>4, <1>a
  <2>1. TypeOK'
    BY <1>1, <1>2, <1>3, <1>4, <1>a DEF TypeOK
  <2>2. Accounted'
    <3> SUFFICES ASSUME NEW r \in Received'
                 PROVE  \/ r \in cleared' \cup dropped'
                        \/ r \in running'[request'[r].doid]
                        \/ \E k \in 1..Len(queue'[request'[r].doid]) :
                              queue'[request'[r].doid][k] = r
      BY DEF Accounted
    <3>1. CASE r = i
      BY <3>1, <1>1, <1>3, <1>6, <2>0
    <3>2. CASE r \in Received
      <4>1. request'[r] = request[r] /\ request[r].doid \in Doid
        BY <3>2, <1>3, <1>5
      <4>2. \/ r \in cleared \cup dropped
            \/ r \in running[request[r].doid]
            \/ \E k \in 1..Len(queue[request[r].doid]) : queue[request[r].doid][k] = r
        BY <3>2 DEF IInv, Accounted
      <4>3. QED
        BY <4>1, <4>2, <1>2, <2>0
    <3>3. QED
      BY <3>1, <3>2, <1>3
  <2>3. QueueInArrivalOrder'
    <3> SUFFICES ASSUME NEW e \in Doid, NEW k \in 1..Len(queue[e])
                 PROVE  /\ request'[queue[e][k]].doid = e
                        /\ \A m \in 1..(k-1) : queue[e][m] < queue[e][k]
                        /\ \A r \in running'[e] : r < queue[e][k]
      BY <2>0 DEF QueueInArrivalOrder
    <3>1. e # d
      BY <2>0, <1>5
    <3>2. QED
      BY <3>1, <1>3, <1>5, <2>0 DEF IInv, QueueInArrivalOrder
  <2>4. SubmittedIsRunning'
    <3>1. ASSUME NEW e \in Doid, NEW r \in running'[e]
          PROVE  request'[r].doid = e /\ r \in submitted'
      <4>1. CASE r \in running[e]
        BY <4>1, <1>3, <1>5, <1>a DEF IInv, SubmittedIsRunning
      <4>2. CASE r \notin running[e]
        BY <4>2, <3>1, <1>3, <1>6, <1>a, <2>0
      <4>3. QED
        BY <4>1, <4>2
    <3>2. ASSUME NEW r \in submitted'
          PROVE  r \in running'[request'[r].doid]
      BY <3>2, <1>1, <1>3, <1>4, <1>5, <1>6, <1>a, <2>0 DEF IInv, SubmittedIsRunning
    <3>3. QED
      BY <3>1, <3>2 DEF SubmittedIsRunning
  <2>5. RunningIndependent'
    <3>1. \A r \in running[d] : IsIndependentOf(op, request[r]) /\ IsIndependentOf(request[r], op)
      BY <1>1, <1>a, <1>5, IndependenceIsSymmetric DEF CanOperationStart, IInv, TypeOK, Received
    <3>2. QED
      <4> SUFFICES ASSUME NEW e \in Doid, NEW p \in running'[e], NEW q \in running'[e], p # q
                   PROVE  IsIndependentOf(request'[p], request'[q])
        BY DEF RunningIndependent, Independent
      <4>1. CASE p \in running[e] /\ q \in running[e]
        <5>1. IsIndependentOf(request[p], request[q])
          BY <4>1 DEF IInv, RunningIndependent, Independent
        <5>2. QED
          BY <5>1, <4>1, <1>3, <1>5
      <4>2. CASE e = d /\ p = i /\ q \in running[d]
        BY <4>2, <3>1, <1>3, <1>5
      <4>3. CASE e = d /\ q = i /\ p \in running[d]
        BY <4>3, <3>1, <1>3, <1>5
      <4>4. QED
        BY <4>1, <4>2, <4>3, <2>0
  <2>6. NothingStuck'
    <3> SUFFICES ASSUME NEW e \in Doid, queue[e] # <<>>
                 PROVE  \E r \in running'[e] : ~IsIndependentOf(request'[Head(queue[e])], request'[r])
      BY <2>0 DEF NothingStuck, Independent
    <3>1. Head(queue[e]) \in Received
      BY <1>4, SeqFacts
    <3>2. PICK r \in running[e] : ~IsIndependentOf(request[Head(queue[e])], request[r])
      BY DEF IInv, NothingStuck, Independent
    <3>3. r \in running'[e] /\ request'[r] = request[r]
      BY <1>3, <1>5, <2>0
    <3>4. QED
      BY <3>1, <3>2, <3>3, <1>3
  <2>7. QED
    BY <2>1, <2>2, <2>3, <2>4, <2>5, <2>6 DEF IInv
<1>b. CASE /\ ~(queue[d] = <<>> /\ CanOperationStart(op, running[d]))
           /\ queue' = [queue EXCEPT ![d] = Append(@, i)]
           /\ UNCHANGED <<running, submitted>>
  <2>0. /\ \A e \in Doid : e # d => queue'[e] = queue[e]
        /\ queue'[d] = Append(queue[d], i)
        /\ Len(queue'[d]) = Len(queue[d]) + 1
        /\ \A k \in 1..Len(queue[d]) : queue'[d][k] = queue[d][k]
        /\ queue'[d][Len(queue[d]) + 1] = i
        /\ \A e \in Doid : running'[e] = running[e]
    BY <1>1, <1>4, <1>b
  <2>1. TypeOK'
    <3>1. queue' \in [Doid -> Seq(Received')]
      BY <1>1, <1>3, <1>4, <1>b
    <3>2. QED
      BY <1>2, <1>3, <1>4, <1>b, <3>1 DEF TypeOK
  <2>2. Accounted'
    <3> SUFFICES ASSUME NEW r \in Received'
                 PROVE  \/ r \in cleared' \cup dropped'
                        \/ r \in running'[request'[r].doid]
                        \/ \E k \in 1..Len(queue'[request'[r].doid]) :
                              queue'[request'[r].doid][k] = r
      BY DEF Accounted
    <3>1. CASE r = i
      <4>1. Len(queue[d]) + 1 \in 1..Len(queue'[d])
        BY <1>1, <1>5, <2>0
      <4>2. QED
        BY <3>1, <4>1, <1>3, <1>6, <2>0
    <3>2. CASE r \in Received
      <4>1. request'[r] = request[r] /\ request[r].doid \in Doid
        BY <3>2, <1>3, <1>5
      <4>2. \/ r \in cleared \cup dropped
            \/ r \in running[request[r].doid]
            \/ \E k \in 1..Len(queue[request[r].doid]) : queue[request[r].doid][k] = r
        BY <3>2 DEF IInv, Accounted
      <4>3. \A k \in 1..Len(queue[request[r].doid]) :
              /\ k \in 1..Len(queue'[request[r].doid])
              /\ queue'[request[r].doid][k] = queue[request[r].doid][k]
        BY <4>1, <1>1, <1>5, <2>0, SMTT(20)
      <4>4. QED
        BY <4>1, <4>2, <4>3, <1>2, <2>0
    <3>3. QED
      BY <3>1, <3>2, <1>3
  <2>3. QueueInArrivalOrder'
    <3> SUFFICES ASSUME NEW e \in Doid, NEW k \in 1..Len(queue'[e])
                 PROVE  /\ request'[queue'[e][k]].doid = e
                        /\ \A m \in 1..(k-1) : queue'[e][m] < queue'[e][k]
                        /\ \A r \in running[e] : r < queue'[e][k]
      BY <2>0 DEF QueueInArrivalOrder
    <3>1. CASE k \in 1..Len(queue[e])
      <4>1. \A m \in 1..k : queue'[e][m] = queue[e][m]
        BY <3>1, <1>1, <1>5, <2>0
      <4>2. /\ request[queue[e][k]].doid = e
            /\ \A m \in 1..(k-1) : queue[e][m] < queue[e][k]
            /\ \A r \in running[e] : r < queue[e][k]
        BY <3>1 DEF IInv, QueueInArrivalOrder
      <4>3. queue'[e][k] = queue[e][k] /\ queue[e][k] \in Received
        BY <3>1, <4>1, <1>5
      <4>4. \A m \in 1..(k-1) : m \in 1..k
        BY <3>1
      <4>5. QED
        BY <4>1, <4>2, <4>3, <4>4, <1>3
    <3>2. CASE e = d /\ k = Len(queue[d]) + 1
      <4>1. queue'[e][k] = i /\ request'[i].doid = e
        BY <3>2, <1>3, <1>6, <2>0
      <4>2. \A m \in 1..(k-1) : queue'[e][m] \in Received
        BY <3>2, <1>1, <1>5, <2>0
      <4>3. QED
        BY <4>1, <4>2, <1>3, <1>5
    <3>3. QED
      BY <3>1, <3>2, <1>1, <1>5, <2>0
  <2>4. SubmittedIsRunning'
    BY <1>1, <1>2, <1>3, <1>4, <1>5, <1>b DEF IInv, SubmittedIsRunning
  <2>5. RunningIndependent'
    BY <1>3, <1>5, <2>0 DEF IInv, RunningIndependent, Independent
  <2>6. NothingStuck'
    <3> SUFFICES ASSUME NEW e \in Doid, queue'[e] # <<>>
                 PROVE  \E r \in running'[e] : ~IsIndependentOf(request'[Head(queue'[e])], request'[r])
      BY DEF NothingStuck, Independent
    <3>1. CASE queue[e] # <<>>
      <4>1. Head(queue'[e]) = Head(queue[e]) /\ Head(queue[e]) \in Received
        <5>1. queue[e] \in Seq(Received) /\ Head(queue[e]) \in Received
          BY <1>4, <3>1, SeqFacts
        <5>2. Head(Append(queue[e], i)) = Head(queue[e])
          BY <5>1, <3>1
        <5>3. QED
          BY <5>1, <5>2, <2>0
      <4>2. PICK r \in running[e] : ~IsIndependentOf(request[Head(queue[e])], request[r])
        BY <3>1 DEF IInv, NothingStuck, Independent
      <4>3. r \in running'[e] /\ request'[r] = request[r]
        BY <1>3, <1>5, <2>0
      <4>4. QED
        BY <4>1, <4>2, <4>3, <1>3
    <3>2. CASE queue[e] = <<>>
      <4>1. e = d /\ Head(queue'[e]) = i
        BY <2>0, <3>2
      <4>2. PICK r \in running[d] : ~IsIndependentOf(op, request[r])
        BY <1>b, <3>2, <4>1 DEF CanOperationStart
      <4>3. QED
        BY <1>1, <1>3, <1>5, <2>0, <4>1, <4>2
    <3>3. QED
      BY <3>1, <3>2
  <2>7. QED
    BY <2>1, <2>2, <2>3, <2>4, <2>5, <2>6 DEF IInv
<1>7. QED
  BY <1>a, <1>b DEF HandleOperation, StartsAtOnce, NewId, i, d

(* clear_operation, called for an operation that was running (request is     *)
(* unchanged) or for one that arrived just now and never ran.                *)
LEMMA ClearOperationStep ==
  ASSUME IInv, NEW op \in Operation, NEW i,
         request' \in Seq(Operation),
         Received' = Received \cup {i},
         \A r \in Received : request'[r] = request[r],
         request'[i] = op,
         ClearOperation(op, i)
  PROVE  IInv'
<1> DEFINE d == op.doid
           q == queue[d]
           S == running[d] \ {i}
<1>1. d \in Doid
  BY DEF Operation
<1>2. PICK n \in 0..Len(q) :
        LET started == {q[k] : k \in 1..n}
        IN  /\ IF MayUnblock(op, d) THEN StartsExactly(d, S, n) ELSE n = 0
            /\ running' = [running EXCEPT ![d] = (@ \ {i}) \cup started]
            /\ queue' = [queue EXCEPT ![d] = SubSeq(@, n + 1, Len(@))]
            /\ submitted' = (submitted \ {i}) \cup started
            /\ cleared' = cleared \cup {i}
            /\ UNCHANGED dropped
  BY DEF ClearOperation
<1> DEFINE started == {q[k] : k \in 1..n}
<1>3. /\ queue \in [Doid -> Seq(Received)]
      /\ running \in [Doid -> SUBSET Received]
      /\ submitted \subseteq Received
      /\ cleared \subseteq Received
      /\ dropped \subseteq Received
      /\ Received \subseteq Nat
  BY DEF IInv, TypeOK, Received
<1>4. /\ q \in Seq(Received)
      /\ Len(q) \in Nat
      /\ n \in Nat /\ n <= Len(q)
      /\ \A k \in 1..Len(q) : q[k] \in Received
      /\ q # <<>> => Head(q) = q[1]
      /\ Len(q) = 0 <=> q = <<>>
  BY <1>1, <1>3, SeqFacts
<1>5. /\ SubSeq(q, n + 1, Len(q)) \in Seq(Received)
      /\ Len(SubSeq(q, n + 1, Len(q))) = Len(q) - n
      /\ \A k \in 1..(Len(q) - n) : SubSeq(q, n + 1, Len(q))[k] = q[k + n]
  BY <1>4
<1>6. /\ queue'[d] = SubSeq(q, n + 1, Len(q))
      /\ \A e \in Doid : e # d => queue'[e] = queue[e]
      /\ running'[d] = S \cup started
      /\ \A e \in Doid : e # d => running'[e] = running[e]
      /\ submitted' = (submitted \ {i}) \cup started
      /\ cleared' = cleared \cup {i}
      /\ dropped' = dropped
  BY <1>1, <1>2, <1>3
<1>7. started \subseteq Received
  BY <1>4
<1>8. \A r \in Received : request[r].doid \in Doid
  <2>1. \A r \in Received : request[r] \in Operation
    BY ElementOfSeq DEF IInv, TypeOK, Received
  <2>2. QED
    BY <2>1 DEF Operation
<1>9. \A k \in 1..Len(q) :
        /\ request[q[k]].doid = d
        /\ \A m \in 1..(k-1) : q[m] < q[k]
        /\ \A r \in running[d] : r < q[k]
  BY <1>1 DEF IInv, QueueInArrivalOrder
<1>10. IF MayUnblock(op, d) THEN StartsExactly(d, S, n) ELSE n = 0
  BY <1>2
<1>11. d = op.doid /\ S = running[d] \ {i} /\ q = queue[d] /\ started = {q[k] : k \in 1..n}
  OBVIOUS
<1> HIDE DEF d, q, S, started

<1>a. TypeOK'
  <2>1. queue' \in [Doid -> Seq(Received')]
    <3>1. queue' = [queue EXCEPT ![d] = SubSeq(q, n + 1, Len(q))]
      BY <1>2 DEF d, q
    <3>2. SubSeq(q, n + 1, Len(q)) \in Seq(Received')
      BY <1>4
    <3>3. \A e \in Doid : queue[e] \in Seq(Received')
      BY <1>3
    <3>4. QED
      BY <1>1, <1>3, <3>1, <3>2, <3>3
  <2>2. running' \in [Doid -> SUBSET Received']
    <3>1. running' = [running EXCEPT ![d] = S \cup started]
      BY <1>2 DEF d, q, S, started
    <3>2. QED
      BY <1>1, <1>3, <1>7, <1>11, <3>1
  <2>3. QED
    BY <1>3, <1>6, <1>7, <2>1, <2>2 DEF TypeOK

<1>b. Accounted'
  <2> SUFFICES ASSUME NEW r \in Received, r # i
               PROVE  \/ r \in cleared' \cup dropped'
                      \/ r \in running'[request'[r].doid]
                      \/ \E k \in 1..Len(queue'[request'[r].doid]) :
                            queue'[request'[r].doid][k] = r
    BY <1>6 DEF Accounted
  <2> DEFINE e == request[r].doid
  <2>1. e \in Doid /\ request'[r].doid = e
    BY <1>8
  <2>2. \/ r \in cleared \cup dropped
        \/ r \in running[e]
        \/ \E k \in 1..Len(queue[e]) : queue[e][k] = r
    BY DEF IInv, Accounted
  <2> HIDE DEF e
  <2>3. CASE r \in cleared \cup dropped
    BY <2>3, <1>6
  <2>4. CASE r \in running[e]
    BY <2>1, <2>4, <1>6, <1>11
  <2>5. CASE e # d /\ \E k \in 1..Len(queue[e]) : queue[e][k] = r
    BY <2>1, <2>5, <1>6
  <2>6. CASE e = d /\ \E k \in 1..Len(queue[e]) : queue[e][k] = r
    <3>1. PICK k \in 1..Len(q) : q[k] = r
      BY <2>6, <1>11
    <3>2. CASE k <= n
      BY <3>1, <3>2, <2>1, <2>6, <1>4, <1>6, <1>11
    <3>3. CASE k > n
      <4>1. /\ k - n \in 1..(Len(q) - n)
            /\ (k - n) + n = k
        BY <3>1, <3>3, <1>4
      <4>2. SubSeq(q, n + 1, Len(q))[k - n] = q[(k - n) + n]
        BY <4>1, <1>5
      <4>3. queue'[e][k - n] = r /\ k - n \in 1..Len(queue'[e])
        BY <3>1, <4>1, <4>2, <2>6, <1>5, <1>6
      <4>4. QED
        BY <4>3, <2>1
    <3>4. QED
      BY <3>2, <3>3, <3>1, <1>4
  <2>7. QED
    BY <2>2, <2>3, <2>4, <2>5, <2>6

<1>c. QueueInArrivalOrder'
  <2> SUFFICES ASSUME NEW e \in Doid, NEW k \in 1..Len(queue'[e])
               PROVE  /\ request'[queue'[e][k]].doid = e
                      /\ \A m \in 1..(k-1) : queue'[e][m] < queue'[e][k]
                      /\ \A r \in running'[e] : r < queue'[e][k]
    BY DEF QueueInArrivalOrder
  <2>1. CASE e # d
    <3>1. /\ queue'[e] = queue[e] /\ running'[e] = running[e]
          /\ queue[e][k] \in Received
      BY <2>1, <1>3, <1>6, SeqFacts
    <3>2. QED
      BY <3>1 DEF IInv, QueueInArrivalOrder
  <2>2. CASE e = d
    <3>1. /\ k \in 1..(Len(q) - n) /\ k + n \in 1..Len(q)
          /\ queue'[e][k] = q[k + n]
          /\ \A m \in 1..(k-1) : queue'[e][m] = q[m + n] /\ m + n \in 1..((k + n) - 1)
      <4>1. queue'[e] = SubSeq(q, n + 1, Len(q)) /\ k \in 1..(Len(q) - n)
        BY <2>2, <1>5, <1>6
      <4>2. k + n \in 1..Len(q) /\ queue'[e][k] = q[k + n]
        BY <4>1, <1>4, <1>5
      <4>3. \A m \in 1..(k-1) : m \in 1..(Len(q) - n) /\ m + n \in 1..((k + n) - 1)
        BY <4>1, <1>4
      <4>4. QED
        BY <4>1, <4>2, <4>3, <1>5
    <3>2. q[k + n] \in Received /\ request'[q[k + n]].doid = e
      BY <2>2, <3>1, <1>4, <1>9
    <3>3. \A m \in 1..(k-1) : queue'[e][m] < queue'[e][k]
      BY <3>1, <1>9
    <3>4. \A r \in started : r < q[k + n]
      <4>1. \A m \in 1..n : m \in 1..((k + n) - 1)
        BY <3>1, <1>4
      <4>2. QED
        BY <4>1, <3>1, <1>9, <1>11, SMTT(20)
    <3>5. \A r \in running'[e] : r < queue'[e][k]
      BY <2>2, <3>1, <3>4, <1>6, <1>9, <1>11
    <3>6. QED
      BY <3>1, <3>2, <3>3, <3>5
  <2>3. QED
    BY <2>1, <2>2

<1>d. SubmittedIsRunning'
  <2>1. \A r \in started : request'[r].doid = d
    BY <1>4, <1>7, <1>9, <1>11, SMTT(20)
  <2>2. ASSUME NEW e \in Doid, NEW r \in running'[e]
        PROVE  request'[r].doid = e /\ r \in submitted'
    <3>1. CASE r \in running[e] /\ r # i
      <4>1. r \in Received /\ request[r].doid = e /\ r \in submitted
        BY <3>1, <1>3 DEF IInv, SubmittedIsRunning
      <4>2. QED
        BY <3>1, <4>1, <1>6
    <3>2. CASE r \in running[e] /\ r = i /\ e # d
      <4>1. r \in Received /\ request[r].doid = e
        BY <3>2, <1>3 DEF IInv, SubmittedIsRunning
      <4>2. QED
        BY <3>2, <4>1, <1>11
    <3>3. CASE e = d /\ r \in started
      BY <3>3, <2>1, <1>6
    <3>4. QED
      BY <2>2, <3>1, <3>2, <3>3, <1>6, <1>11
  <2>3. ASSUME NEW r \in submitted'
        PROVE  r \in running'[request'[r].doid]
    <3>1. CASE r \in submitted /\ r # i
      <4>1. /\ r \in Received /\ request'[r] = request[r]
            /\ request[r].doid \in Doid
            /\ r \in running[request[r].doid]
        BY <3>1, <1>3, <1>8 DEF IInv, SubmittedIsRunning
      <4>2. QED
        BY <3>1, <4>1, <1>6, <1>11
    <3>2. CASE r \in started
      BY <3>2, <2>1, <1>6
    <3>3. QED
      BY <2>3, <3>1, <3>2, <1>6
  <2>4. QED
    BY <2>2, <2>3 DEF SubmittedIsRunning

<1>e. RunningIndependent'
  <2>1. \A r \in Received : request[r] \in Operation
    BY ElementOfSeq DEF IInv, TypeOK, Received
  <2>2. \A k \in 1..n : \A r \in S \cup {q[m] : m \in 1..(k-1)} :
          IsIndependentOf(request[q[k]], request[r])
    <3>1. CASE MayUnblock(op, d)
      BY <3>1, <1>10, <1>11 DEF StartsExactly, CanStart, CanOperationStart
    <3>2. CASE ~MayUnblock(op, d)
      BY <3>2, <1>10
    <3>3. QED
      BY <3>1, <3>2
  <2> SUFFICES ASSUME NEW e \in Doid, NEW p \in running'[e], NEW r \in running'[e], p # r
               PROVE  IsIndependentOf(request'[p], request'[r])
    BY DEF RunningIndependent, Independent
  <2>3. CASE p \in running[e] /\ r \in running[e]
    <3>1. IsIndependentOf(request[p], request[r])
      BY <2>3 DEF IInv, RunningIndependent, Independent
    <3>2. p \in Received /\ r \in Received
      BY <2>3, <1>3
    <3>3. QED
      BY <3>1, <3>2
  <2>4. ASSUME NEW k \in 1..n, NEW s \in S \cup {q[m] : m \in 1..(k-1)}
        PROVE  /\ IsIndependentOf(request'[q[k]], request'[s])
               /\ IsIndependentOf(request'[s], request'[q[k]])
    <3>1. q[k] \in Received /\ s \in Received
      BY <1>1, <1>3, <1>4, <1>11
    <3>2. IsIndependentOf(request[q[k]], request[s])
      BY <2>2
    <3>3. IsIndependentOf(request[s], request[q[k]])
      BY <2>1, <3>1, <3>2, IndependenceIsSymmetric
    <3>4. QED
      BY <3>1, <3>2, <3>3
  <2>5. CASE e = d /\ p \in started /\ r \in S
    BY <2>4, <2>5, <1>11
  <2>6. CASE e = d /\ r \in started /\ p \in S
    BY <2>4, <2>6, <1>11
  <2>7. CASE e = d /\ p \in started /\ r \in started
    <3>1. PICK k \in 1..n, m \in 1..n : p = q[k] /\ r = q[m]
      BY <2>7, <1>11
    <3>2. CASE m < k
      <4>1. m \in 1..(k-1)
        BY <3>1, <3>2, <1>4
      <4>2. QED
        BY <3>1, <4>1, <2>4
    <3>3. CASE k < m
      <4>1. k \in 1..(m-1)
        BY <3>1, <3>3, <1>4
      <4>2. QED
        BY <3>1, <4>1, <2>4
    <3>4. QED
      BY <3>1, <3>2, <3>3, <1>4
  <2>8. QED
    BY <2>3, <2>5, <2>6, <2>7, <1>6, <1>11

<1>f. NothingStuck'
  <2>1. \A r \in Received : request[r] \in Operation
    BY ElementOfSeq DEF IInv, TypeOK, Received
  <2> SUFFICES ASSUME NEW e \in Doid, queue'[e] # <<>>
               PROVE  \E r \in running'[e] :
                        ~IsIndependentOf(request'[Head(queue'[e])], request'[r])
    BY DEF NothingStuck, Independent
  <2>2. CASE e # d
    <3>1. queue'[e] = queue[e] /\ running'[e] = running[e] /\ Head(queue[e]) \in Received
      BY <2>2, <1>3, <1>6, SeqFacts
    <3>2. PICK r \in running[e] : ~IsIndependentOf(request[Head(queue[e])], request[r])
      BY <3>1 DEF IInv, NothingStuck, Independent
    <3>3. QED
      BY <3>1, <3>2, <1>3
  <2>3. CASE e = d
    <3>1. /\ n < Len(q)
          /\ Head(queue'[e]) = q[n + 1]
          /\ n + 1 \in 1..Len(q)
          /\ q[n + 1] \in Received
      <4>1. queue'[e] \in Seq(Received) /\ queue'[e] # <<>> /\ Len(queue'[e]) = Len(q) - n
        BY <2>3, <1>5, <1>6
      <4>2. Len(queue'[e]) # 0 /\ Len(queue'[e]) \in Nat /\ Head(queue'[e]) = queue'[e][1]
        BY <4>1, SeqFacts
      <4>3. n < Len(q) /\ n + 1 \in 1..Len(q) /\ 1 \in 1..(Len(q) - n)
        BY <4>1, <4>2, <1>4
      <4>4. queue'[e][1] = q[n + 1]
        BY <4>3, <2>3, <1>4, <1>5, <1>6
      <4>5. QED
        BY <4>2, <4>3, <4>4, <1>4
    <3>2. CASE MayUnblock(op, d)
      <4>1. CanStart(d, S, n) /\ ~CanStart(d, S, n + 1)
        BY <3>1, <3>2, <1>10, <1>11 DEF StartsExactly
      <4>2. PICK k \in 1..(n + 1) :
              ~CanOperationStart(request[q[k]], S \cup {q[m] : m \in 1..(k-1)})
        BY <4>1 DEF CanStart, q
      <4>3. k = n + 1
        <5>1. k \notin 1..n
          BY <4>1, <4>2 DEF CanStart, q
        <5>2. QED
          BY <5>1, <4>2, <1>4
      <4>4. PICK r \in S \cup {q[m] : m \in 1..(k-1)} : ~IsIndependentOf(request[q[k]], request[r])
        BY <4>2 DEF CanOperationStart
      <4>5. r \in S \cup started /\ r \in Received
        <5>1. 1..(k-1) = 1..n
          BY <4>3, <1>4
        <5>2. QED
          BY <4>4, <5>1, <1>1, <1>3, <1>7, <1>11
      <4>6. QED
        BY <4>3, <4>4, <4>5, <3>1, <2>3, <1>6
    <3>3. CASE ~MayUnblock(op, d)
      <4>1. n = 0 /\ q # <<>> /\ Head(q) = q[n + 1]
        BY <3>1, <3>3, <1>4, <1>10
      <4>2. IsIndependentOf(op, request[Head(q)])
        BY <3>3, <4>1, <1>11 DEF MayUnblock
      <4>3. IsIndependentOf(request[Head(q)], op)
        BY <4>1, <4>2, <3>1, <2>1, IndependenceIsSymmetric
      <4>4. PICK r \in running[d] : ~IsIndependentOf(request[Head(q)], request[r])
        BY <4>1, <1>1, <1>11 DEF IInv, NothingStuck, Independent
      <4>5. r # i /\ r \in Received
        BY <4>3, <4>4, <1>1, <1>3
      <4>6. QED
        BY <4>1, <4>4, <4>5, <3>1, <2>3, <1>6, <1>11
    <3>4. QED
      BY <3>2, <3>3
  <2>4. QED
    BY <2>2, <2>3

<1>12. QED
  BY <1>a, <1>b, <1>c, <1>d, <1>e, <1>f DEF IInv

LEMMA RejectRequestStep ==
  ASSUME IInv, NEW op \in Malformed, RejectRequest(op)
  PROVE  IInv'
<1> DEFINE i == Len(request) + 1
<1>1. op \in Operation /\ request' = Append(request, op)
  BY RequestsAreOperations DEF RejectRequest, NewId
<1>2. /\ request' \in Seq(Operation)
      /\ Received' = Received \cup {i}
      /\ request'[i] = op
      /\ \A r \in Received : request'[r] = request[r]
  BY <1>1, Arrival DEF IInv
<1>3. CASE ClearOperation(op, i)
  BY <1>1, <1>2, <1>3, ClearOperationStep
<1>4. CASE /\ dropped' = dropped \cup {i}
           /\ UNCHANGED <<queue, running, submitted, cleared>>
  <2>1. /\ queue \in [Doid -> Seq(Received)]
        /\ running \in [Doid -> SUBSET Received]
        /\ submitted \subseteq Received
        /\ \A e \in Doid : \A k \in 1..Len(queue[e]) : queue[e][k] \in Received
        /\ \A e \in Doid : queue[e] # <<>> => Head(queue[e]) \in Received
    BY SeqFacts DEF IInv, TypeOK
  <2>2. TypeOK'
    BY <1>2, <1>4, <2>1 DEF IInv, TypeOK
  <2>3. Accounted'
    BY <1>2, <1>4 DEF IInv, Accounted
  <2>4. QueueInArrivalOrder'
    <3> SUFFICES ASSUME NEW e \in Doid, NEW k \in 1..Len(queue[e])
                 PROVE  /\ request'[queue[e][k]].doid = e
                        /\ \A m \in 1..(k-1) : queue[e][m] < queue[e][k]
                        /\ \A r \in running[e] : r < queue[e][k]
      BY <1>4 DEF QueueInArrivalOrder
    <3>1. QED
      BY <1>2, <2>1 DEF IInv, QueueInArrivalOrder
  <2>5. SubmittedIsRunning'
    <3>1. \A r \in submitted : request'[r] = request[r]
      BY <1>2, <2>1
    <3>2. \A e \in Doid : \A r \in running[e] : request'[r] = request[r]
      BY <1>2, <2>1
    <3>3. QED
      BY <1>4, <3>1, <3>2 DEF IInv, SubmittedIsRunning
  <2>6. RunningIndependent'
    <3>1. \A e \in Doid : \A r \in running[e] : request'[r] = request[r]
      BY <1>2, <2>1
    <3>2. QED
      BY <1>4, <3>1 DEF IInv, RunningIndependent, Independent
  <2>7. NothingStuck'
    <3> SUFFICES ASSUME NEW e \in Doid, queue[e] # <<>>
                 PROVE  \E r \in running[e] :
                          ~IsIndependentOf(request'[Head(queue[e])], request'[r])
      BY <1>4 DEF NothingStuck, Independent
    <3>1. PICK r \in running[e] : ~IsIndependentOf(request[Head(queue[e])], request[r])
      BY DEF IInv, NothingStuck, Independent
    <3>2. r \in Received /\ Head(queue[e]) \in Received
      BY <2>1
    <3>3. QED
      BY <1>2, <3>1, <3>2
  <2>8. QED
    BY <2>2, <2>3, <2>4, <2>5, <2>6, <2>7 DEF IInv
<1>5. QED
  BY <1>3, <1>4 DEF RejectRequest, NewId

LEMMA CompleteStep ==
  ASSUME IInv, NEW i \in submitted, Complete(i)
  PROVE  IInv'
<1>1. i \in Received /\ request' = request /\ ClearOperation(request[i], i)
  BY DEF Complete, IInv, TypeOK
<1>2. request \in Seq(Operation) /\ request[i] \in Operation
  BY <1>1, ElementOfSeq DEF IInv, TypeOK, Received
<1>3. Received' = Received \cup {i}
  BY <1>1 DEF Received
<1>4. QED
  BY <1>1, <1>2, <1>3, ClearOperationStep

LEMMA StutterStep ==
  ASSUME IInv, UNCHANGED vars
  PROVE  IInv'
BY DEF vars, IInv, TypeOK, Received, Accounted, QueueInArrivalOrder, SubmittedIsRunning,
       RunningIndependent, NothingStuck, Independent

LEMMA Invariance == Spec => []IInv
<1>1. IInv /\ [Next]_vars => IInv'
  BY HandleOperationStep, RejectRequestStep, CompleteStep, StutterStep DEF Next
<1>2. QED
  BY <1>1, InitIInv, PTL DEF Spec

-----------------------------------------------------------------------------
(* Every variable keeps its type, whatever arrives.                          *)
THEOREM TypeCorrect == Spec => []TypeOK
<1>1. IInv => TypeOK
  BY DEF IInv
<1>2. QED
  BY <1>1, Invariance, PTL

(* DBOperationQueue never lets two operations run that are not independent.  *)
THEOREM NoConflictRuns == Spec => []RunningIndependent
<1>1. IInv => RunningIndependent
  BY DEF IInv
<1>2. QED
  BY <1>1, Invariance, PTL

(* finalize_operation's shortcut is safe: a queue it does not look at again  *)
(* is still waiting for a running operation.  The proof is where the         *)
(* symmetry of is_independent_of is used: the shortcut tests the finished    *)
(* operation against the front, can_operation_start the front against it.    *)
THEOREM QueuesNeverStick == Spec => []NothingStuck
<1>1. IInv => NothingStuck
  BY DEF IInv
<1>2. QED
  BY <1>1, Invariance, PTL

(* Conflicting operations reach the backend one at a time, in the order in   *)
(* which they arrived.                                                       *)
THEOREM ConflictsInArrivalOrder == Spec => []ArrivalOrder
<1>1. IInv => ArrivalOrder
  <2> SUFFICES ASSUME IInv, NEW i \in Received, NEW j \in Received,
                      i < j, j \in submitted, ~Independent(i, j)
               PROVE  i \in cleared \cup dropped
    BY DEF ArrivalOrder
  <2> DEFINE d == request[i].doid
  <2>1. \A r \in Received : request[r] \in Operation /\ r \in Nat
    BY ElementOfSeq DEF IInv, TypeOK, Received
  <2>2. request[j].doid = d /\ d \in Doid
    BY <2>1 DEF Independent, IsIndependentOf, Operation
  <2>3. j \in running[d]
    BY <2>2 DEF IInv, SubmittedIsRunning
  <2>4. i \notin running[d]
    BY <2>1, <2>2, <2>3 DEF IInv, RunningIndependent
  <2>5. ~(\E k \in 1..Len(queue[d]) : queue[d][k] = i)
    BY <2>1, <2>2, <2>3 DEF IInv, QueueInArrivalOrder
  <2>6. QED
    BY <2>4, <2>5 DEF IInv, Accounted
<1>2. QED
  BY <1>1, Invariance, PTL

-----------------------------------------------------------------------------
(* Every step of the backend is a step of the scheduler or leaves it alone.  *)
THEOREM BackendIsABackend == MongoSpec => Spec
<1>1. MongoInit => Init
  BY DEF MongoInit
<1>2. [MongoNext]_allVars => [Next]_vars
  <2> SUFFICES ASSUME [MongoNext]_allVars PROVE [Next]_vars
    OBVIOUS
  <2>1. ASSUME NEW op \in Requests, ReceiveOperation(op) PROVE Next
    BY <2>1 DEF ReceiveOperation, Next
  <2>2. ASSUME NEW op \in Malformed, ReceiveMalformed(op) PROVE Next
    BY <2>2 DEF ReceiveMalformed, Next
  <2>3. CASE ReceiveCreate
    BY <2>3 DEF ReceiveCreate
  <2>4. ASSUME NEW w \in Worker, Cleanup(w) PROVE Next
    BY <2>4 DEF Cleanup, Next, Complete
  <2>5. ASSUME NEW w \in Worker, Work(w), ~Cleanup(w) PROVE UNCHANGED vars
    BY <2>5 DEF Work, TakeOperation, GetObject, DeleteObject, FreeDoid, FindOneAndUpdate,
      FindUnmatched, RevertModify, AssignMonotonic, AssignReuse, InsertObject, Answer
  <2>6. ASSUME NEW w \in Worker, DatabaseError(w) PROVE UNCHANGED vars
    BY <2>6 DEF DatabaseError
  <2>7. CASE UNCHANGED allVars
    BY <2>7 DEF allVars
  <2>8. QED
    BY <2>1, <2>2, <2>3, <2>4, <2>5, <2>6, <2>7 DEF MongoNext
<1>3. QED
  BY <1>1, <1>2, PTL DEF MongoSpec, Spec

-----------------------------------------------------------------------------
(* A doid is in the hands of a thread from the delete that removes its       *)
(* object to the free_doid that returns it, and from assign_doid to the      *)
(* insert.  FreshDoids speaks of the second stretch; it is inductive only    *)
(* together with the first.                                                  *)
Holder == {w \in Worker : worker[w].pc \in {"free", "insert"}}

HeldBy(w) == IF At(w, "insert") THEN worker[w].doid ELSE Holding(w).doid

Operating == {"get", "delete", "modify", "free", "recheck", "revert", "answer", "cleanup"}

WorkersTyped ==
  /\ worker = [w \in Worker |-> worker[w]]
  /\ \A w \in Worker : worker[w].pc \in Operating => worker[w].id \in Received

StoreTyped ==
  /\ m_operation_queue \in Seq({Create} \cup Received)
  /\ objects = [d \in Doid |-> objects[d]]
  /\ monotonic \in Nat /\ MinId <= monotonic
  /\ free \in Seq(Doid)

BelowCounter == \A d \in Doid : objects[d] # Missing => d < monotonic

HeldFresh ==
  \A w \in Holder :
    /\ HeldBy(w) \in Doid
    /\ objects[HeldBy(w)] = Missing
    /\ HeldBy(w) < monotonic
    /\ \A k \in 1..Len(free) : free[k] # HeldBy(w)
    /\ \A v \in Holder : HeldBy(v) = HeldBy(w) => v = w

FreeFresh ==
  \A k \in 1..Len(free) :
    /\ objects[free[k]] = Missing
    /\ free[k] < monotonic
    /\ \A m \in 1..Len(free) : free[m] = free[k] => m = k

DoidInv == WorkersTyped /\ StoreTyped /\ BelowCounter /\ HeldFresh /\ FreeFresh

LEMMA InitDoidInv == MongoInit => DoidInv
BY MongoDatabaseAssumption
DEF MongoInit, Init, DoidInv, WorkersTyped, StoreTyped, BelowCounter, HeldFresh, FreeFresh,
    Holder, Operating, Idle, Create, Received

LEMMA DoidsAreNumbers == Doid \subseteq Nat
BY MongoDatabaseAssumption

(* A step that assigns and frees nothing and creates no object.              *)
LEMMA QuietStep ==
  ASSUME DoidInv,
         Received \subseteq Received',
         \A r \in Received : request'[r] = request[r],
         m_operation_queue' \in Seq({Create} \cup Received'),
         WorkersTyped',
         \A v \in Worker : worker'[v].pc \in {"free", "insert"} => worker'[v] = worker[v],
         objects' = [d \in Doid |-> objects'[d]],
         \A d \in Doid : objects'[d] # Missing => objects[d] # Missing,
         UNCHANGED <<monotonic, free>>
  PROVE  DoidInv'
<1>1. StoreTyped'
  BY DEF DoidInv, StoreTyped
<1>2. BelowCounter'
  BY DEF DoidInv, BelowCounter
<1>3. FreeFresh'
  <2>1. \A k \in 1..Len(free) : free[k] \in Doid
    BY SeqFacts DEF DoidInv, StoreTyped
  <2>2. QED
    BY <2>1 DEF DoidInv, FreeFresh
<1>4. \A v \in Holder' : v \in Holder /\ HeldBy(v)' = HeldBy(v)
  <2> SUFFICES ASSUME NEW v \in Holder' PROVE v \in Holder /\ HeldBy(v)' = HeldBy(v)
    OBVIOUS
  <2>1. v \in Holder /\ worker'[v] = worker[v]
    BY DEF Holder
  <2>2. ~At(v, "insert") => worker[v].id \in Received
    BY <2>1 DEF Holder, At, DoidInv, WorkersTyped, Operating
  <2>3. QED
    BY <2>1, <2>2 DEF HeldBy, Holding, At
<1>5. HeldFresh'
  <2> SUFFICES ASSUME NEW v \in Holder'
               PROVE  /\ HeldBy(v) \in Doid
                      /\ objects'[HeldBy(v)] = Missing
                      /\ HeldBy(v) < monotonic
                      /\ \A k \in 1..Len(free) : free[k] # HeldBy(v)
                      /\ \A u \in Holder' : HeldBy(u) = HeldBy(v) => u = v
    BY <1>4 DEF HeldFresh
  <2>1. QED
    BY <1>4 DEF DoidInv, HeldFresh
<1>6. QED
  BY <1>1, <1>2, <1>3, <1>5 DEF DoidInv

(* A quiet step of one thread.                                               *)
LEMMA QuietWork ==
  ASSUME DoidInv, NEW w \in Worker, NEW rec,
         Goto(w, rec),
         rec.pc \notin {"free", "insert"},
         rec.pc \in Operating => rec.id \in Received,
         m_operation_queue' \in Seq({Create} \cup Received),
         objects' = [d \in Doid |-> objects'[d]],
         \A d \in Doid : objects'[d] # Missing => objects[d] # Missing,
         UNCHANGED <<request, monotonic, free>>
  PROVE  DoidInv'
<1>1. \A v \in Worker : worker'[v] = IF v = w THEN rec ELSE worker[v]
  BY DEF Goto, DoidInv, WorkersTyped
<1>2. Received' = Received
  BY DEF Received
<1>3. WorkersTyped'
  <2>1. worker' = [v \in Worker |-> worker'[v]]
    BY DEF Goto, DoidInv, WorkersTyped
  <2>2. QED
    BY <1>1, <1>2, <2>1 DEF DoidInv, WorkersTyped
<1>4. QED
  BY <1>1, <1>2, <1>3, QuietStep

(* A thread that operates keeps its operation's id.                          *)
LEMMA OperatingId ==
  ASSUME DoidInv, NEW w \in Worker, worker[w].pc \in Operating
  PROVE  worker[w].id \in Received
BY DEF DoidInv, WorkersTyped

LEMMA TakeOperationDoids ==
  ASSUME DoidInv, NEW w \in Worker, TakeOperation(w)
  PROVE  DoidInv'
<1> DEFINE i == Head(m_operation_queue)
           rec == IF i = Create THEN [pc |-> "assign"]
                  ELSE [pc |-> Handler(request[i]), id |-> i]
<1>1. /\ m_operation_queue # <<>>
      /\ m_operation_queue' = Tail(m_operation_queue)
      /\ Goto(w, rec)
      /\ UNCHANGED <<request, objects, monotonic, free>>
  BY DEF TakeOperation, vars
<1>2. /\ i \in {Create} \cup Received
      /\ m_operation_queue' \in Seq({Create} \cup Received)
  BY <1>1 DEF DoidInv, StoreTyped
<1>3. Handler(request[i]) \in {"delete", "get", "modify"}
  BY DEF Handler
<1>4. rec.pc \notin {"free", "insert"} /\ (rec.pc \in Operating => rec.id \in Received)
  BY <1>2, <1>3 DEF Operating
<1> HIDE DEF rec, i
<1>5. QED
  BY <1>1, <1>2, <1>4, QuietWork DEF DoidInv, StoreTyped

(* The steps that read, modify or put back an object, fail or answer.        *)
LEMMA OperatingStepDoids ==
  ASSUME DoidInv, NEW w \in Worker,
         GetObject(w) \/ FindOneAndUpdate(w) \/ FindUnmatched(w) \/ RevertModify(w) \/ Answer(w)
  PROVE  DoidInv'
<1>1. worker[w].id \in Received
  BY OperatingId DEF GetObject, FindOneAndUpdate, FindUnmatched, RevertModify, Answer, At, Operating
<1>2. UNCHANGED <<request, m_operation_queue, monotonic, free>>
  BY DEF GetObject, FindOneAndUpdate, FindUnmatched, RevertModify, Answer, vars
<1>3. /\ m_operation_queue' \in Seq({Create} \cup Received)
      /\ objects = [d \in Doid |-> objects[d]]
  BY <1>2 DEF DoidInv, StoreTyped
<1>4. PICK rec :
        Goto(w, rec) /\ rec.pc \in {"answer", "revert", "recheck", "cleanup"} /\ rec.id = worker[w].id
  BY DEF GetObject, FindOneAndUpdate, FindUnmatched, RevertModify, Answer, Finish
<1>5. /\ objects' = [d \in Doid |-> objects'[d]]
      /\ \A d \in Doid : objects'[d] # Missing => objects[d] # Missing
  <2>1. CASE UNCHANGED objects
    BY <2>1, <1>3
  <2>2. CASE FindOneAndUpdate(w) /\ ~UNCHANGED objects
    BY <2>2, <1>3 DEF FindOneAndUpdate, Matches
  <2>3. CASE RevertModify(w)
    BY <2>3, <1>3 DEF RevertModify
  <2>4. QED
    BY <2>1, <2>2, <2>3 DEF GetObject, FindUnmatched, Answer
<1>6. QED
  BY <1>1, <1>2, <1>3, <1>4, <1>5, QuietWork DEF Operating

LEMMA DatabaseErrorDoids ==
  ASSUME DoidInv, NEW w \in Worker, DatabaseError(w)
  PROVE  DoidInv'
<1>1. UNCHANGED <<request, m_operation_queue, objects, monotonic, free>>
  BY DEF DatabaseError, vars
<1>2. PICK rec :
        /\ Goto(w, rec)
        /\ \/ rec.pc = "idle"
           \/ rec.pc = "answer" /\ rec.id = worker[w].id /\ worker[w].pc \in Operating
  BY DEF DatabaseError, Finish, Idle, Operating, At
<1>3. rec.pc \in Operating => rec.id \in Received
  BY <1>2, OperatingId DEF Operating
<1>4. QED
  BY <1>1, <1>2, <1>3, QuietWork DEF DoidInv, StoreTyped

(* A thread starts to hold a doid that nobody else holds and is not free.    *)
LEMMA HoldStep ==
  ASSUME DoidInv, NEW w \in Worker, w \notin Holder, NEW rec, NEW d \in Doid,
         Goto(w, rec),
         \/ rec.pc = "insert" /\ rec.doid = d
         \/ rec.pc = "free" /\ rec.id \in Received /\ request[rec.id].doid = d,
         UNCHANGED <<request, m_operation_queue>>,
         objects' = [e \in Doid |-> objects'[e]],
         \A e \in Doid : objects'[e] # Missing => objects[e] # Missing,
         objects'[d] = Missing,
         monotonic' \in Nat, monotonic <= monotonic', d < monotonic',
         free' \in Seq(Doid),
         \A k \in 1..Len(free') : \E j \in 1..Len(free) : free[j] = free'[k],
         \A k, m \in 1..Len(free') : free'[k] = free'[m] => k = m,
         \A k \in 1..Len(free') : free'[k] # d,
         \A v \in Holder : HeldBy(v) # d
  PROVE  DoidInv'
<1>1. /\ \A v \in Worker : worker'[v] = IF v = w THEN rec ELSE worker[v]
      /\ worker' = [v \in Worker |-> worker'[v]]
  BY DEF Goto, DoidInv, WorkersTyped
<1>2. Received' = Received
  BY DEF Received
<1>3. WorkersTyped'
  BY <1>1, <1>2 DEF DoidInv, WorkersTyped, Operating
<1>4. StoreTyped'
  <2>1. MinId \in Nat /\ monotonic \in Nat /\ MinId <= monotonic
    BY MongoDatabaseAssumption DEF DoidInv, StoreTyped
  <2>2. MinId <= monotonic'
    BY <2>1
  <2>3. QED
    BY <1>2, <2>2 DEF DoidInv, StoreTyped
<1>5. \A e \in Doid : e \in Nat
  BY DoidsAreNumbers
<1>6. monotonic \in Nat /\ \A k \in 1..Len(free) : free[k] \in Doid
  BY SeqFacts DEF DoidInv, StoreTyped
<1>7. BelowCounter'
  BY <1>5, <1>6 DEF DoidInv, BelowCounter
<1>8. FreeFresh'
  <2> SUFFICES ASSUME NEW k \in 1..Len(free')
               PROVE  objects'[free'[k]] = Missing /\ free'[k] < monotonic'
    BY DEF FreeFresh
  <2>1. PICK j \in 1..Len(free) : free[j] = free'[k]
    OBVIOUS
  <2>2. objects[free[j]] = Missing /\ free[j] < monotonic /\ free[j] \in Doid /\ free[j] \in Nat
    BY <1>5, <1>6 DEF DoidInv, FreeFresh
  <2>3. QED
    BY <1>6, <2>1, <2>2
<1>9. /\ Holder' = Holder \cup {w}
      /\ HeldBy(w)' = d
      /\ \A v \in Holder : v # w /\ HeldBy(v)' = HeldBy(v)
  BY <1>1 DEF Holder, HeldBy, Holding, At
<1>10. HeldFresh'
  <2> SUFFICES ASSUME NEW v \in Holder'
               PROVE  /\ HeldBy(v)' \in Doid
                      /\ objects'[HeldBy(v)'] = Missing
                      /\ HeldBy(v)' < monotonic'
                      /\ \A k \in 1..Len(free') : free'[k] # HeldBy(v)'
                      /\ \A u \in Holder' : HeldBy(u)' = HeldBy(v)' => u = v
    BY DEF HeldFresh
  <2>1. CASE v = w
    <3>1. HeldBy(v)' = d
      BY <2>1, <1>9
    <3>2. \A u \in Holder' : HeldBy(u)' = d => u = v
      BY <2>1, <1>9
    <3>3. /\ d \in Doid /\ objects'[d] = Missing /\ d < monotonic'
          /\ \A k \in 1..Len(free') : free'[k] # d
      OBVIOUS
    <3>4. QED
      BY <3>1, <3>2, <3>3
  <2>2. CASE v \in Holder
    <3>1. /\ HeldBy(v) \in Doid /\ HeldBy(v) \in Nat
          /\ objects[HeldBy(v)] = Missing
          /\ HeldBy(v) < monotonic
          /\ \A k \in 1..Len(free) : free[k] # HeldBy(v)
          /\ \A u \in Holder : HeldBy(u) = HeldBy(v) => u = v
      BY <2>2, <1>5 DEF DoidInv, HeldFresh
    <3>2. \A u \in Holder' : HeldBy(u)' = HeldBy(v)' => u = v
      BY <2>2, <3>1, <1>9
    <3>3. \A k \in 1..Len(free') : free'[k] # HeldBy(v)
      BY <3>1
    <3>4. HeldBy(v) < monotonic' /\ objects'[HeldBy(v)] = Missing
      BY <3>1, <1>6
    <3>5. HeldBy(v)' = HeldBy(v)
      BY <2>2, <1>9
    <3>6. QED
      BY <3>1, <3>2, <3>3, <3>4, <3>5
  <2>3. QED
    BY <2>1, <2>2, <1>9
<1>11. QED
  BY <1>3, <1>4, <1>7, <1>8, <1>10 DEF DoidInv

LEMMA DeleteObjectDoids ==
  ASSUME DoidInv, TypeOK, NEW w \in Worker, DeleteObject(w)
  PROVE  DoidInv'
<1> DEFINE i == worker[w].id
           d == request[i].doid
           result == Outcome(Holding(w), objects[Holding(w).doid])
<1>1. i \in Received /\ w \notin Holder
  BY OperatingId DEF DeleteObject, At, Operating, Holder
<1>2. /\ objects' = [objects EXCEPT ![d] = Missing]
      /\ UNCHANGED <<request, m_operation_queue, monotonic, free>>
      /\ \/ FreesDoid(result) /\ Goto(w, [pc |-> "free", id |-> i])
         \/ Finish(w, result)
  BY DEF DeleteObject, Holding, vars
<1>3. d \in Doid
  <2>1. request[i] \in Operation
    BY <1>1, ElementOfSeq DEF TypeOK, Received
  <2>2. QED
    BY <2>1 DEF Operation
<1>4. /\ objects' = [e \in Doid |-> objects'[e]]
      /\ objects'[d] = Missing
      /\ \A e \in Doid : objects'[e] # Missing => objects[e] # Missing
  BY <1>2, <1>3 DEF DoidInv, StoreTyped
<1>5. FreesDoid(result) => objects[d] # Missing
  BY DEF FreesDoid, Outcome, Holding, Success, Failure
<1>6. m_operation_queue' \in Seq({Create} \cup Received)
  BY <1>2 DEF DoidInv, StoreTyped
<1> HIDE DEF i, d, result
<1>7. CASE FreesDoid(result) /\ Goto(w, [pc |-> "free", id |-> i])
  <2>1. d < monotonic /\ monotonic \in Nat
    BY <1>3, <1>5, <1>7 DEF DoidInv, BelowCounter, StoreTyped
  <2>2. /\ free \in Seq(Doid)
        /\ \A k \in 1..Len(free) : free[k] # d
        /\ \A k, m \in 1..Len(free) : free[k] = free[m] => k = m
        /\ \A v \in Holder : HeldBy(v) # d
    BY <1>5, <1>7 DEF DoidInv, StoreTyped, FreeFresh, HeldFresh
  <2> DEFINE rec == [pc |-> "free", id |-> i]
  <2>3. Goto(w, rec) /\ rec.pc = "free" /\ rec.id \in Received /\ request[rec.id].doid = d
    BY <1>1, <1>7 DEF d
  <2> HIDE DEF rec
  <2>4. /\ monotonic' \in Nat /\ monotonic <= monotonic' /\ d < monotonic'
        /\ free' \in Seq(Doid)
        /\ \A k \in 1..Len(free') : \E j \in 1..Len(free) : free[j] = free'[k]
        /\ \A k, m \in 1..Len(free') : free'[k] = free'[m] => k = m
        /\ \A k \in 1..Len(free') : free'[k] # d
    BY <1>2, <2>1, <2>2
  <2>5. QED
    BY <1>1, <1>2, <1>3, <1>4, <2>2, <2>3, <2>4, HoldStep
<1>8. CASE Finish(w, result)
  <2>1. Goto(w, [pc |-> "answer", id |-> i, result |-> result])
    BY <1>8 DEF Finish, i
  <2>2. QED
    BY <1>1, <1>2, <1>4, <1>6, <2>1, QuietWork
<1>9. QED
  BY <1>2, <1>7, <1>8

LEMMA AssignMonotonicDoids ==
  ASSUME DoidInv, NEW w \in Worker, AssignMonotonic(w)
  PROVE  DoidInv'
<1>1. /\ UNCHANGED <<request, m_operation_queue, objects, free>>
      /\ w \notin Holder
  BY DEF AssignMonotonic, vars, Holder, At
<1>2. /\ m_operation_queue' \in Seq({Create} \cup Received)
      /\ objects' = [d \in Doid |-> objects'[d]]
      /\ \A d \in Doid : objects'[d] # Missing => objects[d] # Missing
      /\ monotonic \in Nat /\ free \in Seq(Doid)
      /\ \A k \in 1..Len(free) : free[k] \in Doid /\ free[k] \in Nat
  BY <1>1, SeqFacts, DoidsAreNumbers DEF DoidInv, StoreTyped
<1>3. CASE MonotonicLeft /\ monotonic' = monotonic + 1
           /\ Goto(w, [pc |-> "insert", doid |-> monotonic])
  <2> DEFINE rec == [pc |-> "insert", doid |-> monotonic]
  <2>1. Goto(w, rec) /\ rec.pc = "insert" /\ rec.doid = monotonic
    BY <1>3
  <2> HIDE DEF rec
  <2>2. monotonic \in Doid
    BY <1>3, MongoDatabaseAssumption DEF MonotonicLeft
  <2>3. objects[monotonic] = Missing
    BY <1>2, <2>2 DEF DoidInv, BelowCounter
  <2>4. /\ \A k \in 1..Len(free) : free[k] # monotonic
        /\ \A k, m \in 1..Len(free) : free[k] = free[m] => k = m
    BY <1>2 DEF DoidInv, FreeFresh
  <2>5. \A v \in Holder : HeldBy(v) # monotonic
    BY <1>2 DEF DoidInv, HeldFresh
  <2>6. monotonic' \in Nat /\ monotonic <= monotonic' /\ monotonic < monotonic'
    BY <1>2, <1>3
  <2>7. /\ free' \in Seq(Doid)
        /\ \A k \in 1..Len(free') : \E j \in 1..Len(free) : free[j] = free'[k]
        /\ \A k, m \in 1..Len(free') : free'[k] = free'[m] => k = m
        /\ \A k \in 1..Len(free') : free'[k] # monotonic
    BY <1>1, <1>2, <2>4
  <2>8. objects'[monotonic] = Missing
    BY <1>1, <2>3
  <2>9. QED
    BY <1>1, <1>2, <2>1, <2>2, <2>5, <2>6, <2>7, <2>8, HoldStep
<1>4. CASE Goto(w, [pc |-> "reuse"]) /\ UNCHANGED monotonic
  <2>1. [pc |-> "reuse"].pc \notin {"free", "insert"} \cup Operating
    BY DEF Operating
  <2>2. QED
    BY <1>1, <1>2, <1>4, <2>1, QuietWork
<1>5. QED
  BY <1>3, <1>4 DEF AssignMonotonic

LEMMA AssignReuseDoids ==
  ASSUME DoidInv, NEW w \in Worker, AssignReuse(w)
  PROVE  DoidInv'
<1>1. /\ UNCHANGED <<request, m_operation_queue, objects, monotonic>>
      /\ w \notin Holder
  BY DEF AssignReuse, vars, Holder, At
<1>2. /\ m_operation_queue' \in Seq({Create} \cup Received)
      /\ objects' = [d \in Doid |-> objects'[d]]
      /\ \A d \in Doid : objects'[d] # Missing => objects[d] # Missing
      /\ monotonic \in Nat /\ free \in Seq(Doid)
  BY <1>1 DEF DoidInv, StoreTyped
<1>3. CASE free # <<>> /\ free' = Tail(free)
           /\ Goto(w, [pc |-> "insert", doid |-> Head(free)])
  <2> DEFINE d == Head(free)
             rec == [pc |-> "insert", doid |-> d]
  <2>1. Goto(w, rec) /\ rec.pc = "insert" /\ rec.doid = d
    BY <1>3
  <2>2. /\ d = free[1] /\ d \in Doid
        /\ Len(free) \in Nat /\ 1 \in 1..Len(free)
        /\ free' \in Seq(Doid)
        /\ Len(free') = Len(free) - 1
        /\ \A k \in 1..Len(free') : free'[k] = free[k + 1]
    BY <1>2, <1>3, SeqFacts
  <2> HIDE DEF d, rec
  <2>3. \A k \in 1..Len(free') : k + 1 \in 1..Len(free) /\ k + 1 # 1
    BY <2>2
  <2>4. \A k, m \in 1..Len(free) : free[k] = free[m] => k = m
    BY DEF DoidInv, FreeFresh
  <2>5. \A k \in 1..Len(free') : \E j \in 1..Len(free) : free[j] = free'[k]
    BY <2>2, <2>3
  <2>6. \A k, m \in 1..Len(free') : free'[k] = free'[m] => k = m
    <3> SUFFICES ASSUME NEW k \in 1..Len(free'), NEW m \in 1..Len(free'), free'[k] = free'[m]
                 PROVE  k = m
      OBVIOUS
    <3>1. k + 1 = m + 1
      BY <2>2, <2>3, <2>4
    <3>2. QED
      BY <3>1
  <2>7. \A k \in 1..Len(free') : free'[k] # d
    BY <2>2, <2>3, <2>4
  <2>8. objects'[d] = Missing /\ d < monotonic'
    BY <1>1, <2>2 DEF DoidInv, FreeFresh
  <2>9. \A v \in Holder : HeldBy(v) # d
    BY <2>2 DEF DoidInv, HeldFresh
  <2>10. monotonic' \in Nat /\ monotonic <= monotonic'
    BY <1>1, <1>2
  <2>11. QED
    BY <1>1, <1>2, <2>1, <2>2, <2>5, <2>6, <2>7, <2>8, <2>9, <2>10, HoldStep
<1>4. CASE Goto(w, Idle) /\ UNCHANGED free
  <2>1. Idle.pc \notin {"free", "insert"} \cup Operating
    BY DEF Operating, Idle
  <2>2. QED
    BY <1>1, <1>2, <1>4, <2>1, QuietWork
<1>5. QED
  BY <1>3, <1>4 DEF AssignReuse

LEMMA FreeDoidDoids ==
  ASSUME DoidInv, NEW w \in Worker, FreeDoid(w)
  PROVE  DoidInv'
<1> DEFINE d == HeldBy(w)
           rec == [pc |-> "answer", id |-> worker[w].id, result |-> Success]
<1>1. /\ UNCHANGED <<request, m_operation_queue, objects, monotonic>>
      /\ free' = Append(free, d)
      /\ Goto(w, rec) /\ rec.pc = "answer" /\ rec.id \in Received
      /\ w \in Holder
  <2>1. w \in Holder /\ d = Holding(w).doid /\ worker[w].id \in Received
    BY OperatingId DEF FreeDoid, At, Holder, HeldBy, Operating
  <2>2. QED
    BY <2>1 DEF FreeDoid, Finish, vars
<1>2. /\ d \in Doid /\ objects[d] = Missing /\ d < monotonic
      /\ \A k \in 1..Len(free) : free[k] # d
      /\ \A v \in Holder : HeldBy(v) = d => v = w
  BY <1>1 DEF DoidInv, HeldFresh
<1> HIDE DEF d, rec
<1>3. /\ \A v \in Worker : worker'[v] = IF v = w THEN rec ELSE worker[v]
      /\ worker' = [v \in Worker |-> worker'[v]]
      /\ Received' = Received
  BY <1>1 DEF Goto, DoidInv, WorkersTyped, Received
<1>4. /\ free' \in Seq(Doid) /\ Len(free) \in Nat
      /\ Len(free') = Len(free) + 1
      /\ free'[Len(free) + 1] = d
      /\ \A k \in 1..Len(free) : free'[k] = free[k]
  BY <1>1, <1>2 DEF DoidInv, StoreTyped
<1>5. WorkersTyped'
  BY <1>1, <1>3 DEF DoidInv, WorkersTyped
<1>6. StoreTyped'
  BY <1>1, <1>3, <1>4 DEF DoidInv, StoreTyped
<1>7. BelowCounter'
  BY <1>1 DEF DoidInv, BelowCounter
<1>8. \A k \in 1..Len(free') :
        \/ k = Len(free) + 1 /\ free'[k] = d
        \/ k \in 1..Len(free) /\ free'[k] = free[k]
  BY <1>4
<1>9. FreeFresh'
  <2> SUFFICES ASSUME NEW k \in 1..Len(free')
               PROVE  /\ objects[free'[k]] = Missing
                      /\ free'[k] < monotonic
                      /\ \A m \in 1..Len(free') : free'[m] = free'[k] => m = k
    BY <1>1 DEF FreeFresh
  <2>1. CASE k = Len(free) + 1 /\ free'[k] = d
    BY <2>1, <1>2, <1>8
  <2>2. CASE k \in 1..Len(free) /\ free'[k] = free[k]
    <3>1. /\ objects[free[k]] = Missing
          /\ free[k] < monotonic
          /\ \A m \in 1..Len(free) : free[m] = free[k] => m = k
      BY <2>2 DEF DoidInv, FreeFresh
    <3>2. QED
      BY <2>2, <3>1, <1>2, <1>8
  <2>3. QED
    BY <2>1, <2>2, <1>8
<1>10. \A v \in Holder' : v \in Holder /\ v # w /\ HeldBy(v)' = HeldBy(v)
  BY <1>1, <1>3 DEF Holder, HeldBy, Holding, At
<1>11. HeldFresh'
  <2> SUFFICES ASSUME NEW v \in Holder'
               PROVE  /\ HeldBy(v)' \in Doid
                      /\ objects[HeldBy(v)'] = Missing
                      /\ HeldBy(v)' < monotonic
                      /\ \A k \in 1..Len(free') : free'[k] # HeldBy(v)'
                      /\ \A u \in Holder' : HeldBy(u)' = HeldBy(v)' => u = v
    BY <1>1 DEF HeldFresh
  <2>1. v \in Holder /\ HeldBy(v)' = HeldBy(v) /\ HeldBy(v) # d
    BY <1>2, <1>10
  <2>2. /\ HeldBy(v) \in Doid
        /\ objects[HeldBy(v)] = Missing
        /\ HeldBy(v) < monotonic
        /\ \A k \in 1..Len(free) : free[k] # HeldBy(v)
        /\ \A u \in Holder : HeldBy(u) = HeldBy(v) => u = v
    BY <2>1 DEF DoidInv, HeldFresh
  <2>3. \A u \in Holder' : HeldBy(u)' = HeldBy(v)' => u = v
    BY <2>1, <2>2, <1>10
  <2>4. QED
    BY <2>1, <2>2, <2>3, <1>8
<1>12. QED
  BY <1>5, <1>6, <1>7, <1>9, <1>11 DEF DoidInv

LEMMA InsertObjectDoids ==
  ASSUME DoidInv, NEW w \in Worker, InsertObject(w)
  PROVE  DoidInv'
<1> DEFINE d == HeldBy(w)
<1>1. /\ UNCHANGED <<request, m_operation_queue, free, monotonic>>
      /\ objects' = [objects EXCEPT ![d] = IF @ = Missing THEN NewObject ELSE @]
      /\ Goto(w, Idle)
      /\ w \in Holder
  BY DEF InsertObject, HeldBy, At, Holder, vars
<1>2. /\ d \in Doid /\ d < monotonic
      /\ \A k \in 1..Len(free) : free[k] # d
      /\ \A v \in Holder : HeldBy(v) = d => v = w
  BY <1>1 DEF DoidInv, HeldFresh
<1> HIDE DEF d
<1>3. /\ \A v \in Worker : worker'[v] = IF v = w THEN Idle ELSE worker[v]
      /\ worker' = [v \in Worker |-> worker'[v]]
      /\ Received' = Received
  BY <1>1 DEF Goto, DoidInv, WorkersTyped, Received
<1>4. /\ objects' = [e \in Doid |-> objects'[e]]
      /\ \A e \in Doid : e # d => objects'[e] = objects[e]
      /\ \A k \in 1..Len(free) : free[k] \in Doid
  BY <1>1, SeqFacts DEF DoidInv, StoreTyped
<1>5. WorkersTyped'
  BY <1>3 DEF DoidInv, WorkersTyped, Idle, Operating
<1>6. StoreTyped'
  BY <1>1, <1>3, <1>4 DEF DoidInv, StoreTyped
<1>7. BelowCounter'
  BY <1>1, <1>2, <1>4 DEF DoidInv, BelowCounter
<1>8. FreeFresh'
  BY <1>1, <1>2, <1>4 DEF DoidInv, FreeFresh
<1>9. \A v \in Holder' : v \in Holder /\ v # w /\ HeldBy(v)' = HeldBy(v)
  BY <1>1, <1>3 DEF Holder, HeldBy, Holding, At, Idle
<1>10. HeldFresh'
  <2> SUFFICES ASSUME NEW v \in Holder'
               PROVE  /\ HeldBy(v)' \in Doid
                      /\ objects'[HeldBy(v)'] = Missing
                      /\ HeldBy(v)' < monotonic
                      /\ \A k \in 1..Len(free) : free[k] # HeldBy(v)'
                      /\ \A u \in Holder' : HeldBy(u)' = HeldBy(v)' => u = v
    BY <1>1 DEF HeldFresh
  <2>1. v \in Holder /\ HeldBy(v)' = HeldBy(v) /\ HeldBy(v) # d
    BY <1>2, <1>9
  <2>2. /\ HeldBy(v) \in Doid
        /\ objects[HeldBy(v)] = Missing
        /\ HeldBy(v) < monotonic
        /\ \A k \in 1..Len(free) : free[k] # HeldBy(v)
        /\ \A u \in Holder : HeldBy(u) = HeldBy(v) => u = v
    BY <2>1 DEF DoidInv, HeldFresh
  <2>3. \A u \in Holder' : HeldBy(u)' = HeldBy(v)' => u = v
    BY <2>1, <2>2, <1>9
  <2>4. QED
    BY <2>1, <2>2, <2>3, <1>4
<1>11. QED
  BY <1>5, <1>6, <1>7, <1>8, <1>10 DEF DoidInv

LEMMA PrefixTyped ==
  ASSUME NEW S, NEW q \in Seq(S), NEW m \in Nat
  PROVE  SubSeq(q, 1, Len(q) - m) \in Seq(S)
<1>1. /\ Len(q) \in Nat
      /\ \A k \in 1..Len(q) : q[k] \in S
  BY SeqFacts
<1>2. /\ 1 \in Int /\ Len(q) - m \in Int
      /\ \A k \in 1..(Len(q) - m) : k \in 1..Len(q)
  BY <1>1
<1>3. QED
  BY <1>1, <1>2, SubSeqProperties

(* What clear_operation takes off a queue are received operations.           *)
LEMMA TakenAreReceived ==
  ASSUME TypeOK, TypeOK', NEW d \in Doid
  PROVE  TakenFrom(d) \in Seq(Received)
<1>1. queue[d] \in Seq(Received) /\ queue'[d] \in Seq(Received')
  BY DEF TypeOK
<1>2. Len(queue'[d]) \in Nat
  BY <1>1, SeqFacts
<1>3. QED
  BY <1>1, <1>2, PrefixTyped DEF TakenFrom

(* The requests that arrive.                                                 *)
LEMMA ArrivalDoids ==
  ASSUME DoidInv, TypeOK, TypeOK',
         \/ \E op \in Requests : ReceiveOperation(op)
         \/ \E op \in Malformed : ReceiveMalformed(op)
         \/ ReceiveCreate
  PROVE  DoidInv'
<1>1. /\ UNCHANGED <<worker, objects, monotonic, free>>
      /\ objects' = [d \in Doid |-> objects'[d]]
  BY DEF ReceiveOperation, ReceiveMalformed, ReceiveCreate, DoidInv, StoreTyped
<1>2. m_operation_queue \in Seq({Create} \cup Received)
  BY DEF DoidInv, StoreTyped
<1>3. /\ Received \subseteq Received'
      /\ \A r \in Received : request'[r] = request[r]
      /\ m_operation_queue' \in Seq({Create} \cup Received')
  <2>1. ASSUME NEW op \in Requests, ReceiveOperation(op)
        PROVE  <1>3!1 /\ <1>3!2 /\ <1>3!3
    <3>1. op \in Operation /\ request' = Append(request, op)
      BY <2>1, RequestsAreOperations DEF ReceiveOperation, HandleOperation
    <3>2. /\ Received' = Received \cup {Len(request) + 1}
          /\ \A r \in Received : request'[r] = request[r]
      BY <3>1, Arrival
    <3>3. m_operation_queue \in Seq({Create} \cup Received')
      BY <1>2, <3>2, SeqMonotonic
    <3>4. Append(m_operation_queue, Len(request) + 1) \in Seq({Create} \cup Received')
      BY <3>2, <3>3, AppendProperties
    <3>5. QED
      BY <2>1, <3>2, <3>3, <3>4 DEF ReceiveOperation
  <2>2. ASSUME NEW op \in Malformed, ReceiveMalformed(op)
        PROVE  <1>3!1 /\ <1>3!2 /\ <1>3!3
    <3>1. /\ op \in Operation /\ op.doid \in Doid
          /\ request' = Append(request, op)
          /\ m_operation_queue' = m_operation_queue \o TakenFrom(op.doid)
      BY <2>2, RequestsAreOperations DEF ReceiveMalformed, RejectRequest, Operation
    <3>2. /\ Received' = Received \cup {Len(request) + 1}
          /\ \A r \in Received : request'[r] = request[r]
      BY <3>1, Arrival
    <3>3. m_operation_queue \in Seq({Create} \cup Received')
      BY <1>2, <3>2, SeqMonotonic
    <3>4. TakenFrom(op.doid) \in Seq({Create} \cup Received')
      BY <3>1, <3>2, TakenAreReceived, SeqMonotonic
    <3>5. QED
      BY <3>1, <3>2, <3>3, <3>4, ConcatProperties
  <2>3. CASE ReceiveCreate
    <3>1. request' = request /\ Received' = Received
      BY <2>3 DEF ReceiveCreate, vars, Received
    <3>2. m_operation_queue' \in Seq({Create} \cup Received')
      BY <2>3, <1>2, <3>1, AppendProperties DEF ReceiveCreate
    <3>3. QED
      BY <3>1, <3>2
  <2>4. QED
    BY <2>1, <2>2, <2>3
<1>4. WorkersTyped'
  BY <1>1, <1>3 DEF DoidInv, WorkersTyped
<1>5. QED
  BY <1>1, <1>3, <1>4, QuietStep

LEMMA CleanupDoids ==
  ASSUME DoidInv, TypeOK, TypeOK', NEW w \in Worker, Cleanup(w)
  PROVE  DoidInv'
<1>1. /\ Goto(w, Idle)
      /\ UNCHANGED <<request, objects, monotonic, free>>
      /\ m_operation_queue' = m_operation_queue \o TakenFrom(Holding(w).doid)
  BY DEF Cleanup, Complete
<1>2. Holding(w).doid \in Doid
  <2>1. worker[w].id \in Received
    BY OperatingId DEF Cleanup, At, Operating
  <2>2. request[worker[w].id] \in Operation
    BY <2>1, ElementOfSeq DEF TypeOK, Received
  <2>3. QED
    BY <2>2 DEF Operation, Holding
<1>3. m_operation_queue' \in Seq({Create} \cup Received)
  <2>1. TakenFrom(Holding(w).doid) \in Seq({Create} \cup Received)
    BY <1>2, TakenAreReceived, SeqMonotonic
  <2>2. QED
    BY <1>1, <2>1, ConcatProperties DEF DoidInv, StoreTyped
<1>4. objects' = [d \in Doid |-> objects'[d]]
  BY <1>1 DEF DoidInv, StoreTyped
<1>5. Idle.pc \notin {"free", "insert"} \cup Operating
  BY DEF Idle, Operating
<1>6. QED
  BY <1>1, <1>3, <1>4, <1>5, QuietWork

LEMMA DoidInvariance == MongoSpec => []DoidInv
<1>1. DoidInv /\ TypeOK /\ TypeOK' /\ [MongoNext]_allVars => DoidInv'
  <2> SUFFICES ASSUME DoidInv, TypeOK, TypeOK', [MongoNext]_allVars PROVE DoidInv'
    OBVIOUS
  <2>1. ASSUME NEW w \in Worker, Work(w) PROVE DoidInv'
    BY <2>1, TakeOperationDoids, OperatingStepDoids, DeleteObjectDoids, FreeDoidDoids,
       AssignMonotonicDoids, AssignReuseDoids, InsertObjectDoids, CleanupDoids DEF Work
  <2>2. CASE UNCHANGED allVars
    BY <2>2 DEF allVars, vars, mongoVars, DoidInv, WorkersTyped, StoreTyped, BelowCounter,
       HeldFresh, FreeFresh, Holder, HeldBy, Holding, At, Received
  <2>3. QED
    BY <2>1, <2>2, ArrivalDoids, DatabaseErrorDoids DEF MongoNext
<1>2. MongoSpec => []TypeOK
  BY BackendIsABackend, TypeCorrect, PTL
<1>3. QED
  BY <1>1, <1>2, InitDoidInv, PTL DEF MongoSpec

-----------------------------------------------------------------------------
(* Two objects never get the same doid: what assign_doid hands out is in     *)
(* nobody else's hands, and what free_doid returned has no object, however   *)
(* many threads assign, insert, delete, free and fail at the same time.      *)
THEOREM DoidsAreFresh == MongoSpec => []FreshDoids
<1>1. DoidInv => FreshDoids
  <2> SUFFICES ASSUME DoidInv PROVE FreshDoids
    OBVIOUS
  <2>1. \A w \in Assigned : w \in Holder /\ HeldBy(w) = worker[w].doid
    BY DEF Assigned, At, Holder, HeldBy
  <2>2. QED
    BY <2>1 DEF FreshDoids, DoidInv, HeldFresh, FreeFresh
<1>2. QED
  BY <1>1, DoidInvariance, PTL

(* The scheduler's guarantees, for the threads of this backend.              *)
THEOREM ThreadsDoNotConflict == MongoSpec => [](RunningIndependent /\ NothingStuck /\ ArrivalOrder)
BY BackendIsABackend, NoConflictRuns, QueuesNeverStick, ConflictsInArrivalOrder, PTL
-----------------------------------------------------------------------------
(* Whose hands an operation is in: every submitted operation is held by one  *)
(* thread or waits once in the threads' queue, and what it did to the store  *)
(* is decided exactly when its database call has run.                        *)
Undecided == {"get", "delete", "modify"}

Busy == {w \in Worker : worker[w].pc \in Operating}

(* Nothing is decided before it arrived, and nobody who still waits is.      *)
OutcomeInv ==
  /\ outcome = [i \in 1..MaxRequests |-> outcome[i]]
  /\ Len(request) <= MaxRequests
  /\ \A i \in 1..MaxRequests : i \notin Received => outcome[i] = Pending
  /\ \A i \in cleared \cup dropped : outcome[i] # Pending
  /\ \A d \in Doid : \A k \in 1..Len(queue[d]) : outcome[queue[d][k]] = Pending

(* A thread holds a submitted operation that no other thread holds.          *)
BusyInv ==
  \A w \in Busy :
    /\ worker[w].id \in submitted
    /\ outcome[worker[w].id] = Pending <=> worker[w].pc \in Undecided
    /\ worker[w].pc \in Undecided => worker[w].pc = Handler(request[worker[w].id])
    /\ \A v \in Busy : worker[v].id = worker[w].id => v = w

(* What waits for a thread is submitted, undecided and held by none.         *)
WaitingInv ==
  \A k \in 1..Len(m_operation_queue) : m_operation_queue[k] # Create =>
    /\ m_operation_queue[k] \in submitted
    /\ outcome[m_operation_queue[k]] = Pending
    /\ \A m \in 1..Len(m_operation_queue) : m_operation_queue[m] = m_operation_queue[k] => m = k
    /\ \A w \in Busy : worker[w].id # m_operation_queue[k]

HandsInv == OutcomeInv /\ BusyInv /\ WaitingInv

LEMMA InitHandsInv == MongoInit => HandsInv
BY DatabaseServerAssumption
DEF MongoInit, Init, HandsInv, OutcomeInv, BusyInv, WaitingInv, Busy, Operating, Idle, Received

(* Who waits in a queue is not with the backend.                             *)
LEMMA QueuedIsNotSubmitted ==
  ASSUME IInv, NEW d \in Doid, NEW k \in 1..Len(queue[d])
  PROVE  /\ queue[d][k] \in Received
         /\ queue[d][k] \notin submitted
         /\ request[queue[d][k]].doid = d
<1>1. /\ queue[d] \in Seq(Received)
      /\ request[queue[d][k]].doid = d
      /\ \A r \in running[d] : r < queue[d][k]
  BY DEF IInv, TypeOK, QueueInArrivalOrder
<1>2. queue[d][k] \in Received /\ queue[d][k] \in Nat
  BY <1>1, SeqFacts DEF Received
<1>3. queue[d][k] \in submitted => queue[d][k] \in running[d]
  BY <1>1 DEF IInv, SubmittedIsRunning
<1>4. QED
  BY <1>1, <1>2, <1>3

(* The ids in the model's bounds.                                            *)
LEMMA ReceivedRange ==
  ASSUME IInv, OutcomeInv
  PROVE  /\ Received \subseteq 1..MaxRequests
         /\ Received \subseteq Nat
         /\ Create \notin Received
         /\ submitted \subseteq Received
         /\ Len(request) \in Nat
BY DatabaseServerAssumption DEF OutcomeInv, Received, Create, IInv, TypeOK

(* A thread goes on with the operation it has, which is now decided.         *)
LEMMA DecideStep ==
  ASSUME IInv, DoidInv, HandsInv, NEW w \in Busy, NEW rec,
         Goto(w, rec), UNCHANGED <<vars, m_operation_queue>>,
         rec.pc \in Operating \ Undecided, rec.id = worker[w].id,
         outcome'[worker[w].id] # Pending,
         outcome' = [i \in 1..MaxRequests |-> outcome'[i]],
         \A i \in Received : i # worker[w].id => outcome'[i] = outcome[i],
         \A i \in 1..MaxRequests : i \notin Received => outcome'[i] = outcome[i]
  PROVE  HandsInv'
<1> DEFINE i == worker[w].id
<1>1. w \in Worker /\ i \in submitted /\ i \in Received
  BY ReceivedRange DEF HandsInv, BusyInv, Busy
<1>2. /\ \A v \in Worker : worker'[v] = IF v = w THEN rec ELSE worker[v]
      /\ Received' = Received
      /\ UNCHANGED <<request, queue, submitted, cleared, dropped>>
  BY DEF Goto, DoidInv, WorkersTyped, Received, vars
<1>3. Busy' = Busy
  BY <1>2 DEF Busy
<1>4. \A v \in Busy : worker'[v].id = worker[v].id
  BY <1>2 DEF Busy
<1>5. OutcomeInv'
  <2>1. \A d \in Doid : \A k \in 1..Len(queue[d]) : queue[d][k] # i /\ queue[d][k] \in Received
    BY <1>1, QueuedIsNotSubmitted
  <2>2. \A j \in cleared \cup dropped : j \in Received /\ outcome[j] # Pending
    BY DEF IInv, TypeOK, HandsInv, OutcomeInv
  <2>3. /\ Len(request) <= MaxRequests
        /\ \A j \in 1..MaxRequests : j \notin Received => outcome[j] = Pending
        /\ \A d \in Doid : \A k \in 1..Len(queue[d]) : outcome[queue[d][k]] = Pending
    BY DEF HandsInv, OutcomeInv
  <2>4. \A d \in Doid : \A k \in 1..Len(queue[d]) : outcome'[queue[d][k]] = Pending
    BY <2>1, <2>3
  <2>5. \A j \in cleared \cup dropped : outcome'[j] # Pending
    BY <2>2
  <2>6. \A j \in 1..MaxRequests : j \notin Received => outcome'[j] = Pending
    BY <2>3
  <2>7. QED
    BY <1>2, <2>3, <2>4, <2>5, <2>6 DEF OutcomeInv
<1>6. BusyInv'
  <2> SUFFICES ASSUME NEW v \in Busy
               PROVE  /\ worker'[v].id \in submitted
                      /\ outcome'[worker'[v].id] = Pending <=> worker'[v].pc \in Undecided
                      /\ worker'[v].pc \in Undecided => worker'[v].pc = Handler(request[worker'[v].id])
                      /\ \A u \in Busy : worker'[u].id = worker'[v].id => u = v
    BY <1>2, <1>3 DEF BusyInv, Handler
  <2>1. /\ worker[v].id \in submitted
        /\ outcome[worker[v].id] = Pending <=> worker[v].pc \in Undecided
        /\ worker[v].pc \in Undecided => worker[v].pc = Handler(request[worker[v].id])
        /\ \A u \in Busy : worker[u].id = worker[v].id => u = v
    BY DEF HandsInv, BusyInv
  <2>2. CASE v = w
    BY <2>1, <2>2, <1>2, <1>4 DEF Busy
  <2>3. CASE v # w
    <3>1. worker[v].id # i /\ worker[v].id \in Received /\ worker'[v] = worker[v]
      BY <2>1, <2>3, <1>2, ReceivedRange DEF HandsInv, Busy
    <3>2. QED
      BY <2>1, <3>1, <1>4
  <2>4. QED
    BY <2>2, <2>3
<1>7. WaitingInv'
  <2> SUFFICES ASSUME NEW k \in 1..Len(m_operation_queue), m_operation_queue[k] # Create
               PROVE  /\ m_operation_queue[k] \in submitted
                      /\ outcome'[m_operation_queue[k]] = Pending
                      /\ \A m \in 1..Len(m_operation_queue) : m_operation_queue[m] = m_operation_queue[k] => m = k
                      /\ \A v \in Busy : worker'[v].id # m_operation_queue[k]
    BY <1>2, <1>3 DEF WaitingInv
  <2>1. /\ m_operation_queue[k] \in submitted
        /\ outcome[m_operation_queue[k]] = Pending
        /\ \A m \in 1..Len(m_operation_queue) : m_operation_queue[m] = m_operation_queue[k] => m = k
        /\ \A v \in Busy : worker[v].id # m_operation_queue[k]
    BY DEF HandsInv, WaitingInv
  <2>2. m_operation_queue[k] # i /\ m_operation_queue[k] \in Received
    BY <2>1, ReceivedRange DEF HandsInv
  <2>3. QED
    BY <2>1, <2>2, <1>4
<1>8. QED
  BY <1>5, <1>6, <1>7 DEF HandsInv

(* A thread that creates an object has no queued operation in its hands.     *)
LEMMA CreatorStep ==
  ASSUME DoidInv, HandsInv, NEW w \in Worker, w \notin Busy, NEW rec,
         Goto(w, rec), UNCHANGED <<vars, m_operation_queue, outcome>>,
         rec.pc \notin Operating
  PROVE  HandsInv'
<1>1. /\ \A v \in Worker : worker'[v] = IF v = w THEN rec ELSE worker[v]
      /\ Received' = Received
      /\ UNCHANGED <<request, queue, submitted, cleared, dropped>>
  BY DEF Goto, DoidInv, WorkersTyped, Received, vars
<1>2. Busy' = Busy /\ \A v \in Busy : worker'[v] = worker[v]
  BY <1>1 DEF Busy
<1>3. OutcomeInv'
  BY <1>1 DEF HandsInv, OutcomeInv
<1>4. BusyInv'
  BY <1>1, <1>2 DEF HandsInv, BusyInv, Handler
<1>5. WaitingInv'
  BY <1>1, <1>2 DEF HandsInv, WaitingInv
<1>6. QED
  BY <1>3, <1>4, <1>5 DEF HandsInv

(* run_thread moves an operation from the queue into the thread's hands.     *)
LEMMA TakeOperationHands ==
  ASSUME IInv, DoidInv, HandsInv, NEW w \in Worker, TakeOperation(w)
  PROVE  HandsInv'
<1> DEFINE i == Head(m_operation_queue)
           n == Len(m_operation_queue)
<1>1. /\ UNCHANGED <<request, queue, submitted, cleared, dropped, outcome>>
      /\ UNCHANGED vars
      /\ w \notin Busy
      /\ m_operation_queue' = Tail(m_operation_queue)
      /\ Goto(w, IF i = Create THEN [pc |-> "assign"] ELSE [pc |-> Handler(request[i]), id |-> i])
  BY DEF TakeOperation, vars, At, Busy, Operating
<1>2. /\ n \in Nat /\ 1 \in 1..n /\ i = m_operation_queue[1]
      /\ Len(m_operation_queue') = n - 1
      /\ \A k \in 1..(n - 1) : m_operation_queue'[k] = m_operation_queue[k + 1]
  BY <1>1, SeqFacts DEF DoidInv, StoreTyped, TakeOperation
<1>3. \A k \in 1..Len(m_operation_queue') :
        k + 1 \in 1..n /\ k + 1 # 1 /\ m_operation_queue'[k] = m_operation_queue[k + 1]
  BY <1>2
<1>4. Received' = Received /\ OutcomeInv'
  BY <1>1 DEF HandsInv, OutcomeInv, Received
<1>5. \A k \in 1..n : m_operation_queue[k] # Create =>
        /\ m_operation_queue[k] \in submitted
        /\ outcome[m_operation_queue[k]] = Pending
        /\ \A m \in 1..n : m_operation_queue[m] = m_operation_queue[k] => m = k
        /\ \A v \in Busy : worker[v].id # m_operation_queue[k]
  BY DEF HandsInv, WaitingInv
<1>6. CASE i = Create
  <2>1. /\ \A v \in Worker : worker'[v] = IF v = w THEN [pc |-> "assign"] ELSE worker[v]
    BY <1>1, <1>6 DEF Goto, DoidInv, WorkersTyped
  <2>2. Busy' = Busy /\ \A v \in Busy : worker'[v] = worker[v]
    BY <2>1, <1>1 DEF Busy, Operating
  <2>3. BusyInv'
    BY <1>1, <2>2 DEF HandsInv, BusyInv, Handler
  <2>4. WaitingInv'
    <3> SUFFICES ASSUME NEW k \in 1..Len(m_operation_queue'), m_operation_queue'[k] # Create
                 PROVE  /\ m_operation_queue'[k] \in submitted
                        /\ outcome[m_operation_queue'[k]] = Pending
                        /\ \A m \in 1..Len(m_operation_queue') : m_operation_queue'[m] = m_operation_queue'[k] => m = k
                        /\ \A v \in Busy : worker[v].id # m_operation_queue'[k]
      BY <1>1, <2>2 DEF WaitingInv
    <3>1. \A m \in 1..Len(m_operation_queue') : m_operation_queue'[m] = m_operation_queue'[k] => m + 1 = k + 1
      BY <1>3, <1>5
    <3>2. QED
      BY <1>3, <1>5, <3>1
  <2>5. QED
    BY <1>4, <2>3, <2>4 DEF HandsInv
<1>7. CASE i # Create
  <2> DEFINE rec == [pc |-> Handler(request[i]), id |-> i]
  <2>1. \A v \in Worker : worker'[v] = IF v = w THEN rec ELSE worker[v]
    BY <1>1, <1>7 DEF Goto, DoidInv, WorkersTyped
  <2>2. rec.id = i /\ rec.pc = Handler(request[i]) /\ rec.pc \in Undecided
    BY DEF Handler, Undecided
  <2>3. Undecided \subseteq Operating
    BY DEF Undecided, Operating
  <2> HIDE DEF rec
  <2>4. Busy' = Busy \cup {w} /\ \A v \in Busy : v # w /\ worker'[v] = worker[v]
    BY <2>1, <2>2, <2>3, <1>1 DEF Busy
  <2>5. worker'[w] = rec
    BY <2>1
  <2>6. /\ i \in submitted
        /\ outcome[i] = Pending
        /\ \A m \in 1..n : m_operation_queue[m] = i => m = 1
        /\ \A v \in Busy : worker[v].id # i
    BY <1>2, <1>5, <1>7
  <2> HIDE DEF i
  <2>7. BusyInv'
    <3> SUFFICES ASSUME NEW v \in Busy'
                 PROVE  /\ worker'[v].id \in submitted
                        /\ outcome[worker'[v].id] = Pending <=> worker'[v].pc \in Undecided
                        /\ worker'[v].pc \in Undecided => worker'[v].pc = Handler(request[worker'[v].id])
                        /\ \A u \in Busy' : worker'[u].id = worker'[v].id => u = v
      BY <1>1 DEF BusyInv, Handler
    <3>1. CASE v = w
      BY <3>1, <2>2, <2>4, <2>5, <2>6
    <3>2. CASE v \in Busy
      BY <3>2, <2>2, <2>4, <2>5, <2>6 DEF HandsInv, BusyInv
    <3>3. QED
      BY <2>4, <3>1, <3>2
  <2>8. WaitingInv'
    <3> SUFFICES ASSUME NEW k \in 1..Len(m_operation_queue'), m_operation_queue'[k] # Create
                 PROVE  /\ m_operation_queue'[k] \in submitted
                        /\ outcome[m_operation_queue'[k]] = Pending
                        /\ \A m \in 1..Len(m_operation_queue') : m_operation_queue'[m] = m_operation_queue'[k] => m = k
                        /\ \A v \in Busy' : worker'[v].id # m_operation_queue'[k]
      BY <1>1 DEF WaitingInv
    <3>1. \A m \in 1..Len(m_operation_queue') : m_operation_queue'[m] = m_operation_queue'[k] => m + 1 = k + 1
      BY <1>3, <1>5
    <3>2. m_operation_queue'[k] # i
      BY <1>3, <2>6
    <3>3. \A v \in Busy : worker'[v].id # m_operation_queue'[k]
      BY <1>3, <1>5, <2>4
    <3>4. QED
      BY <1>3, <1>5, <3>1, <3>2, <3>3, <2>2, <2>4, <2>5
  <2>9. QED
    BY <1>4, <2>7, <2>8 DEF HandsInv
<1>8. QED
  BY <1>6, <1>7

(* clear_operation moves operations from the front of a queue to the backend *)
(* and to the threads' queue.                                                *)
LEMMA ClearMoves ==
  ASSUME IInv, NEW op \in Operation, NEW i, ClearOperation(op, i), Received \subseteq Received'
  PROVE  LET q == TakenFrom(op.doid) IN
         /\ Len(q) \in Nat /\ q \in Seq(Received)
         /\ submitted' = (submitted \ {i}) \cup {q[k] : k \in 1..Len(q)}
         /\ cleared' = cleared \cup {i} /\ dropped' = dropped
         /\ \A k \in 1..Len(q) : \E m \in 1..Len(queue[op.doid]) : q[k] = queue[op.doid][m]
         /\ \A k, m \in 1..Len(q) : q[k] = q[m] => k = m
         /\ \A d \in Doid : \A k \in 1..Len(queue'[d]) :
              \E m \in 1..Len(queue[d]) : queue'[d][k] = queue[d][m]
<1> DEFINE d == op.doid
           q == TakenFrom(d)
<1>1. d \in Doid
  BY DEF Operation
<1>2. PICK n \in 0..Len(queue[d]) :
        /\ queue' = [queue EXCEPT ![d] = SubSeq(@, n + 1, Len(@))]
        /\ submitted' = (submitted \ {i}) \cup {queue[d][k] : k \in 1..n}
        /\ cleared' = cleared \cup {i} /\ dropped' = dropped
  BY DEF ClearOperation
<1>3. queue \in [Doid -> Seq(Received)] /\ queue[d] \in Seq(Received)
  BY <1>1 DEF IInv, TypeOK
<1>4. Len(queue[d]) \in Nat /\ n \in Nat /\ n <= Len(queue[d])
  BY <1>2, <1>3, SeqFacts
<1>5. /\ Len(queue'[d]) = Len(queue[d]) - n
      /\ \A k \in 1..Len(queue'[d]) : queue'[d][k] = queue[d][k + n] /\ k + n \in 1..Len(queue[d])
  <2>1. queue'[d] = SubSeq(queue[d], n + 1, Len(queue[d]))
    BY <1>1, <1>2, <1>3
  <2>2. QED
    BY <2>1, <1>3, <1>4
<1>6. q = SubSeq(queue[d], 1, n)
  BY <1>4, <1>5 DEF TakenFrom
<1>7. /\ Len(q) = n /\ q \in Seq(Received)
      /\ \A k \in 1..n : q[k] = queue[d][k] /\ k \in 1..Len(queue[d])
  BY <1>3, <1>4, <1>6
<1>8. \A k, m \in 1..n : q[k] = q[m] => k = m
  <2> SUFFICES ASSUME NEW k \in 1..n, NEW m \in 1..n, k < m PROVE q[k] # q[m]
    BY <1>4
  <2>1. queue[d][k] < queue[d][m] /\ queue[d][k] \in Nat
    BY <1>1, <1>3, <1>4, SeqFacts DEF IInv, QueueInArrivalOrder, Received
  <2>2. QED
    BY <2>1, <1>7
<1>9. {queue[d][k] : k \in 1..n} = {q[k] : k \in 1..Len(q)}
  BY <1>7
<1>10. \A e \in Doid : \A k \in 1..Len(queue'[e]) :
         \E m \in 1..Len(queue[e]) : queue'[e][k] = queue[e][m]
  <2> SUFFICES ASSUME NEW e \in Doid, NEW k \in 1..Len(queue'[e])
               PROVE  \E m \in 1..Len(queue[e]) : queue'[e][k] = queue[e][m]
    OBVIOUS
  <2>1. CASE e = d
    BY <1>5, <2>1
  <2>2. CASE e # d
    <3>1. queue'[e] = queue[e]
      BY <1>1, <1>2, <1>3, <2>2
    <3>2. QED
      BY <3>1
  <2>3. QED
    BY <2>1, <2>2
<1>11. QED
  BY <1>2, <1>4, <1>7, <1>8, <1>9, <1>10

(* ... which the invariant survives when the operation that is cleared is    *)
(* decided and in nobody's hands.                                            *)
LEMMA ClearHands ==
  ASSUME IInv, DoidInv, HandsInv, NEW op \in Operation, NEW i \in 1..MaxRequests,
         ClearOperation(op, i), Received \subseteq Received', Len(request') <= MaxRequests,
         \A r \in Received : request'[r] = request[r],
         \A j \in 1..MaxRequests : j \notin Received' => j \notin Received,
         outcome' = [j \in 1..MaxRequests |-> outcome'[j]],
         outcome'[i] # Pending, i \in Received', i \in Received => i \in submitted,
         \A j \in 1..MaxRequests : j # i => outcome'[j] = outcome[j],
         m_operation_queue' = m_operation_queue \o TakenFrom(op.doid),
         Busy' \subseteq Busy,
         \A v \in Busy' : worker'[v] = worker[v] /\ worker[v].id # i,
         \A k \in 1..Len(m_operation_queue) : m_operation_queue[k] # i
  PROVE  HandsInv'
<1> DEFINE q == TakenFrom(op.doid)
           n == Len(m_operation_queue)
<1>1. /\ Len(q) \in Nat /\ q \in Seq(Received)
      /\ submitted' = (submitted \ {i}) \cup {q[k] : k \in 1..Len(q)}
      /\ cleared' = cleared \cup {i} /\ dropped' = dropped
      /\ \A k \in 1..Len(q) : \E m \in 1..Len(queue[op.doid]) : q[k] = queue[op.doid][m]
      /\ \A k, m \in 1..Len(q) : q[k] = q[m] => k = m
      /\ \A d \in Doid : \A k \in 1..Len(queue'[d]) :
           \E m \in 1..Len(queue[d]) : queue'[d][k] = queue[d][m]
  BY ClearMoves
<1>2. Received \subseteq 1..MaxRequests /\ submitted \subseteq Received /\ Create \notin Received
  BY ReceivedRange DEF HandsInv
<1>3. \A d \in Doid : \A k \in 1..Len(queue[d]) :
        /\ queue[d][k] \in Received /\ queue[d][k] \notin submitted /\ queue[d][k] # i
        /\ outcome'[queue[d][k]] = Pending
  <2> SUFFICES ASSUME NEW d \in Doid, NEW k \in 1..Len(queue[d])
               PROVE  /\ queue[d][k] \in Received /\ queue[d][k] \notin submitted
                      /\ queue[d][k] # i /\ outcome'[queue[d][k]] = Pending
    OBVIOUS
  <2>1. queue[d][k] \in Received /\ queue[d][k] \notin submitted
    BY QueuedIsNotSubmitted
  <2>2. outcome[queue[d][k]] = Pending
    BY DEF HandsInv, OutcomeInv
  <2>3. QED
    BY <2>1, <2>2, <1>2
<1>4. \A k \in 1..Len(q) :
        /\ q[k] \in Received /\ q[k] \notin submitted /\ q[k] # i
        /\ outcome'[q[k]] = Pending
  <2>1. op.doid \in Doid
    BY DEF Operation
  <2> HIDE DEF q
  <2>2. ASSUME NEW k \in 1..Len(q)
        PROVE  q[k] \in Received /\ q[k] \notin submitted /\ q[k] # i /\ outcome'[q[k]] = Pending
    <3>1. PICK m \in 1..Len(queue[op.doid]) : q[k] = queue[op.doid][m]
      BY <1>1
    <3>2. QED
      BY <2>1, <3>1, <1>3
  <2>3. QED
    BY <2>2
<1> HIDE DEF q
<1>5. OutcomeInv'
  <2>1. \A j \in cleared' \cup dropped' : outcome'[j] # Pending
    <3> SUFFICES ASSUME NEW j \in cleared \cup dropped, j # i PROVE outcome'[j] # Pending
      BY <1>1
    <3>1. j \in Received /\ outcome[j] # Pending
      BY DEF IInv, TypeOK, HandsInv, OutcomeInv
    <3>2. QED
      BY <3>1, <1>2
  <2>2. ASSUME NEW d \in Doid, NEW k \in 1..Len(queue'[d])
        PROVE  outcome'[queue'[d][k]] = Pending
    <3>1. PICK m \in 1..Len(queue[d]) : queue'[d][k] = queue[d][m]
      BY <1>1
    <3>2. QED
      BY <3>1, <1>3
  <2>3. \A j \in 1..MaxRequests : j \notin Received' => outcome'[j] = Pending
    BY DEF HandsInv, OutcomeInv
  <2>4. QED
    BY <2>1, <2>2, <2>3 DEF OutcomeInv
<1>6. \A v \in Busy' : worker[v].id \in submitted /\ worker[v].id \in Received /\ v \in Busy
  BY <1>2 DEF HandsInv, BusyInv
<1>7. BusyInv'
  <2> SUFFICES ASSUME NEW v \in Busy'
               PROVE  /\ worker[v].id \in submitted'
                      /\ outcome'[worker[v].id] = Pending <=> worker[v].pc \in Undecided
                      /\ worker[v].pc \in Undecided => worker[v].pc = Handler(request'[worker[v].id])
                      /\ \A u \in Busy' : worker[u].id = worker[v].id => u = v
    BY DEF BusyInv, Handler
  <2>1. /\ worker[v].id \in submitted
        /\ outcome[worker[v].id] = Pending <=> worker[v].pc \in Undecided
        /\ worker[v].pc \in Undecided => worker[v].pc = Handler(request[worker[v].id])
        /\ \A u \in Busy : worker[u].id = worker[v].id => u = v
    BY DEF HandsInv, BusyInv
  <2>2. request'[worker[v].id] = request[worker[v].id]
    BY <1>6
  <2>3. QED
    BY <2>1, <2>2, <1>1, <1>2, <1>6
<1>8. WaitingInv'
  <2>1. m_operation_queue \in Seq({Create} \cup Received) /\ n \in Nat
    BY SeqFacts DEF DoidInv, StoreTyped
  <2>2. q \in Seq({Create} \cup Received)
    BY <1>1, SeqMonotonic
  <2>3. /\ Len(m_operation_queue') = n + Len(q)
        /\ \A k \in 1..Len(m_operation_queue') :
             \/ k \in 1..n /\ m_operation_queue'[k] = m_operation_queue[k]
             \/ k - n \in 1..Len(q) /\ m_operation_queue'[k] = q[k - n]
    <3>1. /\ Len(m_operation_queue') = n + Len(q)
          /\ \A k \in 1..(n + Len(q)) : m_operation_queue'[k] =
               IF k <= n THEN m_operation_queue[k] ELSE q[k - n]
      <4>1. m_operation_queue' = m_operation_queue \o q
        BY DEF q
      <4>2. QED
        BY <4>1, <2>1, <2>2, <1>1, ConcatProperties
    <3>2. QED
      BY <3>1, <2>1, <1>1
  <2>4. \A k \in 1..n : m_operation_queue[k] # Create =>
          /\ m_operation_queue[k] \in submitted /\ m_operation_queue[k] \in Received
          /\ outcome'[m_operation_queue[k]] = Pending
          /\ \A m \in 1..n : m_operation_queue[m] = m_operation_queue[k] => m = k
          /\ \A v \in Busy' : worker[v].id # m_operation_queue[k]
    BY <1>2 DEF HandsInv, WaitingInv
  <2>5. \A k \in 1..n : m_operation_queue[k] = Create \/ m_operation_queue[k] \in submitted
    BY <2>4
  <2> SUFFICES ASSUME NEW k \in 1..Len(m_operation_queue'), m_operation_queue'[k] # Create
               PROVE  /\ m_operation_queue'[k] \in submitted'
                      /\ outcome'[m_operation_queue'[k]] = Pending
                      /\ \A m \in 1..Len(m_operation_queue') : m_operation_queue'[m] = m_operation_queue'[k] => m = k
                      /\ \A v \in Busy' : worker[v].id # m_operation_queue'[k]
    <3>1. \A v \in Busy' : worker'[v].id = worker[v].id
      OBVIOUS
    <3>2. QED
      BY <3>1 DEF WaitingInv
  <2>6. CASE k \in 1..n /\ m_operation_queue'[k] = m_operation_queue[k]
    <3>1. /\ m_operation_queue[k] \in submitted /\ m_operation_queue[k] # i
          /\ outcome'[m_operation_queue[k]] = Pending
          /\ \A v \in Busy' : worker[v].id # m_operation_queue[k]
      BY <2>4, <2>6
    <3>2. \A m \in 1..Len(m_operation_queue') : m_operation_queue'[m] = m_operation_queue[k] => m = k
      BY <2>3, <2>4, <2>6, <1>4
    <3>3. QED
      BY <2>6, <3>1, <3>2, <1>1
  <2>7. CASE k - n \in 1..Len(q) /\ m_operation_queue'[k] = q[k - n]
    <3>1. /\ q[k - n] \in submitted' /\ q[k - n] \notin submitted /\ q[k - n] \in Received
          /\ outcome'[q[k - n]] = Pending
      BY <2>7, <1>1, <1>4
    <3>2. \A m \in 1..Len(m_operation_queue') : m_operation_queue'[m] = q[k - n] => m = k
      <4> SUFFICES ASSUME NEW m \in 1..Len(m_operation_queue'), m_operation_queue'[m] = q[k - n]
                   PROVE  m = k
        OBVIOUS
      <4>1. CASE m \in 1..n /\ m_operation_queue'[m] = m_operation_queue[m]
        BY <4>1, <3>1, <2>5, <1>2
      <4>2. CASE m - n \in 1..Len(q) /\ m_operation_queue'[m] = q[m - n]
        <5>1. m - n = k - n
          BY <4>2, <2>7, <1>1
        <5>2. QED
          BY <5>1, <2>1, <2>3, <1>1
      <4>3. QED
        BY <2>3, <4>1, <4>2
    <3>3. QED
      BY <2>7, <3>1, <3>2, <1>6
  <2>8. QED
    BY <2>3, <2>6, <2>7
<1>9. QED
  BY <1>5, <1>7, <1>8 DEF HandsInv

(* The end of an operation: the thread lets go of it.                        *)
LEMMA CleanupHands ==
  ASSUME IInv, DoidInv, HandsInv, NEW w \in Worker, Cleanup(w)
  PROVE  HandsInv'
<1> DEFINE i == worker[w].id
           op == request[i]
<1>1. /\ Goto(w, Idle) /\ UNCHANGED <<request, outcome>>
      /\ ClearOperation(op, i)
      /\ m_operation_queue' = m_operation_queue \o TakenFrom(op.doid)
      /\ worker[w].pc = "cleanup"
  BY DEF Cleanup, Complete, Holding, At
<1>2. w \in Busy /\ i \in submitted /\ i \in Received /\ i \in 1..MaxRequests
  BY <1>1, ReceivedRange DEF Busy, Operating, HandsInv, BusyInv
<1>3. op \in Operation
  BY <1>2, ElementOfSeq DEF IInv, TypeOK, Received
<1>4. outcome[i] # Pending
  BY <1>1, <1>2 DEF HandsInv, BusyInv, Undecided
<1>5. /\ \A v \in Worker : worker'[v] = IF v = w THEN Idle ELSE worker[v]
  BY <1>1 DEF Goto, DoidInv, WorkersTyped
<1>6. Busy' \subseteq Busy /\ \A v \in Busy' : v \in Busy /\ v # w /\ worker'[v] = worker[v]
  BY <1>5 DEF Busy, Idle, Operating
<1>7. \A v \in Busy' : worker[v].id # i
  BY <1>2, <1>6 DEF HandsInv, BusyInv
<1>8. \A k \in 1..Len(m_operation_queue) : m_operation_queue[k] # i
  BY <1>2, ReceivedRange DEF HandsInv, WaitingInv
<1>9. Received' = Received /\ Len(request') <= MaxRequests
  BY <1>1 DEF Received, HandsInv, OutcomeInv
<1>10. outcome = [j \in 1..MaxRequests |-> outcome[j]]
  BY DEF HandsInv, OutcomeInv
<1> HIDE DEF i, op
<1>11. QED
  BY <1>1, <1>2, <1>3, <1>4, <1>6, <1>7, <1>8, <1>9, <1>10, ClearHands

(* A request that fails to initialize is decided as it arrives.              *)
LEMMA ReceiveMalformedHands ==
  ASSUME IInv, DoidInv, HandsInv, NEW op \in Malformed, ReceiveMalformed(op)
  PROVE  HandsInv'
<1> DEFINE i == Len(request) + 1
<1>1. op \in Operation /\ op.doid \in Doid
  BY RequestsAreOperations DEF Operation
<1>2. /\ Len(request) < MaxRequests
      /\ request' = Append(request, op)
      /\ m_operation_queue' = m_operation_queue \o TakenFrom(op.doid)
      /\ outcome' = [outcome EXCEPT ![i] = Failure]
      /\ UNCHANGED worker
  BY DEF ReceiveMalformed, RejectRequest
<1>3. /\ Len(request) \in Nat /\ Received \subseteq 1..MaxRequests /\ submitted \subseteq Received
      /\ Create \notin Received
  BY ReceivedRange DEF HandsInv
<1>4. /\ Received' = Received \cup {i} /\ Len(request') <= MaxRequests
      /\ \A r \in Received : request'[r] = request[r]
      /\ i \notin Received /\ i \in 1..MaxRequests /\ i # Create
  BY <1>1, <1>2, <1>3, Arrival, DatabaseServerAssumption DEF IInv, Received, Create, TypeOK
<1>5. /\ outcome' = [j \in 1..MaxRequests |-> outcome'[j]]
      /\ outcome'[i] # Pending
      /\ \A j \in 1..MaxRequests : j # i => outcome'[j] = outcome[j]
  BY <1>2, <1>4 DEF HandsInv, OutcomeInv, Failure, Pending
<1>6. /\ Busy' = Busy
      /\ \A v \in Busy : worker'[v] = worker[v] /\ worker[v].id # i
      /\ \A v \in Busy : worker[v].id \in Received
      /\ \A k \in 1..Len(m_operation_queue) : m_operation_queue[k] # i
  BY <1>2, <1>3, <1>4 DEF HandsInv, BusyInv, WaitingInv, Busy
<1> HIDE DEF i
<1>7. CASE ClearOperation(op, i)
  BY <1>1, <1>2, <1>4, <1>5, <1>6, <1>7, ClearHands
<1>8. CASE dropped' = dropped \cup {i} /\ UNCHANGED <<queue, running, submitted, cleared>>
  <2>1. TakenFrom(op.doid) = <<>>
    <3>1. queue[op.doid] \in Seq(Received)
      BY <1>1 DEF IInv, TypeOK
    <3>2. QED
      BY <3>1, <1>8 DEF TakenFrom
  <2>2. m_operation_queue' = m_operation_queue
    BY <2>1, <1>2 DEF DoidInv, StoreTyped
  <2>3. OutcomeInv'
    <3>1. \A j \in cleared \cup dropped : j \in 1..MaxRequests /\ j # i /\ outcome[j] # Pending
      BY <1>3, <1>4 DEF IInv, TypeOK, HandsInv, OutcomeInv
    <3>2. ASSUME NEW d \in Doid, NEW k \in 1..Len(queue[d]) PROVE outcome'[queue[d][k]] = Pending
      <4>1. queue[d][k] \in Received
        BY QueuedIsNotSubmitted
      <4>2. outcome[queue[d][k]] = Pending
        BY DEF HandsInv, OutcomeInv
      <4>3. queue[d][k] \in 1..MaxRequests /\ queue[d][k] # i
        BY <4>1, <1>3, <1>4
      <4>4. QED
        BY <4>2, <4>3, <1>5
    <3>3. \A j \in 1..MaxRequests : j \notin Received' => outcome'[j] = Pending
      BY <1>4, <1>5 DEF HandsInv, OutcomeInv
    <3>4. \A j \in cleared' \cup dropped' : outcome'[j] # Pending
      BY <1>5, <1>8, <3>1
    <3>5. QED
      BY <1>4, <1>5, <1>8, <3>2, <3>3, <3>4 DEF OutcomeInv
  <2>4. \A v \in Busy : /\ outcome'[worker[v].id] = outcome[worker[v].id]
                        /\ request'[worker[v].id] = request[worker[v].id]
    BY <1>3, <1>4, <1>5, <1>6
  <2>5. BusyInv'
    <3> SUFFICES ASSUME NEW v \in Busy
                 PROVE  /\ worker[v].id \in submitted
                        /\ outcome'[worker[v].id] = Pending <=> worker[v].pc \in Undecided
                        /\ worker[v].pc \in Undecided => worker[v].pc = Handler(request'[worker[v].id])
                        /\ \A u \in Busy : worker[u].id = worker[v].id => u = v
      <4>1. worker' = worker /\ submitted' = submitted
        BY <1>2, <1>8
      <4>2. QED
        BY <1>6, <4>1 DEF BusyInv
    <3>1. /\ worker[v].id \in submitted
          /\ outcome[worker[v].id] = Pending <=> worker[v].pc \in Undecided
          /\ worker[v].pc \in Undecided => worker[v].pc = Handler(request[worker[v].id])
          /\ \A u \in Busy : worker[u].id = worker[v].id => u = v
      BY DEF HandsInv, BusyInv
    <3>2. QED
      BY <2>4, <3>1
  <2>6. \A k \in 1..Len(m_operation_queue) : m_operation_queue[k] # Create =>
          /\ m_operation_queue[k] \in submitted
          /\ outcome'[m_operation_queue[k]] = Pending
          /\ \A m \in 1..Len(m_operation_queue) : m_operation_queue[m] = m_operation_queue[k] => m = k
          /\ \A v \in Busy : worker[v].id # m_operation_queue[k]
    BY <1>3, <1>4, <1>5, <1>6 DEF HandsInv, WaitingInv
  <2>7. WaitingInv'
    BY <2>2, <2>6, <1>2, <1>6, <1>8 DEF WaitingInv
  <2>8. QED
    BY <2>3, <2>5, <2>7 DEF HandsInv
<1>9. QED
  BY <1>7, <1>8 DEF ReceiveMalformed, RejectRequest, i, NewId

(* A new operation goes to the threads' queue or waits behind others.        *)
LEMMA ReceiveOperationHands ==
  ASSUME IInv, DoidInv, HandsInv, NEW op \in Requests, ReceiveOperation(op)
  PROVE  HandsInv'
<1> DEFINE i == Len(request) + 1
           d == op.doid
           n == Len(m_operation_queue)
<1>1. op \in Operation /\ d \in Doid
  BY RequestsAreOperations DEF Operation
<1>2. /\ Len(request) < MaxRequests
      /\ request' = Append(request, op)
      /\ UNCHANGED <<worker, outcome, cleared, dropped>>
  BY DEF ReceiveOperation, HandleOperation
<1>3. /\ Len(request) \in Nat /\ Received \subseteq 1..MaxRequests /\ submitted \subseteq Received
      /\ Create \notin Received
  BY ReceivedRange DEF HandsInv
<1>4. /\ Received' = Received \cup {i} /\ Len(request') <= MaxRequests
      /\ \A r \in Received : request'[r] = request[r]
      /\ i \notin Received /\ i \in 1..MaxRequests /\ i # Create
  BY <1>1, <1>2, <1>3, Arrival, DatabaseServerAssumption DEF IInv, Received, Create, TypeOK
<1>5. outcome[i] = Pending
  BY <1>4 DEF HandsInv, OutcomeInv
<1>6. /\ Busy' = Busy
      /\ \A v \in Busy : worker[v].id \in Received /\ worker[v].id # i
      /\ \A v \in Busy : request'[worker[v].id] = request[worker[v].id]
  BY <1>2, <1>3, <1>4 DEF HandsInv, BusyInv, Busy
<1>7. \A j \in 1..MaxRequests : j \notin Received' => outcome[j] = Pending
  BY <1>4 DEF HandsInv, OutcomeInv
<1>8. CASE submitted' = submitted \cup {i} /\ UNCHANGED queue
  <2>1. m_operation_queue' = Append(m_operation_queue, i)
    BY <1>3, <1>4, <1>8 DEF ReceiveOperation
  <2>2. /\ n \in Nat /\ Len(m_operation_queue') = n + 1
        /\ \A k \in 1..Len(m_operation_queue') :
             \/ k = n + 1 /\ m_operation_queue'[k] = i
             \/ k \in 1..n /\ m_operation_queue'[k] = m_operation_queue[k]
    BY <2>1 DEF DoidInv, StoreTyped
  <2>3. \A k \in 1..n : m_operation_queue[k] # i
    BY <1>3, <1>4 DEF HandsInv, WaitingInv
  <2>4. OutcomeInv'
    BY <1>2, <1>4, <1>7, <1>8 DEF HandsInv, OutcomeInv
  <2>5. BusyInv'
    BY <1>2, <1>6, <1>8 DEF HandsInv, BusyInv, Handler
  <2> HIDE DEF n, i
  <2>6. WaitingInv'
    <3> SUFFICES ASSUME NEW k \in 1..Len(m_operation_queue'), m_operation_queue'[k] # Create
                 PROVE  /\ m_operation_queue'[k] \in submitted'
                        /\ outcome[m_operation_queue'[k]] = Pending
                        /\ \A m \in 1..Len(m_operation_queue') : m_operation_queue'[m] = m_operation_queue'[k] => m = k
                        /\ \A v \in Busy : worker[v].id # m_operation_queue'[k]
      BY <1>2, <1>6 DEF WaitingInv
    <3>1. CASE k = n + 1 /\ m_operation_queue'[k] = i
      BY <3>1, <1>5, <1>6, <1>8, <2>2, <2>3
    <3>2. CASE k \in 1..n /\ m_operation_queue'[k] = m_operation_queue[k]
      <4>1. /\ m_operation_queue[k] \in submitted
            /\ outcome[m_operation_queue[k]] = Pending
            /\ \A m \in 1..n : m_operation_queue[m] = m_operation_queue[k] => m = k
            /\ \A v \in Busy : worker[v].id # m_operation_queue[k]
        BY <3>2 DEF HandsInv, WaitingInv, n
      <4>2. QED
        BY <3>2, <4>1, <1>8, <2>2, <2>3
    <3>3. QED
      BY <2>2, <3>1, <3>2
  <2>7. QED
    BY <2>4, <2>5, <2>6 DEF HandsInv
<1>9. CASE submitted' = submitted /\ queue' = [queue EXCEPT ![d] = Append(@, i)]
  <2>1. m_operation_queue' = m_operation_queue
    BY <1>9 DEF ReceiveOperation
  <2>2. \A e \in Doid : \A k \in 1..Len(queue'[e]) :
          queue'[e][k] = i \/ (k \in 1..Len(queue[e]) /\ queue'[e][k] = queue[e][k])
    BY <1>1, <1>9 DEF IInv, TypeOK
  <2>3. \A e \in Doid : \A k \in 1..Len(queue'[e]) : outcome[queue'[e][k]] = Pending
    BY <2>2, <1>5 DEF HandsInv, OutcomeInv
  <2>4. OutcomeInv'
    BY <1>2, <1>4, <1>7, <2>3 DEF HandsInv, OutcomeInv
  <2>5. BusyInv'
    BY <1>2, <1>6, <1>9 DEF HandsInv, BusyInv, Handler
  <2>6. WaitingInv'
    BY <1>2, <1>6, <1>9, <2>1 DEF HandsInv, WaitingInv
  <2>7. QED
    BY <2>4, <2>5, <2>6 DEF HandsInv
<1>10. QED
  BY <1>8, <1>9 DEF ReceiveOperation, HandleOperation, NewId

(* A CREATE_OBJECT is in nobody's queue but the threads'.                    *)
LEMMA ReceiveCreateHands ==
  ASSUME DoidInv, HandsInv, ReceiveCreate
  PROVE  HandsInv'
<1> DEFINE n == Len(m_operation_queue)
<1>1. /\ UNCHANGED <<request, queue, submitted, cleared, dropped, worker, outcome>>
      /\ m_operation_queue' = Append(m_operation_queue, Create)
  BY DEF ReceiveCreate, vars
<1>2. \A k \in 1..Len(m_operation_queue') : m_operation_queue'[k] # Create =>
             k \in 1..n /\ m_operation_queue'[k] = m_operation_queue[k]
  BY <1>1 DEF DoidInv, StoreTyped
<1>3. Busy' = Busy /\ Received' = Received
  BY <1>1 DEF Busy, Received
<1>4. OutcomeInv'
  BY <1>1, <1>3 DEF HandsInv, OutcomeInv
<1>5. BusyInv'
  BY <1>1, <1>3 DEF HandsInv, BusyInv, Handler
<1>6. WaitingInv'
  BY <1>1, <1>2, <1>3 DEF HandsInv, WaitingInv
<1>7. QED
  BY <1>4, <1>5, <1>6 DEF HandsInv

(* What a database call decides is never that the operation is pending.      *)
LEMMA OutcomeIsDecided ==
  /\ \A op, x : Outcome(op, x) # Pending
  /\ Failure # Pending
BY DEF Outcome, Failure, Success, Snapshot, Mismatch, Pending

(* The database calls, and the answer.                                       *)
LEMMA OperatingStepHands ==
  ASSUME IInv, DoidInv, HandsInv, NEW w \in Worker, worker[w].pc \in Operating \ {"cleanup"},
         Work(w) \/ DatabaseError(w)
  PROVE  HandsInv'
<1> DEFINE i == worker[w].id
<1>1. w \in Busy /\ i \in submitted /\ i \in 1..MaxRequests
  BY ReceivedRange DEF Busy, HandsInv, BusyInv
<1>2. outcome = [j \in 1..MaxRequests |-> outcome[j]] /\ Received \subseteq 1..MaxRequests
  BY ReceivedRange DEF HandsInv, OutcomeInv
<1>3. ~TakeOperation(w) /\ ~AssignMonotonic(w) /\ ~AssignReuse(w) /\ ~InsertObject(w) /\ ~Cleanup(w)
  BY DEF TakeOperation, AssignMonotonic, AssignReuse, InsertObject, Cleanup, At, Operating
<1>4. PICK rec : Goto(w, rec) /\ rec.pc \in Operating \ Undecided /\ rec.id = i
  BY <1>1, <1>3 DEF Work, GetObject, DeleteObject, FreeDoid, FindOneAndUpdate, FindUnmatched,
     RevertModify, Answer, DatabaseError, Finish, Operating, Undecided, At
<1>5. UNCHANGED <<vars, m_operation_queue>>
  BY <1>3 DEF Work, GetObject, DeleteObject, FreeDoid, FindOneAndUpdate, FindUnmatched,
     RevertModify, Answer, DatabaseError
<1>6. CASE UNCHANGED outcome /\ worker[w].pc \notin Undecided
  <2>1. outcome[i] # Pending
    BY <1>1, <1>6 DEF HandsInv, BusyInv
  <2>2. QED
    BY <1>1, <1>2, <1>4, <1>5, <1>6, <2>1, DecideStep
<1>7. CASE \E result : result # Pending /\ Decide(w, result)
  <2>1. PICK result : result # Pending /\ outcome' = [outcome EXCEPT ![i] = result]
    BY <1>7 DEF Decide
  <2>2. /\ outcome' = [j \in 1..MaxRequests |-> outcome'[j]]
        /\ outcome'[i] # Pending
        /\ \A j \in 1..MaxRequests : j # i => outcome'[j] = outcome[j]
    BY <1>1, <1>2, <2>1
  <2>3. i \in Received
    BY <1>1 DEF IInv, TypeOK
  <2>4. QED
    BY <1>1, <1>2, <1>4, <1>5, <2>2, <2>3, DecideStep
<1>8. CASE Work(w)
  BY <1>3, <1>6, <1>7, <1>8, OutcomeIsDecided DEF Work, GetObject, DeleteObject, FreeDoid,
     FindOneAndUpdate, FindUnmatched, RevertModify, Answer, At, Undecided
<1>9. CASE DatabaseError(w)
  BY <1>6, <1>7, <1>9, OutcomeIsDecided DEF DatabaseError, Undecided, Operating, At
<1>10. QED
  BY <1>8, <1>9

(* The steps of a CREATE_OBJECT.                                             *)
LEMMA CreatorStepHands ==
  ASSUME DoidInv, HandsInv, NEW w \in Worker, worker[w].pc \in {"assign", "reuse", "insert"},
         Work(w) \/ DatabaseError(w)
  PROVE  HandsInv'
<1>1. w \notin Busy
  BY DEF Busy, Operating
<1>2. PICK rec : Goto(w, rec) /\ rec.pc \notin Operating
  BY DEF Work, TakeOperation, GetObject, DeleteObject, FreeDoid, FindOneAndUpdate, FindUnmatched,
     RevertModify, Answer, Cleanup, AssignMonotonic, AssignReuse, InsertObject, DatabaseError,
     Idle, Operating, At
<1>3. UNCHANGED <<vars, m_operation_queue, outcome>>
  BY DEF Work, TakeOperation, GetObject, DeleteObject, FreeDoid, FindOneAndUpdate, FindUnmatched,
     RevertModify, Answer, Cleanup, AssignMonotonic, AssignReuse, InsertObject, DatabaseError,
     Operating, At
<1>4. QED
  BY <1>1, <1>2, <1>3, CreatorStep

LEMMA HandsInvariance == MongoSpec => []HandsInv
<1>1. IInv /\ DoidInv /\ HandsInv /\ [MongoNext]_allVars => HandsInv'
  <2> SUFFICES ASSUME IInv, DoidInv, HandsInv, [MongoNext]_allVars PROVE HandsInv'
    OBVIOUS
  <2>1. ASSUME NEW w \in Worker, Work(w) \/ DatabaseError(w) PROVE HandsInv'
    <3>1. \/ TakeOperation(w)
          \/ Cleanup(w)
          \/ worker[w].pc \in Operating \ {"cleanup"}
          \/ worker[w].pc \in {"assign", "reuse", "insert"}
      BY <2>1 DEF Work, GetObject, DeleteObject, FreeDoid, FindOneAndUpdate, FindUnmatched,
         RevertModify, Answer, AssignMonotonic, AssignReuse, InsertObject, DatabaseError,
         Operating, At
    <3>2. QED
      BY <2>1, <3>1, TakeOperationHands, CleanupHands, OperatingStepHands, CreatorStepHands
  <2>2. CASE UNCHANGED allVars
    <3>1. UNCHANGED <<request, queue, submitted, cleared, dropped, worker, outcome, m_operation_queue>>
      BY <2>2 DEF allVars, vars, mongoVars
    <3>2. Busy' = Busy /\ Received' = Received
      BY <3>1 DEF Busy, Received
    <3>3. OutcomeInv'
      BY <3>1, <3>2 DEF HandsInv, OutcomeInv
    <3>4. BusyInv'
      BY <3>1, <3>2 DEF HandsInv, BusyInv, Handler
    <3>5. WaitingInv'
      BY <3>1, <3>2 DEF HandsInv, WaitingInv
    <3>6. QED
      BY <3>3, <3>4, <3>5 DEF HandsInv
  <2>3. QED
    BY <2>1, <2>2, ReceiveOperationHands, ReceiveMalformedHands, ReceiveCreateHands DEF MongoNext
<1>2. MongoSpec => []IInv
  BY BackendIsABackend, Invariance, PTL
<1>3. QED
  BY <1>1, <1>2, InitHandsInv, DoidInvariance, PTL DEF MongoSpec

-----------------------------------------------------------------------------
(* Only well-formed requests are ever submitted or wait to be.               *)
AcceptedInv ==
  /\ \A i \in submitted : request[i] \in Requests
  /\ \A d \in Doid : \A k \in 1..Len(queue[d]) : request[queue[d][k]] \in Requests

LEMMA AcceptedStep ==
  ASSUME IInv, AcceptedInv, [Next]_vars
  PROVE  AcceptedInv'
<1>1. /\ submitted \subseteq Received
      /\ \A d \in Doid : \A k \in 1..Len(queue[d]) : queue[d][k] \in Received
  BY QueuedIsNotSubmitted DEF IInv, TypeOK
<1>2. ASSUME NEW op \in Operation, NEW i, ClearOperation(op, i), Received \subseteq Received',
             \A r \in Received : request'[r] = request[r]
      PROVE  AcceptedInv'
  <2> DEFINE q == TakenFrom(op.doid)
  <2>1. /\ submitted' = (submitted \ {i}) \cup {q[k] : k \in 1..Len(q)}
        /\ \A k \in 1..Len(q) : \E m \in 1..Len(queue[op.doid]) : q[k] = queue[op.doid][m]
        /\ \A d \in Doid : \A k \in 1..Len(queue'[d]) :
             \E m \in 1..Len(queue[d]) : queue'[d][k] = queue[d][m]
    BY <1>2, ClearMoves
  <2> HIDE DEF q
  <2>2. op.doid \in Doid
    BY DEF Operation
  <2>3. ASSUME NEW k \in 1..Len(q) PROVE request'[q[k]] \in Requests
    BY <1>1, <1>2, <2>1, <2>2 DEF AcceptedInv
  <2>4. ASSUME NEW d \in Doid, NEW k \in 1..Len(queue'[d]) PROVE request'[queue'[d][k]] \in Requests
    <3>1. PICK m \in 1..Len(queue[d]) : queue'[d][k] = queue[d][m]
      BY <2>1
    <3>2. QED
      BY <3>1, <1>1, <1>2 DEF AcceptedInv
  <2>5. \A r \in submitted : request'[r] \in Requests
    BY <1>1, <1>2 DEF AcceptedInv
  <2>6. QED
    BY <2>1, <2>3, <2>4, <2>5 DEF AcceptedInv
<1>3. ASSUME NEW op \in Requests, HandleOperation(op) PROVE AcceptedInv'
  <2> DEFINE i == Len(request) + 1
             d == op.doid
  <2>1. op \in Operation /\ d \in Doid
    BY RequestsAreOperations DEF Operation
  <2>2. /\ request'[i] = op
        /\ \A r \in Received : request'[r] = request[r]
    BY <1>3, <2>1, Arrival DEF HandleOperation, IInv
  <2>3. CASE submitted' = submitted \cup {i} /\ UNCHANGED queue
    BY <1>1, <2>2, <2>3 DEF AcceptedInv
  <2>4. CASE submitted' = submitted /\ queue' = [queue EXCEPT ![d] = Append(@, i)]
    <3>1. \A e \in Doid : \A k \in 1..Len(queue'[e]) :
            queue'[e][k] = i \/ (k \in 1..Len(queue[e]) /\ queue'[e][k] = queue[e][k])
      BY <2>1, <2>4 DEF IInv, TypeOK
    <3>2. QED
      BY <1>1, <2>2, <2>4, <3>1 DEF AcceptedInv
  <2>5. QED
    BY <1>3, <2>3, <2>4 DEF HandleOperation, NewId
<1>4. ASSUME NEW op \in Malformed, RejectRequest(op) PROVE AcceptedInv'
  <2>1. op \in Operation /\ request' = Append(request, op)
    BY <1>4, RequestsAreOperations DEF RejectRequest
  <2>2. Received \subseteq Received' /\ \A r \in Received : request'[r] = request[r]
    BY <2>1, Arrival DEF IInv
  <2>3. CASE UNCHANGED <<queue, submitted>>
    BY <1>1, <2>2, <2>3 DEF AcceptedInv
  <2>4. QED
    BY <1>2, <1>4, <2>1, <2>2, <2>3 DEF RejectRequest
<1>5. ASSUME NEW i \in submitted, Complete(i) PROVE AcceptedInv'
  <2>1. request[i] \in Operation
    BY <1>1, ElementOfSeq DEF IInv, TypeOK, Received
  <2>2. UNCHANGED request /\ Received' = Received
    BY <1>5 DEF Complete, Received
  <2>3. QED
    BY <1>2, <1>5, <2>1, <2>2 DEF Complete
<1>6. CASE UNCHANGED vars
  BY <1>6 DEF vars, AcceptedInv
<1>7. QED
  BY <1>3, <1>4, <1>5, <1>6 DEF Next

(* Two hypotheses about the requests, without which handle_modify does not   *)
(* keep the server's promise (MongoDatabase.cpp:871 writes the old document  *)
(* back as a whole).  A modification that the class check refuses runs beside *)
(* no other modification of its object: nothing else is undone with it...    *)
RevertsAlone ==
  \A a, b \in Requests :
    (a.doid = b.doid /\ Writes(a) /\ Writes(b) /\ ~VerifyClass(b)) => ~IsIndependentOf(a, b)

(* ... and the call that undoes it does not fail.                            *)
RevertsSucceed == MaxErrors = 0 \/ \A op \in Requests : VerifyClass(op)

(* The store holds objects.                                                  *)
StoreInv ==
  /\ objects \in [Doid -> Object \cup {Missing}]
  /\ errors \in Nat

(* An object that is about to be put back is the one the thread wrote.       *)
RevertInv ==
  \A w \in Worker : At(w, "revert") =>
    /\ Writes(Holding(w)) /\ ~VerifyClass(Holding(w))
    /\ worker[w].was \in Object
    /\ objects[Holding(w).doid] = Modified(Holding(w), worker[w].was)

(* What find_one_and_update leaves of an object is an object.                *)
LEMMA ModifiedIsObject ==
  ASSUME NEW op \in Operation, NEW x \in Object
  PROVE  Modified(op, x) \in Object /\ Modified(op, x) # Missing /\ x # Missing
<1>1. \A h \in Changes(op) : op.set_fields[h] \in Stored
  BY DEF Operation, FieldValues, Changes
<1>2. Modified(op, x) \in Object
  BY <1>1 DEF Modified, Object
<1>3. QED
  BY <1>2, DBOperationAssumption DEF Object, Stored

(* What the operation in a thread's hands is.                                *)
LEMMA HeldOperation ==
  ASSUME IInv, HandsInv, AcceptedInv, NEW w \in Busy
  PROVE  /\ w \in Worker
         /\ worker[w].id \in submitted /\ worker[w].id \in Received
         /\ Holding(w) \in Operation /\ Holding(w) \in Requests /\ Holding(w).doid \in Doid
         /\ At(w, "get") => Gets(Holding(w))
         /\ At(w, "delete") => Holding(w).type = "DELETE_OBJECT"
         /\ At(w, "modify") => Writes(Holding(w))
<1>1. w \in Worker /\ worker[w].id \in submitted /\ worker[w].id \in Received
  BY ReceivedRange DEF HandsInv, BusyInv, Busy
<1>2. Holding(w) \in Operation /\ Holding(w) \in Requests
  BY <1>1, RequestsAreOperations DEF AcceptedInv, Holding
<1>3. Holding(w).doid \in Doid /\ Holding(w).type \in OperationType
  BY <1>2 DEF Operation
<1>4. worker[w].pc \in Undecided => worker[w].pc = Handler(Holding(w))
  BY DEF HandsInv, BusyInv, Holding
<1>5. QED
  BY <1>1, <1>2, <1>3, <1>4 DEF At, Undecided, Handler, Gets, Writes, OperationType

(* Two threads on one object hold independent operations.                    *)
LEMMA HeldIndependent ==
  ASSUME IInv, HandsInv, AcceptedInv, NEW v \in Busy, NEW w \in Busy, v # w,
         Holding(v).doid = Holding(w).doid
  PROVE  IsIndependentOf(Holding(v), Holding(w))
<1>1. /\ worker[v].id \in submitted /\ worker[w].id \in submitted
      /\ worker[v].id # worker[w].id
      /\ Holding(v).doid \in Doid
  BY HeldOperation DEF HandsInv, BusyInv
<1>2. worker[v].id \in running[Holding(v).doid] /\ worker[w].id \in running[Holding(v).doid]
  BY <1>1 DEF IInv, SubmittedIsRunning, Holding
<1>3. QED
  BY <1>1, <1>2 DEF IInv, RunningIndependent, Independent, Holding

(* Only a get runs beside a modification that will be reverted.              *)
LEMMA OnlyGetsBeside ==
  ASSUME RevertsAlone, IInv, HandsInv, AcceptedInv, RevertInv,
         NEW w \in Worker, At(w, "revert"), NEW v \in Busy, v # w,
         Holding(v).doid = Holding(w).doid
  PROVE  Gets(Holding(v)) /\ IsIndependentOf(Holding(v), Holding(w))
<1>1. w \in Busy
  BY DEF Busy, At, Operating
<1>2. /\ Holding(v) \in Requests /\ Holding(v) \in Operation
      /\ Holding(w) \in Requests /\ Holding(w) \in Operation
      /\ IsIndependentOf(Holding(v), Holding(w))
      /\ IsIndependentOf(Holding(w), Holding(v))
  BY <1>1, HeldOperation, HeldIndependent
<1>3. Writes(Holding(w)) /\ ~VerifyClass(Holding(w))
  BY DEF RevertInv
<1>4. ~Writes(Holding(v))
  BY <1>2, <1>3 DEF RevertsAlone
<1>5. Holding(v).type # "DELETE_OBJECT"
  BY <1>2 DEF IsIndependentOf, Gets
<1>6. Holding(v).type \in OperationType
  BY <1>2 DEF Operation
<1>7. QED
  BY <1>2, <1>4, <1>5, <1>6 DEF Gets, Writes, OperationType

-----------------------------------------------------------------------------
(* The threads about to put d back, and the store as the serial database     *)
(* sees it.                                                                  *)
Reverting(d) == {w \in Worker : At(w, "revert") /\ Holding(w).doid = d}

Shown == [d \in Doid |-> Undone(d)]

(* Undone, in the two cases that occur.                                      *)
LEMMA UndoneIs ==
  ASSUME NEW d \in Doid
  PROVE  /\ Reverting(d) = {} => Undone(d) = objects[d]
         /\ \A w : Reverting(d) = {w} /\ objects[d] # Missing => Undone(d) = worker[w].was
         /\ Reverting(d)' = {} => Undone(d)' = objects'[d]
         /\ \A w : Reverting(d)' = {w} /\ objects'[d] # Missing => Undone(d)' = worker'[w].was
BY DEF Reverting, Undone

(* One thread at a time is about to put an object back.                      *)
LEMMA OneReverter ==
  ASSUME RevertsAlone, IInv, HandsInv, AcceptedInv, RevertInv, StoreInv,
         NEW d \in Doid, NEW w \in Reverting(d)
  PROVE  /\ Reverting(d) = {w}
         /\ w \in Worker /\ w \in Busy /\ At(w, "revert") /\ Holding(w).doid = d
         /\ Holding(w) \in Operation /\ Writes(Holding(w)) /\ ~VerifyClass(Holding(w))
         /\ worker[w].was \in Object
         /\ objects[d] = Modified(Holding(w), worker[w].was)
         /\ objects[d] # Missing
         /\ Undone(d) = worker[w].was
<1>1. w \in Worker /\ At(w, "revert") /\ Holding(w).doid = d
  BY DEF Reverting
<1>2. w \in Busy
  BY <1>1 DEF Busy, At, Operating
<1>3. /\ Writes(Holding(w)) /\ ~VerifyClass(Holding(w))
      /\ worker[w].was \in Object
      /\ objects[d] = Modified(Holding(w), worker[w].was)
  BY <1>1 DEF RevertInv
<1>4. Holding(w) \in Operation
  BY <1>2, HeldOperation
<1>5. objects[d] # Missing
  BY <1>3, <1>4, ModifiedIsObject
<1>6. ASSUME NEW v \in Reverting(d), v # w PROVE FALSE
  <2>1. v \in Busy /\ v \in Worker /\ At(v, "revert") /\ Holding(v).doid = d
    BY DEF Reverting, Busy, At, Operating
  <2>2. Gets(Holding(v))
    BY <1>1, <1>6, <2>1, OnlyGetsBeside
  <2>3. Writes(Holding(v))
    BY <2>1 DEF RevertInv
  <2>4. QED
    BY <2>2, <2>3 DEF Gets, Writes
<1>7. Reverting(d) = {w}
  BY <1>6
<1>8. QED
  BY <1>1, <1>2, <1>3, <1>4, <1>5, <1>7, UndoneIs

(* A step that touches no object and no thread that is about to revert.      *)
LEMMA QuietStore ==
  ASSUME RevertsAlone, IInv, HandsInv, AcceptedInv, RevertInv, StoreInv,
         UNCHANGED objects, errors' \in Nat,
         \A v \in Worker : worker'[v].pc = "revert" => worker[v].pc = "revert",
         \A v \in Worker : worker[v].pc = "revert" =>
           worker'[v] = worker[v] /\ request'[worker[v].id] = request[worker[v].id]
  PROVE  StoreInv' /\ RevertInv' /\ Shown' = Shown
<1>1. \A v \in Worker : /\ At(v, "revert")' <=> At(v, "revert")
                        /\ At(v, "revert") => worker'[v] = worker[v] /\ Holding(v)' = Holding(v)
  BY DEF At, Holding
<1>2. RevertInv'
  BY <1>1 DEF RevertInv
<1>3. \A d \in Doid : Reverting(d)' = Reverting(d)
  BY <1>1 DEF Reverting
<1>4. ASSUME NEW d \in Doid PROVE Undone(d)' = Undone(d)
  <2>1. CASE Reverting(d) = {}
    BY <2>1, <1>3, UndoneIs
  <2>2. CASE Reverting(d) # {}
    <3>1. PICK w \in Reverting(d) : TRUE
      BY <2>2
    <3>2. Reverting(d) = {w} /\ At(w, "revert") /\ w \in Worker /\ objects[d] # Missing
          /\ Undone(d) = worker[w].was
      BY <3>1, OneReverter
    <3>3. Undone(d)' = worker'[w].was
      BY <3>2, <1>3, UndoneIs
    <3>4. QED
      BY <3>2, <3>3, <1>1
  <2>3. QED
    BY <2>1, <2>2
<1>5. QED
  BY <1>2, <1>4 DEF StoreInv, Shown

(* A thread writes an object that nobody is about to put back.               *)
LEMMA WriteStore ==
  ASSUME RevertsAlone, IInv, DoidInv, HandsInv, AcceptedInv, RevertInv, StoreInv,
         NEW d \in Doid, NEW x \in Object \cup {Missing}, Reverting(d) = {},
         objects' = [objects EXCEPT ![d] = x],
         NEW w \in Worker, NEW rec, Goto(w, rec), ~At(w, "revert"), rec.pc # "revert",
         UNCHANGED <<request, errors>>
  PROVE  /\ StoreInv' /\ RevertInv'
         /\ Shown[d] = objects[d]
         /\ Shown' = [Shown EXCEPT ![d] = x]
<1>1. \A v \in Worker : worker'[v] = IF v = w THEN rec ELSE worker[v]
  BY DEF Goto, DoidInv, WorkersTyped
<1>2. \A v \in Worker : /\ At(v, "revert")' <=> At(v, "revert")
                        /\ At(v, "revert") => worker'[v] = worker[v] /\ Holding(v)' = Holding(v)
  BY <1>1 DEF At, Holding
<1>3. /\ objects' \in [Doid -> Object \cup {Missing}] /\ objects'[d] = x
      /\ \A e \in Doid : e # d => objects'[e] = objects[e]
  BY DEF StoreInv
<1>4. \A e \in Doid : Reverting(e)' = Reverting(e)
  BY <1>2 DEF Reverting
<1>5. RevertInv'
  <2> SUFFICES ASSUME NEW v \in Worker, At(v, "revert")
               PROVE  objects'[Holding(v).doid] = objects[Holding(v).doid]
    BY <1>2 DEF RevertInv
  <2>1. Holding(v).doid \in Doid
    BY HeldOperation DEF Busy, At, Operating
  <2>2. Holding(v).doid # d
    BY DEF Reverting
  <2>3. QED
    BY <2>1, <2>2, <1>3
<1>6. Undone(d) = objects[d] /\ Undone(d)' = x
  BY <1>3, <1>4, UndoneIs
<1>7. ASSUME NEW e \in Doid, e # d PROVE Undone(e)' = Undone(e)
  <2>1. CASE Reverting(e) = {}
    BY <2>1, <1>3, <1>4, <1>7, UndoneIs
  <2>2. CASE Reverting(e) # {}
    <3>1. PICK v \in Reverting(e) : TRUE
      BY <2>2
    <3>2. Reverting(e) = {v} /\ At(v, "revert") /\ v \in Worker /\ objects[e] # Missing
          /\ Undone(e) = worker[v].was
      BY <3>1, OneReverter
    <3>3. Undone(e)' = worker'[v].was
      BY <3>2, <1>3, <1>4, <1>7, UndoneIs
    <3>4. QED
      BY <3>2, <3>3, <1>2
  <2>3. QED
    BY <2>1, <2>2
<1>8. Shown' = [Shown EXCEPT ![d] = x] /\ Shown[d] = objects[d]
  BY <1>6, <1>7 DEF Shown
<1>9. QED
  BY <1>3, <1>5, <1>8 DEF StoreInv

(* find_one_and_update wrote what the class check refuses: the serial        *)
(* database sees nothing of it.                                              *)
LEMMA EnterRevert ==
  ASSUME RevertsAlone, IInv, DoidInv, HandsInv, AcceptedInv, RevertInv, StoreInv,
         NEW w \in Busy, ~At(w, "revert"), Reverting(Holding(w).doid) = {},
         Writes(Holding(w)), ~VerifyClass(Holding(w)),
         objects[Holding(w).doid] \in Object,
         objects' = [objects EXCEPT ![Holding(w).doid] = Modified(Holding(w), objects[Holding(w).doid])],
         Goto(w, [pc |-> "revert", id |-> worker[w].id, was |-> objects[Holding(w).doid]]),
         UNCHANGED <<request, errors>>
  PROVE  StoreInv' /\ RevertInv' /\ Shown' = Shown
<1> DEFINE d == Holding(w).doid
           x == objects[d]
           op == Holding(w)
           rec == [pc |-> "revert", id |-> worker[w].id, was |-> x]
<1>1. w \in Worker /\ op \in Operation /\ d \in Doid
  BY HeldOperation
<1>2. \A v \in Worker : worker'[v] = IF v = w THEN rec ELSE worker[v]
  BY DEF Goto, DoidInv, WorkersTyped
<1>3. /\ At(w, "revert")' /\ Holding(w)' = op /\ worker'[w].was = x
      /\ \A v \in Worker : v # w => /\ At(v, "revert")' <=> At(v, "revert")
                                    /\ worker'[v] = worker[v] /\ Holding(v)' = Holding(v)
  BY <1>1, <1>2 DEF At, Holding
<1>4. /\ Modified(op, x) \in Object /\ Modified(op, x) # Missing
  BY <1>1, ModifiedIsObject
<1>5. /\ objects' \in [Doid -> Object \cup {Missing}] /\ objects'[d] = Modified(op, x)
      /\ \A e \in Doid : e # d => objects'[e] = objects[e]
  BY <1>1, <1>4 DEF StoreInv
<1>6. /\ Reverting(d)' = {w}
      /\ \A e \in Doid : e # d => Reverting(e)' = Reverting(e)
  BY <1>1, <1>3 DEF Reverting
<1>7. RevertInv'
  <2> SUFFICES ASSUME NEW v \in Worker, At(v, "revert")'
               PROVE  /\ Writes(Holding(v)') /\ ~VerifyClass(Holding(v)')
                      /\ worker'[v].was \in Object
                      /\ objects'[Holding(v)'.doid] = Modified(Holding(v)', worker'[v].was)
    BY DEF RevertInv
  <2>1. CASE v = w
    BY <2>1, <1>3, <1>5
  <2>2. CASE v # w
    <3>1. At(v, "revert") /\ worker'[v] = worker[v] /\ Holding(v)' = Holding(v)
      BY <2>2, <1>3
    <3>2. Holding(v).doid \in Doid /\ Holding(v).doid # d
      BY <3>1, HeldOperation DEF Busy, At, Operating, Reverting
    <3>3. objects'[Holding(v).doid] = objects[Holding(v).doid]
      BY <3>2, <1>5
    <3>4. QED
      BY <3>1, <3>3 DEF RevertInv
  <2>3. QED
    BY <2>1, <2>2
<1>8. Undone(d) = x /\ Undone(d)' = x
  BY <1>1, <1>3, <1>4, <1>5, <1>6, UndoneIs
<1>9. ASSUME NEW e \in Doid, e # d PROVE Undone(e)' = Undone(e)
  <2>1. CASE Reverting(e) = {}
    BY <2>1, <1>5, <1>6, <1>9, UndoneIs
  <2>2. CASE Reverting(e) # {}
    <3>1. PICK v \in Reverting(e) : TRUE
      BY <2>2
    <3>2. Reverting(e) = {v} /\ At(v, "revert") /\ v \in Worker /\ objects[e] # Missing
          /\ Undone(e) = worker[v].was
      BY <3>1, OneReverter
    <3>3. Undone(e)' = worker'[v].was
      BY <3>2, <1>5, <1>6, <1>9, UndoneIs
    <3>4. QED
      BY <3>2, <3>3, <1>3
  <2>3. QED
    BY <2>1, <2>2
<1>10. \A e \in Doid : Undone(e)' = Undone(e)
  <2>1. d' = d
    BY <1>3
  <2>2. QED
    BY <1>8, <1>9, <2>1
<1>11. QED
  BY <1>5, <1>7, <1>10 DEF StoreInv, Shown

(* replace_one: the object is again what the serial database took it for.    *)
LEMMA LeaveRevert ==
  ASSUME RevertsAlone, IInv, DoidInv, HandsInv, AcceptedInv, RevertInv, StoreInv,
         NEW w \in Worker, RevertModify(w)
  PROVE  StoreInv' /\ RevertInv' /\ Shown' = Shown
<1>1. At(w, "revert") /\ w \in Busy
  BY DEF RevertModify, Busy, At, Operating
<1> PICK d \in Doid : d = Holding(w).doid
  BY <1>1, HeldOperation
<1> PICK x : x = worker[w].was
  OBVIOUS
<1>2. w \in Reverting(d)
  BY <1>1 DEF Reverting
<1>3. /\ Reverting(d) = {w} /\ x \in Object /\ objects[d] # Missing /\ Undone(d) = x
  BY <1>2, OneReverter
<1>4. /\ objects' = [objects EXCEPT ![d] = x]
      /\ UNCHANGED <<request, errors>>
  BY <1>2, <1>3 DEF RevertModify, vars, StoreInv
<1>5. \A v \in Worker : /\ v = w => worker'[v].pc = "answer"
                        /\ v # w => worker'[v] = worker[v]
  BY DEF RevertModify, Finish, Goto, DoidInv, WorkersTyped
<1>6. /\ ~At(w, "revert")'
      /\ \A v \in Worker : v # w => /\ At(v, "revert")' <=> At(v, "revert")
                                    /\ worker'[v] = worker[v] /\ Holding(v)' = Holding(v)
  BY <1>4, <1>5 DEF At, Holding
<1>7. /\ objects' \in [Doid -> Object \cup {Missing}] /\ objects'[d] = x
      /\ \A e \in Doid : e # d => objects'[e] = objects[e]
  BY <1>2, <1>3, <1>4 DEF StoreInv
<1>8. /\ Reverting(d)' = {}
      /\ \A e \in Doid : e # d => Reverting(e)' = Reverting(e)
  BY <1>2, <1>3, <1>6 DEF Reverting
<1>9. RevertInv'
  <2> SUFFICES ASSUME NEW v \in Worker, At(v, "revert"), v # w
               PROVE  objects'[Holding(v).doid] = objects[Holding(v).doid]
    BY <1>6 DEF RevertInv
  <2>1. Holding(v).doid \in Doid /\ Holding(v).doid # d
    BY <1>3, HeldOperation DEF Busy, At, Operating, Reverting
  <2>2. QED
    BY <2>1, <1>7
<1>10. Undone(d)' = x
  BY <1>2, <1>7, <1>8, UndoneIs
<1>11. ASSUME NEW e \in Doid, e # d PROVE Undone(e)' = Undone(e)
  <2>1. CASE Reverting(e) = {}
    BY <2>1, <1>7, <1>8, <1>11, UndoneIs
  <2>2. CASE Reverting(e) # {}
    <3>1. PICK v \in Reverting(e) : TRUE
      BY <2>2
    <3>2. Reverting(e) = {v} /\ At(v, "revert") /\ v \in Worker /\ objects[e] # Missing
          /\ Undone(e) = worker[v].was /\ Holding(v).doid = e
      BY <3>1, OneReverter
    <3>3. Undone(e)' = worker'[v].was
      BY <3>2, <1>7, <1>8, <1>11, UndoneIs
    <3>4. QED
      BY <3>2, <3>3, <1>6, <1>11
  <2>3. QED
    BY <2>1, <2>2
<1>12. QED
  <2>1. \A e \in Doid : Undone(e)' = Undone(e)
    BY <1>3, <1>10, <1>11
  <2>2. QED
    BY <1>4, <1>7, <1>9, <2>1 DEF StoreInv, Shown

-----------------------------------------------------------------------------
(* The steps of the threads as steps of the serial database.                 *)
SerialInv == StoreInv /\ RevertInv

(* The serial database's operators are those of this module.                 *)
LEMMA SerialNames ==
  /\ \A a, b : Serial!IsIndependentOf(a, b) <=> IsIndependentOf(a, b)
  /\ \A op, x : Serial!Effect(op, x) = Effect(op, x)
  /\ \A op, x : Serial!Outcome(op, x) = Outcome(op, x)
  /\ Serial!Failure = Failure /\ Serial!Pending = Pending /\ Serial!Received = Received
<1>1. \A a, b : Serial!IsIndependentOf(a, b) <=> IsIndependentOf(a, b)
  BY DEF Serial!IsIndependentOf, IsIndependentOf, Serial!GetIndependentOf, GetIndependentOf,
    Serial!SetIndependentOf, SetIndependentOf, Serial!UpdateIndependentOf, UpdateIndependentOf,
    Serial!Gets, Gets, Serial!Writes, Writes, Serial!Reads, Reads, Serial!Changes, Changes,
    Serial!Criteria, Criteria
<1>2. /\ \A op : Serial!Writes(op) <=> Writes(op)
      /\ \A op : Serial!VerifyClass(op) <=> VerifyClass(op)
      /\ \A op : Serial!Criteria(op) = Criteria(op)
      /\ \A op : Serial!Reads(op) = Reads(op)
      /\ \A op, x : Serial!CriteriaMet(op, x) <=> CriteriaMet(op, x)
      /\ \A op, x : Serial!Modified(op, x) = Modified(op, x)
  BY DEF Serial!VerifyClass, VerifyClass, Serial!Criteria, Criteria, Serial!Writes, Writes,
    Serial!Changes, Changes, Serial!CriteriaMet, CriteriaMet, Serial!Modified, Modified,
    Serial!Reads, Reads
<1>3. \A op, x : Serial!Matches(op, x) <=> Matches(op, x)
  BY <1>2 DEF Serial!Matches, Matches
<1>4. \A op, x : Serial!Effect(op, x) = Effect(op, x)
  BY <1>2, <1>3 DEF Serial!Effect, Effect
<1>5. Serial!Failure = Failure /\ Serial!Pending = Pending /\ Serial!Success = Success
  BY DEF Serial!Failure, Failure, Serial!Pending, Pending, Serial!Success, Success
<1>6. \A S, x : Serial!Snapshot(S, x) = Snapshot(S, x) /\ Serial!Mismatch(S, x) = Mismatch(S, x)
  BY DEF Serial!Snapshot, Snapshot, Serial!Mismatch, Mismatch
<1>7. \A op, x : Serial!Outcome(op, x) = Outcome(op, x)
  BY <1>2, <1>3, <1>5, <1>6 DEF Serial!Outcome, Outcome
<1>8. Serial!Received = Received
  BY DEF Serial!Received, Received
<1>9. QED
  BY <1>1, <1>4, <1>5, <1>7, <1>8

(* An operation in the hands of a thread that has not decided it has its     *)
(* turn: ArrivalOrder.                                                       *)
LEMMA HasItsTurn ==
  ASSUME IInv, ArrivalOrder, HandsInv, AcceptedInv, NEW w \in Busy, worker[w].pc \in Undecided
  PROVE  worker[w].id \in Serial!Received /\ Serial!Turn(worker[w].id)
<1> DEFINE i == worker[w].id
<1>1. i \in submitted /\ i \in Received /\ outcome[i] = Pending
  BY HeldOperation DEF HandsInv, BusyInv
<1>2. ASSUME NEW j \in 1..(i-1), outcome[j] = Pending PROVE IsIndependentOf(request[j], request[i])
  <2>1. j \in Received /\ j < i
    BY <1>1 DEF Received
  <2>2. j \notin cleared \cup dropped
    BY <1>2 DEF HandsInv, OutcomeInv
  <2>3. QED
    BY <1>1, <2>1, <2>2 DEF ArrivalOrder, Independent
<1>3. QED
  BY <1>1, <1>2, SerialNames DEF Serial!Turn

(* The database call that decides an operation is where the serial database  *)
(* executes it; one that throws is where it fails it.                        *)
LEMMA Executes ==
  ASSUME IInv, ArrivalOrder, HandsInv, AcceptedInv, NEW w \in Busy, worker[w].pc \in Undecided,
         Shown' = [Shown EXCEPT ![Holding(w).doid] = Effect(Holding(w), @)],
         Decide(w, Outcome(Holding(w), Shown[Holding(w).doid])),
         UNCHANGED request
  PROVE  Serial!Next
BY HasItsTurn, SerialNames DEF Serial!Next, Serial!Execute, Decide, Holding, Shown

LEMMA Fails ==
  ASSUME IInv, ArrivalOrder, HandsInv, AcceptedInv, NEW w \in Busy, worker[w].pc \in Undecided,
         Decide(w, Failure), UNCHANGED <<request, Shown>>
  PROVE  Serial!Next
BY HasItsTurn, SerialNames DEF Serial!Next, Serial!Fail, Decide, Shown

(* What a get finds beside a modification that will be reverted is what it   *)
(* would have found without.                                                 *)
LEMMA GetBesideRevert ==
  ASSUME NEW op \in Operation, NEW mod \in Operation, NEW x \in Object,
         op.doid = mod.doid, Gets(op), Writes(mod), IsIndependentOf(op, mod)
  PROVE  Outcome(op, Modified(mod, x)) = Outcome(op, x)
<1>1. op.type = "GET_FIELDS" /\ Reads(op) \cap Changes(mod) = {} /\ Reads(op) \subseteq Field
  BY DEF IsIndependentOf, Gets, Writes, GetIndependentOf, SetIndependentOf, UpdateIndependentOf,
     Operation, Reads
<1>2. \A h \in Reads(op) : Modified(mod, x)[h] = x[h]
  BY <1>1 DEF Modified
<1>3. Snapshot(Reads(op) \cap Class, Modified(mod, x)) = Snapshot(Reads(op) \cap Class, x)
  BY <1>2 DEF Snapshot
<1>4. Modified(mod, x) # Missing /\ x # Missing
  BY ModifiedIsObject
<1>5. QED
  BY <1>1, <1>3, <1>4 DEF Outcome, VerifyClass, Writes

(* handle_get.                                                               *)
LEMMA GetObjectSerial ==
  ASSUME RevertsAlone, IInv, ArrivalOrder, DoidInv, HandsInv, AcceptedInv, SerialInv,
         NEW w \in Worker, GetObject(w)
  PROVE  SerialInv' /\ Serial!Next
<1> DEFINE op == Holding(w)
<1>1. w \in Busy /\ worker[w].pc \in Undecided /\ At(w, "get")
  BY DEF GetObject, Busy, At, Operating, Undecided
<1>2. op \in Operation /\ Gets(op)
  BY <1>1, HeldOperation
<1> PICK d \in Doid : d = op.doid
  BY <1>1, HeldOperation
<1>3. /\ UNCHANGED <<objects, errors, request>>
      /\ \A v \in Worker : v # w => worker'[v] = worker[v]
      /\ worker'[w].pc = "answer"
  BY DEF GetObject, Finish, Goto, DoidInv, WorkersTyped, vars
<1>4. StoreInv' /\ RevertInv' /\ Shown' = Shown
  BY <1>1, <1>3, QuietStore DEF At, SerialInv, StoreInv
<1>5. Outcome(op, Undone(d)) = Outcome(op, objects[d])
  <2>1. CASE Reverting(d) = {}
    BY <2>1, UndoneIs
  <2>2. CASE Reverting(d) # {}
    <3>1. PICK v \in Reverting(d) : TRUE
      BY <2>2
    <3>2. /\ v \in Worker /\ v \in Busy /\ At(v, "revert") /\ Holding(v).doid = d
          /\ Holding(v) \in Operation /\ Writes(Holding(v))
          /\ worker[v].was \in Object
          /\ objects[d] = Modified(Holding(v), worker[v].was)
          /\ Undone(d) = worker[v].was
      BY <3>1, OneReverter DEF SerialInv
    <3>3. IsIndependentOf(op, Holding(v))
      BY <1>1, <3>2, HeldIndependent DEF At
    <3>4. QED
      BY <1>2, <3>2, <3>3, GetBesideRevert
  <2>3. QED
    BY <2>1, <2>2
<1>6. Effect(op, Shown[d]) = Shown[d]
  BY <1>2 DEF Effect, Gets, Writes
<1>7. Shown' = [Shown EXCEPT ![d] = Effect(op, @)]
  BY <1>4, <1>6 DEF Shown
<1>8. Shown[d] = Undone(d)
  BY DEF Shown
<1>9. Decide(w, Outcome(op, Shown[d]))
  BY <1>5, <1>8 DEF GetObject
<1>10. QED
  BY <1>1, <1>3, <1>4, <1>7, <1>9, Executes DEF SerialInv

(* Nobody reverts the object a delete or a modification is about to change.  *)
LEMMA WriterAlone ==
  ASSUME RevertsAlone, IInv, HandsInv, AcceptedInv, SerialInv,
         NEW w \in Busy, At(w, "delete") \/ At(w, "modify"), NEW d, d = Holding(w).doid
  PROVE  Reverting(d) = {}
<1>1. /\ Holding(w).type = "DELETE_OBJECT" \/ Writes(Holding(w))
      /\ ~Gets(Holding(w))
  BY HeldOperation DEF At, Gets, Writes
<1>2. ASSUME NEW v \in Reverting(d) PROVE FALSE
  <2>1. v \in Worker /\ At(v, "revert") /\ Holding(v).doid = d /\ v # w
    BY DEF Reverting, At
  <2>2. QED
    BY <1>1, <2>1, OnlyGetsBeside DEF SerialInv
<1>3. QED
  BY <1>2

(* handle_delete.                                                            *)
LEMMA DeleteObjectSerial ==
  ASSUME RevertsAlone, IInv, ArrivalOrder, DoidInv, HandsInv, AcceptedInv, SerialInv,
         NEW w \in Worker, DeleteObject(w)
  PROVE  SerialInv' /\ Serial!Next
<1> DEFINE op == Holding(w)
<1>1. w \in Busy /\ worker[w].pc \in Undecided /\ At(w, "delete")
  BY DEF DeleteObject, Busy, At, Operating, Undecided
<1>2. op \in Operation /\ op.type = "DELETE_OBJECT"
  BY <1>1, HeldOperation
<1> PICK d \in Doid : d = op.doid
  BY <1>1, HeldOperation
<1>3. Reverting(d) = {}
  BY <1>1, WriterAlone
<1>4. /\ objects' = [objects EXCEPT ![d] = Missing]
      /\ UNCHANGED <<errors, request>>
      /\ Decide(w, Outcome(op, objects[d]))
  BY DEF DeleteObject, vars
<1>5. PICK rec : Goto(w, rec) /\ rec.pc # "revert"
  BY DEF DeleteObject, Finish
<1>6. /\ StoreInv' /\ RevertInv'
      /\ Shown[d] = objects[d]
      /\ Shown' = [Shown EXCEPT ![d] = Missing]
  BY <1>1, <1>3, <1>4, <1>5, WriteStore DEF SerialInv, At
<1>7. Effect(op, Shown[d]) = Missing
  BY <1>2 DEF Effect
<1>8. QED
  BY <1>1, <1>4, <1>6, <1>7, Executes DEF SerialInv

(* handle_modify, whose first call is the whole operation.                   *)
LEMMA FindOneAndUpdateSerial ==
  ASSUME RevertsAlone, IInv, ArrivalOrder, DoidInv, HandsInv, AcceptedInv, SerialInv,
         NEW w \in Worker, FindOneAndUpdate(w)
  PROVE  SerialInv' /\ Serial!Next
<1> DEFINE op == Holding(w)
<1>1. w \in Busy /\ worker[w].pc \in Undecided /\ At(w, "modify")
  BY DEF FindOneAndUpdate, Busy, At, Operating, Undecided
<1>2. op \in Operation /\ Writes(op)
  BY <1>1, HeldOperation
<1> PICK d \in Doid : d = op.doid
  BY <1>1, HeldOperation
<1> PICK x : x = objects[d]
  OBVIOUS
<1>3. Reverting(d) = {} /\ Shown[d] = x
  BY <1>1, WriterAlone, UndoneIs DEF Shown
<1>4. /\ UNCHANGED <<errors, request>>
      /\ Decide(w, Outcome(op, Shown[d]))
      /\ x \in Object \cup {Missing}
  BY <1>3 DEF FindOneAndUpdate, vars, SerialInv, StoreInv
<1>5. CASE Matches(op, x) /\ VerifyClass(op)
  <2>1. x \in Object /\ Modified(op, x) \in Object
    BY <1>2, <1>4, <1>5, ModifiedIsObject DEF Matches
  <2>2. /\ objects' = [objects EXCEPT ![d] = Modified(op, x)]
        /\ Finish(w, Success)
    BY <1>5 DEF FindOneAndUpdate
  <2>3. PICK rec : Goto(w, rec) /\ rec.pc # "revert"
    BY <2>2 DEF Finish
  <2>4. /\ StoreInv' /\ RevertInv'
        /\ Shown' = [Shown EXCEPT ![d] = Modified(op, x)]
    BY <1>1, <1>3, <1>4, <2>1, <2>2, <2>3, WriteStore DEF SerialInv, At
  <2>5. Effect(op, x) = Modified(op, x)
    BY <1>2, <1>5 DEF Effect, Writes
  <2>6. QED
    BY <1>1, <1>3, <1>4, <2>4, <2>5, Executes DEF SerialInv
<1>6. ASSUME Shown' = Shown, Effect(op, x) = x PROVE Serial!Next
  <2>1. Shown' = [Shown EXCEPT ![d] = Effect(op, @)]
    BY <1>3, <1>6 DEF Shown
  <2>2. QED
    BY <1>1, <1>4, <2>1, Executes
<1>7. CASE Matches(op, x) /\ ~VerifyClass(op)
  <2>1. x \in Object
    BY <1>4, <1>7 DEF Matches
  <2>2. /\ objects' = [objects EXCEPT ![d] = Modified(op, x)]
        /\ Goto(w, [pc |-> "revert", id |-> worker[w].id, was |-> x])
    BY <1>7 DEF FindOneAndUpdate
  <2>3. StoreInv' /\ RevertInv' /\ Shown' = Shown
    BY <1>1, <1>2, <1>3, <1>4, <1>7, <2>1, <2>2, EnterRevert DEF SerialInv, At
  <2>4. Effect(op, x) = x
    BY <1>2, <1>7 DEF Effect, Writes
  <2>5. QED
    BY <1>6, <2>3, <2>4 DEF SerialInv
<1>8. CASE ~Matches(op, x)
  <2>1. UNCHANGED objects
    BY <1>8 DEF FindOneAndUpdate
  <2>2. PICK rec : Goto(w, rec) /\ rec.pc # "revert"
    BY <1>8 DEF FindOneAndUpdate, Finish
  <2>3. \A v \in Worker : worker'[v] = IF v = w THEN rec ELSE worker[v]
    BY <2>2 DEF Goto, DoidInv, WorkersTyped
  <2>4. StoreInv' /\ RevertInv' /\ Shown' = Shown
    BY <1>1, <1>4, <2>1, <2>2, <2>3, QuietStore DEF At, SerialInv, StoreInv
  <2>5. Effect(op, x) = x
    BY <1>2, <1>8 DEF Effect, Writes
  <2>6. QED
    BY <1>6, <2>4, <2>5 DEF SerialInv
<1>9. QED
  BY <1>5, <1>7, <1>8

(* handle_create: the doid it inserts with is fresh (HeldFresh).             *)
LEMMA InsertObjectSerial ==
  ASSUME RevertsAlone, IInv, DoidInv, HandsInv, AcceptedInv, SerialInv,
         NEW w \in Worker, InsertObject(w)
  PROVE  SerialInv' /\ Serial!Next
<1>1. At(w, "insert") /\ w \in Holder /\ HeldBy(w) = worker[w].doid
  BY DEF InsertObject, At, Holder, HeldBy
<1> PICK d \in Doid : d = worker[w].doid
  BY <1>1 DEF DoidInv, HeldFresh
<1>2. objects[d] = Missing
  BY <1>1 DEF DoidInv, HeldFresh
<1>3. Reverting(d) = {}
  BY <1>2, OneReverter DEF SerialInv
<1>4. /\ objects' = [objects EXCEPT ![d] = NewObject]
      /\ UNCHANGED <<errors, request, outcome>>
      /\ Goto(w, Idle) /\ Idle.pc # "revert"
  BY <1>2 DEF InsertObject, vars, Idle, SerialInv, StoreInv
<1>5. NewObject \in Object \cup {Missing}
  BY MongoDatabaseAssumption
<1>6. /\ StoreInv' /\ RevertInv'
      /\ Shown[d] = objects[d]
      /\ Shown' = [Shown EXCEPT ![d] = NewObject]
  BY <1>1, <1>3, <1>4, <1>5, WriteStore DEF SerialInv, At
<1>7. Serial!CreateObject(d)
  BY <1>2, <1>4, <1>6 DEF Serial!CreateObject, Shown
<1>8. QED
  BY <1>6, <1>7 DEF Serial!Next, SerialInv

(* The steps that neither change an object nor decide an operation.          *)
LEMMA QuietSerial ==
  ASSUME RevertsAlone, IInv, DoidInv, HandsInv, AcceptedInv, SerialInv, NEW w \in Worker,
         \/ TakeOperation(w) \/ FreeDoid(w) \/ FindUnmatched(w) \/ AssignMonotonic(w)
         \/ AssignReuse(w) \/ Answer(w) \/ Cleanup(w)
  PROVE  SerialInv' /\ UNCHANGED <<request, outcome, Shown>>
<1>1. /\ UNCHANGED <<objects, errors, request, outcome>>
      /\ ~At(w, "revert")
  BY DEF TakeOperation, FreeDoid, FindUnmatched, AssignMonotonic, AssignReuse, Answer, Cleanup,
     Complete, At, vars
<1>2. PICK rec : Goto(w, rec) /\ rec.pc # "revert"
  BY DEF TakeOperation, FreeDoid, FindUnmatched, AssignMonotonic, AssignReuse, Answer, Cleanup,
     Finish, Idle, Handler
<1>3. \A v \in Worker : worker'[v] = IF v = w THEN rec ELSE worker[v]
  BY <1>2 DEF Goto, DoidInv, WorkersTyped
<1>4. StoreInv' /\ RevertInv' /\ Shown' = Shown
  BY <1>1, <1>2, <1>3, QuietStore DEF At, SerialInv, StoreInv
<1>5. QED
  BY <1>1, <1>4 DEF SerialInv

(* An operation whose call failed is over, even where its write stays.        *)
LEMMA DatabaseErrorStore ==
  ASSUME IInv, DoidInv, SerialInv, NEW w \in Worker, DatabaseError(w)
  PROVE  SerialInv'
<1>1. /\ UNCHANGED <<objects, request>> /\ errors' \in Nat
  BY DEF DatabaseError, vars, SerialInv, StoreInv
<1>2. PICK rec : Goto(w, rec) /\ rec.pc # "revert"
  BY DEF DatabaseError, Finish, Idle
<1>3. \A v \in Worker : worker'[v] = IF v = w THEN rec ELSE worker[v]
  BY <1>2 DEF Goto, DoidInv, WorkersTyped
<1>4. \A v \in Worker : At(v, "revert")' =>
        At(v, "revert") /\ worker'[v] = worker[v] /\ Holding(v)' = Holding(v)
  BY <1>1, <1>2, <1>3 DEF At, Holding
<1>5. QED
  BY <1>1, <1>4 DEF SerialInv, StoreInv, RevertInv

(* A call that throws fails an undecided operation and is nothing else to the *)
(* serial database, if it is not the call that undoes a modification.        *)
LEMMA DatabaseErrorSerial ==
  ASSUME RevertsAlone, RevertsSucceed, IInv, ArrivalOrder, DoidInv, HandsInv, AcceptedInv, SerialInv,
         NEW w \in Worker, DatabaseError(w)
  PROVE  Serial!Next \/ UNCHANGED <<request, outcome, Shown>>
<1>1. /\ UNCHANGED <<objects, request>> /\ errors < MaxErrors /\ errors' = errors + 1 /\ errors \in Nat
  BY DEF DatabaseError, vars, SerialInv, StoreInv
<1>2. ~At(w, "revert")
  <2> SUFFICES ASSUME At(w, "revert") PROVE FALSE
    OBVIOUS
  <2>1. Holding(w) \in Requests /\ ~VerifyClass(Holding(w))
    BY HeldOperation DEF Busy, At, Operating, SerialInv, RevertInv
  <2>2. MaxErrors # 0
    BY <1>1, MongoDatabaseAssumption
  <2>3. QED
    BY <2>1, <2>2 DEF RevertsSucceed
<1>3. PICK rec : Goto(w, rec) /\ rec.pc # "revert"
  BY DEF DatabaseError, Finish, Idle
<1>4. \A v \in Worker : worker'[v] = IF v = w THEN rec ELSE worker[v]
  BY <1>3 DEF Goto, DoidInv, WorkersTyped
<1>5. Shown' = Shown
  BY <1>1, <1>2, <1>3, <1>4, QuietStore DEF At, SerialInv
<1>6. CASE worker[w].pc \in Undecided /\ Decide(w, Failure)
  <2>1. w \in Busy
    BY <1>6 DEF Busy, Undecided, Operating
  <2>2. QED
    BY <1>1, <1>5, <1>6, <2>1, Fails
<1>7. QED
  BY <1>1, <1>5, <1>6 DEF DatabaseError, Undecided

(* Requests arrive at both.                                                  *)
LEMMA ArrivalSerial ==
  ASSUME RevertsAlone, IInv, DoidInv, HandsInv, AcceptedInv, SerialInv,
         \/ \E op \in Requests : ReceiveOperation(op)
         \/ \E op \in Malformed : ReceiveMalformed(op)
         \/ ReceiveCreate
  PROVE  SerialInv' /\ (Serial!Next \/ UNCHANGED <<request, outcome, Shown>>)
<1>1. UNCHANGED <<objects, errors, worker>>
  BY DEF ReceiveOperation, ReceiveMalformed, ReceiveCreate
<1>2. \A r \in Received : request'[r] = request[r]
  <2>1. ASSUME NEW op \in Operation, request' = Append(request, op)
        PROVE  \A r \in Received : request'[r] = request[r]
    BY <2>1, Arrival DEF IInv
  <2>2. QED
    BY <2>1, RequestsAreOperations DEF ReceiveOperation, ReceiveMalformed, ReceiveCreate,
       HandleOperation, RejectRequest, vars
<1>3. \A v \in Worker : worker[v].pc = "revert" =>
        worker'[v] = worker[v] /\ request'[worker[v].id] = request[worker[v].id]
  BY <1>1, <1>2, HeldOperation DEF Busy, Operating
<1>4. StoreInv' /\ RevertInv' /\ Shown' = Shown
  BY <1>1, <1>3, QuietStore DEF SerialInv, StoreInv
<1>5. ASSUME NEW op \in Requests, ReceiveOperation(op) PROVE Serial!Next
  BY <1>4, <1>5 DEF ReceiveOperation, HandleOperation, Serial!Next, Serial!Receive, Shown
<1>6. ASSUME NEW op \in Malformed, ReceiveMalformed(op) PROVE Serial!Next
  BY <1>4, <1>6, SerialNames DEF ReceiveMalformed, RejectRequest, Serial!Next, Serial!Reject, Shown
<1>7. QED
  BY <1>4, <1>5, <1>6 DEF ReceiveCreate, vars, SerialInv

(* Every step of the threads, with or without failing reverts.               *)
LEMMA SerialStep ==
  ASSUME RevertsAlone, IInv, ArrivalOrder, DoidInv, HandsInv, AcceptedInv, SerialInv, [MongoNext]_allVars
  PROVE  /\ SerialInv'
         /\ RevertsSucceed => Serial!Next \/ UNCHANGED <<request, outcome, Shown>>
<1>1. ASSUME NEW w \in Worker, Work(w)
      PROVE  SerialInv' /\ (Serial!Next \/ UNCHANGED <<request, outcome, Shown>>)
  <2>1. CASE RevertModify(w)
    BY <2>1, LeaveRevert DEF SerialInv, RevertModify, vars
  <2>2. QED
    BY <1>1, <2>1, QuietSerial, GetObjectSerial, DeleteObjectSerial, FindOneAndUpdateSerial,
       InsertObjectSerial DEF Work
<1>2. CASE UNCHANGED allVars
  <2>1. UNCHANGED <<request, outcome, objects, worker, errors>>
    BY <1>2 DEF allVars, vars, mongoVars
  <2>2. StoreInv' /\ RevertInv' /\ Shown' = Shown
    BY <2>1, QuietStore DEF SerialInv, StoreInv
  <2>3. QED
    BY <2>1, <2>2 DEF SerialInv
<1>3. QED
  BY <1>1, <1>2, DatabaseErrorStore, DatabaseErrorSerial, ArrivalSerial DEF MongoNext

LEMMA SerialInitially == MongoInit => AcceptedInv /\ SerialInv /\ Serial!Init
<1> SUFFICES ASSUME MongoInit PROVE AcceptedInv /\ SerialInv /\ Serial!Init
  OBVIOUS
<1>1. AcceptedInv
  BY DEF MongoInit, Init, AcceptedInv
<1>2. SerialInv
  BY MongoDatabaseAssumption DEF MongoInit, SerialInv, StoreInv, RevertInv, At, Idle
<1>3. \A d \in Doid : Undone(d) = objects[d]
  BY UndoneIs DEF MongoInit, Reverting, At, Idle
<1>4. QED
  BY <1>1, <1>2, <1>3 DEF MongoInit, Init, Serial!Init, Serial!Pending, Pending

(* What holds whatever the requests are.                                     *)
LEMMA SchedulerInvariance == MongoSpec => [](IInv /\ ArrivalOrder /\ DoidInv /\ HandsInv /\ AcceptedInv)
<1>1. MongoSpec => []IInv /\ []ArrivalOrder /\ [][Next]_vars
  BY BackendIsABackend, Invariance, ConflictsInArrivalOrder, PTL DEF Spec
<1>2. AcceptedInv /\ IInv /\ [Next]_vars => AcceptedInv'
  BY AcceptedStep
<1>3. QED
  BY <1>1, <1>2, SerialInitially, DoidInvariance, HandsInvariance, PTL DEF MongoSpec

(* DBOperationQueue.h:7-10: any sequence of operations completes as if they  *)
(* had run one at a time.  The threads implement SerialDatabase, however many *)
(* there are, however their database calls interleave and whichever of them  *)
(* throw, as long as what is undone is undone alone.  Each operation takes   *)
(* effect at its deciding database call, when every earlier one it is not    *)
(* independent of is decided (ArrivalOrder).                                 *)
THEOREM ThreadsAreSerial == RevertsAlone /\ RevertsSucceed => (MongoSpec => SerialSpec)
<1> SUFFICES ASSUME RevertsAlone, RevertsSucceed PROVE MongoSpec => SerialSpec
  OBVIOUS
<1>1. MongoInit => SerialInv /\ Serial!Init
  BY SerialInitially
<1>2. IInv /\ ArrivalOrder /\ DoidInv /\ HandsInv /\ AcceptedInv /\ SerialInv /\ [MongoNext]_allVars
        => SerialInv' /\ [Serial!Next]_(Serial!vars)
  BY SerialStep DEF Serial!vars, Shown
<1>3. QED
  BY <1>1, <1>2, SchedulerInvariance, PTL DEF MongoSpec, SerialSpec, Serial!Spec

-----------------------------------------------------------------------------
(* Answers.  An operation i that is told result is decided, and result is what *)
(* happened; or a failure of something that had no effect; or a mismatch for *)
(* an object that a CREATE_OBJECT put there between the two database calls.  *)
Settled(i, result) ==
  /\ outcome[i] # Pending
  /\ \/ result = outcome[i]
     \/ result = Failure /\ outcome[i] # Success
     \/ result.tag = "mismatch" /\ outcome[i] = Failure /\ creates > 0

(* Without a CREATE_OBJECT nobody inserts.                                   *)
CreatesInv ==
  /\ creates \in Nat
  /\ creates = 0 => /\ \A k \in 1..Len(m_operation_queue) : m_operation_queue[k] # Create
                    /\ \A w \in Worker : worker[w].pc \notin {"assign", "reuse", "insert"}

(* Between the two database calls of a conditional update that did not match, *)
(* the object still explains the outcome, unless it was created meanwhile.   *)
RecheckInv ==
  \A w \in Worker : At(w, "recheck") =>
    /\ Writes(Holding(w))
    /\ \/ /\ outcome[worker[w].id] = Failure
          /\ objects[Holding(w).doid] = Missing \/ ~VerifyClass(Holding(w)) \/ creates > 0
       \/ /\ Holding(w).type = "UPDATE_FIELDS" /\ VerifyClass(Holding(w))
          /\ objects[Holding(w).doid] # Missing
          /\ outcome[worker[w].id] = Mismatch(Criteria(Holding(w)), objects[Holding(w).doid])

(* What was answered, is about to be, or will be after free_doid or the      *)
(* revert, is settled.                                                       *)
AnswerInv ==
  /\ answer = [i \in 1..MaxRequests |-> answer[i]]
  /\ \A i \in 1..MaxRequests : answer[i] # NotAnswered => i \in Received /\ Settled(i, answer[i])
  /\ \A w \in Worker : At(w, "answer") => Settled(worker[w].id, worker[w].result)
  /\ \A w \in Worker : At(w, "free") => outcome[worker[w].id] = Success
  /\ \A w \in Worker : At(w, "revert") => outcome[worker[w].id] = Failure

(* The outcomes are told apart by their tags.                                *)
LEMMA OutcomesDiffer ==
  /\ Success # Failure /\ Success # Pending /\ Failure # Pending
  /\ \A S, x : Mismatch(S, x) # Success /\ Mismatch(S, x).tag = "mismatch"
BY DEF Success, Failure, Pending, Mismatch

(* What clear_operation moves to the threads' queue is no CREATE_OBJECT.     *)
LEMMA QueueCreates ==
  ASSUME DoidInv, CreatesInv, NEW q, q \in Seq({Create} \cup Nat), creates' = creates,
         \A k \in 1..Len(q) : q[k] # Create, m_operation_queue' = m_operation_queue \o q
  PROVE  creates = 0 => \A k \in 1..Len(m_operation_queue') : m_operation_queue'[k] # Create
<1>1. m_operation_queue \in Seq({Create} \cup Nat)
  <2>1. {Create} \cup Received \subseteq {Create} \cup Nat
    BY DEF Received
  <2>2. QED
    BY <2>1, SeqMonotonic DEF DoidInv, StoreTyped
<1>2. /\ Len(m_operation_queue) \in Nat /\ Len(q) \in Nat
      /\ Len(m_operation_queue') = Len(m_operation_queue) + Len(q)
      /\ \A k \in 1..(Len(m_operation_queue) + Len(q)) : m_operation_queue'[k] =
            IF k <= Len(m_operation_queue) THEN m_operation_queue[k] ELSE q[k - Len(m_operation_queue)]
  BY <1>1, ConcatProperties, SeqFacts
<1>3. QED
  BY <1>2 DEF CreatesInv

(* Nobody inserts but for a CREATE_OBJECT that arrived.                      *)
LEMMA CreatesStep ==
  ASSUME IInv, IInv', DoidInv, HandsInv, CreatesInv, [MongoNext]_allVars
  PROVE  CreatesInv'
<1>1. m_operation_queue \in Seq({Create} \cup Received) /\ Create \notin Received
  BY ReceivedRange DEF DoidInv, StoreTyped, HandsInv
<1>2. ASSUME NEW op \in Operation, NEW i, ClearOperation(op, i), Received \subseteq Received',
             creates' = creates, m_operation_queue' = m_operation_queue \o TakenFrom(op.doid)
      PROVE  creates = 0 => \A k \in 1..Len(m_operation_queue') : m_operation_queue'[k] # Create
  <2> DEFINE q == TakenFrom(op.doid)
  <2>1. q \in Seq(Received)
    BY <1>2, ClearMoves
  <2>2. \A k \in 1..Len(q) : q[k] # Create
    BY <1>1, <2>1, SeqFacts
  <2>3. q \in Seq({Create} \cup Nat)
    BY <2>1, SeqMonotonic DEF Received
  <2> HIDE DEF q
  <2>4. m_operation_queue' = m_operation_queue \o q
    BY <1>2 DEF q
  <2>5. QED
    BY <1>2, <2>2, <2>3, <2>4, QueueCreates
<1>3. ASSUME NEW op \in Requests, ReceiveOperation(op) PROVE CreatesInv'
  <2>1. UNCHANGED <<worker, creates>>
    BY <1>3 DEF ReceiveOperation
  <2>2. m_operation_queue' = m_operation_queue \/ m_operation_queue' = Append(m_operation_queue, Len(request) + 1)
    BY <1>3 DEF ReceiveOperation
  <2>3. Len(request) + 1 # Create
    BY ReceivedRange DEF HandsInv, Create
  <2>4. \A k \in 1..Len(m_operation_queue') :
          \/ m_operation_queue'[k] # Create
          \/ k \in 1..Len(m_operation_queue) /\ m_operation_queue'[k] = m_operation_queue[k]
    BY <1>1, <2>2, <2>3
  <2>5. QED
    BY <2>1, <2>4 DEF CreatesInv
<1>4. ASSUME NEW op \in Malformed, ReceiveMalformed(op) PROVE CreatesInv'
  <2>1. /\ UNCHANGED <<worker, creates>> /\ op \in Operation /\ op.doid \in Doid
        /\ request' = Append(request, op)
        /\ m_operation_queue' = m_operation_queue \o TakenFrom(op.doid)
    BY <1>4, RequestsAreOperations DEF ReceiveMalformed, RejectRequest, Operation
  <2>2. Received \subseteq Received'
    BY <2>1, Arrival DEF IInv
  <2>3. CASE ClearOperation(op, NewId)
    BY <1>2, <2>1, <2>2, <2>3 DEF CreatesInv
  <2>4. CASE UNCHANGED queue
    <3>1. queue[op.doid] \in Seq(Received)
      BY <2>1 DEF IInv, TypeOK
    <3>2. TakenFrom(op.doid) = <<>>
      BY <2>4, <3>1 DEF TakenFrom
    <3>3. m_operation_queue' = m_operation_queue
      BY <1>1, <2>1, <3>2
    <3>4. QED
      BY <2>1, <3>3 DEF CreatesInv
  <2>5. QED
    BY <1>4, <2>3, <2>4 DEF ReceiveMalformed, RejectRequest
<1>5. CASE ReceiveCreate
  BY <1>5 DEF ReceiveCreate, CreatesInv
<1>6. ASSUME NEW w \in Worker, Cleanup(w) PROVE CreatesInv'
  <2>1. w \in Busy /\ worker[w].id \in Received
    BY <1>6, ReceivedRange DEF Busy, At, Cleanup, Operating, HandsInv, BusyInv
  <2>2. Holding(w) \in Operation
    BY <2>1, ElementOfSeq DEF IInv, TypeOK, Received, Holding
  <2>3. /\ ClearOperation(Holding(w), worker[w].id)
        /\ UNCHANGED <<request, creates>>
        /\ m_operation_queue' = m_operation_queue \o TakenFrom(Holding(w).doid)
        /\ Goto(w, Idle)
    BY <1>6 DEF Cleanup, Complete, Holding
  <2>4. creates = 0 => \A k \in 1..Len(m_operation_queue') : m_operation_queue'[k] # Create
    BY <1>2, <2>2, <2>3 DEF Received
  <2>5. \A v \in Worker : worker'[v] = IF v = w THEN Idle ELSE worker[v]
    BY <2>3 DEF Goto, DoidInv, WorkersTyped
  <2>6. QED
    BY <2>3, <2>4, <2>5 DEF CreatesInv, Idle
<1>7. ASSUME NEW w \in Worker, TakeOperation(w) PROVE CreatesInv'
  <2> DEFINE i == Head(m_operation_queue)
             rec == IF i = Create THEN [pc |-> "assign"] ELSE [pc |-> Handler(request[i]), id |-> i]
  <2>1. /\ creates' = creates /\ m_operation_queue # <<>>
        /\ m_operation_queue' = Tail(m_operation_queue)
        /\ Goto(w, rec)
    BY <1>7 DEF TakeOperation
  <2>2. /\ i = m_operation_queue[1] /\ 1 \in 1..Len(m_operation_queue)
        /\ \A k \in 1..Len(m_operation_queue') :
             k + 1 \in 1..Len(m_operation_queue) /\ m_operation_queue'[k] = m_operation_queue[k + 1]
    BY <1>1, <2>1
  <2>3. i # Create => rec.pc \notin {"assign", "reuse", "insert"}
    BY DEF Handler
  <2> HIDE DEF rec, i
  <2>4. \A v \in Worker : worker'[v] = IF v = w THEN rec ELSE worker[v]
    BY <2>1 DEF Goto, DoidInv, WorkersTyped
  <2>5. QED
    BY <2>1, <2>2, <2>3, <2>4 DEF CreatesInv
<1>8. ASSUME NEW w \in Worker, Work(w) \/ DatabaseError(w), ~TakeOperation(w), ~Cleanup(w) PROVE CreatesInv'
  <2>1. UNCHANGED <<creates, m_operation_queue>>
    BY <1>8 DEF Work, GetObject, DeleteObject, FreeDoid, FindOneAndUpdate, FindUnmatched,
     RevertModify, Answer, AssignMonotonic, AssignReuse, InsertObject, DatabaseError
  <2>2. PICK rec : Goto(w, rec) /\
          (rec.pc \in {"assign", "reuse", "insert"} => worker[w].pc \in {"assign", "reuse", "insert"})
    BY <1>8 DEF Work, GetObject, DeleteObject, FreeDoid, FindOneAndUpdate, FindUnmatched,
     RevertModify, Answer, AssignMonotonic, AssignReuse, InsertObject, DatabaseError, Finish, At, Idle
  <2>3. \A v \in Worker : worker'[v] = IF v = w THEN rec ELSE worker[v]
    BY <2>2 DEF Goto, DoidInv, WorkersTyped
  <2>4. QED
    BY <2>1, <2>2, <2>3 DEF CreatesInv
<1>9. CASE UNCHANGED allVars
  BY <1>9 DEF allVars, mongoVars, CreatesInv
<1>10. QED
  BY <1>3, <1>4, <1>5, <1>6, <1>7, <1>8, <1>9 DEF MongoNext

AnswersInv == RecheckInv /\ AnswerInv

(* Decided operations stay decided, and as they were.                        *)
LEMMA DecidedStays ==
  ASSUME IInv, DoidInv, HandsInv, AcceptedInv, CreatesInv, [MongoNext]_allVars
  PROVE  /\ \A i \in 1..MaxRequests : outcome[i] # Pending => outcome'[i] = outcome[i]
         /\ creates' \in Nat /\ (creates > 0 => creates' > 0)
         /\ Received \subseteq Received'
         /\ \A i \in Received : request'[i] = request[i]
<1>1. /\ creates' \in Nat /\ (creates > 0 => creates' > 0)
  <2>1. ASSUME NEW w \in Worker, Work(w) \/ DatabaseError(w) PROVE UNCHANGED creates
    BY <2>1 DEF Work, TakeOperation, GetObject, DeleteObject, FreeDoid, FindOneAndUpdate, FindUnmatched,
     RevertModify, Answer, Cleanup, AssignMonotonic, AssignReuse, InsertObject, DatabaseError
  <2>2. UNCHANGED creates \/ creates' = creates + 1
    BY <2>1 DEF MongoNext, ReceiveOperation, ReceiveMalformed, ReceiveCreate, allVars, mongoVars
  <2>3. QED
    BY <2>2 DEF CreatesInv
<1>2. CASE UNCHANGED request
  <2>1. ASSUME NEW w \in Worker, NEW r, worker[w].pc \in Undecided, Decide(w, r)
        PROVE  \A i \in 1..MaxRequests : outcome[i] # Pending => outcome'[i] = outcome[i]
    <3>1. w \in Busy
      BY <2>1 DEF Busy, Undecided, Operating
    <3>2. outcome[worker[w].id] = Pending
      BY <2>1, <3>1 DEF HandsInv, BusyInv
    <3>3. QED
      BY <2>1, <3>2 DEF Decide, HandsInv, OutcomeInv
  <2>2. \/ UNCHANGED outcome
        \/ \E w \in Worker : \E r : worker[w].pc \in Undecided /\ Decide(w, r)
        \/ \E op \in Requests : ReceiveOperation(op)
        \/ \E op \in Malformed : ReceiveMalformed(op)
    <3>1. ASSUME NEW w \in Worker, Work(w)
          PROVE  UNCHANGED outcome \/ \E r : worker[w].pc \in Undecided /\ Decide(w, r)
      BY <3>1 DEF Work, TakeOperation, GetObject, DeleteObject, FreeDoid, FindOneAndUpdate,
       FindUnmatched, RevertModify, Answer, Cleanup, AssignMonotonic, AssignReuse, InsertObject,
       At, Undecided
    <3>2. ASSUME NEW w \in Worker, DatabaseError(w)
          PROVE  UNCHANGED outcome \/ \E r : worker[w].pc \in Undecided /\ Decide(w, r)
      BY <3>2 DEF DatabaseError, Undecided
    <3>3. QED
      BY <3>1, <3>2 DEF MongoNext, ReceiveCreate, allVars, mongoVars
  <2>3. ~(\E op \in Malformed : ReceiveMalformed(op))
    BY <1>2 DEF ReceiveMalformed, RejectRequest, IInv, TypeOK
  <2>4. (\E op \in Requests : ReceiveOperation(op)) => UNCHANGED outcome
    BY DEF ReceiveOperation
  <2>5. QED
    BY <1>1, <1>2, <2>1, <2>2, <2>3, <2>4 DEF Received
<1>3. ASSUME NEW op \in Requests, ReceiveOperation(op)
      PROVE  UNCHANGED outcome /\ Received \subseteq Received' /\ \A i \in Received : request'[i] = request[i]
  BY <1>3, RequestsAreOperations, Arrival DEF ReceiveOperation, HandleOperation, IInv
<1>4. ASSUME NEW op \in Malformed, ReceiveMalformed(op)
      PROVE  /\ Received \subseteq Received' /\ \A i \in Received : request'[i] = request[i]
             /\ \A i \in 1..MaxRequests : outcome[i] # Pending => outcome'[i] = outcome[i]
  <2>1. /\ op \in Operation /\ request' = Append(request, op) /\ Len(request) < MaxRequests
        /\ outcome' = [outcome EXCEPT ![Len(request) + 1] = Failure]
    BY <1>4, RequestsAreOperations DEF ReceiveMalformed, RejectRequest
  <2>2. Received \subseteq Received' /\ \A i \in Received : request'[i] = request[i]
    BY <2>1, Arrival DEF IInv
  <2>3. Len(request) + 1 \in 1..MaxRequests /\ Len(request) + 1 \notin Received
    BY <2>1, ReceivedRange, DatabaseServerAssumption DEF HandsInv, Received
  <2>4. outcome[Len(request) + 1] = Pending
    BY <2>3 DEF HandsInv, OutcomeInv
  <2>5. QED
    BY <2>1, <2>2, <2>4 DEF HandsInv, OutcomeInv
<1>5. UNCHANGED request \/ (\E op \in Requests : ReceiveOperation(op)) \/ (\E op \in Malformed : ReceiveMalformed(op))
  BY DEF MongoNext, ReceiveCreate, Work, TakeOperation,
     GetObject, DeleteObject, FreeDoid, FindOneAndUpdate, FindUnmatched, RevertModify, Answer, Cleanup,
     AssignMonotonic, AssignReuse, InsertObject, DatabaseError, allVars, vars, Complete
<1>6. QED
  BY <1>1, <1>2, <1>3, <1>4, <1>5

(* What becomes of an object while a conditional update that did not match   *)
(* is about to look at it again: the fields of its criteria stay as they are. *)
LEMMA ObjectBesideRecheck ==
  ASSUME RevertsAlone, IInv, DoidInv, HandsInv, AcceptedInv, CreatesInv, SerialInv, RecheckInv,
         [MongoNext]_allVars, NEW w \in Worker, At(w, "recheck"),
         NEW d, d = Holding(w).doid
  PROVE  \/ objects'[d] = objects[d]
         \/ creates > 0 /\ objects[d] = Missing
         \/ /\ objects[d] # Missing /\ objects'[d] # Missing
            /\ Holding(w).type = "UPDATE_FIELDS" =>
                 Mismatch(Criteria(Holding(w)), objects'[d]) = Mismatch(Criteria(Holding(w)), objects[d])
<1>1. w \in Busy /\ Writes(Holding(w)) /\ ~Gets(Holding(w))
  BY DEF Busy, At, Operating, RecheckInv, Gets, Writes
<1>2. /\ d \in Doid /\ objects \in [Doid -> Object \cup {Missing}] /\ Holding(w) \in Operation
      /\ Criteria(Holding(w)) \subseteq Field
  BY <1>1, HeldOperation DEF SerialInv, StoreInv, Criteria, Operation, FieldValues
<1>3. CASE UNCHANGED objects
  BY <1>3
<1>4. ASSUME NEW v \in Worker, DeleteObject(v), Holding(v).doid = d PROVE FALSE
  <2>1. v \in Busy /\ At(v, "delete") /\ v # w
    BY <1>4 DEF DeleteObject, Busy, At, Operating
  <2>2. Holding(v).type = "DELETE_OBJECT" /\ IsIndependentOf(Holding(v), Holding(w))
    BY <1>1, <1>4, <2>1, HeldOperation, HeldIndependent
  <2>3. QED
    BY <1>4, <2>2 DEF IsIndependentOf, Gets
<1>5. ASSUME NEW v \in Worker, RevertModify(v), Holding(v).doid = d PROVE FALSE
  <2>1. v \in Busy /\ At(v, "revert") /\ v # w
    BY <1>5 DEF RevertModify, Busy, At, Operating
  <2>2. QED
    BY <1>1, <1>5, <2>1, OnlyGetsBeside DEF SerialInv
<1>6. ASSUME NEW v \in Worker, FindOneAndUpdate(v), Holding(v).doid = d, Matches(Holding(v), objects[d])
      PROVE  /\ objects[d] # Missing /\ objects'[d] # Missing
             /\ Holding(w).type = "UPDATE_FIELDS" =>
                 Mismatch(Criteria(Holding(w)), objects'[d]) = Mismatch(Criteria(Holding(w)), objects[d])
  <2>1. v \in Busy /\ At(v, "modify") /\ v # w
    BY <1>6 DEF FindOneAndUpdate, Busy, At, Operating
  <2>2. /\ Holding(v) \in Operation /\ Writes(Holding(v))
        /\ IsIndependentOf(Holding(v), Holding(w))
    BY <1>1, <1>6, <2>1, HeldOperation, HeldIndependent
  <2>3. objects[d] \in Object
    BY <1>2, <1>6 DEF Matches
  <2>4. objects'[d] = Modified(Holding(v), objects[d])
    BY <1>2, <1>6 DEF FindOneAndUpdate
  <2>5. objects'[d] # Missing /\ objects[d] # Missing
    BY <2>2, <2>3, <2>4, ModifiedIsObject
  <2>6. ASSUME Holding(w).type = "UPDATE_FIELDS"
        PROVE  Mismatch(Criteria(Holding(w)), objects'[d]) = Mismatch(Criteria(Holding(w)), objects[d])
    <3>1. Changes(Holding(v)) \cap Criteria(Holding(w)) = {}
      BY <1>6, <2>2, <2>6 DEF IsIndependentOf, Gets, Writes, SetIndependentOf, UpdateIndependentOf
    <3>2. \A h \in Criteria(Holding(w)) : objects'[d][h] = objects[d][h]
      BY <1>2, <2>4, <3>1 DEF Modified
    <3>3. QED
      BY <3>2 DEF Mismatch
  <2>7. QED
    BY <2>5, <2>6
<1>7. ASSUME NEW v \in Worker, InsertObject(v), objects'[d] # objects[d]
      PROVE  creates > 0 /\ objects[d] = Missing
  <2>1. creates # 0 /\ creates \in Nat
    BY <1>7 DEF CreatesInv, InsertObject, At
  <2>2. objects[d] = Missing
    BY <1>2, <1>7 DEF InsertObject
  <2>3. QED
    BY <2>1, <2>2
<1>8. \/ UNCHANGED objects
      \/ \E v \in Worker : DeleteObject(v) \/ RevertModify(v) \/ InsertObject(v) \/ FindOneAndUpdate(v)
  BY DEF MongoNext, ReceiveOperation, ReceiveMalformed, ReceiveCreate, Work, TakeOperation,
     GetObject, FreeDoid, FindUnmatched, Answer, Cleanup,
     AssignMonotonic, AssignReuse, DatabaseError, allVars, mongoVars
<1>9. ASSUME NEW v \in Worker, DeleteObject(v) \/ RevertModify(v) \/ FindOneAndUpdate(v),
             objects'[d] # objects[d]
      PROVE  Holding(v).doid = d /\ (FindOneAndUpdate(v) => Matches(Holding(v), objects[d]))
  BY <1>2, <1>9 DEF DeleteObject, RevertModify, FindOneAndUpdate
<1>10. QED
  BY <1>3, <1>4, <1>5, <1>6, <1>7, <1>8, <1>9

(* The second look of a conditional update will find what the first found.   *)
LEMMA RecheckStep ==
  ASSUME RevertsAlone, IInv, DoidInv, HandsInv, AcceptedInv, CreatesInv, SerialInv, RecheckInv,
         [MongoNext]_allVars
  PROVE  RecheckInv'
<1> SUFFICES ASSUME NEW w \in Worker, At(w, "recheck")'
             PROVE  /\ Writes(Holding(w)')
                    /\ \/ /\ outcome'[worker'[w].id] = Failure
                          /\ objects'[Holding(w)'.doid] = Missing \/ ~VerifyClass(Holding(w)') \/ creates' > 0
                       \/ /\ Holding(w)'.type = "UPDATE_FIELDS" /\ VerifyClass(Holding(w)')
                          /\ objects'[Holding(w)'.doid] # Missing
                          /\ outcome'[worker'[w].id] = Mismatch(Criteria(Holding(w)'), objects'[Holding(w)'.doid])
  BY DEF RecheckInv
<1>1. CASE worker'[w] = worker[w]
  <2>1. At(w, "recheck") /\ w \in Busy
    BY <1>1 DEF At, Busy, Operating
  <2>2. worker[w].id \in Received /\ worker[w].id \in 1..MaxRequests /\ Holding(w).doid \in Doid
    BY <2>1, HeldOperation, ReceivedRange DEF HandsInv
  <2>3. Holding(w)' = Holding(w)
    BY <1>1, <2>2, DecidedStays DEF Holding
  <2>4. outcome[worker[w].id] # Pending
    BY <2>1 DEF HandsInv, BusyInv, At, Undecided
  <2>5. outcome'[worker'[w].id] = outcome[worker[w].id]
    BY <1>1, <2>2, <2>4, DecidedStays
  <2> PICK d : d = Holding(w).doid
    OBVIOUS
  <2>6. \/ objects'[d] = objects[d]
        \/ creates > 0 /\ objects[d] = Missing
        \/ /\ objects[d] # Missing /\ objects'[d] # Missing
           /\ Holding(w).type = "UPDATE_FIELDS" =>
                 Mismatch(Criteria(Holding(w)), objects'[d]) = Mismatch(Criteria(Holding(w)), objects[d])
    BY <2>1, ObjectBesideRecheck
  <2>7. creates > 0 => creates' > 0
    BY DecidedStays
  <2>8. /\ Writes(Holding(w))
        /\ \/ /\ outcome[worker[w].id] = Failure
              /\ objects[d] = Missing \/ ~VerifyClass(Holding(w)) \/ creates > 0
           \/ /\ Holding(w).type = "UPDATE_FIELDS" /\ VerifyClass(Holding(w))
              /\ objects[d] # Missing
              /\ outcome[worker[w].id] = Mismatch(Criteria(Holding(w)), objects[d])
    BY <2>1 DEF RecheckInv
  <2> HIDE DEF Holding
  <2>9. QED
    BY <2>3, <2>5, <2>6, <2>7, <2>8
<1>2. CASE worker'[w] # worker[w]
  <2>1. FindOneAndUpdate(w)
    <3>1. ASSUME NEW v \in Worker, NEW rec, Goto(v, rec), rec.pc # "recheck" PROVE FALSE
      BY <1>2, <3>1 DEF Goto, DoidInv, WorkersTyped, At
    <3>2. ASSUME NEW v \in Worker, Work(v) \/ DatabaseError(v), ~FindOneAndUpdate(v)
          PROVE \E rec : Goto(v, rec) /\ rec.pc # "recheck"
      BY <3>2 DEF Work, TakeOperation, GetObject, DeleteObject, FreeDoid, FindUnmatched,
       RevertModify, Answer, Cleanup, AssignMonotonic, AssignReuse, InsertObject, DatabaseError, Finish,
       Idle, Handler
    <3>3. \E v \in Worker : Work(v) \/ DatabaseError(v)
      BY <1>2 DEF MongoNext, ReceiveOperation, ReceiveMalformed, ReceiveCreate, allVars, mongoVars
    <3>4. PICK v \in Worker : FindOneAndUpdate(v)
      BY <3>1, <3>2, <3>3
    <3>5. v = w
      BY <1>2, <3>4 DEF FindOneAndUpdate, Finish, Goto, DoidInv, WorkersTyped
    <3>6. QED
      BY <3>4, <3>5
  <2>2. w \in Busy /\ At(w, "modify")
    BY <2>1 DEF FindOneAndUpdate, At, Busy, Operating
  <2>3. /\ Writes(Holding(w)) /\ Holding(w).doid \in Doid /\ worker[w].id \in 1..MaxRequests
    BY <2>2, HeldOperation, ReceivedRange DEF HandsInv
  <2> PICK d : d = Holding(w).doid
    OBVIOUS
  <2>4. ~Matches(Holding(w), objects[d])
    BY <2>1 DEF FindOneAndUpdate, Finish, Goto, DoidInv, WorkersTyped, At
  <2>5. /\ UNCHANGED <<objects, request>>
        /\ Goto(w, [pc |-> "recheck", id |-> worker[w].id]) \/ Finish(w, Failure)
        /\ Decide(w, Outcome(Holding(w), objects[d]))
    BY <2>1, <2>4 DEF FindOneAndUpdate, vars
  <2>6. worker'[w].id = worker[w].id /\ Holding(w)' = Holding(w)
    BY <2>5 DEF Finish, Goto, DoidInv, WorkersTyped, Holding
  <2>7. outcome'[worker[w].id] = Outcome(Holding(w), objects[d])
    BY <2>3, <2>5 DEF Decide, HandsInv, OutcomeInv
  <2>8. \/ Outcome(Holding(w), objects[d]) = Failure /\ (objects[d] = Missing \/ ~VerifyClass(Holding(w)))
        \/ /\ Holding(w).type = "UPDATE_FIELDS" /\ VerifyClass(Holding(w)) /\ objects[d] # Missing
           /\ Outcome(Holding(w), objects[d]) = Mismatch(Criteria(Holding(w)), objects[d])
    BY <2>3, <2>4 DEF Outcome, Matches, Writes
  <2>9. QED
    BY <2>3, <2>5, <2>6, <2>7, <2>8
<1>3. QED
  BY <1>1, <1>2

(* What a thread is about to answer, and what it has done by then.           *)
LEMMA AnswerStep ==
  ASSUME RevertsAlone, IInv, DoidInv, HandsInv, AcceptedInv, CreatesInv, SerialInv, RecheckInv,
         AnswerInv, [MongoNext]_allVars
  PROVE  AnswerInv'
<1> DEFINE Good(w) ==
      /\ At(w, "answer") => Settled(worker[w].id, worker[w].result)
      /\ At(w, "free") => outcome[worker[w].id] = Success
      /\ At(w, "revert") => outcome[worker[w].id] = Failure
<1> DEFINE After(i, r) ==
      /\ outcome'[i] # Pending
      /\ \/ r = outcome'[i]
         \/ r = Failure /\ outcome'[i] # Success
         \/ r.tag = "mismatch" /\ outcome'[i] = Failure /\ creates' > 0
<1>0. ASSUME NEW i \in 1..MaxRequests, NEW r, Settled(i, r) PROVE After(i, r)
  BY <1>0, DecidedStays DEF Settled
<1> HIDE DEF After
<1>1. /\ answer' = [i \in 1..MaxRequests |-> answer'[i]]
      /\ \A i \in 1..MaxRequests : answer'[i] # NotAnswered => i \in Received' /\ After(i, answer'[i])
  <2>1. CASE UNCHANGED answer
    <3>1. ASSUME NEW i \in 1..MaxRequests, answer[i] # NotAnswered
          PROVE  i \in Received' /\ After(i, answer[i])
      BY <3>1, <1>0, DecidedStays DEF AnswerInv
    <3>2. QED
      BY <2>1, <3>1 DEF AnswerInv
  <2>2. ASSUME NEW w \in Worker, Answer(w) PROVE <1>1
    <3>1. w \in Busy /\ At(w, "answer")
      BY <2>2 DEF Answer, At, Busy, Operating
    <3>2. worker[w].id \in Received /\ worker[w].id \in 1..MaxRequests
      BY <3>1, HeldOperation, ReceivedRange DEF HandsInv
    <3>3. Settled(worker[w].id, worker[w].result)
      BY <3>1 DEF AnswerInv
    <3>4. answer' = [answer EXCEPT ![worker[w].id] = worker[w].result]
      BY <2>2 DEF Answer
    <3>5. ASSUME NEW i \in 1..MaxRequests, answer'[i] # NotAnswered
          PROVE  i \in Received /\ Settled(i, answer'[i])
      BY <3>2, <3>3, <3>4, <3>5 DEF AnswerInv
    <3>6. ASSUME NEW i \in 1..MaxRequests, answer'[i] # NotAnswered
          PROVE  i \in Received' /\ After(i, answer'[i])
      BY <3>5, <3>6, <1>0, DecidedStays
    <3>7. QED
      BY <3>4, <3>6 DEF AnswerInv
  <2>3. UNCHANGED answer \/ \E w \in Worker : Answer(w)
    BY DEF MongoNext, ReceiveOperation, ReceiveMalformed, ReceiveCreate, Work, TakeOperation,
     GetObject, DeleteObject, FreeDoid, FindOneAndUpdate, FindUnmatched, RevertModify, Cleanup,
     AssignMonotonic, AssignReuse, InsertObject, DatabaseError, allVars, mongoVars
  <2>4. QED
    BY <2>1, <2>2, <2>3
<1>2. ASSUME NEW w \in Worker PROVE Good(w)'
  <2>1. CASE worker'[w] = worker[w]
    <3> SUFFICES ASSUME worker[w].pc \in {"answer", "free", "revert"} PROVE Good(w)'
      BY <2>1 DEF At
    <3>1. w \in Busy
      BY DEF Busy, Operating
    <3>2. worker[w].id \in 1..MaxRequests /\ outcome[worker[w].id] # Pending
      BY <3>1, HeldOperation, ReceivedRange DEF HandsInv, BusyInv, Undecided
    <3>3. outcome'[worker[w].id] = outcome[worker[w].id]
      BY <3>2, DecidedStays
    <3>4. ASSUME At(w, "answer") PROVE After(worker[w].id, worker[w].result)
      BY <3>2, <3>4, <1>0 DEF AnswerInv
    <3>5. QED
      BY <2>1, <3>3, <3>4 DEF At, AnswerInv, Settled, After
  <2>2. CASE worker'[w] # worker[w]
    <3>1. Work(w) \/ DatabaseError(w)
      <4>1. ASSUME NEW v \in Worker, Work(v) \/ DatabaseError(v) PROVE \E rec : Goto(v, rec)
        BY <4>1 DEF Work, TakeOperation, GetObject, DeleteObject, FreeDoid, FindOneAndUpdate,
         FindUnmatched, RevertModify, Answer, Cleanup, AssignMonotonic, AssignReuse, InsertObject,
         DatabaseError, Finish
      <4>2. ASSUME NEW v \in Worker, NEW rec, Goto(v, rec) PROVE v = w
        BY <2>2, <4>2 DEF Goto, DoidInv, WorkersTyped
      <4>3. \E v \in Worker : Work(v) \/ DatabaseError(v)
        BY <2>2 DEF MongoNext, ReceiveOperation, ReceiveMalformed, ReceiveCreate, allVars, mongoVars
      <4>4. QED
        BY <4>1, <4>2, <4>3
    <3>2. ASSUME NEW rec, Goto(w, rec) PROVE worker'[w] = rec
      BY <3>2 DEF Goto, DoidInv, WorkersTyped
    <3>3. CASE worker'[w].pc \notin {"answer", "free", "revert"}
      BY <3>3 DEF At
    <3> SUFFICES ASSUME worker'[w].pc \in {"answer", "free", "revert"} PROVE Good(w)'
      BY <3>3
    <3>4. /\ \/ GetObject(w) \/ DeleteObject(w) \/ FreeDoid(w)
             \/ FindOneAndUpdate(w) \/ FindUnmatched(w) \/ RevertModify(w)
             \/ DatabaseError(w) /\ worker[w].pc \in Operating
          /\ worker[w].pc \in Operating /\ w \in Busy
      <4>1. ~TakeOperation(w) /\ ~Cleanup(w) /\ ~Answer(w)
            /\ ~AssignMonotonic(w) /\ ~AssignReuse(w) /\ ~InsertObject(w)
        BY <3>2 DEF TakeOperation, Cleanup, Answer, AssignMonotonic, AssignReuse, InsertObject, Idle, Handler
      <4>2. DatabaseError(w) => worker[w].pc \in Operating
        BY <3>2 DEF DatabaseError, Idle, Operating, At
      <4>3. QED
        BY <3>1, <4>1, <4>2 DEF Work, GetObject, DeleteObject, FreeDoid, FindOneAndUpdate,
         FindUnmatched, RevertModify, Busy, At, Operating
    <3> PICK i : i = worker[w].id
      OBVIOUS
    <3>5. /\ i \in 1..MaxRequests /\ outcome = [j \in 1..MaxRequests |-> outcome[j]]
          /\ creates' = creates
          /\ worker'[w].id = i
          /\ Holding(w) \in Operation
      <4>1. i \in 1..MaxRequests /\ Holding(w) \in Operation
        BY <3>4, HeldOperation, ReceivedRange DEF HandsInv
      <4>2. outcome = [j \in 1..MaxRequests |-> outcome[j]]
        BY DEF HandsInv, OutcomeInv
      <4>3. creates' = creates
        BY <3>4 DEF GetObject, DeleteObject, FreeDoid, FindOneAndUpdate,
         FindUnmatched, RevertModify, DatabaseError
      <4>4. worker'[w].id = i
        BY <3>2, <3>4 DEF GetObject, DeleteObject, FreeDoid, FindOneAndUpdate, FindUnmatched,
           RevertModify, DatabaseError, Finish, Operating, At
      <4>5. QED
        BY <4>1, <4>2, <4>3, <4>4
    <3>6. ASSUME NEW r, Decide(w, r) PROVE outcome'[i] = r
      BY <3>5, <3>6 DEF Decide
    <3> DEFINE out == outcome'[i]
    <3>7. \/ /\ worker'[w].pc = "answer" /\ out # Pending
             /\ \/ worker'[w].result = out
                \/ worker'[w].result = Failure /\ out # Success
                \/ worker'[w].result.tag = "mismatch" /\ out = Failure /\ creates > 0
          \/ worker'[w].pc = "free" /\ out = Success
          \/ worker'[w].pc = "revert" /\ out = Failure
      <4>1. CASE GetObject(w)
        BY <4>1, <3>2, <3>6, OutcomeIsDecided DEF GetObject, Finish
      <4>2. CASE DeleteObject(w)
        BY <4>2, <3>2, <3>6, OutcomeIsDecided DEF DeleteObject, Finish, FreesDoid
      <4>3. CASE FreeDoid(w)
        BY <4>3, <3>2, OutcomesDiffer DEF FreeDoid, Finish, AnswerInv
      <4>4. CASE RevertModify(w)
        BY <4>4, <3>2, OutcomesDiffer DEF RevertModify, Finish, AnswerInv
      <4>5. CASE FindOneAndUpdate(w)
        <5> PICK x : x = objects[Holding(w).doid]
          OBVIOUS
        <5>1. Writes(Holding(w))
          BY <4>5, <3>4, HeldOperation DEF FindOneAndUpdate
        <5>2. out = Outcome(Holding(w), x)
          BY <4>5, <3>6 DEF FindOneAndUpdate
        <5>3. CASE Matches(Holding(w), x)
          <6>1. out = IF VerifyClass(Holding(w)) THEN Success ELSE Failure
            BY <5>1, <5>2, <5>3 DEF Outcome, Matches, Writes
          <6>2. QED
            BY <4>5, <5>3, <6>1, <3>2, OutcomesDiffer DEF FindOneAndUpdate, Finish
        <5>4. CASE ~Matches(Holding(w), x)
          <6>1. out # Success /\ out # Pending
            BY <5>1, <5>2, <5>4, OutcomesDiffer, OutcomeIsDecided DEF Outcome, Writes
          <6>2. worker'[w].pc = "answer" => worker'[w].result = Failure
            BY <4>5, <5>4, <3>2 DEF FindOneAndUpdate, Finish
          <6>3. worker'[w].pc = "answer"
            BY <4>5, <5>4, <3>2 DEF FindOneAndUpdate, Finish
          <6>4. QED
            BY <6>1, <6>2, <6>3
        <5>5. QED
          BY <5>3, <5>4
      <4>6. CASE FindUnmatched(w)
        <5> PICK x : x = objects[Holding(w).doid]
          OBVIOUS
        <5>1. At(w, "recheck") /\ out = outcome[i]
          BY <4>6 DEF FindUnmatched
        <5>2. \/ /\ out = Failure
                 /\ x = Missing \/ ~VerifyClass(Holding(w)) \/ creates > 0
              \/ /\ VerifyClass(Holding(w)) /\ x # Missing
                 /\ out = Mismatch(Criteria(Holding(w)), x)
          BY <5>1 DEF RecheckInv
        <5>3. /\ worker'[w].pc = "answer"
              /\ worker'[w].result = IF x # Missing /\ VerifyClass(Holding(w))
                                     THEN Mismatch(Criteria(Holding(w)), x) ELSE Failure
          BY <4>6, <3>2 DEF FindUnmatched, Finish
        <5>4. out # Pending
          BY <5>2, OutcomesDiffer DEF Mismatch, Pending
        <5>5. QED
          BY <5>2, <5>3, <5>4, OutcomesDiffer
      <4>7. CASE DatabaseError(w)
        <5>1. CASE worker[w].pc \in {"get", "delete", "modify"}
          BY <4>7, <5>1, <3>2, <3>6, OutcomesDiffer DEF DatabaseError, Finish, At
        <5>2. CASE worker[w].pc = "revert"
          BY <4>7, <5>2, <3>2, OutcomesDiffer DEF DatabaseError, Finish, At, AnswerInv
        <5>3. CASE worker[w].pc = "free"
          BY <4>7, <5>3, <3>2, OutcomesDiffer DEF DatabaseError, Finish, At, AnswerInv
        <5>4. CASE worker[w].pc = "recheck"
          <6>1. out = outcome[i] /\ worker'[w].pc = "answer" /\ worker'[w].result = Failure
            BY <4>7, <5>4, <3>2 DEF DatabaseError, Finish, At
          <6>2. \/ out = Failure
                \/ out = Mismatch(Criteria(Holding(w)), objects[Holding(w).doid])
            BY <5>4, <6>1 DEF RecheckInv, At
          <6>0. out # Success /\ out # Pending
            BY <6>2, OutcomesDiffer DEF Mismatch, Pending
          <6>3. QED
            BY <6>0, <6>1
        <5>5. QED
          BY <4>7, <3>4, <5>1, <5>2, <5>3, <5>4 DEF DatabaseError, Operating, At
      <4>8. QED
        BY <3>4, <4>1, <4>2, <4>3, <4>4, <4>5, <4>6, <4>7
    <3>8. QED
      BY <3>5, <3>7 DEF At, Settled
  <2>3. QED
    BY <2>1, <2>2
<1>3. QED
  <2>1. /\ \A w \in Worker : At(w, "answer")' => After(worker'[w].id, worker'[w].result)
        /\ \A w \in Worker : At(w, "free")' => outcome'[worker'[w].id] = Success
        /\ \A w \in Worker : At(w, "revert")' => outcome'[worker'[w].id] = Failure
    BY <1>2 DEF Settled, After
  <2>2. QED
    BY <1>1, <2>1 DEF AnswerInv, Settled, After

(* What a requester is told is what happened: while no CREATE_OBJECT arrived *)
(* every answer is true, and afterwards the only one that may not be is a    *)
(* mismatch, reported with the fields of an object that did not exist when   *)
(* the update ran.  The second database call of handle_modify reads another  *)
(* document than the first only then: no operation that runs beside it may   *)
(* change the fields of its criteria.                                        *)
THEOREM OnlyCreatesMislead ==
  RevertsAlone => (MongoSpec =>
    [](/\ creates = 0 => AnswersAreTrue
       /\ \A i \in Received : answer[i] # NotAnswered => Settled(i, answer[i])))
<1> SUFFICES ASSUME RevertsAlone
             PROVE  MongoSpec =>
               [](/\ creates = 0 => AnswersAreTrue
                  /\ \A i \in Received : answer[i] # NotAnswered => Settled(i, answer[i]))
  OBVIOUS
<1>1. MongoInit => SerialInv /\ CreatesInv /\ AnswersInv
  <2> SUFFICES ASSUME MongoInit PROVE CreatesInv /\ AnswersInv
    BY SerialInitially
  <2>1. CreatesInv
    BY DEF MongoInit, CreatesInv, Idle
  <2>2. AnswersInv
    BY DEF MongoInit, AnswersInv, RecheckInv, AnswerInv, At, Idle, NotAnswered
  <2>3. QED
    BY <2>1, <2>2
<1> DEFINE Sched == IInv /\ ArrivalOrder /\ DoidInv /\ HandsInv /\ AcceptedInv
<1>2. Sched /\ Sched' /\ SerialInv /\ CreatesInv /\ AnswersInv /\ [MongoNext]_allVars
        => SerialInv' /\ CreatesInv' /\ AnswersInv'
  BY SerialStep, CreatesStep, RecheckStep, AnswerStep DEF AnswersInv
<1>3. Sched /\ AnswersInv =>
        /\ creates = 0 => AnswersAreTrue
        /\ \A i \in Received : answer[i] # NotAnswered => Settled(i, answer[i])
  <2>1. Sched => Received \subseteq 1..MaxRequests
    BY ReceivedRange DEF HandsInv
  <2>2. QED
    BY <2>1 DEF AnswersInv, AnswerInv, AnswersAreTrue, Settled
<1>4. MongoSpec => []Sched
  BY SchedulerInvariance
<1>5. QED
  BY <1>1, <1>2, <1>3, <1>4, PTL DEF MongoSpec
=============================================================================
