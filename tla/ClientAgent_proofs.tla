-------------------------- MODULE ClientAgent_proofs --------------------------
(***************************************************************************)
(* The client agent, for any clients, accounts, objects and scenarios: an  *)
(* account has one session and runs one operation, and the avatars that a  *)
(* client was told of are in their slots.                                  *)
(***************************************************************************)
EXTENDS ClientAgent, SequenceTheorems, FiniteSetTheorems, TLAPS

-----------------------------------------------------------------------------
(* Operations, and what is under way for them.                               *)
Beside == {"online", "offline"}
Joining == {"login"} \cup Beside
Linear == {"login", "typed", "pattern", "load", "create", "details", "unload"}
Singly == Linear \cup {"removefriend"}
Kinds == Singly \cup Beside \cup {"getavatars", "friendslist"}

OfAccount(op) == op.kind \in Kinds \ Joining

IsSeq(q) == \E S : q \in Seq(S)

Replies == {"query", "create", "update", "activated", "get_activated"}

\* A request to the database, or what is routed, is about operation o.
Concerns(m, o) == ("kind" \in DOMAIN m => m.kind \in Replies) /\ m.op = o

\* Where in q, and what, is about operation o.
Of(q, o) == {i \in 1..Len(q) : Concerns(q[i], o)}
Values(q, o) == {q[i] : i \in Of(q, o)}

Single(S) == \A x, y \in S : x = y

Asked(A, o) == Values(A.requests, o)
Coming(A, o) == Values(A.mail, o)

Idle(A, o) == Of(A.requests, o) = {} /\ Of(A.mail, o) = {}

Once(A, o) ==
  /\ Single(Of(A.requests, o)) /\ Single(Of(A.mail, o))
  /\ Of(A.requests, o) = {} \/ Of(A.mail, o) = {}

-----------------------------------------------------------------------------
(* Sequences.                                                                *)
LEMMA SeqLength ==
  ASSUME NEW q, IsSeq(q)
  PROVE  Len(q) \in Nat /\ DOMAIN q = 1..Len(q)
BY DEF IsSeq

LEMMA SeqEmpty == IsSeq(<<>>) /\ Len(<<>>) = 0
<1>1. <<>> \in Seq({})
  OBVIOUS
<1>2. QED
  BY <1>1 DEF IsSeq

LEMMA SeqAppend ==
  ASSUME NEW q, NEW m, IsSeq(q)
  PROVE  /\ IsSeq(Append(q, m)) /\ Len(Append(q, m)) = Len(q) + 1
         /\ Append(q, m)[Len(q) + 1] = m
         /\ \A i \in 1..Len(q) : Append(q, m)[i] = q[i]
<1>1. PICK S : q \in Seq(S)
  BY DEF IsSeq
<1>2. q \in Seq(S \cup {m})
  BY <1>1
<1>3. QED
  BY <1>2 DEF IsSeq

LEMMA SeqConcat ==
  ASSUME NEW p, NEW q, IsSeq(p), IsSeq(q)
  PROVE  /\ IsSeq(p \o q) /\ Len(p \o q) = Len(p) + Len(q)
         /\ \A i \in 1..Len(p) : (p \o q)[i] = p[i]
         /\ \A i \in 1..Len(q) : (p \o q)[Len(p) + i] = q[i]
<1>1. PICK S : p \in Seq(S)
  BY DEF IsSeq
<1>2. PICK T : q \in Seq(T)
  BY DEF IsSeq
<1>3. p \in Seq(S \cup T) /\ q \in Seq(S \cup T)
  BY <1>1, <1>2
<1>4. p \o q \in Seq(S \cup T)
  BY <1>3
<1>5. QED
  BY <1>3, <1>4 DEF IsSeq

LEMMA SeqTail ==
  ASSUME NEW q, IsSeq(q), q # <<>>
  PROVE  /\ IsSeq(Tail(q)) /\ Len(Tail(q)) = Len(q) - 1 /\ Len(q) \in Nat \ {0}
         /\ Head(q) = q[1] /\ \A i \in 1..Len(Tail(q)) : Tail(q)[i] = q[i + 1]
<1>1. PICK S : q \in Seq(S)
  BY DEF IsSeq
<1>2. Tail(q) \in Seq(S) /\ Len(q) \in Nat \ {0}
  BY <1>1
<1>3. QED
  BY <1>1, <1>2 DEF IsSeq

LEMMA SeqExcept ==
  ASSUME NEW q, IsSeq(q), NEW i \in 1..Len(q), NEW x
  PROVE  LET r == [q EXCEPT ![i] = x]
         IN  /\ IsSeq(r) /\ Len(r) = Len(q) /\ r[i] = x
             /\ \A j \in 1..Len(q) : j # i => r[j] = q[j]
<1>1. PICK S : q \in Seq(S)
  BY DEF IsSeq
<1> DEFINE r == [q EXCEPT ![i] = x]
<1>2. q \in Seq(S \cup {x}) /\ x \in S \cup {x}
  BY <1>1
<1>3. r \in Seq(S \cup {x}) /\ Len(r) = Len(q)
  BY <1>2
<1>4. r[i] = x /\ \A j \in 1..Len(q) : j # i => r[j] = q[j]
  BY <1>1
<1>5. QED
  BY <1>3, <1>4 DEF IsSeq

LEMMA SeqRemove ==
  ASSUME NEW q, IsSeq(q), NEW k \in 1..Len(q)
  PROVE  /\ IsSeq(RemoveAt(q, k)) /\ Len(RemoveAt(q, k)) = Len(q) - 1
         /\ \A j \in 1..(k - 1) : RemoveAt(q, k)[j] = q[j]
         /\ \A j \in k..(Len(q) - 1) : RemoveAt(q, k)[j] = q[j + 1]
         /\ Len(q) \in Nat /\ k \in Nat
<1>0. PICK S : q \in Seq(S)
  BY DEF IsSeq
<1> DEFINE a == SubSeq(q, 1, k - 1)
           b == SubSeq(q, k + 1, Len(q))
<1>1. Len(q) \in Nat /\ k \in Nat
  BY <1>0
<1>2. a \in Seq(S) /\ Len(a) = k - 1 /\ \A j \in 1..(k - 1) : a[j] = q[j]
  BY <1>0
<1>3. b \in Seq(S) /\ Len(b) = Len(q) - k /\ \A j \in 1..(Len(q) - k) : b[j] = q[j + k]
  BY <1>0
<1>4. RemoveAt(q, k) = a \o b
  BY DEF RemoveAt
<1> HIDE DEF a, b
<1>5. /\ IsSeq(a \o b) /\ Len(a \o b) = Len(a) + Len(b)
      /\ \A j \in 1..Len(a) : (a \o b)[j] = a[j]
      /\ \A j \in 1..Len(b) : (a \o b)[Len(a) + j] = b[j]
  <2>1. IsSeq(a) /\ IsSeq(b)
    BY <1>2, <1>3 DEF IsSeq
  <2>2. QED
    BY ONLY <2>1, SeqConcat
<1>6. ASSUME NEW j \in k..(Len(q) - 1) PROVE (a \o b)[j] = q[j + 1]
  <2>1. j - Len(a) \in 1..Len(b) /\ Len(a) + (j - Len(a)) = j /\ (j - Len(a)) + k = j + 1
    BY <1>1, <1>2, <1>3
  <2> DEFINE i == j - Len(a)
  <2>2. i \in 1..Len(b) /\ i \in 1..(Len(q) - k) /\ Len(a) + i = j /\ i + k = j + 1
    BY <1>3, <2>1
  <2> HIDE DEF i
  <2>3. b[i] = q[i + k]
    BY ONLY <1>3, <2>2
  <2>4. (a \o b)[Len(a) + i] = b[i]
    BY ONLY <1>5, <2>2
  <2>5. QED
    BY ONLY <2>2, <2>3, <2>4
<1>7. QED
  BY <1>1, <1>2, <1>3, <1>4, <1>5, <1>6

LEMMA SetInTurn ==
  ASSUME NEW S, IsFiniteSet(S)
  PROVE  IsSeq(SetToSeq(S)) /\ \A k \in 1..Len(SetToSeq(S)) : SetToSeq(S)[k] \in S
<1>1. Cardinality(S) \in Nat /\ ExistsBijection(1..Cardinality(S), S)
  BY FS_CardinalityType
<1>2. \E f \in [1..Cardinality(S) -> S] : IsInjective(f)
  BY <1>1 DEF ExistsBijection, Bijection, Injection
<1> DEFINE f == SetToSeq(S)
<1>3. f \in [1..Cardinality(S) -> S]
  BY <1>2 DEF SetToSeq
<1> HIDE DEF f
<1>4. f \in Seq(S) /\ Len(f) = Cardinality(S)
  BY <1>1, <1>3
<1>5. QED
  BY <1>1, <1>3, <1>4 DEF f, IsSeq

LEMMA FewDoids == \A S \in SUBSET Doids : IsFiniteSet(S)
<1>1. IsFiniteSet(1..MaxDoid)
  BY ManagerAssumption, FS_Interval
<1>2. QED
  BY <1>1, FS_Subset DEF Doids

LEMMA ConcatOne ==
  ASSUME NEW q, NEW x, IsSeq(q)
  PROVE  Append(q, x) = q \o <<x>> /\ IsSeq(<<x>>) /\ Len(<<x>>) = 1 /\ <<x>>[1] = x
<1>1. PICK S : q \in Seq(S)
  BY DEF IsSeq
<1>2. q \in Seq(S \cup {x}) /\ <<x>> \in Seq(S \cup {x})
  BY <1>1
<1>3. Append(q, x) = q \o <<x>>
  BY <1>2
<1>4. QED
  BY <1>2, <1>3 DEF IsSeq

LEMMA ConcatNone ==
  ASSUME NEW q, IsSeq(q)
  PROVE  q \o <<>> = q /\ IsSeq(<<>>) /\ Len(<<>>) = 0
<1>1. PICK S : q \in Seq(S)
  BY DEF IsSeq
<1>2. q \o <<>> = q
  BY <1>1
<1>3. QED
  BY <1>2, SeqEmpty

-----------------------------------------------------------------------------
(* What is about an operation, when something is added or taken.             *)
LEMMA OfAppend ==
  ASSUME NEW q, IsSeq(q), NEW m, NEW o
  PROVE  /\ ~Concerns(m, o) => Of(Append(q, m), o) = Of(q, o) /\ Values(Append(q, m), o) = Values(q, o)
         /\ Concerns(m, o) => Values(Append(q, m), o) = Values(q, o) \cup {m}
         /\ Of(q, o) = {} => Single(Of(Append(q, m), o))
<1> DEFINE r == Append(q, m)
           n == Len(q)
<1>1. /\ n \in Nat /\ Len(r) = n + 1 /\ r[n + 1] = m
      /\ \A i \in 1..n : r[i] = q[i]
  BY SeqLength, SeqAppend
<1> HIDE DEF r, n
<1>2. 1..(n + 1) = 1..n \cup {n + 1} /\ n + 1 \notin 1..n
  BY <1>1
<1>3. \A i : i \in Of(r, o) <=> i \in Of(q, o) \/ (i = n + 1 /\ Concerns(m, o))
  BY <1>1, <1>2 DEF Of, n
<1>4. \A i \in Of(q, o) : r[i] = q[i]
  BY <1>1 DEF Of, n
<1>5. ~Concerns(m, o) => Of(r, o) = Of(q, o) /\ Values(r, o) = Values(q, o)
  BY <1>3, <1>4 DEF Values
<1>6. Concerns(m, o) => Values(r, o) = Values(q, o) \cup {m}
  <2>1. SUFFICES ASSUME Concerns(m, o), NEW x
                 PROVE  x \in Values(r, o) <=> x \in Values(q, o) \/ x = m
    OBVIOUS
  <2>2. x \in Values(r, o) <=> \E i \in Of(r, o) : x = r[i]
    BY DEF Values
  <2>3. x \in Values(q, o) <=> \E i \in Of(q, o) : x = q[i]
    BY DEF Values
  <2>4. QED
    BY <1>1, <1>3, <1>4, <2>1, <2>2, <2>3
<1>7. Of(q, o) = {} => Single(Of(r, o))
  BY <1>3 DEF Single
<1>8. QED
  BY <1>5, <1>6, <1>7 DEF r

LEMMA OfConcat ==
  ASSUME NEW q, IsSeq(q), NEW s, IsSeq(s), NEW o
  PROVE  /\ (\A i \in 1..Len(s) : ~Concerns(s[i], o)) =>
              Of(q \o s, o) = Of(q, o) /\ Values(q \o s, o) = Values(q, o)
         /\ \A x \in Values(q \o s, o) : x \in Values(q, o) \/ \E i \in 1..Len(s) : x = s[i]
<1> DEFINE r == q \o s
           n == Len(q)
<1>1. /\ n \in Nat /\ Len(s) \in Nat /\ Len(r) = n + Len(s)
      /\ \A i \in 1..n : r[i] = q[i]
      /\ \A i \in 1..Len(s) : r[n + i] = s[i]
  BY SeqLength, SeqConcat
<1> HIDE DEF r, n
<1>2. \A i \in 1..Len(r) : i \in 1..n \/ (i - n \in 1..Len(s) /\ n + (i - n) = i)
  BY <1>1
<1>3. \A i \in 1..n : i \in 1..Len(r)
  BY <1>1
<1>4. \A i \in Of(q, o) : i \in Of(r, o) /\ r[i] = q[i]
  BY <1>1, <1>3 DEF Of, n
<1>5. \A i \in Of(r, o) : i \in Of(q, o) \/ (i - n \in 1..Len(s) /\ r[i] = s[i - n] /\ Concerns(s[i - n], o))
  <2>1. SUFFICES ASSUME NEW i \in 1..Len(r), Concerns(r[i], o)
                 PROVE  i \in Of(q, o) \/ (i - n \in 1..Len(s) /\ r[i] = s[i - n] /\ Concerns(s[i - n], o))
    BY DEF Of
  <2>2. CASE i \in 1..n
    BY <1>1, <2>1, <2>2 DEF Of, n
  <2>3. CASE i - n \in 1..Len(s) /\ n + (i - n) = i
    <3> DEFINE j == i - n
    <3>1. j \in 1..Len(s) /\ n + j = i
      BY <2>3
    <3> HIDE DEF j
    <3>2. r[i] = s[j]
      BY <1>1, <3>1
    <3>3. QED
      BY <2>1, <3>1, <3>2 DEF j
  <2>4. QED
    BY <1>2, <2>2, <2>3
<1>6. (\A i \in 1..Len(s) : ~Concerns(s[i], o)) => Of(r, o) = Of(q, o)
  BY <1>4, <1>5
<1>7. (\A i \in 1..Len(s) : ~Concerns(s[i], o)) => Values(r, o) = Values(q, o)
  BY <1>4, <1>6 DEF Values
<1>8. \A x \in Values(r, o) : x \in Values(q, o) \/ \E i \in 1..Len(s) : x = s[i]
  <2>1. SUFFICES ASSUME NEW i \in Of(r, o) PROVE r[i] \in Values(q, o) \/ \E j \in 1..Len(s) : r[i] = s[j]
    BY DEF Values
  <2>2. CASE i \in Of(q, o)
    BY <1>4, <2>2 DEF Values
  <2>3. QED
    BY <1>5, <2>2
<1>9. QED
  BY <1>6, <1>7, <1>8 DEF r

\* What is left of q: a part of it, in the same order.
LEMMA OfTail ==
  ASSUME NEW q, IsSeq(q), q # <<>>, NEW o
  PROVE  /\ ~Concerns(Head(q), o) => Values(Tail(q), o) = Values(q, o)
         /\ Values(Tail(q), o) \subseteq Values(q, o)
         /\ Of(q, o) = {} => Of(Tail(q), o) = {}
         /\ Single(Of(q, o)) => Single(Of(Tail(q), o)) /\ (Concerns(Head(q), o) => Of(Tail(q), o) = {})
         /\ Concerns(Head(q), o) => Head(q) \in Values(q, o)
<1> DEFINE r == Tail(q)
           n == Len(q)
<1>1. /\ n \in Nat \ {0} /\ Len(r) = n - 1 /\ Head(q) = q[1]
      /\ \A i \in 1..(n - 1) : r[i] = q[i + 1]
  BY SeqTail
<1> HIDE DEF r, n
<1>2. \A i : i \in 1..(n - 1) => i + 1 \in 1..n /\ i + 1 # 1
  BY <1>1
<1>3. \A i \in 1..n : i = 1 \/ (i - 1 \in 1..(n - 1) /\ (i - 1) + 1 = i)
  BY <1>1
<1>4. \A i \in Of(r, o) : i \in Nat /\ i + 1 \in Of(q, o) /\ i + 1 # 1 /\ r[i] = q[i + 1]
  BY <1>1, <1>2 DEF Of, n
<1>5. \A i \in Of(q, o) : i = 1 \/ (i - 1 \in Of(r, o) /\ r[i - 1] = q[i])
  <2>1. SUFFICES ASSUME NEW i \in 1..n, Concerns(q[i], o), i # 1
                 PROVE  i - 1 \in Of(r, o) /\ r[i - 1] = q[i]
    BY DEF Of, n
  <2> DEFINE j == i - 1
  <2>2. j \in 1..(n - 1) /\ j + 1 = i
    BY <1>3, <2>1
  <2> HIDE DEF j
  <2>3. r[j] = q[i]
    BY <1>1, <2>2
  <2>4. QED
    BY <1>1, <2>1, <2>2, <2>3 DEF Of, j
<1>6. 1 \in 1..n
  BY <1>1
<1>7. 1 \in Of(q, o) <=> Concerns(Head(q), o)
  BY <1>1, <1>6 DEF Of, n
<1>8. Values(r, o) \subseteq Values(q, o)
  BY <1>4 DEF Values
<1>9. ~Concerns(Head(q), o) => Values(q, o) \subseteq Values(r, o)
  BY <1>5, <1>7 DEF Values
<1>10. Of(q, o) = {} => Of(r, o) = {}
  BY <1>4
<1>11. Single(Of(q, o)) => Single(Of(r, o))
  <2>1. SUFFICES ASSUME Single(Of(q, o)), NEW i \in Of(r, o), NEW j \in Of(r, o) PROVE i = j
    BY DEF Single
  <2>2. i + 1 = j + 1 /\ i \in Nat /\ j \in Nat
    BY <1>4, <2>1 DEF Single
  <2>3. QED
    BY <2>2
<1>12. Single(Of(q, o)) /\ Concerns(Head(q), o) => Of(r, o) = {}
  BY <1>4, <1>7 DEF Single
<1>13. Concerns(Head(q), o) => Head(q) \in Values(q, o)
  BY <1>1, <1>7 DEF Values
<1>14. QED
  BY <1>8, <1>9, <1>10, <1>11, <1>12, <1>13 DEF r

LEMMA OfRemove ==
  ASSUME NEW q, IsSeq(q), NEW k \in 1..Len(q), NEW o
  PROVE  /\ ~Concerns(q[k], o) => Values(RemoveAt(q, k), o) = Values(q, o)
         /\ Values(RemoveAt(q, k), o) \subseteq Values(q, o)
         /\ Of(q, o) = {} => Of(RemoveAt(q, k), o) = {}
         /\ Single(Of(q, o)) => /\ Single(Of(RemoveAt(q, k), o))
                                /\ Concerns(q[k], o) => Of(RemoveAt(q, k), o) = {}
         /\ Concerns(q[k], o) => q[k] \in Values(q, o) /\ k \in Of(q, o)
<1> DEFINE r == RemoveAt(q, k)
           n == Len(q)
           Back(i) == IF i < k THEN i ELSE i + 1
           On(i) == IF i < k THEN i ELSE i - 1
<1>1. /\ n \in Nat /\ k \in Nat /\ Len(r) = n - 1 /\ k \in 1..n
      /\ \A i \in 1..(k - 1) : r[i] = q[i]
      /\ \A i \in k..(n - 1) : r[i] = q[i + 1]
  BY SeqRemove
<1> HIDE DEF r, n
<1>2. \A i \in 1..(n - 1) : Back(i) \in 1..n /\ Back(i) # k /\ r[i] = q[Back(i)]
  <2>1. SUFFICES ASSUME NEW i \in 1..(n - 1) PROVE Back(i) \in 1..n /\ Back(i) # k /\ r[i] = q[Back(i)]
    OBVIOUS
  <2>2. CASE i < k
    <3>1. i \in 1..(k - 1) /\ Back(i) = i
      BY <1>1, <2>2
    <3>2. QED
      BY <1>1, <2>2, <3>1
  <2>3. CASE ~(i < k)
    <3>1. i \in k..(n - 1) /\ Back(i) = i + 1
      BY <1>1, <2>3
    <3>2. QED
      BY <1>1, <2>3, <3>1
  <2>4. QED
    BY <2>2, <2>3
<1>3. \A i \in 1..n : i # k => On(i) \in 1..(n - 1) /\ Back(On(i)) = i
  BY <1>1
<1>4. \A i, j \in 1..(n - 1) : Back(i) = Back(j) => i = j
  BY <1>1
<1> HIDE DEF Back, On
<1>5. \A i \in Of(r, o) : i \in 1..(n - 1) /\ Back(i) \in Of(q, o) /\ Back(i) # k /\ r[i] = q[Back(i)]
  BY <1>1, <1>2 DEF Of, n
<1>6. \A i \in Of(q, o) : i # k => On(i) \in Of(r, o) /\ r[On(i)] = q[i]
  BY <1>1, <1>2, <1>3 DEF Of, n
<1>7. k \in Of(q, o) <=> Concerns(q[k], o)
  BY <1>1 DEF Of, n
<1>8. Values(r, o) \subseteq Values(q, o)
  BY <1>5 DEF Values
<1>9. ~Concerns(q[k], o) => Values(q, o) \subseteq Values(r, o)
  BY <1>6, <1>7 DEF Values
<1>10. Of(q, o) = {} => Of(r, o) = {}
  BY <1>5
<1>11. Single(Of(q, o)) => Single(Of(r, o))
  BY <1>4, <1>5 DEF Single
<1>12. Single(Of(q, o)) /\ Concerns(q[k], o) => Of(r, o) = {}
  BY <1>5, <1>7 DEF Single
<1>13. Concerns(q[k], o) => q[k] \in Values(q, o) /\ k \in Of(q, o)
  BY <1>7 DEF Values
<1>14. QED
  BY <1>8, <1>9, <1>10, <1>11, <1>12, <1>13 DEF r

-----------------------------------------------------------------------------
(* What has to be sound about an agent at any time.                          *)
AgentFields ==
  {"clients", "operations", "m_account2operation", "m_connection2operation", "m_bridge",
   "m_game_name", "requests", "mail", "told", "removed", "disowned", "killed_twice", "crashed"}

ClientFields ==
  {"connection", "m_state", "allocated", "m_channel", "subscriptions", "post_removes",
   "owned", "m_av_id", "m_declared_objects"}

OperationFields ==
  {"kind", "client", "m_target", "arg", "m_contexts", "m_past_acc_query", "m_av_set",
   "m_pending_avatars", "m_friends_list", "m_last", "m_acc_id", "over"}

GoodClient(c) ==
  /\ DOMAIN c = ClientFields
  /\ c.connection \in {"none", "open", "leaving", "gone"}
  /\ c.allocated \in 0..scenario.channels
  /\ c.m_av_id \in 0..MaxDoid
  /\ IsFiniteSet(c.owned)
  /\ IsSeq(c.post_removes)
  /\ \A i \in 1..Len(c.post_removes) : \E k, v : c.post_removes[i] = delete_ram(k, v)

OfAvatar == {"pattern", "load", "details", "unload", "friendslist"} \cup Beside

GoodOperation(op) ==
  /\ DOMAIN op = OperationFields
  /\ op.kind \in Kinds /\ op.client \in Clients
  /\ op.m_av_set \in AvatarSets \cup {<<>>}
  /\ op.m_friends_list \subseteq Doids
  /\ OfAccount(op) => op.m_target \in Doids
  /\ op.kind \in OfAvatar => op.arg \in Doids
  /\ op.kind = "typed" => op.arg \in Doids \cup {0}
  /\ op.kind = "removefriend" => op.arg[1] \in Doids /\ op.arg[2] \in Doids
  /\ op.kind \in Beside => op.m_target = 0 /\ op.over

Updates == [WishNameState : {"OPEN", "LOCKED"}] \cup [setFriendsList : SUBSET Doids]

ObjectsNow == Objects \cup {dead_object}

GoodRequest(ops, r) ==
  /\ "kind" \notin DOMAIN r
  /\ r.ask \in {"get", "create", "set_if_equals", "set"}
  /\ r.ask = "set" => r.op = 0 /\ r.value \in Updates
  /\ r.ask # "set" => r.op \in 1..Len(ops)
  /\ r.ask = "get" => r.do_id \in Doids
  /\ r.ask = "create" => ops[r.op].kind \in {"login", "create"} /\ r.value \in Objects \ {no_object}
  /\ r.ask = "set_if_equals" => ops[r.op].kind = "create"

GoodMessage(ops, m) ==
  /\ "kind" \in DOMAIN m
  /\ m.kind \in Replies => m.op \in 1..Len(ops)
  /\ m.kind = "query" => m.do_id \in Doids /\ m.value \in ObjectsNow
  /\ m.kind = "create" => ops[m.op].kind \in {"login", "create"} /\ m.value \in 0..MaxDoid
  /\ m.kind = "update" => ops[m.op].kind = "create"
  /\ m.kind \in {"activated", "get_activated"} => ops[m.op].kind \in FriendKinds
  /\ m.kind = "update_field" => m.value \in Updates

Tables(A) ==
  /\ DOMAIN A.m_account2operation = Doids
  /\ \A a \in Doids : A.m_account2operation[a] \in 0..Len(A.operations)
  /\ DOMAIN A.m_bridge = PlayTokens /\ \A t \in PlayTokens : A.m_bridge[t] \in 0..MaxDoid

Typed(A) ==
  /\ DOMAIN A = AgentFields
  /\ DOMAIN A.clients = Clients /\ \A k \in Clients : GoodClient(A.clients[k])
  /\ IsSeq(A.operations) /\ \A o \in 1..Len(A.operations) : GoodOperation(A.operations[o])
  /\ Tables(A)
  /\ DOMAIN A.m_connection2operation = 0..scenario.channels
  /\ \A c \in 0..scenario.channels : A.m_connection2operation[c] \in 0..Len(A.operations)

Wired(A) ==
  /\ IsSeq(A.requests) /\ \A i \in 1..Len(A.requests) : GoodRequest(A.operations, A.requests[i])
  /\ IsSeq(A.mail) /\ \A i \in 1..Len(A.mail) : GoodMessage(A.operations, A.mail[i])

-----------------------------------------------------------------------------
(* Sessions: who is established has an account and listens on its channel,   *)
(* two on one account are about to be told apart, and an operation is of the *)
(* account that its client is established on.                                *)
Present(c) == c.connection \in {"open", "leaving"}

HasAccount(c) ==
  \E a \in Doids : /\ \E v \in 0..MaxDoid : c.m_channel = sender_channel(a, v)
                   /\ get_account_connection_channel(a) \in c.subscriptions

Playing(c) == c.connection = "open" /\ c.m_state = "established"

Ejecting(A, a) ==
  \E i \in 1..Len(A.mail) : A.mail[i].kind = "eject" /\ A.mail[i].to = get_account_connection_channel(a)

Accounted(A) == \A k \in Clients : Present(A.clients[k]) /\ A.clients[k].m_state = "established" => HasAccount(A.clients[k])

Apart(A) ==
  \A k, l \in Clients :
    /\ k # l /\ Playing(A.clients[k]) /\ Playing(A.clients[l])
    /\ get_account_id(A.clients[k]) = get_account_id(A.clients[l])
    => Ejecting(A, get_account_id(A.clients[k]))

LoginServed(A, o) ==
  LET c == A.clients[A.operations[o].client]
  IN  A.operations[o].kind = "login" /\ Present(c) =>
        /\ A.m_connection2operation[c.allocated] # 0
        /\ c.m_state = "established" => Idle(A, o)
        /\ \A p \in 1..Len(A.operations) :
             A.operations[p].kind = "login" /\ A.operations[p].client = A.operations[o].client => p = o

AccountServed(A, o) ==
  LET c == A.clients[A.operations[o].client]
  IN  OfAccount(A.operations[o]) /\ Present(c) =>
        c.m_state = "established" /\ A.operations[o].m_target = get_account_id(c)

Served(A, o) ==
  /\ A.clients[A.operations[o].client].connection # "none"
  /\ LoginServed(A, o) /\ AccountServed(A, o)

\* A client's channel is nobody else's, nor free.
Spare(c) == \E i \in 1..Len(m_unused_channels) : m_unused_channels[i] = c

Allotted(A) ==
  /\ \A k \in Clients :
       Present(A.clients[k]) /\ A.clients[k].allocated # 0 =>
         A.clients[k].allocated < m_next /\ ~Spare(A.clients[k].allocated)
  /\ \A k, l \in Clients :
       k # l /\ Present(A.clients[k]) /\ Present(A.clients[l]) /\ A.clients[k].allocated # 0 =>
         A.clients[k].allocated # A.clients[l].allocated

Sound(A) ==
  /\ Typed(A) /\ Wired(A) /\ Accounted(A) /\ Apart(A) /\ Allotted(A)
  /\ \A o \in 1..Len(A.operations) : Served(A, o)

-----------------------------------------------------------------------------
(* How far operations are.                                                   *)

\* The avatar v is in the slot of account a, if that is still an account.
Filled(D, a, slot, v) ==
  /\ a \in Doids /\ slot \in Slots /\ v # 0 /\ D[a] # no_object
  /\ D[a].class = "account" => D[a].ACCOUNT_AV_SET[slot] = v

OpenSlot(op) == op.m_av_set \in AvatarSets /\ op.arg \in Slots /\ op.m_av_set[op.arg] = 0
TakenSlot(op) == op.m_av_set \in AvatarSets /\ op.arg \in Slots /\ op.m_av_set[op.arg] # 0

Creating(A, D, o) ==
  LET op == A.operations[o]
  IN  /\ ~op.over => op.arg \in Slots
      /\ \A r \in Asked(A, o) :
           /\ r.ask = "create" => OpenSlot(op)
           /\ r.ask = "set_if_equals" =>
                /\ r.do_id = op.m_target /\ TakenSlot(op)
                /\ r.value.new = op.m_av_set /\ r.value.old = [op.m_av_set EXCEPT ![op.arg] = 0]
      /\ \A m \in Coming(A, o) :
           /\ m.kind = "create" => OpenSlot(op)
           /\ m.kind = "update" /\ m.value => Filled(D, op.m_target, op.arg, op.m_av_set[op.arg])

\* A list of avatars is complete only when the last pending one was described.
Listing(op) ==
  /\ ~op.m_past_acc_query =>
       /\ op.m_pending_avatars = {} /\ op.m_contexts \subseteq {op.m_target}
       /\ op.over => op.m_contexts = {}
  /\ op.m_past_acc_query =>
       /\ op.m_contexts \subseteq op.m_pending_avatars
       /\ ~op.over => op.m_contexts = op.m_pending_avatars
       /\ op.over => op.m_contexts = {} \/ op.m_pending_avatars \ op.m_contexts # {}

Befriending(A, o) ==
  LET op == A.operations[o]
  IN  /\ op.over /\ op.m_target \notin A.disowned => op.arg \notin op.m_contexts
      /\ \A m \in Coming(A, o) : m.kind \in {"activated", "get_activated"} => op.m_target \in A.disowned

\* Who has nothing more to ask.
Through(op) == op.over \/ op.kind = "unload" \/ (op.kind = "typed" /\ op.arg = 0)

Progress(A, D, o) ==
  LET op == A.operations[o]
  IN  /\ op.kind \in Singly => Once(A, o)
      /\ op.kind \in Linear /\ Through(op) => Idle(A, o)
      /\ op.kind = "removefriend" /\ op.over /\ ~op.m_last =>
           Asked(A, o) = {} /\ \A m \in Coming(A, o) : m.kind # "query"
      /\ op.kind = "create" => Creating(A, D, o)
      /\ op.kind = "getavatars" => Listing(op)
      /\ op.kind = "friendslist" => Befriending(A, o)

Unresolved(A, o) == A.operations[o].kind # "login" /\ ~A.operations[o].over

Registered(A) ==
  \A o \in 1..Len(A.operations) :
    Unresolved(A, o) /\ A.operations[o].m_target \in Doids \ A.disowned =>
      A.m_account2operation[A.operations[o].m_target] = o

-----------------------------------------------------------------------------
(* From A to B: nothing but operation o goes on, and others begin beside it. *)
Ops(A) == 1..Len(A.operations)

Same(A, B, p) ==
  /\ B.operations[p] = A.operations[p]
  /\ Of(B.requests, p) = Of(A.requests, p) /\ Asked(B, p) = Asked(A, p)
  /\ Of(B.mail, p) = Of(A.mail, p) /\ Coming(B, p) = Coming(A, p)

Alike(op, q) ==
  q.kind = op.kind /\ q.client = op.client /\ q.m_target = op.m_target /\ q.arg = op.arg

Moves(A, B, o) ==
  /\ Len(A.operations) <= Len(B.operations)
  /\ \A p \in Ops(A) : p # o => Same(A, B, p)
  /\ \A p \in Ops(B) : p \notin Ops(A) => B.operations[p].kind \in Beside /\ B.operations[p].over
  /\ o \in Ops(A) => Alike(A.operations[o], B.operations[o])
  /\ A.disowned \subseteq B.disowned
  /\ A.killed_twice => B.killed_twice
  /\ B.told = A.told

\* What is new under way: requests r and messages m, about operation o only.
Asks(A, B, ops, o, r) ==
  /\ IsSeq(r) /\ B.requests = A.requests \o r
  /\ \A i \in 1..Len(r) : GoodRequest(ops, r[i]) /\ r[i].op \in {0, o}

Routes(A, B, ops, o, m) ==
  /\ IsSeq(m) /\ B.mail = A.mail \o m
  /\ \A i \in 1..Len(m) : GoodMessage(ops, m[i]) /\ (m[i].kind \in Replies => m[i].op = o)

Silent(r, m, o) ==
  /\ \A i \in 1..Len(r) : ~Concerns(r[i], o)
  /\ \A i \in 1..Len(m) : ~Concerns(m[i], o)

\* A login that has not let its client in, or any other operation.
MayAsk(A, o) ==
  A.operations[o].kind = "login" /\ Present(A.clients[A.operations[o].client]) =>
    A.clients[A.operations[o].client].m_state # "established"

OneGoesOn(A, B, o) ==
  /\ IsSeq(B.operations) /\ Len(B.operations) = Len(A.operations)
  /\ \A p \in Ops(A) : p # o => B.operations[p] = A.operations[p]
  /\ o \in Ops(A) => GoodOperation(B.operations[o]) /\ Alike(A.operations[o], B.operations[o])

LEMMA AsksNothing ==
  ASSUME NEW A, NEW B, NEW o, Wired(A), B.requests = A.requests
  PROVE  Len(<<>>) = 0 /\ \A ops : Asks(A, B, ops, o, <<>>)
BY ConcatNone DEF Asks, Wired

LEMMA RoutesNothing ==
  ASSUME NEW A, NEW B, NEW o, Wired(A), B.mail = A.mail
  PROVE  Len(<<>>) = 0 /\ \A ops : Routes(A, B, ops, o, <<>>)
BY ConcatNone DEF Routes, Wired

LEMMA OpsAre ==
  ASSUME NEW A, Typed(A)
  PROVE  Len(A.operations) \in Nat /\ Ops(A) = DOMAIN A.operations /\ 0 \notin Ops(A)
BY SeqLength DEF Typed, Ops

LEMMA MovesOn ==
  ASSUME NEW A, NEW B, NEW C, NEW o, Typed(A), Typed(B), Typed(C), Moves(A, B, o), Moves(B, C, o)
  PROVE  Moves(A, C, o)
<1>1. Len(A.operations) \in Nat /\ Len(B.operations) \in Nat /\ Len(C.operations) \in Nat
  BY OpsAre
<1>2. Ops(A) \subseteq Ops(B)
  BY <1>1 DEF Moves, Ops
<1>3. \A p \in Ops(A) : p # o => Same(A, C, p)
  BY <1>2 DEF Moves, Same
<1>4. ASSUME NEW p \in Ops(C), p \notin Ops(A) PROVE C.operations[p].kind \in Beside /\ C.operations[p].over
  <2>1. CASE p \in Ops(B)
    <3>1. B.operations[p].kind \in Beside /\ B.operations[p].over
      BY <1>4, <2>1 DEF Moves
    <3>2. C.operations[p].kind = B.operations[p].kind
      BY <2>1 DEF Moves, Same, Alike
    <3>3. GoodOperation(C.operations[p])
      BY <1>4 DEF Typed, Ops
    <3>4. QED
      BY <3>1, <3>2, <3>3 DEF GoodOperation
  <2>2. QED
    BY <1>4, <2>1 DEF Moves
<1>5. o \in Ops(A) => Alike(A.operations[o], C.operations[o])
  BY <1>2 DEF Moves, Alike
<1>6. QED
  BY <1>1, <1>3, <1>4, <1>5 DEF Moves

\* When nothing goes on, nothing but o goes on.
LEMMA StillMoves ==
  ASSUME NEW A, NEW B, NEW o, Typed(A), Moves(A, B, 0)
  PROVE  Moves(A, B, o) /\ (o \in Ops(A) => Same(A, B, o))
BY OpsAre DEF Moves, Same, Alike

\* How far the others are does not change.
LEMMA OthersProgress ==
  ASSUME NEW A, NEW B, NEW D, NEW o, Typed(A), Typed(B), Moves(A, B, o),
         NEW p \in Ops(B), p # o, p \in Ops(A) => Progress(A, D, p)
  PROVE  Progress(B, D, p)
<1>1. CASE p \notin Ops(A)
  <2>1. B.operations[p].kind \in Beside
    BY <1>1 DEF Moves
  <2>2. QED
    BY <2>1 DEF Progress, Beside, Singly, Linear
<1>2. CASE p \in Ops(A)
  <2>1. Same(A, B, p) /\ Progress(A, D, p) /\ A.disowned \subseteq B.disowned
    BY <1>2 DEF Moves
  <2> DEFINE op == A.operations[p]
  <2>2. B.operations[p] = op /\ (Once(A, p) <=> Once(B, p)) /\ (Idle(A, p) <=> Idle(B, p))
    BY <2>1 DEF Same, Once, Idle
  <2>3. Asked(B, p) = Asked(A, p) /\ Coming(B, p) = Coming(A, p)
    BY <2>1 DEF Same
  <2>4. Creating(A, D, p) => Creating(B, D, p)
    BY <2>2, <2>3 DEF Creating
  <2>5. Befriending(A, p) => Befriending(B, p)
    BY <2>1, <2>2, <2>3 DEF Befriending
  <2>6. QED
    BY <2>1, <2>2, <2>3, <2>4, <2>5 DEF Progress
<1>3. QED
  BY <1>1, <1>2

-----------------------------------------------------------------------------
(* The registered operation.                                                 *)
LEMMA StaysRegistered ==
  ASSUME NEW A, NEW B, NEW o, Typed(A), Typed(B), Moves(A, B, o), Registered(A),
         B.m_account2operation = A.m_account2operation,
         o \in Ops(A) => (A.operations[o].over => B.operations[o].over)
  PROVE  Registered(B)
<1>1. SUFFICES ASSUME NEW p \in Ops(B), Unresolved(B, p), B.operations[p].m_target \in Doids \ B.disowned
               PROVE  B.m_account2operation[B.operations[p].m_target] = p
  BY DEF Registered, Ops
<1>2. p \in Ops(A)
  BY <1>1 DEF Unresolved, Moves
<1>3. Unresolved(A, p) /\ B.operations[p].m_target = A.operations[p].m_target
  BY <1>1, <1>2 DEF Unresolved, Moves, Same, Alike
<1>4. A.m_account2operation[A.operations[p].m_target] = p
  BY <1>1, <1>2, <1>3 DEF Registered, Ops, Moves
<1>5. QED
  BY <1>3, <1>4

\* o calls off for its account.
LEMMA CallsOff ==
  ASSUME NEW A, NEW B, NEW o \in Ops(A), Typed(A), Typed(B), Moves(A, B, o), Registered(A),
         A.operations[o].kind # "login", A.operations[o].m_target \in Doids,
         B.m_account2operation = [A.m_account2operation EXCEPT ![A.operations[o].m_target] = 0],
         B.operations[o].over, ~A.operations[o].over \/ A.operations[o].m_target \in B.disowned
  PROVE  Registered(B)
<1> DEFINE a == A.operations[o].m_target
<1>1. SUFFICES ASSUME NEW p \in Ops(B), Unresolved(B, p), B.operations[p].m_target \in Doids \ B.disowned
               PROVE  B.m_account2operation[B.operations[p].m_target] = p
  BY DEF Registered, Ops
<1>2. p \in Ops(A) /\ p # o
  BY <1>1 DEF Unresolved, Moves
<1>3. Unresolved(A, p) /\ B.operations[p].m_target = A.operations[p].m_target
  BY <1>1, <1>2 DEF Unresolved, Moves, Same
<1>4. A.m_account2operation[A.operations[p].m_target] = p
  BY <1>1, <1>2, <1>3 DEF Registered, Ops, Moves
<1>5. A.operations[p].m_target # a
  <2>1. SUFFICES ASSUME A.operations[p].m_target = a PROVE FALSE
    OBVIOUS
  <2>2. ~A.operations[o].over /\ a \notin A.disowned
    BY <1>1, <1>3, <2>1 DEF Moves
  <2>3. A.m_account2operation[a] = o
    BY <2>2 DEF Registered, Unresolved, Ops
  <2>4. QED
    BY <1>2, <1>4, <2>1, <2>3
<1>6. DOMAIN A.m_account2operation = Doids
  BY DEF Typed, Tables
<1>7. QED
  BY <1>1, <1>3, <1>4, <1>5, <1>6
-----------------------------------------------------------------------------
(* Records that differ in a few fields.                                      *)
Differ(A, B, S) ==
  DOMAIN B = AgentFields /\ \A f \in AgentFields \ S : B[f] = A[f]

-----------------------------------------------------------------------------
(* A client from before (c) to after (d): it may leave, or play another      *)
(* avatar of its account.                                                    *)
Continues(c, d) ==
  /\ GoodClient(d)
  /\ d.connection = "none" <=> c.connection = "none"
  /\ Present(d) =>
       /\ Present(c) /\ d.m_state = c.m_state /\ d.allocated = c.allocated
       /\ c.m_state = "established" /\ HasAccount(c) =>
            HasAccount(d) /\ get_account_id(d) = get_account_id(c)
  /\ d.connection = "open" => c.connection = "open"

LEMMA Unchanged ==
  ASSUME NEW c, GoodClient(c)
  PROVE  Continues(c, c)
BY DEF Continues

LEMMA GoodStays ==
  ASSUME NEW A, NEW B, Typed(A), Typed(B), Len(A.operations) <= Len(B.operations),
         \A p \in Ops(A) : Alike(A.operations[p], B.operations[p]), NEW x
  PROVE  /\ GoodRequest(A.operations, x) => GoodRequest(B.operations, x)
         /\ GoodMessage(A.operations, x) => GoodMessage(B.operations, x)
<1>1. Len(A.operations) \in Nat /\ Len(B.operations) \in Nat /\ Ops(A) \subseteq Ops(B)
  BY OpsAre DEF Ops
<1>2. \A p \in Ops(A) : p \in Ops(B) /\ B.operations[p].kind = A.operations[p].kind
  BY <1>1 DEF Alike
<1>3. GoodRequest(A.operations, x) => GoodRequest(B.operations, x)
  BY <1>2 DEF GoodRequest, Ops
<1>4. GoodMessage(A.operations, x) => GoodMessage(B.operations, x)
  BY <1>2 DEF GoodMessage, Ops, Replies
<1>5. QED
  BY <1>3, <1>4

\* Whether somebody is about to be ejected, when more is routed.
LEMMA StillEjecting ==
  ASSUME NEW A, NEW B, NEW m, Wired(A), IsSeq(m), B.mail = A.mail \o m, NEW a, Ejecting(A, a)
  PROVE  Ejecting(B, a)
<1>1. PICK i \in 1..Len(A.mail) :
        A.mail[i].kind = "eject" /\ A.mail[i].to = get_account_connection_channel(a)
  BY DEF Ejecting
<1>2. Len(A.mail) \in Nat /\ Len(m) \in Nat /\ Len(B.mail) = Len(A.mail) + Len(m) /\ B.mail[i] = A.mail[i]
  BY SeqConcat, SeqLength DEF Wired
<1>3. QED
  BY <1>1, <1>2 DEF Ejecting

Added(A, B, r, m) ==
  /\ IsSeq(r) /\ B.requests = A.requests \o r /\ \A i \in 1..Len(r) : GoodRequest(B.operations, r[i])
  /\ IsSeq(m) /\ B.mail = A.mail \o m /\ \A i \in 1..Len(m) : GoodMessage(B.operations, m[i])

\* What is in two sequences put together is in the one or in the other.
LEMMA EitherPart ==
  ASSUME NEW q, NEW s, IsSeq(q), IsSeq(s), NEW i \in 1..Len(q \o s)
  PROVE  (i \in 1..Len(q) /\ (q \o s)[i] = q[i]) \/ (\E j \in 1..Len(s) : (q \o s)[i] = s[j])
<1>1. /\ Len(q) \in Nat /\ Len(s) \in Nat /\ Len(q \o s) = Len(q) + Len(s) /\ IsSeq(q \o s)
      /\ \A k \in 1..Len(q) : (q \o s)[k] = q[k]
      /\ \A k \in 1..Len(s) : (q \o s)[Len(q) + k] = s[k]
  BY SeqConcat, SeqLength
<1>2. CASE i \in 1..Len(q)
  BY <1>1, <1>2
<1>3. CASE i \notin 1..Len(q)
  <2> DEFINE j == i - Len(q)
  <2>1. j \in 1..Len(s) /\ Len(q) + j = i
    BY <1>1, <1>3
  <2> HIDE DEF j
  <2>2. (q \o s)[i] = s[j]
    BY <1>1, <2>1
  <2>3. QED
    BY <1>1, <2>1, <2>2
<1>4. QED
  BY <1>2, <1>3

LEMMA WiredOn ==
  ASSUME NEW A, NEW B, NEW r, NEW m, Typed(A), Typed(B), Wired(A),
         Len(A.operations) <= Len(B.operations),
         \A p \in Ops(A) : Alike(A.operations[p], B.operations[p]),
         Added(A, B, r, m)
  PROVE  Wired(B)
<1>1. /\ IsSeq(A.requests) /\ IsSeq(A.mail) /\ IsSeq(r) /\ IsSeq(m)
      /\ B.requests = A.requests \o r /\ B.mail = A.mail \o m
  BY DEF Wired, Added
<1>2. IsSeq(B.requests) /\ IsSeq(B.mail)
  BY SeqConcat DEF Wired, Added
<1>3. ASSUME NEW i \in 1..Len(B.requests) PROVE GoodRequest(B.operations, B.requests[i])
  <2>1. (i \in 1..Len(A.requests) /\ B.requests[i] = A.requests[i]) \/ \E j \in 1..Len(r) : B.requests[i] = r[j]
    <3> DEFINE q == A.requests
    <3>1. IsSeq(q) /\ IsSeq(r) /\ B.requests = q \o r /\ i \in 1..Len(q \o r)
      BY <1>1, <1>3
    <3> HIDE DEF q
    <3>2. (i \in 1..Len(q) /\ (q \o r)[i] = q[i]) \/ \E j \in 1..Len(r) : (q \o r)[i] = r[j]
      BY ONLY <3>1, EitherPart
    <3>3. (i \in 1..Len(q) /\ B.requests[i] = q[i]) \/ \E j \in 1..Len(r) : B.requests[i] = r[j]
      BY ONLY <3>1, <3>2
    <3>4. QED
      BY <3>3 DEF q
  <2>2. CASE i \in 1..Len(A.requests) /\ B.requests[i] = A.requests[i]
    BY <2>2, GoodStays DEF Wired
  <2>3. QED
    BY <2>1, <2>2 DEF Added
<1>4. ASSUME NEW i \in 1..Len(B.mail) PROVE GoodMessage(B.operations, B.mail[i])
  <2>1. (i \in 1..Len(A.mail) /\ B.mail[i] = A.mail[i]) \/ \E j \in 1..Len(m) : B.mail[i] = m[j]
    <3> DEFINE q == A.mail
    <3>1. IsSeq(q) /\ IsSeq(m) /\ B.mail = q \o m /\ i \in 1..Len(q \o m)
      BY <1>1, <1>4
    <3> HIDE DEF q
    <3>2. (i \in 1..Len(q) /\ (q \o m)[i] = q[i]) \/ \E j \in 1..Len(m) : (q \o m)[i] = m[j]
      BY ONLY <3>1, EitherPart
    <3>3. (i \in 1..Len(q) /\ B.mail[i] = q[i]) \/ \E j \in 1..Len(m) : B.mail[i] = m[j]
      BY ONLY <3>1, <3>2
    <3>4. QED
      BY <3>3 DEF q
  <2>2. CASE i \in 1..Len(A.mail) /\ B.mail[i] = A.mail[i]
    BY <2>2, GoodStays DEF Wired
  <2>3. QED
    BY <2>1, <2>2 DEF Added
<1>5. QED
  BY <1>2, <1>3, <1>4 DEF Wired

\* Channels stay as they are.
LEMMA StillAllotted ==
  ASSUME NEW A, NEW B, Allotted(A),
         \A k \in Clients : Present(B.clients[k]) =>
            Present(A.clients[k]) /\ B.clients[k].allocated = A.clients[k].allocated
  PROVE  Allotted(B)
BY DEF Allotted

LEMMA ContinuesAllotted ==
  ASSUME NEW A, NEW B, Sound(A), \A k \in Clients : Continues(A.clients[k], B.clients[k])
  PROVE  Allotted(B)
BY StillAllotted DEF Continues, Sound

\* Clients continue, operations go on, others begin, and more is under way.
LEMMA Goes ==
  ASSUME NEW A, NEW B, NEW r, NEW m, Sound(A), Typed(B),
         \A k \in Clients : Continues(A.clients[k], B.clients[k]),
         B.m_connection2operation = A.m_connection2operation,
         Len(A.operations) <= Len(B.operations),
         \A p \in Ops(A) : Alike(A.operations[p], B.operations[p]),
         \A p \in Ops(B) : p \notin Ops(A) => B.operations[p].kind # "login" /\ Served(B, p),
         Added(A, B, r, m), \A p \in Ops(A) : MayAsk(A, p) \/ Silent(r, m, p)
  PROVE  Sound(B)
<1>1. Typed(A) /\ Wired(A) /\ Accounted(A) /\ Apart(A) /\ \A o \in Ops(A) : Served(A, o)
  BY DEF Sound, Ops
<1>2. Wired(B)
  BY <1>1, WiredOn
<1>3. \A k \in Clients : Present(B.clients[k]) /\ B.clients[k].m_state = "established" =>
        /\ Present(A.clients[k]) /\ A.clients[k].m_state = "established"
        /\ HasAccount(A.clients[k]) /\ HasAccount(B.clients[k])
        /\ get_account_id(B.clients[k]) = get_account_id(A.clients[k])
  BY <1>1 DEF Accounted, Continues
<1>4. Accounted(B)
  BY <1>3 DEF Accounted
<1>5. Apart(B)
  <2>1. SUFFICES ASSUME NEW k \in Clients, NEW l \in Clients, k # l,
                        Playing(B.clients[k]), Playing(B.clients[l]),
                        get_account_id(B.clients[k]) = get_account_id(B.clients[l])
                 PROVE  Ejecting(B, get_account_id(B.clients[k]))
    BY DEF Apart
  <2>2. \A n \in {k, l} : Playing(A.clients[n]) /\ get_account_id(A.clients[n]) = get_account_id(B.clients[n])
    BY <1>3, <2>1 DEF Playing, Present, Continues
  <2>3. Ejecting(A, get_account_id(A.clients[k]))
    BY <1>1, <2>1, <2>2 DEF Apart
  <2>4. QED
    BY <1>1, <2>2, <2>3, StillEjecting DEF Added
<1>6. ASSUME NEW o \in Ops(A) PROVE Served(B, o)
  <2> DEFINE k == A.operations[o].client
             c == A.clients[k]
             d == B.clients[k]
  <2>1. k \in Clients /\ GoodOperation(A.operations[o]) /\ Alike(A.operations[o], B.operations[o])
    BY <1>1, <1>6 DEF Typed, GoodOperation, Ops
  <2>2. Continues(c, d) /\ B.operations[o].client = k /\ Served(A, o)
    BY <1>1, <1>6, <2>1 DEF Alike
  <2>3. d.connection # "none"
    BY <2>2 DEF Served, Continues
  <2>4. LoginServed(B, o)
    <3>1. SUFFICES ASSUME A.operations[o].kind = "login", Present(d)
                   PROVE  /\ B.m_connection2operation[d.allocated] # 0
                          /\ d.m_state = "established" => Idle(B, o)
                          /\ \A p \in Ops(B) :
                               B.operations[p].kind = "login" /\ B.operations[p].client = k => p = o
      BY <2>1, <2>2 DEF LoginServed, Alike, Ops
    <3>2. /\ Present(c) /\ d.m_state = c.m_state /\ d.allocated = c.allocated
      BY <2>2, <3>1 DEF Continues
    <3>3. /\ A.m_connection2operation[c.allocated] # 0
          /\ c.m_state = "established" => Idle(A, o)
          /\ \A p \in Ops(A) : A.operations[p].kind = "login" /\ A.operations[p].client = k => p = o
      BY <2>2, <3>1, <3>2, Zenon DEF Served, LoginServed, Ops
    <3>4. ASSUME d.m_state = "established" PROVE Idle(B, o)
      <4>1. Idle(A, o)
        BY <3>2, <3>3, <3>4
      <4>2. /\ \A i \in 1..Len(r) : ~Concerns(r[i], o)
            /\ \A i \in 1..Len(m) : ~Concerns(m[i], o)
        BY <1>6, <3>1, <3>2, <3>4 DEF MayAsk, Silent
      <4>3. Of(B.requests, o) = Of(A.requests, o) /\ Of(B.mail, o) = Of(A.mail, o)
        BY <1>1, <4>2, OfConcat DEF Wired, Added
      <4>4. QED
        BY <4>1, <4>3 DEF Idle
    <3>5. ASSUME NEW p \in Ops(B), B.operations[p].kind = "login", B.operations[p].client = k PROVE p = o
      <4>1. p \in Ops(A)
        BY <3>5
      <4>2. A.operations[p].kind = "login" /\ A.operations[p].client = k
        BY <3>5, <4>1 DEF Alike
      <4>3. QED
        BY <3>3, <4>1, <4>2
    <3>6. QED
      BY <3>2, <3>3, <3>4, <3>5
  <2>5. AccountServed(B, o)
    <3>1. SUFFICES ASSUME OfAccount(A.operations[o]), Present(d)
                   PROVE  d.m_state = "established" /\ A.operations[o].m_target = get_account_id(d)
      BY <2>1, <2>2 DEF AccountServed, Alike, OfAccount
    <3>2. Present(c) /\ d.m_state = c.m_state
      BY <2>2, <3>1 DEF Continues
    <3>3. c.m_state = "established" /\ A.operations[o].m_target = get_account_id(c)
      BY <2>2, <3>1, <3>2 DEF Served, AccountServed
    <3>4. QED
      BY <1>3, <2>1, <3>1, <3>2, <3>3
  <2>6. QED
    BY <2>2, <2>3, <2>4, <2>5 DEF Served
<1>7. \A o \in Ops(B) : Served(B, o)
  BY <1>6
<1>8. Allotted(B)
  BY ContinuesAllotted
<1>9. QED
  BY <1>2, <1>4, <1>5, <1>7, <1>8 DEF Sound, Ops
-----------------------------------------------------------------------------
(* What the handler of operation o adds.                                     *)
LEMMA MovesBy ==
  ASSUME NEW A, NEW B, NEW r, NEW m, NEW o, Typed(A), Typed(B), Wired(A),
         Len(A.operations) <= Len(B.operations),
         \A p \in Ops(A) : p # o => B.operations[p] = A.operations[p],
         \A p \in Ops(B) : p \notin Ops(A) => B.operations[p].kind \in Beside /\ B.operations[p].over,
         o \in Ops(A) => Alike(A.operations[o], B.operations[o]),
         A.disowned \subseteq B.disowned, A.killed_twice => B.killed_twice, B.told = A.told,
         Added(A, B, r, m), \A p \in Ops(A) : p # o => Silent(r, m, p)
  PROVE  Moves(A, B, o)
<1>1. ASSUME NEW p \in Ops(A), p # o PROVE Same(A, B, p)
  <2>1. Of(B.requests, p) = Of(A.requests, p) /\ Asked(B, p) = Asked(A, p)
    BY <1>1, OfConcat DEF Wired, Asked, Added, Silent
  <2>2. Of(B.mail, p) = Of(A.mail, p) /\ Coming(B, p) = Coming(A, p)
    BY <1>1, OfConcat DEF Wired, Coming, Added, Silent
  <2>3. QED
    BY <1>1, <2>1, <2>2 DEF Same
<1>2. QED
  BY <1>1 DEF Moves

Handled == {"operations", "requests", "mail", "m_account2operation", "m_bridge", "removed",
            "disowned", "killed_twice", "crashed"}

LEMMA Grown ==
  ASSUME NEW A, NEW B, NEW r, NEW m, NEW o, Sound(A), Differ(A, B, Handled),
         OneGoesOn(A, B, o), Tables(B),
         A.disowned \subseteq B.disowned, A.killed_twice => B.killed_twice,
         Asks(A, B, B.operations, o, r), Routes(A, B, B.operations, o, m),
         o \in Ops(A) => MayAsk(A, o) \/ Silent(r, m, o)
  PROVE  Sound(B) /\ Moves(A, B, o)
<1>0. Typed(A) /\ Wired(A)
  BY DEF Sound
<1>1. B.clients = A.clients /\ B.m_connection2operation = A.m_connection2operation /\ B.told = A.told
  BY DEF Differ, AgentFields, Handled
<1>2. Ops(B) = Ops(A) /\ 0 \notin Ops(A) /\ Len(A.operations) \in Nat /\ Len(B.operations) = Len(A.operations)
  BY <1>0, OpsAre DEF Ops, OneGoesOn
<1>3. \A p \in Ops(A) : GoodOperation(B.operations[p]) /\ Alike(A.operations[p], B.operations[p])
  <2>1. \A p \in Ops(A) : GoodOperation(A.operations[p])
    BY <1>0 DEF Typed, Ops
  <2>2. QED
    BY <2>1 DEF Alike, OneGoesOn
<1>4. Typed(B)
  <2>1. DOMAIN B = AgentFields /\ DOMAIN B.clients = Clients /\ \A k \in Clients : GoodClient(B.clients[k])
    BY <1>0, <1>1 DEF Typed, Differ
  <2>2. /\ DOMAIN B.m_connection2operation = 0..scenario.channels
        /\ \A c \in 0..scenario.channels : B.m_connection2operation[c] \in 0..Len(B.operations)
    BY <1>0, <1>1, <1>2 DEF Typed
  <2>3. QED
    BY <1>2, <1>3, <2>1, <2>2 DEF Typed, Ops, OneGoesOn
<1>5. \A k \in Clients : Continues(A.clients[k], B.clients[k])
  BY <1>0, <1>1, Unchanged DEF Typed
<1>6. ASSUME NEW p \in Ops(A), p # o PROVE Silent(r, m, p)
  <2>1. \A i \in 1..Len(r) : r[i].op # p
    BY <1>2, <1>6 DEF Asks
  <2>2. QED
    BY <1>6, <2>1 DEF Concerns, GoodMessage, Silent, Routes
<1>7. Added(A, B, r, m)
  BY DEF Added, Asks, Routes
<1>8. \A p \in Ops(A) : p # o => B.operations[p] = A.operations[p]
  BY DEF OneGoesOn
<1>9. Moves(A, B, o)
  <2>1. o \in Ops(A) => Alike(A.operations[o], B.operations[o])
    BY <1>3
  <2>2. Len(A.operations) <= Len(B.operations)
    BY <1>2
  <2>3. \A p \in Ops(A) : p # o => Silent(r, m, p)
    BY <1>6
  <2>4. \A p \in Ops(B) : p \notin Ops(A) => B.operations[p].kind \in Beside /\ B.operations[p].over
    BY <1>2
  <2>5. QED
    BY <1>0, <1>1, <1>4, <1>7, <1>8, <2>1, <2>2, <2>3, <2>4, MovesBy
<1>10. Sound(B)
  <2>1. \A p \in Ops(A) : MayAsk(A, p) \/ Silent(r, m, p)
    BY <1>6
  <2>2. Len(A.operations) <= Len(B.operations)
    BY <1>2
  <2>3. \A p \in Ops(A) : Alike(A.operations[p], B.operations[p])
    BY <1>3
  <2>4. \A p \in Ops(B) : p \notin Ops(A) => B.operations[p].kind # "login" /\ Served(B, p)
    BY <1>2
  <2>5. QED
    BY <1>1, <1>4, <1>5, <1>7, <2>1, <2>2, <2>3, <2>4, Goes
<1>11. QED
  BY <1>9, <1>10

\* Operation o alone is marked.
LEMMA OneMarked ==
  ASSUME NEW A, NEW o \in Ops(A), NEW op, Typed(A)
  PROVE  LET s == [A.operations EXCEPT ![o] = op]
         IN  IsSeq(s) /\ Len(s) = Len(A.operations) /\ s[o] = op
             /\ \A p \in Ops(A) : p # o => s[p] = A.operations[p]
<1> DEFINE q == A.operations
<1>1. IsSeq(q) /\ o \in 1..Len(q)
  BY DEF Typed, Ops
<1> HIDE DEF q
<1>2. /\ IsSeq([q EXCEPT ![o] = op]) /\ Len([q EXCEPT ![o] = op]) = Len(q)
      /\ [q EXCEPT ![o] = op][o] = op
      /\ \A p \in 1..Len(q) : p # o => [q EXCEPT ![o] = op][p] = q[p]
  BY <1>1, SeqExcept
<1>3. QED
  BY <1>2 DEF q, Ops
-----------------------------------------------------------------------------
(* The operators of GameOperation, one by one.                               *)
Held(A, B) ==
  /\ B.m_account2operation = A.m_account2operation /\ B.m_bridge = A.m_bridge
  /\ B.disowned = A.disowned /\ B.killed_twice = A.killed_twice /\ B.crashed = A.crashed
  /\ B.clients = A.clients /\ B.removed = A.removed /\ B.m_game_name = A.m_game_name

LEMMA Plain ==
  ASSUME NEW A, NEW B, NEW r, NEW m, NEW o, Sound(A), Differ(A, B, {"operations", "requests", "mail"}),
         OneGoesOn(A, B, o), Asks(A, B, B.operations, o, r), Routes(A, B, B.operations, o, m),
         o \in Ops(A) => MayAsk(A, o) \/ Silent(r, m, o)
  PROVE  Sound(B) /\ Moves(A, B, o) /\ Held(A, B)
<1>1. Differ(A, B, Handled)
  BY DEF Differ, Handled
<1>2. Held(A, B)
  BY DEF Held, Differ, AgentFields
<1>3. Tables(A) /\ Len(B.operations) = Len(A.operations)
  BY DEF Sound, Typed, OneGoesOn
<1>4. Tables(B) /\ A.disowned \subseteq B.disowned /\ (A.killed_twice => B.killed_twice)
  BY <1>2, <1>3 DEF Held, Tables
<1>6. Sound(B) /\ Moves(A, B, o)
  BY <1>1, <1>4, Grown
<1>7. QED
  BY <1>2, <1>6

LEMMA AfterAsk ==
  ASSUME NEW A, NEW o \in Ops(A), NEW w, NEW d, NEW v, Sound(A), MayAsk(A, o),
         GoodRequest(A.operations, Request(A, o, w, d, v))
  PROVE  LET B == Ask(A, o, w, d, v)
             op == A.operations[o]
             request == Request(A, o, w, d, v)
         IN  /\ Sound(B) /\ Moves(A, B, o) /\ Held(A, B)
             /\ B.operations[o] = [op EXCEPT !.m_contexts = @ \cup {d}]
             /\ Asked(B, o) = Asked(A, o) \cup {request} /\ Coming(B, o) = Coming(A, o)
             /\ Idle(A, o) => Once(B, o)
<1> DEFINE B == Ask(A, o, w, d, v)
           op == A.operations[o]
           request == Request(A, o, w, d, v)
           q == [op EXCEPT !.m_contexts = @ \cup {d}]
<1>1. Typed(A) /\ Wired(A) /\ IsSeq(A.requests) /\ IsSeq(A.mail)
  BY DEF Sound, Wired
<1>2. /\ Differ(A, B, {"operations", "requests"})
      /\ B.operations = [A.operations EXCEPT ![o].m_contexts = @ \cup {d}]
      /\ B.requests = Append(A.requests, request)
  BY <1>1 DEF Typed, AgentFields, Ask, Differ
<1> HIDE DEF B, request
<1>3. B.operations = [A.operations EXCEPT ![o] = q]
  BY <1>2
<1>4. GoodOperation(op)
  BY <1>1 DEF Typed, Ops
<1>5. GoodOperation(q) /\ Alike(op, q)
  BY <1>4 DEF GoodOperation, Alike, OperationFields, OfAccount
<1> HIDE DEF q
<1>6. /\ IsSeq(B.operations) /\ Len(B.operations) = Len(A.operations) /\ B.operations[o] = q
      /\ \A p \in Ops(A) : p # o => B.operations[p] = A.operations[p]
  BY <1>1, <1>3, OneMarked
<1>7. B.mail = A.mail /\ Differ(A, B, {"operations", "requests", "mail"})
  BY <1>2 DEF Differ, AgentFields
<1>8. /\ B.requests = A.requests \o <<request>>
      /\ IsSeq(<<request>>) /\ Len(<<request>>) = 1 /\ <<request>>[1] = request
  BY <1>1, <1>2, ConcatOne
<1>9. request.op = o /\ Concerns(request, o)
  BY DEF request, Request, Concerns
<1>10. GoodRequest(B.operations, request)
  <2>1. \A p \in Ops(A) : B.operations[p].kind = A.operations[p].kind
    BY <1>5, <1>6 DEF Alike
  <2>2. GoodRequest(A.operations, request)
    BY DEF request
  <2>3. QED
    BY <1>6, <2>1, <2>2 DEF GoodRequest, Ops
<1>11. Sound(B) /\ Moves(A, B, o) /\ Held(A, B)
  <2> DEFINE r == <<request>>
             m == <<>>
  <2>1. Asks(A, B, B.operations, o, r)
    BY <1>8, <1>9, <1>10 DEF Asks
  <2>2. Routes(A, B, B.operations, o, m)
    BY <1>1, <1>7, RoutesNothing
  <2> HIDE DEF r, m
  <2>3. QED
    BY <1>5, <1>6, <1>7, <2>1, <2>2, Plain DEF OneGoesOn
<1>12. Asked(B, o) = Asked(A, o) \cup {request} /\ (Of(A.requests, o) = {} => Single(Of(B.requests, o)))
  BY <1>1, <1>2, <1>9, OfAppend DEF Asked
<1>13. Coming(B, o) = Coming(A, o) /\ Of(B.mail, o) = Of(A.mail, o)
  BY <1>7 DEF Coming
<1>14. Idle(A, o) => Once(B, o)
  BY <1>12, <1>13 DEF Idle, Once, Single
<1>15. QED
  BY <1>6, <1>11, <1>12, <1>13, <1>14 DEF B, q, request
\* Operation o becomes q, and asks and routes more.
LEMMA Does ==
  ASSUME NEW A, NEW B, NEW o \in Ops(A), NEW q, NEW r, NEW m, Sound(A),
         Differ(A, B, {"operations", "requests", "mail"}),
         B.operations = [A.operations EXCEPT ![o] = q],
         GoodOperation(q), Alike(A.operations[o], q),
         Asks(A, B, A.operations, o, r), Routes(A, B, A.operations, o, m),
         MayAsk(A, o) \/ Silent(r, m, o)
  PROVE  /\ Sound(B) /\ Moves(A, B, o) /\ Held(A, B)
         /\ B.operations[o] = q
<1>1. Typed(A) /\ Wired(A)
  BY DEF Sound
<1>2. /\ IsSeq(B.operations) /\ Len(B.operations) = Len(A.operations) /\ B.operations[o] = q
      /\ \A p \in Ops(A) : p # o => B.operations[p] = A.operations[p]
  <2>1. B.operations = [A.operations EXCEPT ![o] = q]
    OBVIOUS
  <2>2. QED
    BY ONLY <1>1, <2>1, OneMarked
<1>3. \A p \in Ops(A) : B.operations[p].kind = A.operations[p].kind
  BY <1>2 DEF Alike
<1>4. \A x : /\ GoodRequest(A.operations, x) => GoodRequest(B.operations, x)
             /\ GoodMessage(A.operations, x) => GoodMessage(B.operations, x)
  <2>1. \A p \in 1..Len(A.operations) : p \in 1..Len(B.operations) /\ B.operations[p].kind = A.operations[p].kind
    BY <1>2, <1>3 DEF Ops
  <2>2. QED
    BY <2>1 DEF GoodRequest, GoodMessage, Replies
<1>5. Asks(A, B, B.operations, o, r) /\ Routes(A, B, B.operations, o, m)
  BY <1>4 DEF Asks, Routes
<1>6. Sound(B) /\ Moves(A, B, o) /\ Held(A, B)
  BY <1>2, <1>5, Plain DEF OneGoesOn
<1>7. QED
  BY <1>2, <1>6

\* Operation o becomes q, no more.
LEMMA AfterMark ==
  ASSUME NEW A, NEW B, NEW o \in Ops(A), NEW q, Sound(A), Differ(A, B, {"operations"}),
         B.operations = [A.operations EXCEPT ![o] = q],
         GoodOperation(q), Alike(A.operations[o], q)
  PROVE  /\ Sound(B) /\ Moves(A, B, o) /\ Held(A, B) /\ B.operations[o] = q
         /\ B.requests = A.requests /\ B.mail = A.mail
<1>1. B.requests = A.requests /\ B.mail = A.mail /\ Differ(A, B, {"operations", "requests", "mail"})
  BY DEF Differ, AgentFields
<1> DEFINE r == <<>>
<1>2. Asks(A, B, A.operations, o, r) /\ Routes(A, B, A.operations, o, r) /\ Len(r) = 0
  BY <1>1, AsksNothing, RoutesNothing DEF Sound
<1>3. Silent(r, r, o)
  BY <1>2 DEF Silent
<1> HIDE DEF r
<1>4. Sound(B) /\ Moves(A, B, o) /\ Held(A, B) /\ B.operations[o] = q
  BY <1>1, <1>2, <1>3, Does
<1>5. QED
  BY <1>1, <1>4

LEMMA AfterQueries ==
  ASSUME NEW A, NEW o \in Ops(A), NEW S \in SUBSET Doids, Sound(A), MayAsk(A, o)
  PROVE  LET B == query_objects(A, o, S)
             op == A.operations[o]
         IN  /\ Sound(B) /\ Moves(A, B, o) /\ Held(A, B)
             /\ B.operations[o] = [op EXCEPT !.m_contexts = @ \cup S]
             /\ B.mail = A.mail
<1> DEFINE B == query_objects(A, o, S)
           op == A.operations[o]
           q == [op EXCEPT !.m_contexts = @ \cup S]
           each == SetToSeq(S)
           r == [i \in 1..Len(each) |-> Request(A, o, "get", each[i], no_object)]
<1>1. Typed(A) /\ Wired(A) /\ IsSeq(A.requests) /\ IsSeq(A.mail)
  BY DEF Sound, Wired
<1>2. /\ Differ(A, B, {"operations", "requests"})
      /\ B.operations = [A.operations EXCEPT ![o] = q]
      /\ B.requests = A.requests \o r
  BY <1>1 DEF Typed, AgentFields, query_objects, Differ
<1>3. GoodOperation(op)
  BY <1>1 DEF Typed, Ops
<1>4. GoodOperation(q) /\ Alike(op, q)
  BY <1>3 DEF GoodOperation, Alike, OperationFields, OfAccount
<1>5. IsSeq(each) /\ \A i \in 1..Len(each) : each[i] \in S
  BY FewDoids, SetInTurn
<1>6. IsSeq(r) /\ Len(r) = Len(each) /\ \A i \in 1..Len(r) : r[i] = Request(A, o, "get", each[i], no_object)
  <2>1. Len(each) \in Nat
    BY <1>5, SeqLength
  <2> HIDE DEF each
  <2> DEFINE T == {r[i] : i \in 1..Len(each)}
  <2>2. r \in [1..Len(each) -> T]
    OBVIOUS
  <2>3. r \in Seq(T) /\ Len(r) = Len(each)
    BY <2>1, <2>2
  <2>4. QED
    BY <2>3 DEF IsSeq
<1>7. \A i \in 1..Len(r) : GoodRequest(A.operations, r[i]) /\ r[i].op \in {0, o}
  <2>1. \A d \in Doids : GoodRequest(A.operations, Request(A, o, "get", d, no_object))
    BY DEF Request, GoodRequest, Ops
  <2>2. \A i \in 1..Len(r) : each[i] \in Doids
    BY <1>5, <1>6
  <2>3. \A d : Request(A, o, "get", d, no_object).op = o
    BY DEF Request
  <2> HIDE DEF r, each
  <2>4. QED
    BY <1>6, <2>1, <2>2, <2>3
<1> HIDE DEF r, q, B
<1>8. B.mail = A.mail /\ Differ(A, B, {"operations", "requests", "mail"})
  BY <1>2 DEF Differ, AgentFields
<1> DEFINE m == <<>>
<1>9. Routes(A, B, A.operations, o, m)
  BY <1>1, <1>8, RoutesNothing
<1>10. Asks(A, B, A.operations, o, r)
  BY <1>2, <1>6, <1>7 DEF Asks
<1> HIDE DEF m
<1>11. Sound(B) /\ Moves(A, B, o) /\ Held(A, B) /\ B.operations[o] = q
  BY <1>2, <1>4, <1>8, <1>9, <1>10, Does
<1>12. QED
  BY <1>8, <1>11 DEF B, q

LEMMA AfterEach ==
  ASSUME NEW A, NEW o \in Ops(A), NEW S \in SUBSET Doids, Sound(A), MayAsk(A, o),
         A.operations[o].kind \in FriendKinds
  PROVE  LET B == AskEachActivated(A, o, S)
             op == A.operations[o]
         IN  /\ Sound(B) /\ Moves(A, B, o) /\ Held(A, B)
             /\ B.operations[o] = [op EXCEPT !.m_contexts = @ \cup S]
             /\ \A x \in Coming(B, o) : x \in Coming(A, o) \/ x.kind = "get_activated"
<1> DEFINE B == AskEachActivated(A, o, S)
           op == A.operations[o]
           q == [op EXCEPT !.m_contexts = @ \cup S]
           each == SetToSeq(S)
           m == [i \in 1..Len(each) |-> IsActivated(A, o, each[i])]
<1>1. Typed(A) /\ Wired(A) /\ IsSeq(A.requests) /\ IsSeq(A.mail)
  BY DEF Sound, Wired
<1>2. /\ Differ(A, B, {"operations", "mail"})
      /\ B.operations = [A.operations EXCEPT ![o] = q]
      /\ B.mail = A.mail \o m
  BY <1>1 DEF Typed, AgentFields, AskEachActivated, Differ
<1>3. GoodOperation(op)
  BY <1>1 DEF Typed, Ops
<1>4. GoodOperation(q) /\ Alike(op, q)
  BY <1>3 DEF GoodOperation, Alike, OperationFields, OfAccount
<1>5. IsSeq(each)
  BY FewDoids, SetInTurn
<1>6. IsSeq(m) /\ Len(m) = Len(each) /\ \A i \in 1..Len(m) : m[i] = IsActivated(A, o, each[i])
  <2>1. Len(each) \in Nat
    BY <1>5, SeqLength
  <2> HIDE DEF each
  <2> DEFINE T == {m[i] : i \in 1..Len(each)}
  <2>2. m \in [1..Len(each) -> T]
    OBVIOUS
  <2>3. m \in Seq(T) /\ Len(m) = Len(each)
    BY <2>1, <2>2
  <2>4. QED
    BY <2>3 DEF IsSeq
<1>7. \A i \in 1..Len(m) : /\ GoodMessage(A.operations, m[i]) /\ (m[i].kind \in Replies => m[i].op = o)
                           /\ m[i].kind = "get_activated"
  <2>1. \A d : GoodMessage(A.operations, IsActivated(A, o, d))
    BY DEF IsActivated, GoodMessage, Ops, Replies
  <2>2. \A d : IsActivated(A, o, d).op = o /\ IsActivated(A, o, d).kind = "get_activated"
    BY DEF IsActivated
  <2> HIDE DEF m, each
  <2>3. QED
    BY <1>6, <2>1, <2>2
<1> HIDE DEF m, q, B
<1>8. B.requests = A.requests /\ Differ(A, B, {"operations", "requests", "mail"})
  BY <1>2 DEF Differ, AgentFields
<1> DEFINE r == <<>>
<1>9. Asks(A, B, A.operations, o, r)
  BY <1>1, <1>8, AsksNothing
<1>10. Routes(A, B, A.operations, o, m)
  BY <1>2, <1>6, <1>7 DEF Routes
<1> HIDE DEF r
<1>11. Sound(B) /\ Moves(A, B, o) /\ Held(A, B) /\ B.operations[o] = q
  BY <1>2, <1>4, <1>8, <1>9, <1>10, Does
<1>12. ASSUME NEW x \in Coming(B, o) PROVE x \in Coming(A, o) \/ x.kind = "get_activated"
  <2>1. x \in Values(A.mail, o) \/ \E i \in 1..Len(m) : x = m[i]
    BY <1>1, <1>2, <1>6, <1>12, OfConcat DEF Coming
  <2>2. QED
    BY <1>7, <2>1 DEF Coming
<1>13. QED
  BY <1>11, <1>12 DEF B, q
LEMMA AfterPost ==
  ASSUME NEW A, NEW m, Sound(A), GoodMessage(A.operations, m), m.kind \notin Replies
  PROVE  LET B == Post(A, m)
         IN  Sound(B) /\ Moves(A, B, 0) /\ Held(A, B) /\ B.operations = A.operations
<1> DEFINE B == Post(A, m)
           n == <<m>>
           r == <<>>
<1>1. Typed(A) /\ Wired(A) /\ IsSeq(A.requests) /\ IsSeq(A.mail)
  BY DEF Sound, Wired
<1>2. Differ(A, B, {"mail"}) /\ B.mail = Append(A.mail, m)
  BY <1>1 DEF Typed, AgentFields, Post, Differ
<1> HIDE DEF B
<1>3. /\ Differ(A, B, {"operations", "requests", "mail"})
      /\ B.operations = A.operations /\ B.requests = A.requests
  BY <1>2 DEF Differ, AgentFields
<1>4. Asks(A, B, B.operations, 0, r)
  BY <1>1, <1>3, AsksNothing
<1>5. B.mail = A.mail \o n /\ IsSeq(n) /\ Len(n) = 1 /\ n[1] = m
  BY <1>1, <1>2, ConcatOne
<1>6. Routes(A, B, B.operations, 0, n)
  BY <1>3, <1>5 DEF Routes
<1>7. 0 \notin Ops(A) /\ IsSeq(B.operations) /\ Len(B.operations) = Len(A.operations)
  BY <1>1, <1>3, OpsAre DEF Typed
<1> HIDE DEF n, r
<1>8. Sound(B) /\ Moves(A, B, 0) /\ Held(A, B)
  BY <1>3, <1>4, <1>6, <1>7, Plain DEF OneGoesOn
<1>9. QED
  BY <1>3, <1>8 DEF B

LEMMA AfterUpdate ==
  ASSUME NEW A, NEW d, NEW v \in Updates, Sound(A)
  PROVE  LET B == update_object(A, d, v)
         IN  Sound(B) /\ Moves(A, B, 0) /\ Held(A, B) /\ B.operations = A.operations
<1> DEFINE B == update_object(A, d, v)
           x == [ask |-> "set", op |-> 0, do_id |-> d, value |-> v, to |-> allocated_channel(0)]
           n == <<x>>
           m == <<>>
<1>1. Typed(A) /\ Wired(A) /\ IsSeq(A.requests) /\ IsSeq(A.mail)
  BY DEF Sound, Wired
<1>2. Differ(A, B, {"requests"}) /\ B.requests = Append(A.requests, x)
  BY <1>1 DEF Typed, AgentFields, update_object, Differ
<1>3. GoodRequest(A.operations, x) /\ x.op = 0
  BY DEF GoodRequest
<1> HIDE DEF B, x
<1>4. /\ Differ(A, B, {"operations", "requests", "mail"})
      /\ B.operations = A.operations /\ B.mail = A.mail
  BY <1>2 DEF Differ, AgentFields
<1>5. Routes(A, B, B.operations, 0, m)
  BY <1>1, <1>4, RoutesNothing
<1>6. B.requests = A.requests \o n /\ IsSeq(n) /\ Len(n) = 1 /\ n[1] = x
  BY <1>1, <1>2, ConcatOne
<1>7. Asks(A, B, B.operations, 0, n)
  BY <1>3, <1>4, <1>6 DEF Asks
<1>8. 0 \notin Ops(A) /\ IsSeq(B.operations) /\ Len(B.operations) = Len(A.operations)
  BY <1>1, <1>4, OpsAre DEF Typed
<1> HIDE DEF n, m
<1>9. Sound(B) /\ Moves(A, B, 0) /\ Held(A, B)
  BY <1>4, <1>5, <1>7, <1>8, Plain DEF OneGoesOn
<1>10. QED
  BY <1>4, <1>9 DEF B

LEMMA AfterIsActivated ==
  ASSUME NEW A, NEW o \in Ops(A), NEW d, Sound(A), A.operations[o].kind \in FriendKinds
  PROVE  LET B == get_activated(A, o, d)
             op == A.operations[o]
             m == IsActivated(A, o, d)
         IN  /\ Sound(B) /\ Moves(A, B, o) /\ Held(A, B)
             /\ B.operations[o] = [op EXCEPT !.m_contexts = @ \cup {d}]
             /\ Asked(B, o) = Asked(A, o) /\ Coming(B, o) = Coming(A, o) \cup {m}
             /\ m.kind = "get_activated"
             /\ Idle(A, o) => Once(B, o)
<1> DEFINE B == get_activated(A, o, d)
           op == A.operations[o]
           q == [op EXCEPT !.m_contexts = @ \cup {d}]
           m == IsActivated(A, o, d)
           n == <<m>>
           r == <<>>
<1>1. Typed(A) /\ Wired(A) /\ IsSeq(A.requests) /\ IsSeq(A.mail)
  BY DEF Sound, Wired
<1>2. /\ Differ(A, B, {"operations", "mail"})
      /\ B.operations = [A.operations EXCEPT ![o] = q]
      /\ B.mail = Append(A.mail, m)
  BY <1>1 DEF Typed, AgentFields, get_activated, Post, Differ
<1>3. GoodOperation(op)
  BY <1>1 DEF Typed, Ops
<1>4. GoodOperation(q) /\ Alike(op, q)
  BY <1>3 DEF GoodOperation, Alike, OperationFields, OfAccount
<1>5. GoodMessage(A.operations, m) /\ m.op = o /\ m.kind = "get_activated" /\ Concerns(m, o)
  BY DEF IsActivated, GoodMessage, Ops, Replies, Concerns
<1>6. MayAsk(A, o)
  BY DEF MayAsk, FriendKinds
<1> HIDE DEF B, q, m
<1>7. B.requests = A.requests /\ Differ(A, B, {"operations", "requests", "mail"})
  BY <1>2 DEF Differ, AgentFields
<1>8. Asks(A, B, A.operations, o, r)
  BY <1>1, <1>7, AsksNothing
<1>9. B.mail = A.mail \o n /\ IsSeq(n) /\ Len(n) = 1 /\ n[1] = m
  BY <1>1, <1>2, ConcatOne
<1>10. Routes(A, B, A.operations, o, n)
  BY <1>5, <1>9 DEF Routes
<1> HIDE DEF n, r
<1>11. Sound(B) /\ Moves(A, B, o) /\ Held(A, B) /\ B.operations[o] = q
  BY <1>2, <1>4, <1>6, <1>7, <1>8, <1>10, Does
<1>12. Coming(B, o) = Coming(A, o) \cup {m} /\ (Of(A.mail, o) = {} => Single(Of(B.mail, o)))
  BY <1>1, <1>2, <1>5, OfAppend DEF Coming
<1>13. Asked(B, o) = Asked(A, o) /\ Of(B.requests, o) = Of(A.requests, o)
  BY <1>7 DEF Asked
<1>14. Idle(A, o) => Once(B, o)
  BY <1>12, <1>13 DEF Idle, Once, Single
<1>15. QED
  BY <1>5, <1>11, <1>12, <1>13, <1>14 DEF B, q, m

-----------------------------------------------------------------------------
(* Flags, and what is registered.                                            *)

\* Nothing is asked or routed.
LEMMA Marked ==
  ASSUME NEW A, NEW B, NEW o, Sound(A),
         Differ(A, B, Handled \ {"requests", "mail"}),
         OneGoesOn(A, B, o), Tables(B),
         A.disowned \subseteq B.disowned, A.killed_twice => B.killed_twice
  PROVE  Sound(B) /\ Moves(A, B, o) /\ B.requests = A.requests /\ B.mail = A.mail /\ B.clients = A.clients
<1> DEFINE r == <<>>
<1>1. /\ B.requests = A.requests /\ B.mail = A.mail /\ B.clients = A.clients
      /\ Differ(A, B, Handled)
  BY DEF Differ, AgentFields, Handled
<1>2. Asks(A, B, B.operations, o, r) /\ Routes(A, B, B.operations, o, r) /\ Len(r) = 0
  BY <1>1, AsksNothing, RoutesNothing DEF Sound
<1> HIDE DEF r
<1>3. Silent(r, r, o)
  BY <1>2 DEF Silent
<1>4. Sound(B) /\ Moves(A, B, o)
  BY <1>1, <1>2, <1>3, Grown
<1>5. QED
  BY <1>1, <1>4

LEMMA Flagged ==
  ASSUME NEW A, NEW B, Sound(A), Differ(A, B, {"m_bridge", "removed", "killed_twice", "crashed"}),
         DOMAIN B.m_bridge = PlayTokens, \A t \in PlayTokens : B.m_bridge[t] \in 0..MaxDoid,
         A.killed_twice => B.killed_twice
  PROVE  /\ Sound(B) /\ Moves(A, B, 0) /\ B.operations = A.operations
         /\ B.requests = A.requests /\ B.mail = A.mail /\ B.clients = A.clients
         /\ B.m_account2operation = A.m_account2operation
<1>1. /\ B.operations = A.operations /\ B.m_account2operation = A.m_account2operation
      /\ B.disowned = A.disowned /\ Differ(A, B, Handled \ {"requests", "mail"})
  BY DEF Differ, AgentFields, Handled
<1>2. Typed(A) /\ 0 \notin Ops(A)
  BY OpsAre DEF Sound
<1>3. Sound(B) /\ Moves(A, B, 0) /\ B.requests = A.requests /\ B.mail = A.mail /\ B.clients = A.clients
  <2>1. Tables(A) /\ Tables(B) /\ OneGoesOn(A, B, 0)
    BY <1>1, <1>2 DEF Typed, Tables, OneGoesOn
  <2>2. QED
    BY <1>1, <2>1, Marked
<1>4. QED
  BY <1>1, <1>3

LEMMA AfterOff ==
  ASSUME NEW A, NEW o \in Ops(A), Sound(A)
  PROVE  LET B == off(A, o)
             op == A.operations[o]
         IN  /\ Sound(B) /\ Moves(A, B, o)
             /\ B.operations[o] = [op EXCEPT !.over = TRUE]
             /\ B.requests = A.requests /\ B.mail = A.mail /\ B.clients = A.clients
             /\ B.disowned = A.disowned /\ B.crashed = A.crashed /\ B.killed_twice = A.killed_twice
             /\ Registered(A) /\ (op.kind = "login" \/ (OfAccount(op) /\ (~op.over \/ op.m_target \in A.disowned)))
                  => Registered(B)
<1> DEFINE B == off(A, o)
           op == A.operations[o]
           q == [op EXCEPT !.over = TRUE]
<1>1. Typed(A)
  BY DEF Sound
<1>2. /\ Differ(A, B, {"operations", "m_account2operation"})
      /\ B.operations = [A.operations EXCEPT ![o] = q]
      /\ op.kind = "login" => B.m_account2operation = A.m_account2operation
      /\ op.kind # "login" =>
           B.m_account2operation = [A.m_account2operation EXCEPT ![op.m_target] = 0]
  BY <1>1 DEF Typed, AgentFields, off, Differ
<1>3. GoodOperation(op)
  BY <1>1 DEF Typed, Ops
<1>4. GoodOperation(q) /\ Alike(op, q) /\ q.over
  BY <1>3 DEF GoodOperation, Alike, OperationFields, OfAccount
<1> HIDE DEF B, q
<1>5. /\ B.disowned = A.disowned /\ B.crashed = A.crashed /\ B.killed_twice = A.killed_twice
      /\ B.m_bridge = A.m_bridge
      /\ Differ(A, B, Handled \ {"requests", "mail"})
  BY <1>2 DEF Differ, AgentFields, Handled
<1>6. /\ DOMAIN B.m_account2operation = Doids
      /\ \A a \in Doids : B.m_account2operation[a] \in 0..Len(A.operations)
  <2>1. /\ DOMAIN A.m_account2operation = Doids /\ Len(A.operations) \in Nat
        /\ \A a \in Doids : A.m_account2operation[a] \in 0..Len(A.operations)
    BY <1>1, OpsAre DEF Typed, Tables
  <2>2. CASE op.kind = "login"
    BY <1>2, <2>1, <2>2
  <2>3. CASE op.kind # "login"
    <3> DEFINE f == [A.m_account2operation EXCEPT ![op.m_target] = 0]
    <3>1. B.m_account2operation = f
      BY <1>2, <2>3
    <3>2. DOMAIN f = Doids /\ \A a \in Doids : f[a] = 0 \/ f[a] = A.m_account2operation[a]
      BY <2>1
    <3> HIDE DEF f
    <3>3. QED
      BY <2>1, <3>1, <3>2
  <2>4. QED
    BY <2>2, <2>3
<1>7. /\ IsSeq(B.operations) /\ Len(B.operations) = Len(A.operations) /\ B.operations[o] = q
      /\ \A p \in Ops(A) : p # o => B.operations[p] = A.operations[p]
  BY <1>1, <1>2, OneMarked
<1>8. Tables(B)
  BY <1>1, <1>5, <1>6, <1>7 DEF Typed, Tables
<1>9. /\ Sound(B) /\ Moves(A, B, o) /\ B.requests = A.requests /\ B.mail = A.mail /\ B.clients = A.clients
  <2>1. OneGoesOn(A, B, o)
    BY <1>4, <1>7 DEF OneGoesOn
  <2>2. A.disowned \subseteq B.disowned /\ (A.killed_twice => B.killed_twice)
    BY <1>5
  <2>3. QED
    BY <1>5, <1>8, <2>1, <2>2, Marked
<1>10. ASSUME Registered(A), op.kind = "login" PROVE Registered(B)
  BY <1>1, <1>2, <1>4, <1>7, <1>9, <1>10, StaysRegistered DEF Sound
<1>11. ASSUME Registered(A), OfAccount(op), ~op.over \/ op.m_target \in A.disowned PROVE Registered(B)
  <2>1. op.kind # "login" /\ op.m_target \in Doids
    BY <1>3, <1>11 DEF OfAccount, GoodOperation, Joining
  <2>2. B.m_account2operation = [A.m_account2operation EXCEPT ![op.m_target] = 0]
    BY <1>2, <2>1
  <2>3. Typed(B) /\ B.operations[o].over
    BY <1>4, <1>7, <1>9 DEF Sound
  <2>4. QED
    BY <1>1, <1>5, <1>9, <1>11, <2>1, <2>2, <2>3, CallsOff
<1>12. QED
  BY <1>5, <1>7, <1>9, <1>10, <1>11 DEF B, q
LEMMA AfterOffFriend ==
  ASSUME NEW A, NEW o \in Ops(A), Sound(A), A.operations[o].kind = "friendslist"
  PROVE  LET B == off_Friend(A, o)
         IN  /\ Sound(B) /\ Moves(A, B, 0) /\ B.operations = A.operations
             /\ B.requests = A.requests /\ B.mail = A.mail /\ B.clients = A.clients
             /\ B.crashed = A.crashed /\ A.operations[o].m_target \in B.disowned
             /\ Registered(A) => Registered(B)
<1> DEFINE B == off_Friend(A, o)
           op == A.operations[o]
           a == op.m_target
<1>1. Typed(A) /\ 0 \notin Ops(A)
  BY OpsAre DEF Sound
<1>2. /\ Differ(A, B, {"disowned", "m_account2operation"})
      /\ B.disowned = A.disowned \cup {a}
      /\ B.m_account2operation = [A.m_account2operation EXCEPT ![a] = 0]
  BY <1>1 DEF Typed, AgentFields, off_Friend, Differ
<1>3. GoodOperation(op)
  BY <1>1 DEF Typed, Ops
<1>4. a \in Doids
  BY <1>3 DEF GoodOperation, OfAccount, Joining, Beside
<1> HIDE DEF B
<1>5. /\ B.operations = A.operations /\ B.killed_twice = A.killed_twice /\ B.crashed = A.crashed
      /\ B.m_bridge = A.m_bridge
      /\ Differ(A, B, Handled \ {"requests", "mail"})
  BY <1>2 DEF Differ, AgentFields, Handled
<1>6. /\ DOMAIN B.m_account2operation = Doids
      /\ \A b \in Doids : B.m_account2operation[b] = IF b = a THEN 0 ELSE A.m_account2operation[b]
  BY <1>1, <1>2 DEF Typed, Tables
<1>7. \A b \in Doids : B.m_account2operation[b] \in 0..Len(A.operations)
  BY <1>1, <1>6, OpsAre DEF Typed, Tables
<1>8. /\ Sound(B) /\ Moves(A, B, 0) /\ B.requests = A.requests /\ B.mail = A.mail /\ B.clients = A.clients
  <2>1. A.disowned \subseteq B.disowned /\ (A.killed_twice => B.killed_twice)
    BY <1>2, <1>5
  <2>2. Tables(B)
    BY <1>1, <1>5, <1>6, <1>7 DEF Typed, Tables
  <2>3. OneGoesOn(A, B, 0)
    BY <1>1, <1>5 DEF Typed, OneGoesOn
  <2>4. QED
    BY <1>5, <2>1, <2>2, <2>3, Marked
<1>9. ASSUME Registered(A) PROVE Registered(B)
  BY <1>2, <1>4, <1>5, <1>6, <1>9 DEF Registered, Unresolved
<1>10. QED
  BY <1>2, <1>5, <1>8, <1>9 DEF B

LEMMA AfterCrash ==
  ASSUME NEW A, Sound(A)
  PROVE  LET B == Crash(A)
         IN  /\ Sound(B) /\ Moves(A, B, 0) /\ B.operations = A.operations /\ B.crashed
             /\ B.requests = A.requests /\ B.mail = A.mail /\ B.clients = A.clients
             /\ B.m_account2operation = A.m_account2operation
<1> DEFINE B == Crash(A)
<1>1. Typed(A)
  BY DEF Sound
<1>2. Differ(A, B, {"crashed"}) /\ B.crashed
  BY <1>1 DEF Typed, AgentFields, Crash, Differ
<1> HIDE DEF B
<1>3. Differ(A, B, {"m_bridge", "removed", "killed_twice", "crashed"})
      /\ B.m_bridge = A.m_bridge /\ B.killed_twice = A.killed_twice
  BY <1>2 DEF Differ, AgentFields
<1>4. /\ Sound(B) /\ Moves(A, B, 0) /\ B.operations = A.operations
      /\ B.requests = A.requests /\ B.mail = A.mail /\ B.clients = A.clients
      /\ B.m_account2operation = A.m_account2operation
  BY <1>1, <1>3, Flagged DEF Typed, Tables
<1>5. QED
  BY <1>2, <1>4 DEF B

-----------------------------------------------------------------------------
(* Clients that continue, while nothing else happens.                        *)
LEMMA ClientsGo ==
  ASSUME NEW A, NEW B, Sound(A), Differ(A, B, {"clients"}),
         DOMAIN B.clients = Clients, \A k \in Clients : Continues(A.clients[k], B.clients[k])
  PROVE  /\ Sound(B) /\ Moves(A, B, 0) /\ B.operations = A.operations
         /\ B.requests = A.requests /\ B.mail = A.mail
         /\ B.m_account2operation = A.m_account2operation /\ B.crashed = A.crashed
         /\ B.killed_twice = A.killed_twice /\ B.disowned = A.disowned
<1> DEFINE r == <<>>
<1>1. Typed(A) /\ Wired(A) /\ 0 \notin Ops(A) /\ Len(A.operations) \in Nat
  BY OpsAre DEF Sound
<1>2. /\ B.operations = A.operations /\ B.requests = A.requests /\ B.mail = A.mail
      /\ B.m_account2operation = A.m_account2operation /\ B.m_connection2operation = A.m_connection2operation
      /\ B.crashed = A.crashed /\ B.killed_twice = A.killed_twice /\ B.disowned = A.disowned
      /\ B.told = A.told /\ B.m_bridge = A.m_bridge /\ DOMAIN B = AgentFields
  BY DEF Differ, AgentFields
<1>3. Typed(B)
  BY <1>1, <1>2 DEF Typed, Tables, Continues
<1>4. Asks(A, B, B.operations, 0, r) /\ Routes(A, B, B.operations, 0, r) /\ Len(r) = 0
  BY <1>1, <1>2, AsksNothing, RoutesNothing
<1>5. \A p \in Ops(A) : Alike(A.operations[p], B.operations[p])
  BY <1>2 DEF Alike
<1>6. Ops(B) = Ops(A)
  BY <1>2 DEF Ops
<1> HIDE DEF r
<1>7. \A p : Silent(r, r, p)
  BY <1>4 DEF Silent
<1>8. Sound(B)
  <2>1. Added(A, B, r, r)
    BY <1>4 DEF Added, Asks, Routes
  <2>2. Len(A.operations) <= Len(B.operations)
    BY <1>1, <1>2
  <2>3. \A p \in Ops(B) : p \notin Ops(A) => B.operations[p].kind # "login" /\ Served(B, p)
    BY <1>6
  <2>4. QED
    BY <1>2, <1>3, <1>5, <1>7, <2>1, <2>2, <2>3, Goes
<1>9. Moves(A, B, 0)
  BY <1>1, <1>2 DEF Moves, Same, Alike, Asked, Coming, Ops
<1>10. QED
  BY <1>2, <1>8, <1>9

OneClient(A, B, k) ==
  /\ k \in Clients /\ Differ(A, B, {"clients"}) /\ DOMAIN B.clients = Clients
  /\ \A l \in Clients : l # k => B.clients[l] = A.clients[l]
  /\ Continues(A.clients[k], B.clients[k])

Kept(A, B) ==
  /\ B.operations = A.operations /\ B.requests = A.requests /\ B.mail = A.mail
  /\ B.m_account2operation = A.m_account2operation /\ B.crashed = A.crashed
  /\ B.killed_twice = A.killed_twice /\ B.disowned = A.disowned

LEMMA OneGoes ==
  ASSUME NEW A, NEW B, NEW k, Sound(A), OneClient(A, B, k)
  PROVE  Sound(B) /\ Moves(A, B, 0) /\ Kept(A, B)
<1>1. \A l \in Clients : GoodClient(A.clients[l])
  BY DEF Sound, Typed
<1>2. \A l \in Clients : Continues(A.clients[l], B.clients[l])
  BY <1>1, Unchanged DEF OneClient
<1>3. Differ(A, B, {"clients"}) /\ DOMAIN B.clients = Clients
  BY DEF OneClient
<1>4. QED
  BY <1>2, <1>3, ClientsGo DEF Kept

LEMMA AfterDisconnect ==
  ASSUME NEW A, NEW k \in Clients, Sound(A), A.clients[k].connection # "none"
  PROVE  LET B == send_disconnect(A, k)
         IN  /\ Sound(B) /\ Moves(A, B, 0) /\ B.operations = A.operations
             /\ B.requests = A.requests /\ B.mail = A.mail
             /\ B.m_account2operation = A.m_account2operation
             /\ B.killed_twice = A.killed_twice /\ B.disowned = A.disowned
             /\ \A l \in Clients : /\ B.clients[l].allocated = A.clients[l].allocated
                                   /\ Present(B.clients[l]) <=> Present(A.clients[l])
<1> DEFINE B == send_disconnect(A, k)
           c == [A.clients[k] EXCEPT !.connection = "leaving"]
<1>1. Typed(A)
  BY DEF Sound
<1>2. CASE A.clients[k].connection = "gone"
  <2>1. B = Crash(A) /\ Differ(A, B, {"crashed"})
    BY <1>1, <1>2 DEF send_disconnect, Typed, AgentFields, Crash, Differ
  <2>2. B.killed_twice = A.killed_twice /\ B.disowned = A.disowned /\ B.clients = A.clients
    BY <2>1 DEF Differ, AgentFields
  <2> HIDE DEF B
  <2>3. QED
    BY <2>1, <2>2, AfterCrash DEF B
<1>3. CASE A.clients[k].connection # "gone"
  <2>1. Differ(A, B, {"clients"}) /\ B.clients = [A.clients EXCEPT ![k] = c]
    BY <1>1, <1>3 DEF send_disconnect, Typed, AgentFields, Differ
  <2>2. GoodClient(A.clients[k])
    BY <1>1 DEF Typed
  <2>3. Present(A.clients[k])
    BY <1>3, <2>2 DEF GoodClient, Present
  <2>4. /\ c.connection = "leaving" /\ c.m_state = A.clients[k].m_state
        /\ c.allocated = A.clients[k].allocated /\ c.m_channel = A.clients[k].m_channel
        /\ c.subscriptions = A.clients[k].subscriptions /\ GoodClient(c)
    BY <2>2 DEF GoodClient, ClientFields
  <2> HIDE DEF B, c
  <2>5. Continues(A.clients[k], c)
    BY <2>3, <2>4 DEF Continues, HasAccount, get_account_id
  <2>6. \A l \in Clients : /\ B.clients[l].allocated = A.clients[l].allocated
                           /\ Present(B.clients[l]) <=> Present(A.clients[l])
    <3>1. DOMAIN A.clients = Clients
      BY <1>1 DEF Typed
    <3>2. QED
      BY <2>1, <2>3, <2>4, <3>1 DEF Present
  <2>7. DOMAIN A.clients = Clients
    BY <1>1 DEF Typed
  <2>8. /\ DOMAIN B.clients = Clients /\ \A l \in Clients : l # k => B.clients[l] = A.clients[l]
        /\ B.clients[k] = c
    BY <2>1, <2>7
  <2>9. Continues(A.clients[k], B.clients[k])
    BY <2>5, <2>8
  <2>10. OneClient(A, B, k)
    BY <2>1, <2>8, <2>9 DEF OneClient
  <2>11. QED
    BY <2>6, <2>10, OneGoes DEF B, Kept
<1>4. QED
  BY <1>2, <1>3
-----------------------------------------------------------------------------
(* Operations that are killed.                                               *)
Registers(A, B) == Registered(A) => B.killed_twice \/ B.crashed \/ Registered(B)

LEMMA ClientThere ==
  ASSUME NEW A, NEW o \in Ops(A), Sound(A)
  PROVE  /\ A.operations[o].client \in Clients
         /\ A.clients[A.operations[o].client].connection # "none"
         /\ GoodOperation(A.operations[o])
BY DEF Sound, Typed, Served, GoodOperation, Ops

LEMMA AfterKillAccount ==
  ASSUME NEW A, NEW a \in Doids, Sound(A)
  PROVE  LET B == kill_account(A, a)
         IN  /\ Sound(B) /\ Moves(A, B, 0) /\ B.operations = A.operations
             /\ B.requests = A.requests /\ B.mail = A.mail
             /\ B.m_account2operation = A.m_account2operation
             /\ B.killed_twice = A.killed_twice /\ B.disowned = A.disowned
             /\ B.crashed \/ A.m_account2operation[a] # 0
<1> DEFINE o == A.m_account2operation[a]
<1>1. Typed(A) /\ Len(A.operations) \in Nat /\ o \in 0..Len(A.operations)
  BY OpsAre DEF Sound, Typed, Tables
<1>2. CASE o = 0
  <2>1. kill_account(A, a) = Crash(A) /\ Differ(A, Crash(A), {"crashed"})
    BY <1>1, <1>2 DEF kill_account, Typed, AgentFields, Crash, Differ
  <2>2. Crash(A).killed_twice = A.killed_twice /\ Crash(A).disowned = A.disowned
    BY <2>1 DEF Differ, AgentFields
  <2>3. QED
    BY <2>1, <2>2, AfterCrash
<1>3. CASE o # 0
  <2>1. o \in Ops(A)
    BY <1>1, <1>3 DEF Ops
  <2>2. kill_account(A, a) = send_disconnect(A, A.operations[o].client)
    BY <1>3 DEF kill_account
  <2>3. QED
    BY <1>3, <2>1, <2>2, ClientThere, AfterDisconnect
<1>4. QED
  BY <1>2, <1>3

LEMMA AfterKillConnection ==
  ASSUME NEW A, NEW c \in 0..scenario.channels, Sound(A)
  PROVE  LET B == kill_connection(A, c)
         IN  A.m_connection2operation[c] # 0 =>
             /\ Sound(B) /\ Moves(A, B, 0) /\ B.operations = A.operations
             /\ B.requests = A.requests /\ B.mail = A.mail
             /\ B.m_account2operation = A.m_account2operation
             /\ B.killed_twice = A.killed_twice /\ B.disowned = A.disowned
<1> DEFINE o == A.m_connection2operation[c]
<1>1. SUFFICES ASSUME o # 0
               PROVE  LET B == kill_connection(A, c)
                      IN  /\ Sound(B) /\ Moves(A, B, 0) /\ B.operations = A.operations
                          /\ B.requests = A.requests /\ B.mail = A.mail
                          /\ B.m_account2operation = A.m_account2operation
                          /\ B.killed_twice = A.killed_twice /\ B.disowned = A.disowned
  OBVIOUS
<1>2. Typed(A) /\ Len(A.operations) \in Nat /\ o \in 0..Len(A.operations)
  BY OpsAre DEF Sound, Typed
<1>3. o \in Ops(A)
  BY <1>1, <1>2 DEF Ops
<1>4. kill_connection(A, c) = send_disconnect(A, A.operations[o].client)
  BY <1>1 DEF kill_connection
<1>5. QED
  BY <1>3, <1>4, ClientThere, AfterDisconnect

LEMMA AfterKill ==
  ASSUME NEW A, NEW o \in Ops(A), Sound(A),
         A.operations[o].kind = "login" \/ OfAccount(A.operations[o])
  PROVE  LET B == kill(A, o)
             op == A.operations[o]
         IN  /\ Sound(B) /\ Moves(A, B, o) /\ Registers(A, B)
             /\ B.crashed \/ B.operations[o] = [op EXCEPT !.over = TRUE]
             /\ B.requests = A.requests /\ B.mail = A.mail /\ B.disowned = A.disowned
<1> DEFINE op == A.operations[o]
<1>1. CASE op.kind = "login"
  <2>1. kill(A, o) = Crash(A)
    BY <1>1 DEF kill
  <2>2. Typed(A) /\ Typed(Crash(A))
    BY AfterCrash DEF Sound
  <2>3. Crash(A).disowned = A.disowned
    BY <2>2 DEF Crash, Typed, AgentFields
  <2>4. QED
    BY <2>1, <2>2, <2>3, AfterCrash, StillMoves DEF Registers
<1>2. CASE op.kind # "login"
  <2> DEFINE A1 == [A EXCEPT !.killed_twice = @ \/ op.over]
             A2 == kill_account(A1, op.m_target)
             B == off(A2, o)
  <2>1. kill(A, o) = B
    BY <1>2 DEF kill
  <2>2. Typed(A)
    BY DEF Sound
  <2>3. Differ(A, A1, {"killed_twice"}) /\ (A1.killed_twice <=> A.killed_twice \/ op.over)
    BY <2>2 DEF Typed, AgentFields, Differ
  <2> HIDE DEF A1
  <2>4. /\ Sound(A1) /\ Moves(A, A1, 0) /\ A1.operations = A.operations
        /\ A1.requests = A.requests /\ A1.mail = A.mail
        /\ A1.m_account2operation = A.m_account2operation
        /\ A1.disowned = A.disowned
    <3>1. A1.m_bridge = A.m_bridge /\ A1.disowned = A.disowned
          /\ Differ(A, A1, {"m_bridge", "removed", "killed_twice", "crashed"})
      BY <2>3 DEF Differ, AgentFields
    <3>2. QED
      BY <2>2, <2>3, <3>1, Flagged DEF Typed, Tables
  <2>5. OfAccount(op) /\ op.m_target \in Doids
    BY <1>2, ClientThere DEF GoodOperation
  <2>6. /\ Sound(A2) /\ Moves(A1, A2, 0) /\ A2.operations = A1.operations
        /\ A2.requests = A1.requests /\ A2.mail = A1.mail
        /\ A2.m_account2operation = A1.m_account2operation
        /\ A2.killed_twice = A1.killed_twice /\ A2.disowned = A1.disowned
    BY <2>4, <2>5, AfterKillAccount
  <2> HIDE DEF A2
  <2>7. o \in Ops(A2) /\ A2.operations[o] = op
    BY <2>4, <2>6 DEF Ops
  <2>8. /\ Sound(B) /\ Moves(A2, B, o)
        /\ B.operations[o] = [op EXCEPT !.over = TRUE]
        /\ B.requests = A2.requests /\ B.mail = A2.mail
        /\ B.disowned = A2.disowned /\ B.crashed = A2.crashed /\ B.killed_twice = A2.killed_twice
        /\ Registered(A2) /\ (op.kind = "login" \/ (OfAccount(op) /\ (~op.over \/ op.m_target \in A2.disowned)))
                  => Registered(B)
    BY <2>6, <2>7, AfterOff
  <2> HIDE DEF B
  <2>9. Moves(A, B, o)
    <3>1. Typed(A1) /\ Typed(A2) /\ Typed(B)
      BY <2>4, <2>6, <2>8 DEF Sound
    <3>2. Moves(A, A1, o) /\ Moves(A1, A2, o)
      BY <2>2, <2>4, <2>6, <3>1, StillMoves
    <3>3. QED
      BY <2>2, <2>8, <3>1, <3>2, MovesOn
  <2>10. Registers(A, B)
    <3>1. SUFFICES ASSUME Registered(A), ~op.over PROVE Registered(B)
      BY <2>3, <2>6, <2>8 DEF Registers
    <3>2. Registered(A2)
      BY <2>4, <2>6, <3>1 DEF Registered, Unresolved
    <3>3. QED
      BY <2>5, <2>8, <3>1, <3>2
  <2>11. QED
    BY <2>1, <2>4, <2>6, <2>8, <2>9, <2>10
<1>3. QED
  BY <1>1, <1>2

-----------------------------------------------------------------------------
(* New operations.                                                           *)
LEMMA NewIsIdle ==
  ASSUME NEW A, NEW o, Sound(A), o \notin Ops(A), o # 0
  PROVE  Idle(A, o)
<1>1. \A i \in 1..Len(A.requests) : ~Concerns(A.requests[i], o)
  BY DEF Sound, Wired, GoodRequest, Concerns, Ops
<1>2. \A i \in 1..Len(A.mail) : ~Concerns(A.mail[i], o)
  BY DEF Sound, Wired, GoodMessage, Concerns, Ops
<1>3. QED
  BY <1>1, <1>2 DEF Idle, Of

\* One more operation, whatever is registered as running.
LEMMA OneMore ==
  ASSUME NEW A, NEW op, Sound(A), GoodOperation(op)
  PROVE  LET s == Append(A.operations, op)
             n == Len(A.operations) + 1
         IN  /\ IsSeq(s) /\ Len(s) = n /\ s[n] = op /\ n \notin Ops(A) /\ n # 0
             /\ \A p \in Ops(A) : s[p] = A.operations[p] /\ p \in 1..n
             /\ 1..n = Ops(A) \cup {n} /\ Len(A.operations) \in Nat
             /\ \A p \in 1..n : GoodOperation(s[p])
<1> DEFINE q == A.operations
           s == Append(q, op)
           n == Len(q) + 1
<1>1. IsSeq(q) /\ Len(q) \in Nat /\ \A p \in 1..Len(q) : GoodOperation(q[p])
  BY SeqLength DEF Sound, Typed
<1>2. IsSeq(s) /\ Len(s) = n /\ s[n] = op /\ \A p \in 1..Len(q) : s[p] = q[p]
  BY <1>1, SeqAppend
<1>3. n \notin 1..Len(q) /\ n # 0 /\ 1..n = 1..Len(q) \cup {n}
  BY <1>1
<1>4. QED
  BY <1>1, <1>2, <1>3 DEF Ops

LEMMA AfterStarted ==
  ASSUME NEW A, NEW B, NEW op, Sound(A), GoodOperation(op), op.kind # "login",
         Differ(A, B, {"operations", "m_account2operation"}),
         B.operations = Append(A.operations, op), Tables(B),
         A.clients[op.client].connection # "none", AccountServed(B, Len(A.operations) + 1)
  PROVE  LET n == Len(A.operations) + 1
         IN  /\ Sound(B) /\ Idle(B, n) /\ n \in Ops(B) /\ B.operations[n] = op /\ n \notin Ops(A)
             /\ Ops(B) = Ops(A) \cup {n}
             /\ \A p \in Ops(A) : Same(A, B, p)
             /\ B.disowned = A.disowned /\ B.killed_twice = A.killed_twice /\ B.told = A.told
             /\ B.clients = A.clients /\ B.crashed = A.crashed /\ B.m_game_name = A.m_game_name
<1> DEFINE n == Len(A.operations) + 1
           r == <<>>
<1>1. Typed(A) /\ Wired(A) /\ Len(A.operations) \in Nat
  BY OpsAre DEF Sound
<1>2. /\ B.requests = A.requests /\ B.mail = A.mail /\ B.clients = A.clients
      /\ B.m_connection2operation = A.m_connection2operation
      /\ B.crashed = A.crashed /\ B.killed_twice = A.killed_twice /\ B.disowned = A.disowned
      /\ B.told = A.told /\ B.m_game_name = A.m_game_name /\ DOMAIN B = AgentFields
  BY DEF Differ, AgentFields
<1>3. /\ IsSeq(B.operations) /\ Len(B.operations) = n /\ B.operations[n] = op /\ n \notin Ops(A) /\ n # 0
      /\ \A p \in Ops(A) : B.operations[p] = A.operations[p] /\ p \in Ops(B)
      /\ Ops(B) = Ops(A) \cup {n}
      /\ \A p \in Ops(B) : GoodOperation(B.operations[p])
  BY OneMore DEF Ops
<1>4. Typed(B)
  <2>1. \A c \in 0..scenario.channels : B.m_connection2operation[c] \in 0..Len(B.operations)
    BY <1>1, <1>2, <1>3 DEF Typed
  <2>2. DOMAIN B.clients = Clients /\ \A k \in Clients : GoodClient(B.clients[k])
    BY <1>1, <1>2 DEF Typed
  <2>3. DOMAIN B.m_connection2operation = 0..scenario.channels
    BY <1>1, <1>2 DEF Typed
  <2>4. QED
    BY <1>2, <1>3, <2>1, <2>2, <2>3 DEF Typed, Ops
<1>5. \A p \in Ops(A) : Same(A, B, p) /\ Alike(A.operations[p], B.operations[p])
  BY <1>2, <1>3 DEF Same, Alike, Asked, Coming
<1>6. Served(B, n)
  BY <1>2, <1>3 DEF Served, LoginServed
<1>7. Added(A, B, r, r) /\ \A p : Silent(r, r, p)
  BY <1>1, <1>2, AsksNothing, RoutesNothing DEF Added, Asks, Routes, Silent
<1> HIDE DEF r
<1>8. Sound(B)
  <2>1. \A k \in Clients : Continues(A.clients[k], B.clients[k])
    BY <1>1, <1>2, Unchanged DEF Typed
  <2>2. Len(A.operations) <= Len(B.operations)
    BY <1>1, <1>3
  <2>3. \A p \in Ops(B) : p \notin Ops(A) => B.operations[p].kind # "login" /\ Served(B, p)
    BY <1>3, <1>6
  <2>4. QED
    BY <1>2, <1>4, <1>5, <1>7, <2>1, <2>2, <2>3, Goes
<1>9. Idle(A, n)
  BY <1>3, NewIsIdle
<1>10. Idle(B, n)
  BY <1>2, <1>9 DEF Idle
<1>11. QED
  BY <1>2, <1>3, <1>5, <1>8, <1>10
LEMMA AfterAnnounce ==
  ASSUME NEW A, NEW kind \in Beside, NEW k \in Clients, NEW v \in Doids, Sound(A),
         A.clients[k].connection # "none"
  PROVE  LET B == Announce(A, kind, k, v)
         IN  /\ Sound(B) /\ Moves(A, B, 0) /\ B.clients = A.clients
             /\ B.crashed = A.crashed /\ B.disowned = A.disowned /\ B.killed_twice = A.killed_twice
             /\ Registered(A) => Registered(B)
<1> DEFINE n == Len(A.operations) + 1
           op == [NewOperation(kind, k, 0, v) EXCEPT !.over = TRUE]
           X == Started(A, op)
           B == query_object(X, n, v)
           C == Announce(A, kind, k, v)
<1>1. Typed(A) /\ 0 \notin Ops(A) /\ Len(A.operations) \in Nat
  BY OpsAre DEF Sound
<1>2. C = IF A.m_game_name = "toon" THEN B ELSE A
  <2>1. X.m_game_name = A.m_game_name
    BY <1>1 DEF Started, Typed, AgentFields
  <2> HIDE DEF X
  <2>2. QED
    BY <2>1 DEF Announce, X
<1>3. CASE A.m_game_name # "toon"
  <2>1. Moves(A, A, 0)
    BY <1>1 DEF Moves, Same
  <2> HIDE DEF C
  <2>2. C = A
    BY <1>2, <1>3
  <2>3. QED
    BY <2>1, <2>2 DEF C
<1>4. CASE A.m_game_name = "toon"
  <2>1. op.kind = kind /\ op.client = k /\ op.over /\ GoodOperation(op) /\ op.kind # "login" /\ ~OfAccount(op)
    BY DEF NewOperation, GoodOperation, OperationFields, OfAccount, Kinds, Joining, Beside, OfAvatar, Doids
  <2>2. Differ(A, X, {"operations", "m_account2operation"}) /\ X.operations = Append(A.operations, op)
        /\ X.m_account2operation = A.m_account2operation /\ X.m_bridge = A.m_bridge
    BY <1>1 DEF Started, Typed, AgentFields, Differ
  <2> HIDE DEF X, op
  <2>3. Len(X.operations) = n /\ X.operations[n] = op
    BY <2>1, <2>2, OneMore
  <2>4. Tables(X) /\ AccountServed(X, n)
    <3>1. Tables(A)
      BY <1>1 DEF Typed
    <3>2. Tables(X)
      BY <1>1, <2>2, <2>3, <3>1 DEF Tables
    <3>3. AccountServed(X, n)
      BY <2>1, <2>3 DEF AccountServed
    <3>4. QED
      BY <3>2, <3>3
  <2>5. A.clients[op.client].connection # "none"
    BY <2>1
  <2>6. /\ Sound(X) /\ Idle(X, n) /\ n \in Ops(X) /\ X.operations[n] = op /\ n \notin Ops(A)
        /\ Ops(X) = Ops(A) \cup {n}
        /\ \A p \in Ops(A) : Same(A, X, p)
        /\ X.disowned = A.disowned /\ X.killed_twice = A.killed_twice /\ X.told = A.told
        /\ X.clients = A.clients /\ X.crashed = A.crashed /\ X.m_game_name = A.m_game_name
    BY <2>1, <2>2, <2>4, <2>5, AfterStarted
  <2>7. MayAsk(X, n) /\ GoodRequest(X.operations, Request(X, n, "get", v, no_object))
    BY <2>1, <2>6 DEF MayAsk, GoodRequest, Request, Ops
  <2>8. /\ Sound(B) /\ Moves(X, B, n) /\ Held(X, B)
        /\ B.operations[n] = [op EXCEPT !.m_contexts = @ \cup {v}]
    BY <2>6, <2>7, AfterAsk DEF query_object
  <2>9. B.operations[n].over /\ B.operations[n].kind \in Beside
    BY <2>1, <2>8 DEF GoodOperation, OperationFields
  <2> HIDE DEF B, n
  <2>10. Len(B.operations) \in Nat /\ Len(X.operations) \in Nat
    BY <2>6, <2>8, OpsAre DEF Sound
  <2>11. Moves(A, B, 0)
    <3>1. \A p \in Ops(A) : Same(A, B, p)
      BY <2>6, <2>8 DEF Moves, Same
    <3>2. \A p \in Ops(B) : p \notin Ops(A) => B.operations[p].kind \in Beside /\ B.operations[p].over
      BY <2>6, <2>8, <2>9 DEF Moves
    <3>3. Len(A.operations) <= Len(B.operations)
      BY <1>1, <2>3, <2>8, <2>10 DEF Moves, n
    <3>4. QED
      BY <1>1, <2>6, <2>8, <3>1, <3>2, <3>3 DEF Moves, Held
  <2>12. B.m_account2operation = A.m_account2operation
    BY <2>2, <2>8 DEF Held
  <2>13. Registered(A) => Registered(B)
    <3>1. Typed(A) /\ Typed(B)
      BY <1>1, <2>8 DEF Sound
    <3>2. QED
      BY <1>1, <2>11, <2>12, <3>1, StaysRegistered
  <2>14. C = B
    BY <1>2, <1>4
  <2> HIDE DEF C
  <2>15. QED
    BY <2>6, <2>8, <2>11, <2>13, <2>14 DEF Held, C
<1>5. QED
  BY <1>3, <1>4

-----------------------------------------------------------------------------
(* A handler of operation o, from A to B, with the objects D.                *)
Handles(A, B, D, o) ==
  Sound(B) /\ Moves(A, B, o) /\ (B.crashed \/ Progress(B, D, o)) /\ Registers(A, B)

LEMMA ThenHandles ==
  ASSUME NEW A, NEW X, NEW B, NEW D, NEW o, Sound(A), Sound(X), Moves(A, X, o),
         Registered(A) => Registered(X), Handles(X, B, D, o)
  PROVE  Handles(A, B, D, o)
<1>1. Typed(A) /\ Typed(X) /\ Typed(B)
  BY DEF Handles, Sound
<1>2. Moves(A, B, o)
  BY <1>1, MovesOn DEF Handles
<1>3. QED
  BY <1>2 DEF Handles, Registers

\* An operation that has nothing under way.
LEMMA IdleProgress ==
  ASSUME NEW A, NEW D, NEW o \in Ops(A), Idle(A, o),
         LET op == A.operations[o]
         IN  /\ op.kind \in Singly \cup Beside
             /\ op.kind = "create" /\ ~op.over => op.arg \in Slots
  PROVE  Progress(A, D, o)
<1>1. Once(A, o) /\ Asked(A, o) = {} /\ Coming(A, o) = {}
  BY DEF Idle, Once, Single, Asked, Coming, Values
<1>2. A.operations[o].kind = "create" => Creating(A, D, o)
  BY <1>1 DEF Creating
<1>3. QED
  BY <1>1, <1>2 DEF Progress, Singly, Linear, Beside

\* A handler that asks for one object, for an operation that asks one by one.
LEMMA Queries ==
  ASSUME NEW A, NEW D, NEW o \in Ops(A), NEW d \in Doids, Sound(A), Idle(A, o), MayAsk(A, o),
         LET op == A.operations[o]
         IN  \/ /\ op.kind \in Linear /\ ~Through(op)
                /\ op.kind = "create" => op.arg \in Slots
             \/ op.kind = "removefriend" /\ (op.over => op.m_last)
  PROVE  Handles(A, query_object(A, o, d), D, o)
<1> DEFINE B == query_object(A, o, d)
           op == A.operations[o]
           x == Request(A, o, "get", d, no_object)
<1>1. GoodRequest(A.operations, x) /\ x.ask = "get"
  BY DEF GoodRequest, Request, Ops
<1>2. /\ Sound(B) /\ Moves(A, B, o) /\ Held(A, B)
      /\ B.operations[o] = [op EXCEPT !.m_contexts = @ \cup {d}]
      /\ Asked(B, o) = Asked(A, o) \cup {x} /\ Coming(B, o) = Coming(A, o)
      /\ Idle(A, o) => Once(B, o)
  BY <1>1, AfterAsk DEF query_object
<1> HIDE DEF B, x
<1>3. /\ B.operations[o].kind = op.kind /\ B.operations[o].over = op.over /\ B.operations[o].arg = op.arg
      /\ B.operations[o].m_last = op.m_last /\ (Through(B.operations[o]) <=> Through(op))
  BY <1>2, ClientThere DEF GoodOperation, OperationFields, Through
<1>4. Asked(A, o) = {} /\ Coming(A, o) = {}
  BY DEF Idle, Asked, Coming, Values
<1>5. op.kind = "create" => Creating(B, D, o)
  BY <1>1, <1>2, <1>3, <1>4 DEF Creating, Linear
<1>6. Progress(B, D, o)
  BY <1>2, <1>3, <1>5 DEF Progress, Linear, Singly
<1>7. Registers(A, B)
  <2>1. Typed(A) /\ Typed(B) /\ B.m_account2operation = A.m_account2operation
    BY <1>2 DEF Sound, Held
  <2>2. Registered(A) => Registered(B)
    BY <1>2, <1>3, <2>1, StaysRegistered
  <2>3. QED
    BY <2>2 DEF Registers
<1>8. QED
  BY <1>2, <1>6, <1>7 DEF Handles, B

\* A handler that ends an operation.
LEMMA Ends ==
  ASSUME NEW A, NEW D, NEW o \in Ops(A), Sound(A), Idle(A, o),
         A.operations[o].kind \in Singly,
         A.operations[o].kind = "login" \/ ~A.operations[o].over
  PROVE  Handles(A, off(A, o), D, o)
<1> DEFINE B == off(A, o)
           op == A.operations[o]
<1>1. /\ Sound(B) /\ Moves(A, B, o)
      /\ B.operations[o] = [op EXCEPT !.over = TRUE]
      /\ B.requests = A.requests /\ B.mail = A.mail /\ B.clients = A.clients
      /\ Registered(A) /\ (op.kind = "login" \/ (OfAccount(op) /\ (~op.over \/ op.m_target \in A.disowned)))
           => Registered(B)
  BY AfterOff
<1> HIDE DEF B
<1>2. B.operations[o].kind = op.kind /\ B.operations[o].over /\ (op.kind = "login" \/ OfAccount(op))
  BY <1>1, ClientThere DEF GoodOperation, OperationFields, OfAccount, Singly, Linear, Kinds, Joining, Beside
<1>3. Idle(B, o) /\ o \in Ops(B)
  BY <1>1 DEF Idle, Moves, Same, Alike, Ops, Sound, Typed
<1>4. Progress(B, D, o)
  BY <1>2, <1>3, IdleProgress
<1>5. QED
  BY <1>1, <1>2, <1>4 DEF Handles, Registers, B

LEMMA Kills ==
  ASSUME NEW A, NEW D, NEW o \in Ops(A), Sound(A), Idle(A, o), A.operations[o].kind \in Singly
  PROVE  Handles(A, kill(A, o), D, o)
<1> DEFINE B == kill(A, o)
           op == A.operations[o]
<1>1. op.kind = "login" \/ OfAccount(op)
  BY ClientThere DEF GoodOperation, OfAccount, Singly, Linear, Kinds, Joining, Beside
<1>2. /\ Sound(B) /\ Moves(A, B, o) /\ Registers(A, B)
      /\ B.crashed \/ B.operations[o] = [op EXCEPT !.over = TRUE]
      /\ B.requests = A.requests /\ B.mail = A.mail
  BY <1>1, AfterKill
<1> HIDE DEF B
<1>3. Idle(B, o)
  BY <1>2 DEF Idle
<1>4. o \in Ops(B)
  <2>1. Len(A.operations) \in Nat /\ Len(B.operations) \in Nat /\ Len(A.operations) <= Len(B.operations)
    BY <1>2, OpsAre DEF Sound, Moves
  <2>2. QED
    BY <2>1 DEF Ops
<1>5. B.crashed \/ Progress(B, D, o)
  <2>1. SUFFICES ASSUME B.operations[o] = [op EXCEPT !.over = TRUE] PROVE Progress(B, D, o)
    BY <1>2
  <2>2. B.operations[o].kind = op.kind /\ B.operations[o].over
    BY <2>1, ClientThere DEF GoodOperation, OperationFields
  <2>3. QED
    BY <1>3, <1>4, <2>2, IdleProgress
<1>6. QED
  BY <1>2, <1>5 DEF Handles, B
-----------------------------------------------------------------------------
(* Naming, loading and unloading an avatar, and logging in.                  *)

\* When nothing goes on, from A to X, operation o is where it was.
LEMMA StillThere ==
  ASSUME NEW A, NEW X, NEW o \in Ops(A), Sound(A), Sound(X), Moves(A, X, 0)
  PROVE  /\ Moves(A, X, o) /\ o \in Ops(X) /\ X.operations[o] = A.operations[o]
         /\ Idle(A, o) => Idle(X, o)
         /\ X.m_account2operation = A.m_account2operation /\ Registered(A) => Registered(X)
<1>1. Typed(A) /\ Typed(X)
  BY DEF Sound
<1>2. Moves(A, X, o) /\ Same(A, X, o)
  BY <1>1, StillMoves
<1>3. Len(A.operations) \in Nat /\ Len(X.operations) \in Nat /\ Len(A.operations) <= Len(X.operations)
  BY <1>1, OpsAre DEF Moves
<1>4. X.m_account2operation = A.m_account2operation /\ Registered(A) => Registered(X)
  BY <1>1, <1>2, StaysRegistered DEF Same
<1>5. QED
  BY <1>2, <1>3, <1>4 DEF Same, Idle, Ops

LEMMA StillAfter ==
  ASSUME NEW A, NEW X, NEW Y, Sound(A), Sound(X), Sound(Y), Moves(A, X, 0), Moves(X, Y, 0)
  PROVE  Moves(A, Y, 0)
BY MovesOn DEF Sound

\* The client of an account's operation.
LEMMA OwnClient ==
  ASSUME NEW A, NEW o \in Ops(A), Sound(A), OfAccount(A.operations[o]),
         Present(A.clients[A.operations[o].client])
  PROVE  LET op == A.operations[o]
             c == A.clients[op.client]
         IN  /\ op.client \in Clients /\ op.m_target \in Doids /\ GoodClient(c)
             /\ c.m_state = "established" /\ op.m_target = get_account_id(c)
             /\ \E v \in 0..MaxDoid : c.m_channel = sender_channel(op.m_target, v)
             /\ get_account_connection_channel(op.m_target) \in c.subscriptions
<1> DEFINE op == A.operations[o]
           c == A.clients[op.client]
<1>1. op.client \in Clients /\ op.m_target \in Doids /\ GoodClient(c)
  BY ClientThere DEF GoodOperation, Sound, Typed
<1>2. c.m_state = "established" /\ op.m_target = get_account_id(c)
  BY DEF Sound, Served, AccountServed, Ops
<1>3. HasAccount(c)
  BY <1>1, <1>2 DEF Sound, Accounted
<1>4. PICK a \in Doids : /\ \E v \in 0..MaxDoid : c.m_channel = sender_channel(a, v)
                         /\ get_account_connection_channel(a) \in c.subscriptions
  BY <1>3 DEF HasAccount
<1>5. get_account_id(c) = a
  BY <1>4 DEF get_account_id, sender_channel
<1>6. QED
  BY <1>1, <1>2, <1>4, <1>5

LEMMA SenderIs ==
  \A a, v : /\ sender_channel(a, v)[1] = "sender" /\ sender_channel(a, v)[2] = a
            /\ sender_channel(a, v)[3] = v
BY DEF sender_channel

LEMMA AccountChannelIs ==
  \A a, b, v : /\ get_account_connection_channel(a) # sender_channel(b, v)
               /\ get_account_connection_channel(a) # get_puppet_connection_channel(v)
               /\ get_account_connection_channel(a) = get_account_connection_channel(b) => a = b
BY DEF sender_channel, get_account_connection_channel, get_puppet_connection_channel

\* The client plays another avatar of its account, or none.
LEMMA PlaysOther ==
  ASSUME NEW c, NEW d, NEW a \in Doids, NEW v \in 0..MaxDoid, GoodClient(c), GoodClient(d),
         d.connection = c.connection, d.m_state = c.m_state, d.allocated = c.allocated,
         d.m_channel = sender_channel(a, v), get_account_id(c) = a,
         get_account_connection_channel(a) \in d.subscriptions
  PROVE  Continues(c, d)
BY SenderIs DEF Continues, HasAccount, get_account_id, Present

\* Clients that change in a way that the rest of the agent does not see.
LEMMA SetAvatarHandles ==
  ASSUME NEW A, NEW D, NEW o \in Ops(A), Sound(A), Idle(A, o),
         A.operations[o].kind = "load", ~A.operations[o].over,
         Present(A.clients[A.operations[o].client])
  PROVE  Handles(A, set_avatar(A, o), D, o)
<1> DEFINE op == A.operations[o]
           k == op.client
           a == op.m_target
           v == op.arg
           c == A.clients[k]
           c1 == [c EXCEPT !.post_removes = Append(@, delete_ram(k, v))]
           A1 == [A EXCEPT !.clients[k].post_removes = Append(@, delete_ram(k, v))]
           activate == [kind |-> "activate", from |-> k, do_id |-> v,
                        owner |-> get_account_connection_channel(a)]
           A2 == Post(A1, activate)
           c3 == [c1 EXCEPT !.m_channel = sender_channel(a, v),
                            !.subscriptions = (@ \ {c1.m_channel}) \cup
                               {get_puppet_connection_channel(v), sender_channel(a, v)},
                            !.m_av_id = v]
           A3 == [A2 EXCEPT !.clients[k].m_channel = sender_channel(a, v),
                            !.clients[k].subscriptions =
                               (@ \ {c1.m_channel}) \cup
                                   {get_puppet_connection_channel(v), sender_channel(a, v)},
                            !.clients[k].m_av_id = v]
           A4 == Announce(A3, "online", k, v)
<1>1. Typed(A) /\ OfAccount(op) /\ GoodOperation(op) /\ v \in Doids /\ v \in 0..MaxDoid
  <2>1. GoodOperation(op)
    BY ClientThere
  <2>2. QED
    BY <2>1 DEF Sound, OfAccount, Kinds, Singly, Linear, Joining, Beside, GoodOperation, OfAvatar, Doids
<1>2. /\ k \in Clients /\ a \in Doids /\ GoodClient(c)
      /\ c.m_state = "established" /\ a = get_account_id(c)
      /\ \E w \in 0..MaxDoid : c.m_channel = sender_channel(a, w)
      /\ get_account_connection_channel(a) \in c.subscriptions
  BY <1>1, OwnClient
<1>3. Differ(A, A1, {"clients"}) /\ A1.clients = [A.clients EXCEPT ![k] = c1]
  BY <1>1 DEF Typed, AgentFields, Differ
<1>4. GoodClient(c1) /\ Continues(c, c1) /\ DOMAIN c1 = ClientFields
      /\ c1.connection = c.connection /\ c1.m_state = c.m_state /\ c1.allocated = c.allocated
      /\ c1.m_channel = c.m_channel /\ c1.subscriptions = c.subscriptions
  <2>1. /\ DOMAIN c1 = ClientFields /\ c1.connection = c.connection /\ c1.m_state = c.m_state
        /\ c1.allocated = c.allocated /\ c1.m_channel = c.m_channel
        /\ c1.subscriptions = c.subscriptions /\ c1.owned = c.owned /\ c1.m_av_id = c.m_av_id
        /\ c1.post_removes = Append(c.post_removes, delete_ram(k, v))
    BY <1>2, Zenon DEF GoodClient, ClientFields
  <2> HIDE DEF c1
  <2> DEFINE q == c.post_removes
             x == delete_ram(k, v)
  <2>2. IsSeq(q) /\ \A i \in 1..Len(q) : \E l, w : q[i] = delete_ram(l, w)
    BY <1>2, Zenon DEF GoodClient
  <2> HIDE DEF q
  <2>3. /\ IsSeq(Append(q, x)) /\ Len(Append(q, x)) = Len(q) + 1 /\ Len(q) \in Nat
        /\ Append(q, x)[Len(q) + 1] = x /\ \A i \in 1..Len(q) : Append(q, x)[i] = q[i]
    BY <2>2, SeqAppend, SeqLength
  <2>4. \A i \in 1..Len(Append(q, x)) : \E l, w : Append(q, x)[i] = delete_ram(l, w)
    <3>1. SUFFICES ASSUME NEW i \in 1..(Len(q) + 1) PROVE \E l, w : Append(q, x)[i] = delete_ram(l, w)
      BY <2>3
    <3>2. CASE i \in 1..Len(q)
      BY <2>2, <2>3, <3>2
    <3>3. CASE i = Len(q) + 1
      BY <2>3, <3>3
    <3>4. QED
      BY <2>3, <3>2, <3>3
  <2>5. IsSeq(c1.post_removes)
        /\ \A i \in 1..Len(c1.post_removes) : \E l, w : c1.post_removes[i] = delete_ram(l, w)
    <3>1. c1.post_removes = Append(q, x)
      BY <2>1, Zenon DEF q
    <3>2. QED
      BY ONLY <2>3, <2>4, <3>1
  <2>8. GoodClient(c1)
    BY <1>2, <2>1, <2>5, Zenon DEF GoodClient
  <2>6. Continues(c, c1)
    BY <2>1, <2>8, Zenon DEF Continues, HasAccount, get_account_id, Present
  <2>7. QED
    BY <2>1, <2>6, <2>8, Zenon
<1> HIDE DEF A1, c1
<1>5. /\ Sound(A1) /\ Moves(A, A1, 0) /\ A1.operations = A.operations
      /\ A1.m_account2operation = A.m_account2operation /\ A1.crashed = A.crashed
      /\ A1.clients[k] = c1
  <2>1. DOMAIN A.clients = Clients
    BY <1>1 DEF Typed
  <2>2. /\ DOMAIN A1.clients = Clients /\ A1.clients[k] = c1
        /\ \A l \in Clients : l # k => A1.clients[l] = A.clients[l]
    BY <1>2, <1>3, <2>1
  <2>3. QED
    <3>1. Continues(A.clients[k], A1.clients[k])
      BY <1>4, <2>2
    <3>2. OneClient(A, A1, k)
      BY ONLY <1>2, <1>3, <2>2, <3>1 DEF OneClient
    <3>3. Sound(A1) /\ Moves(A, A1, 0) /\ Kept(A, A1)
      BY <3>2, OneGoes
    <3>4. QED
      BY <2>2, <3>3 DEF Kept
<1>6. Sound(A2) /\ Moves(A1, A2, 0) /\ Held(A1, A2) /\ A2.operations = A1.operations
  <2>1. GoodMessage(A1.operations, activate) /\ activate.kind \notin Replies
    BY DEF GoodMessage, Replies
  <2> HIDE DEF activate
  <2>2. QED
    BY <1>5, <2>1, AfterPost
<1> HIDE DEF A2
<1>7. A2.clients[k] = c1 /\ Typed(A2)
  BY <1>5, <1>6 DEF Held, Sound
<1>8. Differ(A2, A3, {"clients"}) /\ A3.clients = [A2.clients EXCEPT ![k] = c3]
  BY <1>2, <1>4, <1>7, Zenon DEF Typed, AgentFields, Differ, ClientFields
<1>9. Continues(c1, c3) /\ c3.connection = c.connection
  <2>1. /\ DOMAIN c3 = ClientFields /\ c3.connection = c1.connection /\ c3.m_state = c1.m_state
        /\ c3.allocated = c1.allocated /\ c3.m_channel = sender_channel(a, v)
        /\ c3.owned = c1.owned /\ c3.m_av_id = v /\ c3.post_removes = c1.post_removes
        /\ c3.subscriptions = (c1.subscriptions \ {c1.m_channel}) \cup
                               {get_puppet_connection_channel(v), sender_channel(a, v)}
    BY <1>4 DEF ClientFields
  <2> HIDE DEF c3
  <2>2. get_account_connection_channel(a) \in c3.subscriptions
    <3>1. get_account_connection_channel(a) # c1.m_channel
      BY <1>2, <1>4, AccountChannelIs
    <3>2. get_account_connection_channel(a) \in c1.subscriptions
      BY <1>2, <1>4
    <3>3. QED
      BY <2>1, <3>1, <3>2
  <2>3. get_account_id(c1) = a
    BY <1>2, <1>4 DEF get_account_id
  <2>4. GoodClient(c3)
    <3>1. GoodClient(c1)
      BY <1>4
    <3>2. QED
      BY ONLY <1>1, <2>1, <3>1 DEF GoodClient
  <2>5. QED
    BY <1>1, <1>2, <1>4, <2>1, <2>2, <2>3, <2>4, PlaysOther, Zenon
<1> HIDE DEF A3, c3
<1>10. /\ Sound(A3) /\ Moves(A2, A3, 0) /\ A3.operations = A2.operations
       /\ A3.m_account2operation = A2.m_account2operation /\ A3.crashed = A2.crashed
       /\ A3.clients[k] = c3
  <2>1. DOMAIN A2.clients = Clients
    BY <1>7 DEF Typed
  <2>2. /\ DOMAIN A3.clients = Clients /\ A3.clients[k] = c3
        /\ \A l \in Clients : l # k => A3.clients[l] = A2.clients[l]
    BY <1>2, <1>8, <2>1
  <2>3. QED
    <3>1. Continues(A2.clients[k], A3.clients[k])
      BY <1>7, <1>9, <2>2
    <3>2. OneClient(A2, A3, k)
      BY ONLY <1>2, <1>8, <2>2, <3>1 DEF OneClient
    <3>3. Sound(A3) /\ Moves(A2, A3, 0) /\ Kept(A2, A3)
      BY <1>6, <3>2, OneGoes
    <3>4. QED
      BY <2>2, <3>3 DEF Kept
<1>11. /\ Sound(A4) /\ Moves(A3, A4, 0) /\ A4.clients = A3.clients
       /\ A4.crashed = A3.crashed /\ (Registered(A3) => Registered(A4))
  <2>1. A3.clients[k].connection # "none"
    BY <1>9, <1>10 DEF Present
  <2>2. QED
    BY <1>1, <1>2, <1>10, <2>1, AfterAnnounce DEF Beside
<1>12. set_avatar(A, o) = off(A4, o)
  <2>1. A1.operations[o] = op
    BY <1>5
  <2>2. set_avatar(A, o) = set_avatar_Uncovered(A1, o)
    BY DEF set_avatar, A1
  <2>3. set_avatar_Uncovered(A1, o) = off(A4, o)
    BY <1>5, <2>1 DEF set_avatar_Uncovered, A2, A3, coming_online
  <2>4. QED
    BY <2>2, <2>3
<1> HIDE DEF A4
<1>13. Moves(A, A3, 0) /\ Moves(A, A4, 0)
  BY <1>5, <1>6, <1>10, <1>11, StillAfter
<1>14. Registered(A) => Registered(A4)
  <2>1. A3.m_account2operation = A.m_account2operation
    BY <1>5, <1>6, <1>10 DEF Held
  <2>2. Registered(A) => Registered(A3)
    BY <1>10, <1>13, <2>1, StillThere
  <2>3. QED
    BY <1>11, <2>2
<1>15. Moves(A, A4, o) /\ o \in Ops(A4) /\ A4.operations[o] = op /\ Idle(A4, o)
  BY <1>11, <1>13, StillThere
<1>16. Handles(A4, off(A4, o), D, o)
  BY <1>11, <1>15, Ends DEF Singly, Linear
<1>17. QED
  BY <1>11, <1>12, <1>14, <1>15, <1>16, ThenHandles

LEMMA LikeGood ==
  ASSUME NEW c, NEW d, GoodClient(c), DOMAIN d = ClientFields,
         d.connection \in {"none", "open", "leaving", "gone"},
         d.allocated = c.allocated, d.m_av_id \in 0..MaxDoid,
         IsFiniteSet(d.owned), d.post_removes = c.post_removes
  PROVE  GoodClient(d)
BY DEF GoodClient

LEMMA UnloadHandles ==
  ASSUME NEW A, NEW D, NEW o \in Ops(A), Sound(A), Idle(A, o),
         A.operations[o].kind = "unload", ~A.operations[o].over,
         Present(A.clients[A.operations[o].client])
  PROVE  Handles(A, unload_avatar(A, o), D, o)
<1> DEFINE op == A.operations[o]
           k == op.client
           a == op.m_target
           v == op.arg
           c == A.clients[k]
           A1 == Announce(A, "offline", k, v)
           A2 == Post(A1, delete_ram(k, v))
           c3 == [c EXCEPT !.m_av_id = 0, !.m_channel = sender_channel(a, 0),
                           !.subscriptions =
                               (@ \ {get_puppet_connection_channel(v), c.m_channel})
                               \cup {sender_channel(a, 0)}]
           A3 == [A2 EXCEPT !.clients[k].m_av_id = 0,
                            !.clients[k].m_channel = sender_channel(a, 0),
                            !.clients[k].subscriptions =
                               (@ \ {get_puppet_connection_channel(v), c.m_channel})
                               \cup {sender_channel(a, 0)}]
<1>1. Typed(A) /\ OfAccount(op) /\ GoodOperation(op) /\ v \in Doids /\ 0 \in 0..MaxDoid
  <2>1. GoodOperation(op)
    BY ClientThere
  <2>2. QED
    BY <2>1, ManagerAssumption DEF Sound, OfAccount, Kinds, Singly, Linear, Joining, Beside, GoodOperation, OfAvatar
<1>2. /\ k \in Clients /\ a \in Doids /\ GoodClient(c)
      /\ c.m_state = "established" /\ a = get_account_id(c)
      /\ \E w \in 0..MaxDoid : c.m_channel = sender_channel(a, w)
      /\ get_account_connection_channel(a) \in c.subscriptions
  BY <1>1, OwnClient
<1>3. /\ Sound(A1) /\ Moves(A, A1, 0) /\ A1.clients = A.clients
      /\ A1.crashed = A.crashed /\ (Registered(A) => Registered(A1))
  <2>1. A.clients[k].connection # "none"
    BY ClientThere
  <2>2. QED
    BY <1>1, <1>2, <2>1, AfterAnnounce DEF Beside
<1> HIDE DEF A1
<1>4. Sound(A2) /\ Moves(A1, A2, 0) /\ Held(A1, A2)
  <2>1. GoodMessage(A1.operations, delete_ram(k, v)) /\ delete_ram(k, v).kind \notin Replies
    BY DEF GoodMessage, Replies, delete_ram
  <2>2. QED
    BY <1>3, <2>1, AfterPost
<1> HIDE DEF A2
<1>5. A2.clients[k] = c /\ Typed(A2) /\ A2.clients = A.clients
  BY <1>3, <1>4 DEF Held, Sound
<1>6. Differ(A2, A3, {"clients"}) /\ A3.clients = [A2.clients EXCEPT ![k] = c3]
  BY <1>2, <1>5, Zenon DEF Typed, AgentFields, Differ, ClientFields, GoodClient
<1>7. Continues(c, c3)
  <2>1. /\ DOMAIN c3 = ClientFields /\ c3.connection = c.connection /\ c3.m_state = c.m_state
        /\ c3.allocated = c.allocated /\ c3.m_channel = sender_channel(a, 0)
        /\ c3.owned = c.owned /\ c3.m_av_id = 0 /\ c3.post_removes = c.post_removes
        /\ c3.subscriptions = (c.subscriptions \ {get_puppet_connection_channel(v), c.m_channel})
                                \cup {sender_channel(a, 0)}
    BY <1>2, Zenon DEF GoodClient, ClientFields
  <2> HIDE DEF c3
  <2>2. get_account_connection_channel(a) \in c3.subscriptions
    <3>1. get_account_connection_channel(a) # c.m_channel
          /\ get_account_connection_channel(a) # get_puppet_connection_channel(v)
      BY <1>2, AccountChannelIs
    <3>2. QED
      BY <1>2, <2>1, <3>1, Zenon
  <2>4. GoodClient(c3)
    <3>1. GoodClient(c)
      BY <1>2
    <3>2. 0 \in 0..MaxDoid
      BY <1>1
    <3>3. c3.connection \in {"none", "open", "leaving", "gone"} /\ IsFiniteSet(c3.owned)
      BY <2>1, <3>1, Zenon DEF GoodClient
    <3>4. QED
      BY <2>1, <3>1, <3>2, <3>3, LikeGood, Zenon
  <2>5. QED
    BY <1>1, <1>2, <2>1, <2>2, <2>4, PlaysOther, Zenon
<1> HIDE DEF A3, c3
<1>8. Sound(A3) /\ Moves(A2, A3, 0) /\ Kept(A2, A3)
  <2>1. DOMAIN A2.clients = Clients
    BY <1>5 DEF Typed
  <2>2. /\ DOMAIN A3.clients = Clients /\ A3.clients[k] = c3
        /\ \A l \in Clients : l # k => A3.clients[l] = A2.clients[l]
    BY <1>2, <1>6, <2>1
  <2>3. Continues(A2.clients[k], A3.clients[k])
    BY <1>5, <1>7, <2>2
  <2>4. OneClient(A2, A3, k)
    BY ONLY <1>2, <1>6, <2>2, <2>3 DEF OneClient
  <2>5. QED
    BY <1>4, <2>4, OneGoes
<1>9. Moves(A, A2, 0) /\ Moves(A, A3, 0)
  BY <1>3, <1>4, <1>8, StillAfter
<1>10. Registered(A) => Registered(A3)
  <2>1. A2.m_account2operation = A1.m_account2operation
        /\ A3.m_account2operation = A2.m_account2operation
    BY <1>4, <1>8 DEF Held, Kept
  <2>2. Moves(A1, A3, 0)
    BY <1>3, <1>4, <1>8, StillAfter
  <2>3. Registered(A1) => Registered(A3)
    <3>1. 0 \notin Ops(A1) /\ Typed(A1) /\ Typed(A3)
      BY <1>3, <1>8, OpsAre DEF Sound
    <3>2. QED
      BY <2>1, <2>2, <3>1, StaysRegistered
  <2>4. QED
    BY <1>3, <2>3
<1>11. Moves(A, A3, o) /\ o \in Ops(A3) /\ A3.operations[o] = op /\ Idle(A3, o)
  BY <1>8, <1>9, StillThere
<1>12. unload_avatar(A, o) = off(A3, o)
  BY DEF unload_avatar, lost_object, A1, A2, A3
<1>13. Handles(A3, off(A3, o), D, o)
  BY <1>8, <1>11, Ends DEF Singly, Linear
<1>14. QED
  BY <1>8, <1>10, <1>11, <1>12, <1>13, ThenHandles

-----------------------------------------------------------------------------
(* Logging in.                                                               *)
OnlyClients(A, B) ==
  /\ Kept(A, B) /\ B.m_connection2operation = A.m_connection2operation
  /\ B.told = A.told /\ B.m_bridge = A.m_bridge /\ DOMAIN B = AgentFields

\* Of a client that joins account a, whose other clients are being told so.
Joins(A, B, k, a) ==
  LET c == A.clients[k]
      d == B.clients[k]
  IN  /\ k \in Clients /\ a \in Doids
      /\ DOMAIN B.clients = Clients /\ \A l \in Clients : l # k => B.clients[l] = A.clients[l]
      /\ Present(c) /\ c.m_state # "established"
      /\ GoodClient(d) /\ d.connection = c.connection /\ d.m_state = "established"
      /\ d.allocated = c.allocated /\ d.m_channel = sender_channel(a, 0)
      /\ get_account_connection_channel(a) \in d.subscriptions

LEMMA AfterJoining ==
  ASSUME NEW A, NEW B, NEW k, NEW a, Sound(A), Differ(A, B, {"clients"}), Joins(A, B, k, a),
         Ejecting(A, a),
         \A o \in Ops(A) : A.operations[o].kind = "login" /\ A.operations[o].client = k => Idle(A, o)
  PROVE  Sound(B) /\ Moves(A, B, 0) /\ Kept(A, B)
<1>1. /\ Typed(A) /\ Wired(A) /\ Accounted(A) /\ Apart(A) /\ \A o \in Ops(A) : Served(A, o)
      /\ 0 \notin Ops(A) /\ Len(A.operations) \in Nat
  BY OpsAre DEF Sound, Ops
<1>2. OnlyClients(A, B)
  BY DEF Differ, AgentFields, Kept, OnlyClients
<1>3. /\ B.operations = A.operations /\ B.requests = A.requests /\ B.mail = A.mail
      /\ B.m_account2operation = A.m_account2operation /\ B.m_connection2operation = A.m_connection2operation
      /\ B.crashed = A.crashed /\ B.killed_twice = A.killed_twice /\ B.disowned = A.disowned
      /\ B.told = A.told /\ B.m_bridge = A.m_bridge /\ DOMAIN B = AgentFields
  BY <1>2 DEF OnlyClients, Kept
<1>4. \A l \in Clients : GoodClient(B.clients[l])
  BY <1>1 DEF Joins, Typed
<1>5. Typed(B)
  BY <1>1, <1>3, <1>4 DEF Typed, Tables, Joins
<1>6. Wired(B)
  BY <1>1, <1>3 DEF Wired
<1>7. /\ 0 \in 0..MaxDoid /\ HasAccount(B.clients[k]) /\ get_account_id(B.clients[k]) = a
      /\ k \in Clients /\ \A l \in Clients : l # k => B.clients[l] = A.clients[l]
  <2>1. 0 \in 0..MaxDoid
    BY ManagerAssumption
  <2>2. QED
    BY <2>1, SenderIs DEF Joins, HasAccount, get_account_id
<1>8. Accounted(B)
  BY <1>1, <1>7 DEF Accounted
<1>9. Apart(B)
  <2>1. SUFFICES ASSUME NEW l \in Clients, NEW m \in Clients, l # m,
                        Playing(B.clients[l]), Playing(B.clients[m]),
                        get_account_id(B.clients[l]) = get_account_id(B.clients[m])
                 PROVE  Ejecting(B, get_account_id(B.clients[l]))
    BY DEF Apart
  <2>2. Ejecting(B, a)
    BY <1>3 DEF Ejecting
  <2>3. CASE l = k \/ m = k
    BY <1>7, <2>1, <2>2, <2>3
  <2>4. CASE l # k /\ m # k
    <3>1. B.clients[l] = A.clients[l] /\ B.clients[m] = A.clients[m]
      BY <1>7, <2>4
    <3>2. Ejecting(A, get_account_id(A.clients[l]))
      BY <1>1, <2>1, <3>1 DEF Apart
    <3>3. QED
      BY <1>3, <3>1, <3>2 DEF Ejecting
  <2>5. QED
    BY <2>3, <2>4
<1>10. ASSUME NEW o \in Ops(A) PROVE Served(B, o)
  <2>1. Served(A, o) /\ GoodOperation(A.operations[o])
    BY <1>1 DEF Typed, Ops
  <2>2. CASE A.operations[o].client # k
    <3>1. B.clients[A.operations[o].client] = A.clients[A.operations[o].client]
      BY <1>7, <2>1, <2>2 DEF GoodOperation
    <3>2. QED
      BY <1>3, <2>1, <3>1 DEF Served, LoginServed, AccountServed, Idle
  <2>3. CASE A.operations[o].client = k
    <3>1. /\ Present(A.clients[k]) /\ A.clients[k].m_state # "established"
          /\ B.clients[k].connection = A.clients[k].connection
          /\ B.clients[k].allocated = A.clients[k].allocated
      BY DEF Joins
    <3>2. ~OfAccount(A.operations[o])
      BY <2>1, <2>3, <3>1 DEF Served, AccountServed
    <3>3. AccountServed(B, o)
      BY <1>3, <3>2 DEF AccountServed
    <3>4. LoginServed(B, o)
      <4>1. SUFFICES ASSUME A.operations[o].kind = "login"
                     PROVE  /\ B.m_connection2operation[B.clients[k].allocated] # 0
                            /\ Idle(B, o)
                            /\ \A p \in Ops(A) :
                                 A.operations[p].kind = "login" /\ A.operations[p].client = k => p = o
        BY <1>3, <2>3 DEF LoginServed, Ops
      <4>2. Idle(B, o)
        BY <1>3, <2>3, <4>1 DEF Idle
      <4>3. QED
        BY <1>3, <2>1, <2>3, <3>1, <4>1, <4>2 DEF Served, LoginServed, Ops
    <3>5. QED
      BY <1>3, <2>1, <2>3, <3>1, <3>3, <3>4 DEF Served
  <2>4. QED
    BY <2>2, <2>3
<1>11. Sound(B)
  <2>1. \A o \in 1..Len(B.operations) : Served(B, o)
    BY <1>3, <1>10 DEF Ops
  <2>2. Allotted(B)
    <3>1. \A l \in Clients : B.clients[l].connection = A.clients[l].connection
                           /\ B.clients[l].allocated = A.clients[l].allocated
      BY <1>7 DEF Joins
    <3>2. QED
      BY <3>1, StillAllotted DEF Sound, Present
  <2>3. QED
    BY <1>5, <1>6, <1>8, <1>9, <2>1, <2>2 DEF Sound
<1>12. Moves(A, B, 0)
  BY <1>1, <1>3 DEF Moves, Same, Alike, Asked, Coming, Ops
<1>13. QED
  BY <1>2, <1>11, <1>12 DEF OnlyClients

LEMMA SetAccountHandles ==
  ASSUME NEW A, NEW D, NEW o \in Ops(A), NEW a \in Doids, Sound(A), Idle(A, o), MayAsk(A, o),
         A.operations[o].kind = "login", Present(A.clients[A.operations[o].client])
  PROVE  Handles(A, set_account(A, o, a), D, o)
<1> DEFINE op == A.operations[o]
           k == op.client
           eject == [kind |-> "eject", from |-> k, to |-> get_account_connection_channel(a)]
           A1 == Post(A, eject)
           A2 == JoinedAccount(A1, k, a)
           c == A.clients[k]
           d == [c EXCEPT !.m_state = "established", !.m_channel = sender_channel(a, 0),
                          !.subscriptions = @ \cup {get_account_connection_channel(a),
                                                    sender_channel(a, 0)}]
<1>1. Typed(A) /\ k \in Clients /\ GoodClient(c) /\ IsSeq(A.mail)
  BY ClientThere DEF Sound, Typed, Wired
<1>2. Sound(A1) /\ Moves(A, A1, 0) /\ Held(A, A1) /\ A1.operations = A.operations
      /\ A1.mail = Append(A.mail, eject)
  <2>1. GoodMessage(A.operations, eject) /\ eject.kind \notin Replies
    BY DEF GoodMessage, Replies
  <2> HIDE DEF eject
  <2>2. A1.mail = Append(A.mail, eject)
    BY <1>1 DEF Typed, AgentFields, Post
  <2>3. QED
    BY <2>1, <2>2, AfterPost
<1>3. Ejecting(A1, a)
  <2>1. eject.kind = "eject" /\ eject.to = get_account_connection_channel(a)
    OBVIOUS
  <2> HIDE DEF eject
  <2>2. Len(A1.mail) = Len(A.mail) + 1 /\ A1.mail[Len(A.mail) + 1] = eject /\ Len(A.mail) \in Nat
    BY <1>1, <1>2, SeqAppend, SeqLength
  <2>3. QED
    BY <2>1, <2>2 DEF Ejecting
<1> HIDE DEF A1
<1>4. A1.clients = A.clients /\ Typed(A1)
  BY <1>2 DEF Held, Sound
<1>5. Differ(A1, A2, {"clients"}) /\ A2.clients = [A.clients EXCEPT ![k] = d]
  BY <1>1, <1>4, Zenon DEF Typed, AgentFields, Differ, ClientFields, GoodClient, JoinedAccount
<1>6. /\ DOMAIN d = ClientFields /\ d.connection = c.connection /\ d.m_state = "established"
      /\ d.allocated = c.allocated /\ d.m_channel = sender_channel(a, 0)
      /\ d.owned = c.owned /\ d.m_av_id = c.m_av_id /\ d.post_removes = c.post_removes
      /\ get_account_connection_channel(a) \in d.subscriptions
  BY <1>1, Zenon DEF GoodClient, ClientFields
<1> HIDE DEF d, A2
<1>7. GoodClient(d)
  <2>1. /\ d.connection \in {"none", "open", "leaving", "gone"} /\ IsFiniteSet(d.owned)
        /\ d.m_av_id \in 0..MaxDoid
    BY <1>1, <1>6, Zenon DEF GoodClient
  <2>2. QED
    BY <1>1, <1>6, <2>1, LikeGood
<1>8. Joins(A1, A2, k, a)
  <2>1. DOMAIN A.clients = Clients
    BY <1>1 DEF Typed
  <2>2. /\ DOMAIN A2.clients = Clients /\ A2.clients[k] = d /\ A1.clients[k] = c
        /\ \A l \in Clients : l # k => A2.clients[l] = A1.clients[l]
    BY <1>1, <1>4, <1>5, <2>1
  <2>3. c.m_state # "established" /\ Present(c)
    BY DEF MayAsk
  <2>4. QED
    BY ONLY <1>1, <1>6, <1>7, <2>2, <2>3, a \in Doids DEF Joins
<1>9. /\ o \in Ops(A1) /\ A1.operations[o] = op /\ Idle(A1, o)
      /\ Registered(A) => Registered(A1)
  BY <1>2, StillThere DEF Held
<1>10. \A p \in Ops(A1) : A1.operations[p].kind = "login" /\ A1.operations[p].client = k => Idle(A1, p)
  <2>1. \A p \in Ops(A) : A.operations[p].kind = "login" /\ A.operations[p].client = k => p = o
    BY DEF Sound, Served, LoginServed, Ops
  <2>2. QED
    BY <1>2, <1>9, <2>1 DEF Ops
<1>11. Sound(A2) /\ Moves(A1, A2, 0) /\ Kept(A1, A2)
  BY <1>2, <1>3, <1>5, <1>8, <1>10, AfterJoining
<1>12. Moves(A, A2, 0)
  BY <1>2, <1>11, StillAfter
<1>13. /\ Moves(A, A2, o) /\ o \in Ops(A2) /\ A2.operations[o] = op /\ Idle(A2, o)
       /\ Registered(A) => Registered(A2)
  <2>1. A2.m_account2operation = A.m_account2operation
    BY <1>2, <1>11 DEF Held, Kept
  <2>2. QED
    BY <1>11, <1>12, <2>1, StillThere
<1>14. Handles(A2, off(A2, o), D, o)
  BY <1>11, <1>13, Ends DEF Singly, Linear
<1>15. set_account(A, o, a) = off(A2, o)
  BY DEF set_account, A1, A2
<1>16. QED
  BY <1>11, <1>13, <1>14, <1>15, ThenHandles

-----------------------------------------------------------------------------
(* An operation notes something, and is handled further.                     *)
Notes(A, X, o, q) ==
  /\ Differ(A, X, {"operations"}) /\ X.operations = [A.operations EXCEPT ![o] = q]
  /\ GoodOperation(q) /\ Alike(A.operations[o], q) /\ q.over = A.operations[o].over

Noted(A, X, o, q) ==
  /\ Sound(X) /\ Moves(A, X, o) /\ Held(A, X)
  /\ o \in Ops(X) /\ X.operations[o] = q
  /\ X.requests = A.requests /\ X.mail = A.mail /\ X.clients = A.clients
  /\ Idle(A, o) => Idle(X, o)
  /\ MayAsk(A, o) => MayAsk(X, o)
  /\ Registered(A) => Registered(X)

LEMMA AfterNote ==
  ASSUME NEW A, NEW X, NEW o \in Ops(A), NEW q, Sound(A), Notes(A, X, o, q)
  PROVE  Noted(A, X, o, q)
<1>1. /\ Sound(X) /\ Moves(A, X, o) /\ Held(A, X) /\ X.operations[o] = q
      /\ X.requests = A.requests /\ X.mail = A.mail
  BY AfterMark DEF Notes
<1>2. X.clients = A.clients /\ X.m_account2operation = A.m_account2operation
  BY <1>1 DEF Held
<1>3. Typed(A) /\ Typed(X)
  BY <1>1 DEF Sound
<1>4. o \in Ops(X)
  <2>1. Len(A.operations) \in Nat /\ Len(X.operations) \in Nat /\ Len(A.operations) <= Len(X.operations)
    BY <1>1, <1>3, OpsAre DEF Moves
  <2>2. QED
    BY <2>1 DEF Ops
<1>5. Registered(A) => Registered(X)
  BY <1>1, <1>2, <1>3, StaysRegistered DEF Notes
<1>6. MayAsk(A, o) => MayAsk(X, o)
  BY <1>1, <1>2 DEF MayAsk, Notes, Alike
<1>7. QED
  BY <1>1, <1>2, <1>4, <1>5, <1>6 DEF Noted, Idle

LEMMA NotedHandles ==
  ASSUME NEW A, NEW X, NEW B, NEW D, NEW o, NEW q, Sound(A), Noted(A, X, o, q), Handles(X, B, D, o)
  PROVE  Handles(A, B, D, o)
BY ThenHandles DEF Noted

-----------------------------------------------------------------------------
(* Creating an avatar.                                                       *)
\* The answer m is taken for the operation o, and not yet handled.
Takes(A, D, o, m) ==
  LET op == A.operations[o]
  IN  /\ Sound(A) /\ o \in Ops(A) /\ Present(A.clients[op.client]) /\ MayAsk(A, o)
      /\ GoodMessage(A.operations, m) /\ m.op = o
      /\ op.kind \in Singly => Idle(A, o)
      /\ op.kind \in Linear => ~Through(op)
      /\ op.kind = "create" =>
           /\ op.arg \in Slots
           /\ m.kind = "create" => OpenSlot(op)
           /\ m.kind = "update" /\ m.value => Filled(D, op.m_target, op.arg, op.m_av_set[op.arg])
      /\ op.kind = "removefriend" /\ op.over /\ ~op.m_last => m.kind # "query"
      /\ op.kind = "getavatars" =>
           m.do_id \notin op.m_contexts /\ Listing([op EXCEPT !.m_contexts = @ \cup {m.do_id}])
      /\ op.kind = "friendslist" =>
           /\ Befriending(A, o)
           /\ op.over /\ op.m_target \notin A.disowned => m.do_id # op.arg
           /\ m.kind = "activated" => op.m_target \in A.disowned

LEMMA StoreHandles ==
  ASSUME NEW A, NEW D, NEW o, NEW m, Takes(A, D, o, m), A.operations[o].kind = "create",
         OpenSlot(A.operations[o]), NEW v \in Doids
  PROVE  Handles(A, store_avatar(A, o, v), D, o)
<1> DEFINE op == A.operations[o]
           set == [op.m_av_set EXCEPT ![op.arg] = v]
           q == [op EXCEPT !.m_av_set = set]
           X == [A EXCEPT !.operations[o].m_av_set = set]
           x == Request(X, o, "set_if_equals", op.m_target, [old |-> op.m_av_set, new |-> set])
           B == Ask(X, o, "set_if_equals", op.m_target, [old |-> op.m_av_set, new |-> set])
<1>1. Sound(A) /\ o \in Ops(A) /\ MayAsk(A, o) /\ Idle(A, o) /\ ~op.over
  BY DEF Takes, Singly, Linear, Through
<1>2. GoodOperation(op) /\ op.m_av_set \in AvatarSets /\ op.arg \in Slots /\ op.m_av_set[op.arg] = 0
  BY <1>1, ClientThere DEF OpenSlot
<1>3. set \in AvatarSets /\ set[op.arg] = v /\ [set EXCEPT ![op.arg] = 0] = op.m_av_set /\ v # 0
  BY <1>2, ManagerAssumption DEF AvatarSets, Doids
<1> HIDE DEF set
<1>4. /\ GoodOperation(q) /\ Alike(op, q) /\ q.over = op.over /\ q.m_av_set = set /\ q.arg = op.arg
      /\ q.kind = "create" /\ q.m_target = op.m_target /\ q.m_contexts = op.m_contexts /\ DOMAIN q = OperationFields
  BY <1>2, <1>3 DEF GoodOperation, OperationFields, Alike, OfAccount
<1>5. Notes(A, X, o, q)
  BY <1>1, <1>4 DEF Sound, Typed, AgentFields, Differ, Notes
<1>6. Noted(A, X, o, q)
  BY <1>1, <1>5, AfterNote
<1> HIDE DEF X, q
<1>7. /\ x.ask = "set_if_equals" /\ x.do_id = op.m_target
      /\ x.value.new = set /\ x.value.old = op.m_av_set
  BY DEF Request
<1>8. GoodRequest(X.operations, x)
  BY <1>4, <1>6 DEF Request, GoodRequest, Noted, Ops
<1>9. /\ Sound(B) /\ Moves(X, B, o) /\ Held(X, B)
      /\ B.operations[o] = [q EXCEPT !.m_contexts = @ \cup {op.m_target}]
      /\ Asked(B, o) = Asked(X, o) \cup {x} /\ Coming(B, o) = Coming(X, o)
      /\ Idle(X, o) => Once(B, o)
  BY <1>1, <1>6, <1>8, AfterAsk DEF Noted
<1> HIDE DEF B, x
<1>10. Asked(B, o) = {x} /\ Coming(B, o) = {} /\ Once(B, o)
  BY <1>1, <1>6, <1>9 DEF Noted, Idle, Asked, Coming, Values
<1>11. /\ B.operations[o].kind = "create" /\ B.operations[o].over = op.over
       /\ B.operations[o].arg = op.arg /\ B.operations[o].m_target = op.m_target
       /\ B.operations[o].m_av_set = set
  BY <1>4, <1>9 DEF OperationFields
<1>12. Creating(B, D, o)
  BY <1>2, <1>3, <1>7, <1>10, <1>11 DEF Creating, TakenSlot
<1>13. Progress(B, D, o)
  BY <1>1, <1>10, <1>11, <1>12 DEF Progress, Linear, Singly, Through
<1>14. Registered(X) => Registered(B)
  <2>1. Typed(X) /\ Typed(B) /\ B.m_account2operation = X.m_account2operation
    BY <1>6, <1>9 DEF Sound, Held, Noted
  <2>2. X.operations[o].over => B.operations[o].over
    BY <1>4, <1>6, <1>11 DEF Noted
  <2>3. QED
    BY <1>9, <2>1, <2>2, StaysRegistered
<1>15. Handles(X, B, D, o)
  BY <1>9, <1>13, <1>14 DEF Handles, Registers
<1>16. store_avatar(A, o, v) = B
  BY DEF store_avatar, update_object_if_equals, B, X, set
<1>17. QED
  BY <1>1, <1>6, <1>15, <1>16, NotedHandles

\* A handler that has an object created.
LEMMA Creates ==
  ASSUME NEW A, NEW D, NEW o \in Ops(A), NEW object \in Objects \ {no_object},
         Sound(A), Idle(A, o), MayAsk(A, o), ~A.operations[o].over,
         LET op == A.operations[o]
         IN  op.kind = "login" \/ (op.kind = "create" /\ OpenSlot(op))
  PROVE  Handles(A, create_object(A, o, object), D, o)
<1> DEFINE B == create_object(A, o, object)
           op == A.operations[o]
           x == Request(A, o, "create", 0, object)
<1>1. GoodRequest(A.operations, x) /\ x.ask = "create"
  BY DEF GoodRequest, Request, Ops
<1>2. /\ Sound(B) /\ Moves(A, B, o) /\ Held(A, B)
      /\ B.operations[o] = [op EXCEPT !.m_contexts = @ \cup {0}]
      /\ Asked(B, o) = Asked(A, o) \cup {x} /\ Coming(B, o) = Coming(A, o)
      /\ Idle(A, o) => Once(B, o)
  BY <1>1, AfterAsk DEF create_object
<1> HIDE DEF B, x
<1>3. /\ B.operations[o].kind = op.kind /\ B.operations[o].over = op.over /\ B.operations[o].arg = op.arg
      /\ B.operations[o].m_av_set = op.m_av_set
  BY <1>2, ClientThere DEF GoodOperation, OperationFields
<1>4. Asked(A, o) = {} /\ Coming(A, o) = {}
  BY DEF Idle, Asked, Coming, Values
<1>5. op.kind = "create" => Creating(B, D, o)
  BY <1>1, <1>2, <1>3, <1>4 DEF Creating, OpenSlot
<1>6. Progress(B, D, o)
  BY <1>2, <1>3, <1>5 DEF Progress, Linear, Singly, Through
<1>7. Registers(A, B)
  <2>1. Typed(A) /\ Typed(B) /\ B.m_account2operation = A.m_account2operation
    BY <1>2 DEF Sound, Held
  <2>2. Registered(A) => Registered(B)
    BY <1>2, <1>3, <2>1, StaysRegistered
  <2>3. QED
    BY <2>2 DEF Registers
<1>8. QED
  BY <1>2, <1>6, <1>7 DEF Handles, B

LEMMA CreateAvatarHandles ==
  ASSUME NEW A, NEW D, NEW o \in Ops(A), Sound(A), Idle(A, o), MayAsk(A, o),
         ~A.operations[o].over, A.operations[o].kind = "create",
         A.operations[o].m_av_set \in AvatarSets, A.operations[o].arg \in Slots
  PROVE  Handles(A, create_avatar(A, o), D, o)
<1> DEFINE op == A.operations[o]
<1>1. op.m_target \in Doids
  BY ClientThere DEF GoodOperation, OfAccount, Kinds, Singly, Linear, Joining, Beside
<1>2. CASE op.m_av_set[op.arg] > 0
  BY <1>2, Kills DEF create_avatar, Singly, Linear
<1>3. CASE ~(op.m_av_set[op.arg] > 0)
  <2>1. OpenSlot(op)
    BY <1>3, ManagerAssumption DEF OpenSlot, AvatarSets
  <2>2. avatar_object(op.m_target) \in Objects \ {no_object}
    BY <1>1 DEF avatar_object, Objects, no_object
  <2>3. Handles(A, create_object(A, o, avatar_object(op.m_target)), D, o)
    BY <2>1, <2>2, Creates
  <2>4. QED
    BY <1>3, <2>3 DEF create_avatar
<1>4. QED
  BY <1>2, <1>3

LEMMA HandleCreateHandles ==
  ASSUME NEW A, NEW D, NEW o, NEW m, Takes(A, D, o, m), m.kind = "create"
  PROVE  Handles(A, handle_create(A, o, m.value), D, o)
<1> DEFINE op == A.operations[o]
           v == m.value
           A1 == [A EXCEPT !.m_bridge[op.arg] = v]
<1>1. /\ op.kind \in {"login", "create"} /\ v \in 0..MaxDoid
      /\ Sound(A) /\ o \in Ops(A) /\ MayAsk(A, o) /\ Present(A.clients[op.client])
  BY DEF Takes, GoodMessage, Replies
<1>2. Idle(A, o) /\ op.kind \in Singly
  BY <1>1 DEF Takes, Singly, Linear
<1>3. CASE v = 0
  BY <1>1, <1>2, <1>3, Kills DEF handle_create
<1>4. CASE v # 0 /\ op.kind = "create"
  <2>1. OpenSlot(op) /\ v \in Doids
    BY <1>1, <1>4, ManagerAssumption DEF Takes, Doids
  <2>2. QED
    BY <1>4, <2>1, StoreHandles DEF handle_create
<1>5. CASE v # 0 /\ op.kind = "login"
  <2>1. v \in Doids
    BY <1>1, <1>5, ManagerAssumption DEF Doids
  <2>2. DOMAIN A = AgentFields /\ DOMAIN A.m_bridge = PlayTokens
        /\ \A t \in PlayTokens : A.m_bridge[t] \in 0..MaxDoid
    BY <1>1 DEF Sound, Typed, Tables
  <2>3. /\ Differ(A, A1, {"m_bridge", "removed", "killed_twice", "crashed"})
        /\ DOMAIN A1.m_bridge = PlayTokens /\ A1.killed_twice = A.killed_twice
        /\ \A t \in PlayTokens : A1.m_bridge[t] \in 0..MaxDoid
    BY <1>1, <2>2 DEF AgentFields, Differ
  <2> HIDE DEF A1
  <2>4. /\ Sound(A1) /\ Moves(A, A1, 0) /\ A1.operations = A.operations
        /\ A1.requests = A.requests /\ A1.mail = A.mail /\ A1.clients = A.clients
        /\ A1.m_account2operation = A.m_account2operation
    BY <1>1, <2>3, Flagged
  <2>5. /\ Moves(A, A1, o) /\ o \in Ops(A1) /\ A1.operations[o] = op /\ Idle(A1, o)
        /\ Registered(A) => Registered(A1)
    BY <1>1, <1>2, <2>4, StillThere
  <2>6. MayAsk(A1, o)
    BY <1>1, <2>4 DEF MayAsk
  <2>7. Handles(A1, set_account(A1, o, v), D, o)
    BY <1>1, <1>5, <2>1, <2>4, <2>5, <2>6, SetAccountHandles
  <2>8. handle_create(A, o, v) = set_account(A1, o, v)
    BY <1>5 DEF handle_create, A1
  <2>9. QED
    BY <1>1, <2>4, <2>5, <2>7, <2>8, ThenHandles
<1>6. QED
  BY <1>1, <1>3, <1>4, <1>5

\* What a client is told of, is in its slot.
Tells(A, X, D) ==
  /\ Differ(A, X, {"told"})
  /\ \A t \in X.told : t \in A.told \/ Filled(D, t[1], t[2], t[3])

LEMMA ToldSound ==
  ASSUME NEW A, NEW X, NEW D, Sound(A), Tells(A, X, D)
  PROVE  Sound(X)
<1>1. /\ X.operations = A.operations /\ X.requests = A.requests /\ X.mail = A.mail
      /\ X.clients = A.clients /\ X.m_account2operation = A.m_account2operation
      /\ X.m_connection2operation = A.m_connection2operation /\ X.m_bridge = A.m_bridge
      /\ DOMAIN X = AgentFields
  BY DEF Tells, Differ, AgentFields
<1>2. Typed(X) /\ Wired(X) /\ Accounted(X) /\ Apart(X)
  BY <1>1 DEF Sound, Typed, Tables, Wired, Accounted, Apart, Ejecting
<1>3. \A o \in 1..Len(X.operations) : Served(X, o)
  BY <1>1 DEF Sound, Served, LoginServed, AccountServed, Idle
<1>4. Allotted(X)
  BY <1>1, StillAllotted DEF Sound
<1>5. QED
  BY <1>2, <1>3, <1>4 DEF Sound

LEMMA HandleUpdateHandles ==
  ASSUME NEW A, NEW D, NEW o, NEW m, Takes(A, D, o, m), m.kind = "update"
  PROVE  \E X : Tells(A, X, D) /\ Handles(X, handle_update(A, o, m.value), D, o)
<1> DEFINE op == A.operations[o]
           t == <<op.m_target, op.arg, op.m_av_set[op.arg]>>
           X == [A EXCEPT !.told = @ \cup {t}]
<1>1. op.kind = "create" /\ Sound(A) /\ o \in Ops(A)
  BY DEF Takes, GoodMessage, Replies
<1>2. Idle(A, o) /\ op.kind \in Singly /\ ~op.over
  BY <1>1 DEF Takes, Singly, Linear, Through
<1>3. DOMAIN A = AgentFields
  BY <1>1 DEF Sound, Typed
<1>4. CASE ~m.value
  <2>1. Tells(A, A, D)
    BY <1>3 DEF Tells, Differ
  <2>2. Handles(A, handle_update(A, o, m.value), D, o)
    BY <1>1, <1>2, <1>4, Kills DEF handle_update
  <2>3. QED
    BY <2>1, <2>2
<1>5. CASE m.value
  <2>1. Filled(D, op.m_target, op.arg, op.m_av_set[op.arg])
    BY <1>1, <1>5 DEF Takes
  <2>2. Filled(D, t[1], t[2], t[3])
    BY <2>1
  <2>3. Differ(A, X, {"told"}) /\ X.told = A.told \cup {t}
    BY <1>3 DEF Differ, AgentFields
  <2>4. handle_update(A, o, m.value) = off(X, o)
    BY <1>5 DEF handle_update
  <2> HIDE DEF X, t
  <2>5. Tells(A, X, D)
    BY <2>2, <2>3 DEF Tells
  <2>6. Sound(X)
    BY <1>1, <2>5, ToldSound
  <2>7. X.operations = A.operations /\ X.requests = A.requests /\ X.mail = A.mail
    BY <2>3 DEF Differ, AgentFields
  <2>8. Idle(X, o) /\ o \in Ops(X)
    BY <1>1, <1>2, <2>7 DEF Idle, Ops
  <2>9. Handles(X, off(X, o), D, o)
    BY <1>2, <2>6, <2>7, <2>8, Ends
  <2>10. QED
    BY <2>4, <2>5, <2>9
<1>6. QED
  BY <1>4, <1>5

-----------------------------------------------------------------------------
(* A list of avatars.                                                        *)
\* What is left of an operation's record, when a list goes on.
LEMMA ListingIs ==
  ASSUME NEW A, NEW D, NEW o, NEW m, Takes(A, D, o, m), A.operations[o].kind = "getavatars"
  PROVE  LET op == A.operations[o]
         IN  /\ GoodOperation(op) /\ OfAccount(op)
             /\ ~op.m_past_acc_query => /\ ~op.over /\ op.m_contexts = {} /\ op.m_pending_avatars = {}
             /\ op.m_past_acc_query =>
                  /\ op.m_contexts \subseteq op.m_pending_avatars \ {m.do_id}
                  /\ m.do_id \in op.m_pending_avatars
                  /\ ~op.over => op.m_contexts = op.m_pending_avatars \ {m.do_id}
                  /\ op.over => op.m_pending_avatars \ (op.m_contexts \cup {m.do_id}) # {}
<1> DEFINE op == A.operations[o]
           q == [op EXCEPT !.m_contexts = @ \cup {m.do_id}]
<1>1. GoodOperation(op) /\ m.do_id \notin op.m_contexts /\ Listing(q)
  BY ClientThere DEF Takes
<1>2. /\ q.m_contexts = op.m_contexts \cup {m.do_id} /\ q.over = op.over
      /\ q.m_past_acc_query = op.m_past_acc_query /\ q.m_pending_avatars = op.m_pending_avatars
      /\ q.m_target = op.m_target
  BY <1>1 DEF GoodOperation, OperationFields
<1> HIDE DEF q
<1>3. OfAccount(op)
  BY DEF OfAccount, Kinds, Singly, Linear, Joining, Beside
<1>4. ASSUME ~op.m_past_acc_query PROVE ~op.over /\ op.m_contexts = {} /\ op.m_pending_avatars = {}
  <2>1. /\ op.m_pending_avatars = {} /\ op.m_contexts \cup {m.do_id} \subseteq {op.m_target}
        /\ op.over => op.m_contexts \cup {m.do_id} = {}
    BY <1>1, <1>2, <1>4 DEF Listing
  <2>2. QED
    BY <1>1, <2>1
<1>5. ASSUME op.m_past_acc_query
      PROVE  /\ op.m_contexts \subseteq op.m_pending_avatars \ {m.do_id}
             /\ m.do_id \in op.m_pending_avatars
             /\ ~op.over => op.m_contexts = op.m_pending_avatars \ {m.do_id}
             /\ op.over => op.m_pending_avatars \ (op.m_contexts \cup {m.do_id}) # {}
  <2>1. /\ op.m_contexts \cup {m.do_id} \subseteq op.m_pending_avatars
        /\ ~op.over => op.m_contexts \cup {m.do_id} = op.m_pending_avatars
        /\ op.over => \/ op.m_contexts \cup {m.do_id} = {}
                      \/ op.m_pending_avatars \ (op.m_contexts \cup {m.do_id}) # {}
    BY <1>1, <1>2, <1>5 DEF Listing
  <2>2. QED
    BY <1>1, <2>1
<1>6. QED
  BY <1>1, <1>3, <1>4, <1>5

\* A list ends, or is killed: nothing is pending any more, or it never can end.
ListEnds(op) ==
  /\ op.kind = "getavatars"
  /\ ~op.m_past_acc_query => op.m_contexts = {} /\ op.m_pending_avatars = {}
  /\ op.m_past_acc_query =>
       /\ op.m_contexts \subseteq op.m_pending_avatars
       /\ op.m_contexts = {} \/ op.m_pending_avatars \ op.m_contexts # {}

LEMMA ListingEnds ==
  ASSUME NEW op, NEW q, GoodOperation(op), ListEnds(op), q = [op EXCEPT !.over = TRUE]
  PROVE  Listing(q) /\ q.kind = "getavatars"
<1>1. /\ q.kind = op.kind /\ q.m_contexts = op.m_contexts /\ q.over
      /\ q.m_past_acc_query = op.m_past_acc_query /\ q.m_pending_avatars = op.m_pending_avatars
  BY DEF GoodOperation, OperationFields
<1>2. QED
  BY <1>1 DEF ListEnds, Listing

LEMMA EndsList ==
  ASSUME NEW A, NEW D, NEW o \in Ops(A), Sound(A), ListEnds(A.operations[o]), ~A.operations[o].over
  PROVE  Handles(A, off(A, o), D, o)
<1> DEFINE B == off(A, o)
           op == A.operations[o]
<1>1. /\ Sound(B) /\ Moves(A, B, o)
      /\ B.operations[o] = [op EXCEPT !.over = TRUE]
      /\ Registered(A) /\ (op.kind = "login" \/ (OfAccount(op) /\ (~op.over \/ op.m_target \in A.disowned)))
           => Registered(B)
  BY AfterOff
<1> HIDE DEF B
<1>2. GoodOperation(op) /\ OfAccount(op)
  BY ClientThere DEF ListEnds, OfAccount, Kinds, Singly, Linear, Joining, Beside
<1>3. Listing(B.operations[o]) /\ B.operations[o].kind = "getavatars"
  BY <1>1, <1>2, ListingEnds
<1>4. Progress(B, D, o)
  BY <1>3 DEF Progress, Singly, Linear
<1>5. QED
  BY <1>1, <1>2, <1>4 DEF Handles, Registers, B

LEMMA KillsList ==
  ASSUME NEW A, NEW D, NEW o \in Ops(A), Sound(A), ListEnds(A.operations[o])
  PROVE  Handles(A, kill(A, o), D, o)
<1> DEFINE B == kill(A, o)
           op == A.operations[o]
<1>1. GoodOperation(op) /\ OfAccount(op)
  BY ClientThere DEF ListEnds, OfAccount, Kinds, Singly, Linear, Joining, Beside
<1>2. /\ Sound(B) /\ Moves(A, B, o) /\ Registers(A, B)
      /\ B.crashed \/ B.operations[o] = [op EXCEPT !.over = TRUE]
  BY <1>1, AfterKill
<1> HIDE DEF B
<1>3. ASSUME ~B.crashed PROVE Progress(B, D, o)
  <2>1. Listing(B.operations[o]) /\ B.operations[o].kind = "getavatars"
    BY <1>1, <1>2, <1>3, ListingEnds
  <2>2. QED
    BY <2>1 DEF Progress, Singly, Linear
<1>4. QED
  BY <1>2, <1>3 DEF Handles, B

LEMMA AvatarsAre ==
  ASSUME NEW op, op.m_av_set \in AvatarSets
  PROVE  AvatarsOf(op) \in SUBSET Doids
BY ManagerAssumption DEF AvatarsOf, AvatarSets, ToSet, Doids

\* The account's list is read, and every avatar on it is asked for.
LEMMA QueryAvatarsHandles ==
  ASSUME NEW A, NEW D, NEW o \in Ops(A), Sound(A), MayAsk(A, o),
         LET op == A.operations[o]
         IN  /\ op.kind = "getavatars" /\ op.m_past_acc_query /\ ~op.over
             /\ op.m_contexts = {} /\ op.m_av_set \in AvatarSets
  PROVE  Handles(A, query_avatars(A, o), D, o)
<1> DEFINE op == A.operations[o]
           found == AvatarsOf(op)
           q == [op EXCEPT !.m_pending_avatars = found]
           X == [A EXCEPT !.operations[o].m_pending_avatars = found]
           B == query_objects(X, o, found)
<1>1. GoodOperation(op) /\ OfAccount(op) /\ found \in SUBSET Doids
  BY ClientThere, AvatarsAre DEF OfAccount, Kinds, Singly, Linear, Joining, Beside
<1> HIDE DEF found
<1>2. /\ GoodOperation(q) /\ Alike(op, q) /\ q.over = op.over /\ q.m_pending_avatars = found
      /\ q.kind = "getavatars" /\ q.m_contexts = {} /\ q.m_past_acc_query /\ DOMAIN q = OperationFields
  BY <1>1 DEF GoodOperation, OperationFields, Alike, OfAccount
<1>3. Notes(A, X, o, q)
  BY <1>2 DEF Sound, Typed, AgentFields, Differ, Notes
<1>4. Noted(A, X, o, q)
  BY <1>3, AfterNote
<1>5. query_avatars(A, o) = IF found = {} THEN off(X, o) ELSE B
  BY DEF query_avatars, send_avatars, found
<1> HIDE DEF X, q
<1>6. CASE found = {}
  <2>1. ListEnds(q)
    BY <1>2, <1>6 DEF ListEnds
  <2>2. Handles(X, off(X, o), D, o)
    BY <1>2, <1>4, <2>1, EndsList DEF Noted
  <2>3. QED
    BY <1>4, <1>5, <1>6, <2>2, NotedHandles
<1>7. CASE found # {}
  <2>1. /\ Sound(B) /\ Moves(X, B, o) /\ Held(X, B)
        /\ B.operations[o] = [q EXCEPT !.m_contexts = @ \cup found]
    BY <1>1, <1>4, AfterQueries DEF Noted
  <2> HIDE DEF B
  <2>2. /\ B.operations[o].kind = "getavatars" /\ B.operations[o].m_contexts = found
        /\ B.operations[o].m_pending_avatars = found /\ B.operations[o].m_past_acc_query
        /\ B.operations[o].over = q.over
    BY <1>2, <2>1 DEF OperationFields
  <2>3. Listing(B.operations[o])
    BY <1>2, <2>2 DEF Listing
  <2>4. Progress(B, D, o)
    BY <2>2, <2>3 DEF Progress, Singly, Linear
  <2>5. Registered(X) => Registered(B)
    <3>1. Typed(X) /\ Typed(B) /\ B.m_account2operation = X.m_account2operation
      BY <1>4, <2>1 DEF Sound, Held, Noted
    <3>2. X.operations[o].over => B.operations[o].over
      BY <1>4, <2>2 DEF Noted
    <3>3. QED
      BY <2>1, <3>1, <3>2, StaysRegistered
  <2>6. Handles(X, B, D, o)
    BY <2>1, <2>4, <2>5 DEF Handles, Registers
  <2>7. QED
    BY <1>4, <1>5, <1>7, <2>6, NotedHandles
<1>8. QED
  BY <1>6, <1>7

\* An avatar of the list is described.
LEMMA GotAvatarHandles ==
  ASSUME NEW A, NEW D, NEW o, NEW m, Takes(A, D, o, m), A.operations[o].kind = "getavatars",
         A.operations[o].m_past_acc_query
  PROVE  Handles(A, got_avatar(A, o, m.do_id), D, o)
<1> DEFINE op == A.operations[o]
           v == m.do_id
           left == op.m_pending_avatars \ {v}
           q == [op EXCEPT !.m_pending_avatars = left]
           X == [A EXCEPT !.operations[o].m_pending_avatars = left]
<1>1. /\ GoodOperation(op) /\ OfAccount(op) /\ Sound(A) /\ o \in Ops(A)
      /\ op.m_contexts \subseteq left
      /\ ~op.over => op.m_contexts = left
      /\ op.over => left \ op.m_contexts # {}
  <2>1. op.over => left \ op.m_contexts # {}
    BY ListingIs
  <2>2. QED
    BY <2>1, ListingIs DEF Takes
<1> HIDE DEF left
<1>2. /\ GoodOperation(q) /\ Alike(op, q) /\ q.over = op.over /\ q.m_pending_avatars = left
      /\ q.kind = "getavatars" /\ q.m_contexts = op.m_contexts /\ q.m_past_acc_query
  BY <1>1 DEF GoodOperation, OperationFields, Alike, OfAccount
<1>3. Notes(A, X, o, q)
  BY <1>1, <1>2 DEF Sound, Typed, AgentFields, Differ, Notes
<1>4. Noted(A, X, o, q)
  BY <1>1, <1>3, AfterNote
<1>5. got_avatar(A, o, v) = IF X.operations[o].m_pending_avatars = {} THEN off(X, o) ELSE X
  BY DEF got_avatar, send_avatars, left
<1> HIDE DEF X, q
<1>6. X.operations[o] = q
  BY <1>4 DEF Noted
<1>7. CASE left = {}
  <2>1. ListEnds(q) /\ ~q.over
    BY <1>1, <1>2, <1>7 DEF ListEnds
  <2>2. Handles(X, off(X, o), D, o)
    BY <1>4, <2>1, EndsList DEF Noted
  <2>3. QED
    BY <1>1, <1>2, <1>4, <1>5, <1>6, <1>7, <2>2, NotedHandles
<1>8. CASE left # {}
  <2>1. Listing(q)
    BY <1>1, <1>2 DEF Listing
  <2>2. Progress(X, D, o)
    BY <1>2, <1>6, <2>1 DEF Progress, Singly, Linear
  <2>3. QED
    BY <1>2, <1>4, <1>5, <1>6, <1>8, <2>2 DEF Handles, Registers, Noted
<1>9. QED
  BY <1>7, <1>8

-----------------------------------------------------------------------------
(* The account, or an avatar, is read.                                       *)
LEMMA ObjectIs ==
  ASSUME NEW x \in ObjectsNow
  PROVE  /\ x.class = "account" => x.ACCOUNT_AV_SET \in AvatarSets
         /\ x.class = "avatar" => x.setFriendsList \in SUBSET Doids
<1>1. CASE x \in {account_object(av_set) : av_set \in AvatarSets}
  BY <1>1 DEF account_object
<1>2. CASE x \in [class : {"avatar"}, setDISLid : Doids, WishNameState : {"OPEN", "LOCKED"},
                  setFriendsList : SUBSET Doids]
  BY <1>2
<1>3. CASE x = no_object \/ x = dead_object
  BY <1>3 DEF no_object, dead_object
<1>4. QED
  BY <1>1, <1>2, <1>3 DEF ObjectsNow, Objects

\* One that asks for its account, and then for an avatar.
LEMMA PostAccountHandles ==
  ASSUME NEW A, NEW D, NEW o \in Ops(A), Sound(A), Idle(A, o), MayAsk(A, o),
         A.operations[o].kind \in {"typed", "pattern", "load"}, ~Through(A.operations[o])
  PROVE  Handles(A, post_account_func(A, o), D, o)
<1> DEFINE op == A.operations[o]
<1>1. op.kind \in Linear /\ op.kind \in Singly /\ op.kind # "getavatars" /\ op.kind # "create"
  BY DEF Linear, Singly
<1>2. op.arg \in Doids
  BY ClientThere DEF GoodOperation, OfAvatar, Through
<1>3. Handles(A, kill(A, o), D, o)
  BY <1>1, Kills
<1>4. Handles(A, query_object(A, o, op.arg), D, o)
  BY <1>1, <1>2, Queries
<1>5. post_account_func(A, o) = IF op.arg \notin ToSet(op.m_av_set) THEN kill(A, o)
                                ELSE query_object(A, o, op.arg)
  BY <1>1 DEF post_account_func
<1>6. QED
  BY <1>3, <1>4, <1>5

LEMMA HandleAccountHandles ==
  ASSUME NEW A, NEW D, NEW o, NEW m, Takes(A, D, o, m), m.kind = "query",
         A.operations[o].kind \notin FriendKinds \cup {"details"}, ~A.operations[o].m_past_acc_query
  PROVE  Handles(A, handle_account(A, o, m.do_id, m.value), D, o)
<1> DEFINE op == A.operations[o]
           a == m.do_id
           object == m.value
           got == [A EXCEPT !.operations[o].m_past_acc_query = TRUE,
                            !.operations[o].m_av_set = object.ACCOUNT_AV_SET]
           q == [op EXCEPT !.m_past_acc_query = TRUE, !.m_av_set = object.ACCOUNT_AV_SET]
<1>1. /\ Sound(A) /\ o \in Ops(A) /\ MayAsk(A, o) /\ Present(A.clients[op.client])
      /\ a \in Doids /\ object \in ObjectsNow /\ GoodOperation(op)
  BY ClientThere DEF Takes, GoodMessage
<1>2. op.kind \in {"login", "create", "typed", "pattern", "load", "getavatars"}
  BY <1>1 DEF GoodOperation, Kinds, Singly, Linear, Beside, FriendKinds, Takes, Through
<1>3. op.kind # "getavatars" =>
        op.kind \in Linear /\ op.kind \in Singly /\ Idle(A, o) /\ ~Through(op) /\ ~op.over
  BY <1>2 DEF Takes, Singly, Linear, Through
<1>4. CASE object.class # "account"
  <2>1. CASE op.kind = "getavatars"
    <3>1. ListEnds(op)
      BY <2>1, ListingIs DEF ListEnds
    <3>2. QED
      BY <1>1, <1>4, <3>1, KillsList DEF handle_account
  <2>2. CASE op.kind # "getavatars"
    BY <1>1, <1>3, <1>4, <2>2, Kills DEF handle_account
  <2>3. QED
    BY <2>1, <2>2
<1>5. CASE object.class = "account" /\ op.kind = "login"
  <2>1. handle_account(A, o, a, object) = set_account(A, o, a)
    BY <1>5 DEF handle_account
  <2>2. QED
    BY <1>1, <1>3, <1>5, <2>1, SetAccountHandles
<1>6. CASE object.class = "account" /\ op.kind # "login"
  <2>1. object.ACCOUNT_AV_SET \in AvatarSets
    BY <1>1, <1>6, ObjectIs
  <2>2. /\ GoodOperation(q) /\ Alike(op, q) /\ q.over = op.over /\ q.m_past_acc_query
        /\ q.m_av_set \in AvatarSets /\ q.kind = op.kind /\ q.arg = op.arg
        /\ q.m_contexts = op.m_contexts
    BY <1>1, <2>1 DEF GoodOperation, OperationFields, Alike, OfAccount
  <2>3. Notes(A, got, o, q)
    <3>1. /\ DOMAIN A = AgentFields /\ DOMAIN A.operations = 1..Len(A.operations)
          /\ o \in DOMAIN A.operations /\ DOMAIN op = OperationFields
      BY <1>1, SeqLength DEF Sound, Typed, Ops, GoodOperation
    <3>2. Differ(A, got, {"operations"}) /\ got.operations = [A.operations EXCEPT ![o] = q]
      BY <3>1 DEF AgentFields, Differ, OperationFields
    <3>3. QED
      BY <2>2, <3>2 DEF Notes
  <2>4. Noted(A, got, o, q)
    BY <1>1, <2>3, AfterNote
  <2>5. handle_account(A, o, a, object) =
          IF op.kind = "create" THEN create_avatar(got, o) ELSE post_account_func(got, o)
    BY <1>6 DEF handle_account
  <2> HIDE DEF got, q
  <2>6. /\ Sound(got) /\ o \in Ops(got) /\ MayAsk(got, o) /\ got.operations[o] = q
        /\ op.kind # "getavatars" => Idle(got, o)
    BY <1>1, <1>3, <2>4 DEF Noted
  <2>7. CASE op.kind = "create"
    <3>1. op.arg \in Slots
      BY <2>7 DEF Takes
    <3>2. Handles(got, create_avatar(got, o), D, o)
      BY <1>3, <2>2, <2>6, <2>7, <3>1, CreateAvatarHandles
    <3>3. QED
      BY <1>1, <2>4, <2>5, <2>7, <3>2, NotedHandles
  <2>8. CASE op.kind = "getavatars"
    <3>1. ~op.over /\ op.m_contexts = {}
      BY <2>8, ListingIs
    <3>2. Handles(got, query_avatars(got, o), D, o)
      BY <2>2, <2>6, <2>8, <3>1, QueryAvatarsHandles
    <3>3. post_account_func(got, o) = query_avatars(got, o)
      BY <2>2, <2>6, <2>8 DEF post_account_func
    <3>4. QED
      BY <1>1, <2>4, <2>5, <2>8, <3>2, <3>3, NotedHandles
  <2>9. CASE op.kind \in {"typed", "pattern", "load"}
    <3>1. ~Through(q)
      BY <1>3, <2>2, <2>9 DEF Through
    <3>2. Handles(got, post_account_func(got, o), D, o)
      BY <2>2, <2>6, <2>9, <3>1, PostAccountHandles
    <3>3. QED
      BY <1>1, <2>4, <2>5, <2>9, <3>2, NotedHandles
  <2>10. QED
    BY <1>2, <1>6, <2>7, <2>8, <2>9
<1>7. QED
  BY <1>4, <1>5, <1>6

\* The name is noted; whichever operation comes here ends.
LEMMA NamesHandles ==
  ASSUME NEW A, NEW D, NEW o \in Ops(A), Sound(A), Idle(A, o),
         A.operations[o].kind \in Singly, ~A.operations[o].over
  PROVE  Handles(A, set_name(A, o), D, o)
<1> DEFINE op == A.operations[o]
           fields == [WishNameState |-> IF op.kind = "pattern" THEN "LOCKED" ELSE "OPEN"]
           X == update_object(A, op.arg, fields)
<1>1. set_name(A, o) = off(X, o)
  BY DEF set_name
<1>2. fields \in Updates
  BY DEF Updates
<1> HIDE DEF fields
<1>3. Sound(X) /\ Moves(A, X, 0) /\ Held(A, X) /\ X.operations = A.operations
  BY <1>2, AfterUpdate
<1> HIDE DEF X
<1>4. /\ Moves(A, X, o) /\ o \in Ops(X) /\ X.operations[o] = op /\ Idle(X, o)
      /\ Registered(A) => Registered(X)
  BY <1>3, StillThere DEF Held
<1>5. Handles(X, off(X, o), D, o)
  BY <1>3, <1>4, Ends
<1>6. QED
  BY <1>1, <1>3, <1>4, <1>5, ThenHandles

LEMMA HandleAvatarHandles ==
  ASSUME NEW A, NEW D, NEW o, NEW m, Takes(A, D, o, m), m.kind = "query",
         A.operations[o].kind \notin FriendKinds, A.operations[o].m_past_acc_query
  PROVE  Handles(A, handle_avatar(A, o, m.do_id, m.value), D, o)
<1> DEFINE op == A.operations[o]
           v == m.do_id
           object == m.value
<1>1. Sound(A) /\ o \in Ops(A) /\ Present(A.clients[op.client]) /\ GoodOperation(op)
  BY ClientThere DEF Takes
<1>2. op.kind = "getavatars" \/ op.kind \in Linear
  BY <1>1 DEF GoodOperation, Kinds, Singly, Beside, FriendKinds
<1>3. op.kind # "getavatars" => op.kind \in Singly /\ Idle(A, o) /\ ~op.over
  BY <1>2 DEF Takes, Singly, Through
<1>4. CASE op.kind = "getavatars"
  <2>1. ListEnds(op)
    BY <1>4, ListingIs DEF ListEnds
  <2>2. Handles(A, kill(A, o), D, o)
    BY <1>1, <2>1, KillsList
  <2>3. Handles(A, got_avatar(A, o, v), D, o)
    BY <1>4, GotAvatarHandles
  <2>4. QED
    BY <1>4, <2>2, <2>3 DEF handle_avatar
<1>5. CASE op.kind # "getavatars"
  <2>1. Handles(A, kill(A, o), D, o)
    BY <1>1, <1>3, <1>5, Kills
  <2>2. Handles(A, set_name(A, o), D, o)
    BY <1>1, <1>3, <1>5, NamesHandles
  <2>3. op.kind = "load" => Handles(A, set_avatar(A, o), D, o)
    BY <1>1, <1>3, SetAvatarHandles
  <2>4. QED
    BY <1>5, <2>1, <2>2, <2>3 DEF handle_avatar
<1>6. QED
  BY <1>4, <1>5

LEMMA CrashHandles ==
  ASSUME NEW A, NEW D, NEW o \in Ops(A), Sound(A)
  PROVE  Handles(A, Crash(A), D, o)
<1> DEFINE B == Crash(A)
<1>1. /\ Sound(B) /\ Moves(A, B, 0) /\ B.operations = A.operations /\ B.crashed
      /\ B.m_account2operation = A.m_account2operation
  BY AfterCrash
<1> HIDE DEF B
<1>2. Moves(A, B, o)
  BY <1>1, StillThere
<1>3. QED
  BY <1>1, <1>2 DEF Handles, Registers, B

LEMMA HandleDetailsHandles ==
  ASSUME NEW A, NEW D, NEW o, NEW m, Takes(A, D, o, m), A.operations[o].kind = "details"
  PROVE  Handles(A, handle_details(A, o, m.value), D, o)
<1>1. Sound(A) /\ o \in Ops(A) /\ Idle(A, o) /\ ~A.operations[o].over /\ A.operations[o].kind \in Singly
  BY DEF Takes, Singly, Linear, Through
<1>2. Handles(A, off(A, o), D, o) /\ Handles(A, Crash(A), D, o)
  BY <1>1, Ends, CrashHandles
<1>3. QED
  BY <1>2 DEF handle_details

-----------------------------------------------------------------------------
(* Friends.                                                                  *)
\* From A to B nothing happens to o.
Elsewhere(A, B, o) ==
  /\ Sound(B) /\ Moves(A, B, o) /\ o \in Ops(B) /\ Same(A, B, o)
  /\ B.clients = A.clients /\ B.disowned = A.disowned
  /\ Registered(A) => Registered(B)

LEMMA ElsewhereIs ==
  ASSUME NEW A, NEW B, NEW o \in Ops(A), Sound(A), Sound(B), Moves(A, B, 0), Held(A, B)
  PROVE  Elsewhere(A, B, o)
<1>1. Moves(A, B, o) /\ Same(A, B, o)
  BY StillMoves DEF Sound
<1>2. o \in Ops(B) /\ (Registered(A) => Registered(B))
  BY StillThere DEF Held
<1>3. QED
  BY <1>1, <1>2 DEF Elsewhere, Held

LEMMA ElsewhereOn ==
  ASSUME NEW A, NEW X, NEW B, NEW o, Sound(A), Elsewhere(A, X, o), Elsewhere(X, B, o)
  PROVE  Elsewhere(A, B, o)
<1>1. Moves(A, B, o)
  BY MovesOn DEF Elsewhere, Sound
<1>2. QED
  BY <1>1 DEF Elsewhere, Same

LEMMA ElsewhereHandles ==
  ASSUME NEW A, NEW X, NEW B, NEW D, NEW o, Sound(A), Elsewhere(A, X, o), Handles(X, B, D, o)
  PROVE  Handles(A, B, D, o)
BY ThenHandles DEF Elsewhere

\* Somebody is told something.
LEMMA TellsElsewhere ==
  ASSUME NEW A, NEW o \in Ops(A), NEW to, NEW v, Sound(A)
  PROVE  Elsewhere(A, Declare(A, to, v), o) /\ Elsewhere(A, Undeclare(A, to, v), o)
<1>1. ASSUME NEW m, GoodMessage(A.operations, m), m.kind \notin Replies
      PROVE  Elsewhere(A, Post(A, m), o)
  BY <1>1, AfterPost, ElsewhereIs
<1>2. ASSUME NEW kind \in {"declare", "undeclare"}
      PROVE  LET m == [kind |-> kind, to |-> to, do_id |-> v]
             IN  GoodMessage(A.operations, m) /\ m.kind \notin Replies
  BY DEF GoodMessage, Replies
<1>3. QED
  BY <1>1, <1>2 DEF Declare, Undeclare

LEMMA TellsTwo ==
  ASSUME NEW A, NEW o \in Ops(A), NEW to, NEW v, NEW to2, NEW w, Sound(A)
  PROVE  /\ Elsewhere(A, Declare(Declare(A, to, v), to2, w), o)
         /\ Elsewhere(A, Undeclare(Undeclare(A, to, v), to2, w), o)
<1> DEFINE X == Declare(A, to, v)
           Y == Undeclare(A, to, v)
<1>1. Elsewhere(A, X, o) /\ Elsewhere(A, Y, o)
  BY TellsElsewhere
<1> HIDE DEF X, Y
<1>2. Sound(X) /\ o \in Ops(X) /\ Sound(Y) /\ o \in Ops(Y)
  BY <1>1 DEF Elsewhere
<1>3. Elsewhere(X, Declare(X, to2, w), o) /\ Elsewhere(Y, Undeclare(Y, to2, w), o)
  BY <1>2, TellsElsewhere
<1>4. Elsewhere(A, Declare(X, to2, w), o) /\ Elsewhere(A, Undeclare(Y, to2, w), o)
  BY <1>1, <1>3, ElsewhereOn
<1>5. QED
  BY <1>4 DEF X, Y

LEMMA NothingElsewhere ==
  ASSUME NEW A, NEW o \in Ops(A), Sound(A)
  PROVE  Elsewhere(A, A, o)
BY DEF Elsewhere, Moves, Same, Alike, Ops, Sound, Typed

\* An announcement, which runs beside the account's operation.
BesideGoes(A, B, o) == Sound(B) /\ Moves(A, B, o) /\ (Registered(A) => Registered(B))

LEMMA BesideHandles ==
  ASSUME NEW A, NEW B, NEW D, NEW o \in Ops(A), A.operations[o].kind \in Beside, BesideGoes(A, B, o)
  PROVE  Handles(A, B, D, o)
<1>1. B.operations[o].kind \in Beside
  BY DEF BesideGoes, Moves, Alike
<1>2. Progress(B, D, o)
  BY <1>1 DEF Progress, Singly, Linear, Beside
<1>3. QED
  BY <1>2 DEF BesideGoes, Handles, Registers

LEMMA AnnouncementHandles ==
  ASSUME NEW A, NEW D, NEW o, NEW m, Takes(A, D, o, m), A.operations[o].kind \in Beside,
         m.kind \in {"query", "activated"}
  PROVE  Handles(A, IF m.kind = "query" THEN handle_friends_query(A, o, m.do_id, m.value)
                    ELSE get_activated_resp(A, o, m.do_id, m.value), D, o)
<1> DEFINE op == A.operations[o]
           object == m.value
           q == [op EXCEPT !.m_acc_id = object.setDISLid]
           X == [A EXCEPT !.operations[o].m_acc_id = object.setDISLid]
           B == AskEachActivated(X, o, object.setFriendsList)
<1>1. Sound(A) /\ o \in Ops(A) /\ MayAsk(A, o) /\ GoodOperation(op) /\ op.kind \in FriendKinds
      /\ op.kind # "removefriend" /\ op.kind # "friendslist"
  BY ClientThere DEF Takes, Beside, FriendKinds
<1>2. \A C : Elsewhere(A, C, o) => Handles(A, C, D, o)
  BY <1>1, BesideHandles DEF Elsewhere, BesideGoes
<1>3. Handles(A, A, D, o)
  BY <1>1, <1>2, NothingElsewhere
<1>4. CASE m.kind = "query"
  <2>1. CASE object.class # "avatar"
    BY <1>1, <1>3, <1>4, <2>1 DEF handle_friends_query, friends_failure
  <2>2. CASE object.class = "avatar"
    <3>1. object.setFriendsList \in SUBSET Doids
      BY <1>4, <2>2, ObjectIs DEF Takes, GoodMessage
    <3>2. GoodOperation(q) /\ Alike(op, q) /\ q.over = op.over /\ q.kind = op.kind
      BY <1>1 DEF GoodOperation, OperationFields, Alike, OfAccount
    <3>3. Notes(A, X, o, q)
      BY <1>1, <3>2 DEF Sound, Typed, AgentFields, Differ, Notes
    <3>4. Noted(A, X, o, q)
      BY <1>1, <3>3, AfterNote
    <3>5. handle_friends_query(A, o, m.do_id, object) = B
      BY <1>1, <2>2 DEF handle_friends_query
    <3> HIDE DEF X, q
    <3>6. /\ Sound(B) /\ Moves(X, B, o) /\ Held(X, B)
          /\ B.operations[o] = [q EXCEPT !.m_contexts = @ \cup object.setFriendsList]
      BY <1>1, <3>1, <3>2, <3>4, AfterEach DEF Noted
    <3> HIDE DEF B
    <3>7. Registered(X) => Registered(B)
      <4>1. Typed(X) /\ Typed(B) /\ B.m_account2operation = X.m_account2operation
        BY <3>4, <3>6 DEF Sound, Held, Noted
      <4>2. X.operations[o].over => B.operations[o].over
        BY <3>2, <3>4, <3>6 DEF Noted, GoodOperation, OperationFields
      <4>3. QED
        BY <3>6, <4>1, <4>2, StaysRegistered
    <3>8. BesideGoes(X, B, o)
      BY <3>6, <3>7 DEF BesideGoes
    <3>9. Handles(X, B, D, o)
      BY <1>1, <3>2, <3>4, <3>8, BesideHandles DEF Noted
    <3>10. QED
      BY <1>1, <1>4, <3>4, <3>5, <3>9, NotedHandles
  <2>3. QED
    BY <2>1, <2>2
<1>5. CASE m.kind = "activated"
  <2>1. Handles(A, tell_online(A, o, m.do_id), D, o)
    BY <1>1, <1>2, TellsTwo DEF tell_online
  <2>2. Handles(A, tell_offline(A, o, m.do_id), D, o)
    BY <1>1, <1>2, TellsTwo DEF tell_offline
  <2>3. QED
    BY <1>1, <1>3, <1>5, <2>1, <2>2 DEF get_activated_resp
<1>6. QED
  BY <1>4, <1>5

\* Nothing more happens to an operation that has nothing under way.
LEMMA RestsHandles ==
  ASSUME NEW A, NEW B, NEW D, NEW o \in Ops(A), Sound(A), Idle(A, o),
         A.operations[o].kind = "removefriend", Elsewhere(A, B, o)
  PROVE  Handles(A, B, D, o)
<1>1. Idle(B, o) /\ B.operations[o] = A.operations[o] /\ o \in Ops(B)
  BY DEF Elsewhere, Same, Idle
<1>2. Progress(B, D, o)
  BY <1>1, IdleProgress DEF Singly
<1>3. QED
  BY <1>2 DEF Elsewhere, Handles, Registers

\* A friend is struck off the list that was read; is the avatar in RAM?
LEMMA RemoveFriendHandles ==
  ASSUME NEW A, NEW D, NEW o, NEW m, Takes(A, D, o, m), A.operations[o].kind = "removefriend",
         m.kind = "query", NEW friends \in SUBSET Doids
  PROVE  Handles(A, handle_remove_friend(A, o, m.do_id, friends), D, o)
<1> DEFINE op == A.operations[o]
           v == m.do_id
           list == friends \ {TheOther(op, v)}
           q == [op EXCEPT !.m_friends_list = list]
           X == [A EXCEPT !.operations[o].m_friends_list = list]
           Y == get_activated(X, o, v)
           B == off(Y, o)
           x == IsActivated(X, o, v)
<1>1. Sound(A) /\ o \in Ops(A) /\ Idle(A, o) /\ (op.over => op.m_last) /\ GoodOperation(op)
  BY ClientThere DEF Takes, Singly
<1>2. list \subseteq Doids
  OBVIOUS
<1> HIDE DEF list
<1>3. /\ GoodOperation(q) /\ Alike(op, q) /\ q.over = op.over /\ q.m_last = op.m_last
      /\ q.kind = "removefriend"
  BY <1>1, <1>2 DEF GoodOperation, OperationFields, Alike, OfAccount
<1>4. Notes(A, X, o, q)
  BY <1>1, <1>3 DEF Sound, Typed, AgentFields, Differ, Notes
<1>5. Noted(A, X, o, q)
  BY <1>1, <1>4, AfterNote
<1>6. handle_remove_friend(A, o, v, friends) = IF op.m_last THEN Y ELSE B
  BY DEF handle_remove_friend, list
<1> HIDE DEF X, q
<1>7. /\ Sound(Y) /\ Moves(X, Y, o) /\ Held(X, Y)
      /\ Y.operations[o] = [q EXCEPT !.m_contexts = @ \cup {v}]
      /\ Asked(Y, o) = Asked(X, o) /\ Coming(Y, o) = Coming(X, o) \cup {x}
      /\ x.kind = "get_activated" /\ Once(Y, o)
  BY <1>1, <1>3, <1>5, AfterIsActivated DEF Noted, FriendKinds
<1> HIDE DEF Y, x
<1>8. Asked(Y, o) = {} /\ \A y \in Coming(Y, o) : y.kind # "query"
  BY <1>1, <1>5, <1>7 DEF Noted, Idle, Asked, Coming, Values
<1>9. Y.operations[o].over = op.over /\ Y.operations[o].kind = "removefriend"
      /\ Y.operations[o].m_last = op.m_last
  BY <1>3, <1>7 DEF GoodOperation, OperationFields
<1>10. Registered(X) => Registered(Y)
  <2>1. Typed(X) /\ Typed(Y) /\ Y.m_account2operation = X.m_account2operation
    BY <1>5, <1>7 DEF Sound, Held, Noted
  <2>2. X.operations[o].over => Y.operations[o].over
    BY <1>3, <1>5, <1>9 DEF Noted
  <2>3. QED
    BY <1>7, <2>1, <2>2, StaysRegistered
<1>11. CASE op.m_last
  <2>1. Progress(Y, D, o)
    BY <1>7, <1>8, <1>9, <1>11 DEF Progress, Singly, Linear
  <2>2. Handles(X, Y, D, o)
    BY <1>7, <1>10, <2>1 DEF Handles, Registers
  <2>3. QED
    BY <1>1, <1>5, <1>6, <1>11, <2>2, NotedHandles
<1>12. CASE ~op.m_last
  <2>1. o \in Ops(Y) /\ OfAccount(Y.operations[o])
    <3>1. Len(X.operations) \in Nat /\ Len(Y.operations) \in Nat /\ Len(X.operations) <= Len(Y.operations)
      BY <1>5, <1>7, OpsAre DEF Sound, Noted, Moves
    <3>2. QED
      BY <1>5, <1>9, <3>1 DEF Ops, Noted, OfAccount, Kinds, Singly, Linear, Joining, Beside
  <2>2. /\ Sound(B) /\ Moves(Y, B, o)
        /\ B.operations[o] = [Y.operations[o] EXCEPT !.over = TRUE]
        /\ B.requests = Y.requests /\ B.mail = Y.mail
        /\ Registered(Y) => Registered(B)
    <3> DEFINE p == Y.operations[o]
    <3>1. /\ Sound(B) /\ Moves(Y, B, o) /\ B.operations[o] = [p EXCEPT !.over = TRUE]
          /\ B.requests = Y.requests /\ B.mail = Y.mail
          /\ Registered(Y) /\ (p.kind = "login" \/ (OfAccount(p) /\ (~p.over \/ p.m_target \in Y.disowned)))
               => Registered(B)
      <4>1. Sound(Y) /\ o \in Ops(Y)
        BY <1>7, <2>1
      <4>2. QED
        BY ONLY <4>1, AfterOff
    <3>2. ~p.over
      BY <1>1, <1>9, <1>12
    <3> HIDE DEF B
    <3>3. QED
      BY <2>1, <3>1, <3>2
  <2> HIDE DEF B
  <2>3. B.operations[o].over /\ B.operations[o].kind = "removefriend"
    BY <1>7, <1>9, <2>1, <2>2, ClientThere DEF GoodOperation, OperationFields
  <2>4. Asked(B, o) = Asked(Y, o) /\ Coming(B, o) = Coming(Y, o) /\ Once(B, o)
    BY <1>7, <2>2 DEF Asked, Coming, Once
  <2>5. Progress(B, D, o)
    BY <1>8, <2>3, <2>4 DEF Progress, Singly, Linear
  <2>6. Handles(Y, B, D, o)
    BY <2>2, <2>5 DEF Handles, Registers
  <2>7. Handles(X, B, D, o)
    BY <1>5, <1>7, <1>10, <2>6, ThenHandles DEF Noted
  <2>8. QED
    BY <1>1, <1>5, <1>6, <1>12, <2>7, NotedHandles
<1>13. QED
  BY <1>11, <1>12

\* One side is done: the other follows, or both friends are told.
LEMMA FriendRemovedHandles ==
  ASSUME NEW A, NEW D, NEW o \in Ops(A), NEW v, Sound(A), Idle(A, o),
         A.operations[o].kind = "removefriend"
  PROVE  Handles(A, handle_friend_removed(A, o, v), D, o)
<1> DEFINE op == A.operations[o]
           f == TheOther(op, v)
           q == [op EXCEPT !.m_last = TRUE]
           X == [A EXCEPT !.operations[o].m_last = TRUE]
           Y == Undeclare(Undeclare(A, puppet(f), v), puppet(v), f)
           B == [Y EXCEPT !.removed = @ \cup {op.arg}]
<1>1. GoodOperation(op) /\ f \in Doids
  BY ClientThere DEF GoodOperation, TheOther
<1> HIDE DEF f
<1>2. handle_friend_removed(A, o, v) = IF ~op.m_last THEN query_object(X, o, f) ELSE B
  BY DEF handle_friend_removed, f
<1>3. CASE ~op.m_last
  <2>1. GoodOperation(q) /\ Alike(op, q) /\ q.over = op.over /\ q.m_last /\ q.kind = "removefriend"
    BY <1>1 DEF GoodOperation, OperationFields, Alike, OfAccount
  <2>2. Notes(A, X, o, q)
    BY <2>1 DEF Sound, Typed, AgentFields, Differ, Notes
  <2>3. Noted(A, X, o, q)
    BY <2>2, AfterNote
  <2> HIDE DEF X, q
  <2>4. Handles(X, query_object(X, o, f), D, o)
    <3>1. MayAsk(X, o)
      BY <2>1, <2>3 DEF Noted, MayAsk
    <3>2. QED
      BY <1>1, <2>1, <2>3, <3>1, Queries DEF Noted
  <2>5. QED
    BY <1>2, <1>3, <2>3, <2>4, NotedHandles
<1>4. CASE op.m_last
  <2>1. Elsewhere(A, Y, o)
    BY TellsTwo
  <2> HIDE DEF Y
  <2>2. Sound(Y) /\ Typed(Y) /\ o \in Ops(Y)
    BY <2>1 DEF Elsewhere, Sound
  <2>3. Differ(Y, B, {"removed"}) /\ B.killed_twice = Y.killed_twice
    BY <2>2 DEF Typed, AgentFields, Differ
  <2> HIDE DEF B
  <2>4. Differ(Y, B, {"m_bridge", "removed", "killed_twice", "crashed"}) /\ B.m_bridge = Y.m_bridge
        /\ B.disowned = Y.disowned
    BY <2>3 DEF Differ, AgentFields
  <2>5. /\ Sound(B) /\ Moves(Y, B, 0) /\ B.operations = Y.operations
        /\ B.requests = Y.requests /\ B.mail = Y.mail /\ B.clients = Y.clients
        /\ B.m_account2operation = Y.m_account2operation
    BY <2>2, <2>3, <2>4, Flagged DEF Typed, Tables
  <2>6. Elsewhere(Y, B, o)
    <3>1. Moves(Y, B, o) /\ Same(Y, B, o)
      BY <2>2, <2>5, StillMoves
    <3>2. o \in Ops(B) /\ (Registered(Y) => Registered(B))
      BY <2>2, <2>5, StillThere
    <3>3. QED
      BY <2>4, <2>5, <3>1, <3>2 DEF Elsewhere
  <2>7. Elsewhere(A, B, o)
    BY <2>1, <2>6, ElsewhereOn
  <2>8. QED
    BY <1>2, <1>4, <2>7, RestsHandles
<1>5. QED
  BY <1>3, <1>4

LEMMA UpdateFieldHandles ==
  ASSUME NEW A, NEW D, NEW o \in Ops(A), NEW v, NEW activated, Sound(A), Idle(A, o),
         A.operations[o].kind = "removefriend"
  PROVE  Handles(A, update_avatar_field(A, o, v, activated), D, o)
<1> DEFINE op == A.operations[o]
           fields == [setFriendsList |-> op.m_friends_list]
           m == [kind |-> "update_field", do_id |-> v, value |-> fields]
           X == IF activated THEN send_update(A, v, fields) ELSE update_object(A, v, fields)
<1>1. fields \in Updates
  BY ClientThere DEF GoodOperation, Updates
<1>2. update_avatar_field(A, o, v, activated) = handle_friend_removed(X, o, v)
  BY DEF update_avatar_field
<1> HIDE DEF fields
<1>3. Elsewhere(A, X, o)
  <2>1. GoodMessage(A.operations, m) /\ m.kind \notin Replies
    BY <1>1 DEF GoodMessage, Replies
  <2> HIDE DEF m
  <2>2. Elsewhere(A, Post(A, m), o)
    BY <2>1, AfterPost, ElsewhereIs
  <2>3. Elsewhere(A, update_object(A, v, fields), o)
    BY <1>1, AfterUpdate, ElsewhereIs
  <2>4. QED
    BY <2>2, <2>3 DEF send_update, m
<1> HIDE DEF X
<1>4. /\ Sound(X) /\ o \in Ops(X) /\ Idle(X, o) /\ X.operations[o] = op
  BY <1>3 DEF Elsewhere, Same, Idle
<1>5. Handles(X, handle_friend_removed(X, o, v), D, o)
  BY <1>4, FriendRemovedHandles
<1>6. QED
  BY <1>2, <1>3, <1>5, ElsewhereHandles

\* A list of friends.
LEMMA DisownedList ==
  ASSUME NEW A, NEW D, NEW o \in Ops(A), A.operations[o].kind = "friendslist",
         A.operations[o].m_target \in A.disowned
  PROVE  Progress(A, D, o)
BY DEF Progress, Befriending, Singly, Linear, Beside

LEMMA FriendsListEnds ==
  ASSUME NEW A, NEW D, NEW o \in Ops(A), Sound(A), A.operations[o].kind = "friendslist",
         Befriending(A, o), A.operations[o].arg \notin A.operations[o].m_contexts
                            \/ A.operations[o].m_target \in A.disowned,
         ~A.operations[o].over \/ A.operations[o].m_target \in A.disowned
  PROVE  Handles(A, off(A, o), D, o)
<1> DEFINE B == off(A, o)
           op == A.operations[o]
<1>1. GoodOperation(op) /\ OfAccount(op)
  BY ClientThere DEF OfAccount, Kinds, Singly, Linear, Joining, Beside
<1>2. /\ Sound(B) /\ Moves(A, B, o)
      /\ B.operations[o] = [op EXCEPT !.over = TRUE]
      /\ B.requests = A.requests /\ B.mail = A.mail /\ B.disowned = A.disowned
      /\ Registered(A) => Registered(B)
  <2>1. /\ Sound(B) /\ Moves(A, B, o)
        /\ B.operations[o] = [op EXCEPT !.over = TRUE]
        /\ B.requests = A.requests /\ B.mail = A.mail /\ B.disowned = A.disowned
        /\ Registered(A) /\ (op.kind = "login" \/ (OfAccount(op) /\ (~op.over \/ op.m_target \in A.disowned)))
             => Registered(B)
    BY AfterOff
  <2> HIDE DEF B
  <2>2. QED
    BY <1>1, <2>1
<1> HIDE DEF B
<1>3. /\ B.operations[o].kind = "friendslist" /\ B.operations[o].m_target = op.m_target
      /\ B.operations[o].m_contexts = op.m_contexts /\ B.operations[o].arg = op.arg
  BY <1>1, <1>2 DEF GoodOperation, OperationFields
<1>4. Befriending(B, o)
  BY <1>2, <1>3 DEF Befriending, Coming
<1>5. Progress(B, D, o)
  BY <1>3, <1>4 DEF Progress, Singly, Linear
<1>6. QED
  BY <1>2, <1>5 DEF Handles, Registers, B

\* The avatar's own list is read: every friend on it is asked for.
LEMMA FriendDetailsHandles ==
  ASSUME NEW A, NEW D, NEW o, NEW m, Takes(A, D, o, m), A.operations[o].kind = "friendslist",
         m.do_id = A.operations[o].arg, A.operations[o].arg \notin A.operations[o].m_contexts,
         NEW friends \in SUBSET Doids
  PROVE  Handles(A, get_friend_details(A, o, friends), D, o)
<1> DEFINE op == A.operations[o]
           q == [op EXCEPT !.m_friends_list = friends]
           X == [A EXCEPT !.operations[o].m_friends_list = friends]
           B == query_objects(X, o, friends)
<1>1. /\ Sound(A) /\ o \in Ops(A) /\ MayAsk(A, o) /\ GoodOperation(op) /\ Befriending(A, o)
      /\ ~op.over \/ op.m_target \in A.disowned
  BY ClientThere DEF Takes
<1>2. CASE friends = {}
  <2>1. Handles(A, off(A, o), D, o)
    BY <1>1, FriendsListEnds
  <2>2. QED
    BY <1>2, <2>1 DEF get_friend_details
<1>3. CASE friends # {}
  <2>1. GoodOperation(q) /\ Alike(op, q) /\ q.over = op.over /\ q.kind = "friendslist"
        /\ q.m_target = op.m_target
    BY <1>1 DEF GoodOperation, OperationFields, Alike, OfAccount
  <2>2. Notes(A, X, o, q)
    BY <1>1, <2>1 DEF Sound, Typed, AgentFields, Differ, Notes
  <2>3. Noted(A, X, o, q)
    BY <1>1, <2>2, AfterNote
  <2>4. get_friend_details(A, o, friends) = B
    BY <1>3 DEF get_friend_details
  <2> HIDE DEF X, q
  <2>5. /\ Sound(B) /\ Moves(X, B, o) /\ Held(X, B)
        /\ B.operations[o] = [q EXCEPT !.m_contexts = @ \cup friends]
        /\ B.mail = X.mail
    BY <1>1, <2>3, AfterQueries DEF Noted
  <2> HIDE DEF B
  <2>6. B.operations[o].kind = "friendslist" /\ B.operations[o].over = op.over
        /\ B.operations[o].m_target = op.m_target
    BY <2>1, <2>5 DEF GoodOperation, OperationFields
  <2>7. B.disowned = A.disowned /\ Coming(B, o) = Coming(A, o)
    BY <2>3, <2>5 DEF Noted, Held, Coming
  <2>8. Befriending(B, o)
    BY <1>1, <2>6, <2>7 DEF Befriending
  <2>9. Progress(B, D, o)
    BY <2>6, <2>8 DEF Progress, Singly, Linear
  <2>10. Registered(X) => Registered(B)
    <3>1. Typed(X) /\ Typed(B) /\ B.m_account2operation = X.m_account2operation
      BY <2>3, <2>5 DEF Sound, Held, Noted
    <3>2. X.operations[o].over => B.operations[o].over
      BY <2>1, <2>3, <2>6 DEF Noted
    <3>3. QED
      BY <2>5, <3>1, <3>2, StaysRegistered
  <2>11. Handles(X, B, D, o)
    BY <2>5, <2>9, <2>10 DEF Handles, Registers
  <2>12. QED
    BY <1>1, <2>3, <2>4, <2>11, NotedHandles
<1>4. QED
  BY <1>2, <1>3

\* A friend is described, which calls off() for the account.
LEMMA GotFriendHandles ==
  ASSUME NEW A, NEW D, NEW o \in Ops(A), Sound(A), MayAsk(A, o), A.operations[o].kind = "friendslist"
  PROVE  Handles(A, got_friend(A, o), D, o)
<1> DEFINE op == A.operations[o]
           X == IF op.m_contexts = {} THEN AskEachActivated(A, o, op.m_friends_list) ELSE A
           B == off_Friend(X, o)
<1>1. got_friend(A, o) = B
  BY DEF got_friend
<1>2. /\ Sound(X) /\ Moves(A, X, o) /\ o \in Ops(X) /\ X.operations[o].kind = "friendslist"
      /\ Registered(A) => Registered(X)
  <2>1. CASE op.m_contexts # {}
    <3>1. Elsewhere(A, A, o)
      BY NothingElsewhere
    <3>2. QED
      BY <2>1, <3>1 DEF Elsewhere
  <2>2. CASE op.m_contexts = {}
    <3>1. GoodOperation(op) /\ op.m_friends_list \in SUBSET Doids
      BY ClientThere DEF GoodOperation
    <3> DEFINE S == op.m_friends_list
               Y == AskEachActivated(A, o, S)
    <3> HIDE DEF S
    <3>2. S \in SUBSET Doids /\ X = Y
      BY <2>2, <3>1 DEF S
    <3>3. /\ Sound(Y) /\ Moves(A, Y, o) /\ Held(A, Y)
          /\ Y.operations[o] = [op EXCEPT !.m_contexts = @ \cup S]
      BY <3>2, AfterEach DEF FriendKinds
    <3> HIDE DEF Y, X
    <3>4. Y.operations[o].kind = "friendslist" /\ Y.operations[o].over = op.over
      BY <3>1, <3>3 DEF GoodOperation, OperationFields
    <3>5. o \in Ops(Y)
      <4>1. Len(A.operations) \in Nat /\ Len(Y.operations) \in Nat /\ Len(A.operations) <= Len(Y.operations)
        BY <3>3, OpsAre DEF Sound, Moves
      <4>2. QED
        BY <4>1 DEF Ops
    <3>6. Registered(A) => Registered(Y)
      BY <3>3, <3>4, StaysRegistered DEF Sound, Held
    <3>7. QED
      BY <3>2, <3>3, <3>4, <3>5, <3>6
  <2>3. QED
    BY <2>1, <2>2
<1> HIDE DEF X
<1>3. /\ Sound(B) /\ Moves(X, B, 0) /\ B.operations = X.operations
      /\ X.operations[o].m_target \in B.disowned
      /\ Registered(X) => Registered(B)
  BY <1>2, AfterOffFriend
<1> HIDE DEF B
<1>4. Moves(X, B, o) /\ o \in Ops(B)
  BY <1>2, <1>3, StillThere
<1>5. Progress(B, D, o)
  BY <1>2, <1>3, <1>4, DisownedList
<1>6. Handles(X, B, D, o)
  BY <1>3, <1>4, <1>5 DEF Handles, Registers
<1>7. QED
  BY <1>1, <1>2, <1>6, ThenHandles

LEMMA GotFriendActivatedHandles ==
  ASSUME NEW A, NEW D, NEW o, NEW m, Takes(A, D, o, m), A.operations[o].kind = "friendslist",
         m.kind = "activated"
  PROVE  Handles(A, got_friend_activated(A, o), D, o)
<1>1. /\ Sound(A) /\ o \in Ops(A) /\ Befriending(A, o) /\ A.operations[o].m_target \in A.disowned
  BY DEF Takes
<1>2. Handles(A, off(A, o), D, o)
  BY <1>1, FriendsListEnds
<1>3. Handles(A, A, D, o)
  BY <1>1, DisownedList, NothingElsewhere DEF Handles, Elsewhere, Registers
<1>4. QED
  BY <1>2, <1>3 DEF got_friend_activated

-----------------------------------------------------------------------------
(* An answer.                                                                *)
LEMMA FriendsQueryHandles ==
  ASSUME NEW A, NEW D, NEW o, NEW m, Takes(A, D, o, m), m.kind = "query",
         A.operations[o].kind \in {"removefriend", "friendslist"},
         m.do_id \notin A.operations[o].m_contexts
  PROVE  Handles(A, handle_friends_query(A, o, m.do_id, m.value), D, o)
<1> DEFINE op == A.operations[o]
           v == m.do_id
           object == m.value
<1>1. Sound(A) /\ o \in Ops(A) /\ MayAsk(A, o) /\ object \in ObjectsNow
  BY DEF Takes, GoodMessage
<1>2. object.class = "avatar" => object.setFriendsList \in SUBSET Doids
  BY <1>1, ObjectIs
<1>3. CASE op.kind = "removefriend"
  <2>1. Idle(A, o) /\ (op.over => op.m_last)
    BY <1>3 DEF Takes, Singly
  <2>2. ~op.m_last => Handles(A, off(A, o), D, o)
    BY <1>1, <1>3, <2>1, Ends DEF Singly
  <2>3. Handles(A, A, D, o)
    BY <1>1, <1>3, <2>1, RestsHandles, NothingElsewhere
  <2>4. object.class = "avatar" => Handles(A, handle_remove_friend(A, o, v, object.setFriendsList), D, o)
    BY <1>2, <1>3, RemoveFriendHandles
  <2>5. QED
    BY <1>3, <2>2, <2>3, <2>4 DEF handle_friends_query, friends_failure
<1>4. CASE op.kind = "friendslist"
  <2>1. Befriending(A, o)
    BY <1>4 DEF Takes
  <2>2. v = op.arg => Handles(A, off(A, o), D, o)
    <3>1. SUFFICES ASSUME v = op.arg PROVE Handles(A, off(A, o), D, o)
      OBVIOUS
    <3>2. op.arg \notin op.m_contexts /\ (~op.over \/ op.m_target \in A.disowned)
      BY <1>4, <3>1 DEF Takes
    <3>3. QED
      BY <1>1, <1>4, <2>1, <3>2, FriendsListEnds
  <2>3. Handles(A, Crash(A), D, o)
    BY <1>1, CrashHandles
  <2>4. object.class = "avatar" /\ v = op.arg
          => Handles(A, get_friend_details(A, o, object.setFriendsList), D, o)
    BY <1>2, <1>4, FriendDetailsHandles
  <2>5. Handles(A, got_friend(A, o), D, o)
    BY <1>1, <1>4, GotFriendHandles
  <2>6. QED
    BY <1>4, <2>2, <2>3, <2>4, <2>5 DEF handle_friends_query, friends_failure
<1>5. QED
  BY <1>3, <1>4

QueryHandled(A, o, m) == handle_query(A, o, m.do_id, m.value)

LEMMA QueryHandles ==
  ASSUME NEW A, NEW D, NEW o, NEW m, Takes(A, D, o, m), m.kind = "query",
         m.do_id \notin A.operations[o].m_contexts
  PROVE  Handles(A, QueryHandled(A, o, m), D, o)
<1> DEFINE op == A.operations[o]
<1>1. op.kind \in Beside =>
        Handles(A, handle_friends_query(A, o, m.do_id, m.value), D, o)
  BY AnnouncementHandles
<1>2. op.kind \in {"removefriend", "friendslist"} =>
        Handles(A, handle_friends_query(A, o, m.do_id, m.value), D, o)
  BY FriendsQueryHandles
<1>3. op.kind \in FriendKinds => op.kind \in Beside \/ op.kind \in {"removefriend", "friendslist"}
  BY DEF FriendKinds, Beside
<1>4. op.kind = "details" => Handles(A, handle_details(A, o, m.value), D, o)
  BY HandleDetailsHandles
<1>5. op.kind \notin FriendKinds /\ op.m_past_acc_query
        => Handles(A, handle_avatar(A, o, m.do_id, m.value), D, o)
  BY HandleAvatarHandles
<1>6. op.kind \notin FriendKinds \cup {"details"} /\ ~op.m_past_acc_query
        => Handles(A, handle_account(A, o, m.do_id, m.value), D, o)
  BY HandleAccountHandles
<1>7. QED
  BY <1>1, <1>2, <1>3, <1>4, <1>5, <1>6 DEF QueryHandled, handle_query

LEMMA ActivatedHandles ==
  ASSUME NEW A, NEW D, NEW o, NEW m, Takes(A, D, o, m), m.kind = "activated"
  PROVE  Handles(A, get_activated_resp(A, o, m.do_id, m.value), D, o)
<1> DEFINE op == A.operations[o]
<1>1. op.kind \in FriendKinds /\ Sound(A) /\ o \in Ops(A)
  BY DEF Takes, GoodMessage, Replies
<1>2. op.kind \in Beside => Handles(A, get_activated_resp(A, o, m.do_id, m.value), D, o)
  BY AnnouncementHandles
<1>3. op.kind = "removefriend" => Handles(A, update_avatar_field(A, o, m.do_id, m.value), D, o)
  BY <1>1, UpdateFieldHandles DEF Takes, Singly
<1>4. op.kind = "friendslist" => Handles(A, got_friend_activated(A, o), D, o)
  BY GotFriendActivatedHandles
<1>5. QED
  BY <1>1, <1>2, <1>3, <1>4 DEF get_activated_resp, FriendKinds, Beside

\* How an answer that is taken is handled.
AnswerHandled(A, o, m) ==
  CASE m.kind = "query"  -> handle_query(A, o, m.do_id, m.value)
    [] m.kind = "create" -> handle_create(A, o, m.value)
    [] m.kind = "update" -> handle_update(A, o, m.value)
    [] m.kind = "activated" -> get_activated_resp(A, o, m.do_id, m.value)

LEMMA AnswerHandles ==
  ASSUME NEW A, NEW D, NEW o, NEW m, Takes(A, D, o, m),
         m.kind \in {"query", "create", "update", "activated"},
         m.do_id \notin A.operations[o].m_contexts
  PROVE  \E X : Tells(A, X, D) /\ Handles(X, AnswerHandled(A, o, m), D, o)
<1>1. Tells(A, A, D)
  BY DEF Takes, Sound, Typed, Tells, Differ
<1>2. CASE m.kind = "query"
  BY <1>1, <1>2, QueryHandles DEF AnswerHandled, QueryHandled
<1>3. CASE m.kind = "create"
  BY <1>1, <1>3, HandleCreateHandles DEF AnswerHandled
<1>4. CASE m.kind = "update"
  BY <1>4, HandleUpdateHandles DEF AnswerHandled
<1>5. CASE m.kind = "activated"
  BY <1>1, <1>5, ActivatedHandles DEF AnswerHandled
<1>6. QED
  BY <1>2, <1>3, <1>4, <1>5

-----------------------------------------------------------------------------
(* What holds of an agent between two steps, with the objects D.             *)
Holds(A, D) ==
  /\ Sound(A)
  /\ A.crashed \/ \A o \in Ops(A) : Progress(A, D, o)
  /\ A.killed_twice \/ A.crashed \/ Registered(A)
  /\ \A t \in A.told : Filled(D, t[1], t[2], t[3])

LEMMA HandlesHolds ==
  ASSUME NEW A, NEW B, NEW D, NEW o, Sound(A), Handles(A, B, D, o),
         \A p \in Ops(A) : p # o => Progress(A, D, p),
         A.killed_twice \/ Registered(A),
         \A t \in A.told : Filled(D, t[1], t[2], t[3])
  PROVE  Holds(B, D)
<1>1. Sound(B) /\ Moves(A, B, o) /\ (B.crashed \/ Progress(B, D, o)) /\ Registers(A, B)
  BY DEF Handles
<1>2. Typed(A) /\ Typed(B)
  BY <1>1 DEF Sound
<1>3. B.crashed \/ \A p \in Ops(B) : Progress(B, D, p)
  <2>1. SUFFICES ASSUME ~B.crashed, NEW p \in Ops(B), p # o PROVE Progress(B, D, p)
    BY <1>1
  <2>2. QED
    BY <1>1, <1>2, <2>1, OthersProgress
<1>4. B.killed_twice \/ B.crashed \/ Registered(B)
  BY <1>1 DEF Moves, Registers
<1>5. B.told = A.told
  BY <1>1 DEF Moves
<1>6. QED
  BY <1>1, <1>3, <1>4, <1>5 DEF Holds

\* Less is under way, and nothing else has changed for operation p.
Fewer(A, B, p) ==
  /\ B.operations[p] = A.operations[p]
  /\ Of(A.requests, p) = {} => Of(B.requests, p) = {}
  /\ Of(A.mail, p) = {} => Of(B.mail, p) = {}
  /\ Single(Of(A.requests, p)) => Single(Of(B.requests, p))
  /\ Single(Of(A.mail, p)) => Single(Of(B.mail, p))
  /\ Asked(B, p) \subseteq Asked(A, p) /\ Coming(B, p) \subseteq Coming(A, p)

LEMMA FewerProgress ==
  ASSUME NEW A, NEW B, NEW D, NEW p, Fewer(A, B, p), A.disowned \subseteq B.disowned, Progress(A, D, p)
  PROVE  Progress(B, D, p)
<1> DEFINE op == A.operations[p]
<1>1. B.operations[p] = op /\ (Once(A, p) => Once(B, p)) /\ (Idle(A, p) => Idle(B, p))
  BY DEF Fewer, Once, Idle
<1>2. Asked(B, p) \subseteq Asked(A, p) /\ Coming(B, p) \subseteq Coming(A, p)
  BY DEF Fewer
<1>3. Creating(A, D, p) => Creating(B, D, p)
  BY <1>1, <1>2 DEF Creating
<1>4. Befriending(A, p) => Befriending(B, p)
  BY <1>1, <1>2 DEF Befriending
<1>5. QED
  BY <1>1, <1>2, <1>3, <1>4 DEF Progress

-----------------------------------------------------------------------------
(* A message is delivered.                                                   *)
\* The first message is taken, while clients continue.
TakesFirst(A, B) ==
  /\ Differ(A, B, {"clients", "mail"}) /\ A.mail # <<>> /\ B.mail = Tail(A.mail)
  /\ DOMAIN B.clients = Clients /\ \A k \in Clients : Continues(A.clients[k], B.clients[k])

\* An ejection leaves at most one client on the account.
StillApart(A, B) ==
  \A k, l \in Clients :
    /\ k # l /\ Playing(B.clients[k]) /\ Playing(B.clients[l])
    /\ get_account_id(B.clients[k]) = get_account_id(B.clients[l])
    /\ Head(A.mail).kind = "eject"
    => Head(A.mail).to # get_account_connection_channel(get_account_id(B.clients[k]))

TheRest(A, B) ==
  /\ B.operations = A.operations /\ B.requests = A.requests
  /\ B.m_account2operation = A.m_account2operation
  /\ B.m_connection2operation = A.m_connection2operation
  /\ B.disowned = A.disowned /\ B.told = A.told /\ B.killed_twice = A.killed_twice
  /\ B.crashed = A.crashed /\ B.m_bridge = A.m_bridge /\ DOMAIN B = AgentFields

LEMMA FirstTaken ==
  ASSUME NEW A, NEW B, Sound(A), TakesFirst(A, B), StillApart(A, B)
  PROVE  Sound(B) /\ TheRest(A, B) /\ \A p \in Ops(A) : Fewer(A, B, p)
<1>1. /\ Typed(A) /\ Wired(A) /\ Accounted(A) /\ Apart(A) /\ \A o \in Ops(A) : Served(A, o)
      /\ IsSeq(A.mail) /\ A.mail # <<>> /\ B.mail = Tail(A.mail)
      /\ \A k \in Clients : Continues(A.clients[k], B.clients[k])
  BY DEF Sound, Ops, Wired, TakesFirst
<1>2. TheRest(A, B)
  BY DEF TakesFirst, Differ, AgentFields, TheRest
<1>3. /\ B.operations = A.operations /\ B.requests = A.requests /\ B.m_connection2operation = A.m_connection2operation
  BY <1>2 DEF TheRest
<1>4. /\ IsSeq(B.mail) /\ Len(B.mail) = Len(A.mail) - 1 /\ Len(A.mail) \in Nat \ {0}
      /\ Head(A.mail) = A.mail[1] /\ \A i \in 1..Len(B.mail) : B.mail[i] = A.mail[i + 1]
  BY <1>1, SeqTail
<1>5. Typed(B)
  BY <1>1, <1>2 DEF Typed, Tables, TheRest, TakesFirst, Continues
<1>6. Wired(B)
  <2>1. \A i \in 1..Len(B.mail) : i + 1 \in 1..Len(A.mail)
    BY <1>4
  <2>2. \A i \in 1..Len(B.mail) : GoodMessage(B.operations, B.mail[i])
    BY <1>1, <1>3, <1>4, <2>1 DEF Wired
  <2>3. QED
    BY <1>1, <1>3, <1>4, <2>2 DEF Wired
<1>7. \A k \in Clients : Present(B.clients[k]) /\ B.clients[k].m_state = "established" =>
        /\ Present(A.clients[k]) /\ A.clients[k].m_state = "established"
        /\ HasAccount(B.clients[k])
        /\ get_account_id(B.clients[k]) = get_account_id(A.clients[k])
  BY <1>1 DEF Accounted, Continues
<1>8. Accounted(B)
  BY <1>7 DEF Accounted
<1>9. Apart(B)
  <2>1. SUFFICES ASSUME NEW k \in Clients, NEW l \in Clients, k # l,
                        Playing(B.clients[k]), Playing(B.clients[l]),
                        get_account_id(B.clients[k]) = get_account_id(B.clients[l])
                 PROVE  Ejecting(B, get_account_id(B.clients[k]))
    BY DEF Apart
  <2> DEFINE a == get_account_id(B.clients[k])
  <2>2. \A n \in {k, l} : Playing(A.clients[n]) /\ get_account_id(A.clients[n]) = get_account_id(B.clients[n])
    BY <1>1, <1>7, <2>1 DEF Playing, Present, Continues
  <2>3. Ejecting(A, a)
    BY <1>1, <2>1, <2>2 DEF Apart
  <2>4. PICK i \in 1..Len(A.mail) : A.mail[i].kind = "eject" /\ A.mail[i].to = get_account_connection_channel(a)
    BY <2>3 DEF Ejecting
  <2>5. i # 1
    BY <1>4, <2>1, <2>4 DEF StillApart
  <2>6. i - 1 \in 1..Len(B.mail) /\ B.mail[i - 1] = A.mail[i]
    BY <1>4, <2>5
  <2>7. QED
    BY <2>4, <2>6 DEF Ejecting
<1>10. ASSUME NEW p \in Ops(A) PROVE Fewer(A, B, p)
  <2>1. /\ Values(Tail(A.mail), p) \subseteq Values(A.mail, p)
        /\ Of(A.mail, p) = {} => Of(Tail(A.mail), p) = {}
        /\ Single(Of(A.mail, p)) => Single(Of(Tail(A.mail), p))
    BY <1>1, OfTail
  <2>2. QED
    BY <1>1, <1>3, <2>1 DEF Fewer, Asked, Coming
<1>11. ASSUME NEW o \in Ops(A) PROVE Served(B, o)
  <2> DEFINE k == A.operations[o].client
             c == A.clients[k]
             d == B.clients[k]
  <2>1. k \in Clients /\ Continues(c, d) /\ Served(A, o) /\ B.operations[o] = A.operations[o]
    BY <1>1, <1>3 DEF Typed, GoodOperation, Ops
  <2>2. d.connection # "none"
    BY <2>1 DEF Served, Continues
  <2>3. LoginServed(B, o)
    <3>1. SUFFICES ASSUME A.operations[o].kind = "login", Present(d)
                   PROVE  /\ B.m_connection2operation[d.allocated] # 0
                          /\ d.m_state = "established" => Idle(B, o)
                          /\ \A p \in Ops(A) :
                               A.operations[p].kind = "login" /\ A.operations[p].client = k => p = o
      BY <1>3 DEF LoginServed, Ops
    <3>2. Present(c) /\ d.m_state = c.m_state /\ d.allocated = c.allocated
      BY <2>1, <3>1 DEF Continues
    <3>3. Idle(A, o) => Idle(B, o)
      BY <1>10 DEF Fewer, Idle
    <3>4. QED
      BY <1>3, <2>1, <3>1, <3>2, <3>3, Zenon DEF Served, LoginServed, Ops
  <2>4. AccountServed(B, o)
    <3>1. SUFFICES ASSUME OfAccount(A.operations[o]), Present(d)
                   PROVE  d.m_state = "established" /\ A.operations[o].m_target = get_account_id(d)
      BY <1>3 DEF AccountServed
    <3>2. Present(c) /\ d.m_state = c.m_state
      BY <2>1, <3>1 DEF Continues
    <3>3. c.m_state = "established" /\ A.operations[o].m_target = get_account_id(c)
      BY <2>1, <3>1, <3>2 DEF Served, AccountServed
    <3>4. QED
      BY <1>7, <2>1, <3>1, <3>2, <3>3
  <2>5. QED
    BY <2>1, <2>2, <2>3, <2>4 DEF Served
<1>12. \A o \in 1..Len(B.operations) : Served(B, o)
  BY <1>3, <1>11 DEF Ops
<1>13. Allotted(B)
  BY <1>1, ContinuesAllotted
<1>14. QED
  BY <1>2, <1>5, <1>6, <1>8, <1>9, <1>10, <1>12, <1>13 DEF Sound

LEMMA FirstTakenHolds ==
  ASSUME NEW A, NEW B, NEW D, Holds(A, D), TakesFirst(A, B), StillApart(A, B)
  PROVE  Holds(B, D) /\ TheRest(A, B)
<1>1. Sound(B) /\ TheRest(A, B) /\ \A p \in Ops(A) : Fewer(A, B, p)
  BY FirstTaken DEF Holds
<1>2. Ops(B) = Ops(A)
  BY <1>1 DEF Ops, TheRest
<1>3. B.crashed \/ \A p \in Ops(B) : Progress(B, D, p)
  BY <1>1, <1>2, FewerProgress DEF Holds, TheRest
<1>4. Registered(A) => Registered(B)
  BY <1>1 DEF Registered, Unresolved, TheRest
<1>5. QED
  BY <1>1, <1>3, <1>4 DEF Holds, TheRest

-----------------------------------------------------------------------------
(* An answer is delivered.                                                   *)
Answers == {"query", "create", "update", "activated"}

\* The record of an operation, with the answer about v taken, and before.
AnswerOff(op, q, v) ==
  /\ Alike(op, q) /\ q.over = op.over /\ q.m_last = op.m_last /\ q.m_av_set = op.m_av_set
  /\ q.m_past_acc_query = op.m_past_acc_query /\ q.m_pending_avatars = op.m_pending_avatars
  /\ q.m_contexts = op.m_contexts \ {v} /\ GoodOperation(q)

LEMMA ListingBefore ==
  ASSUME NEW op, NEW q, NEW v, AnswerOff(op, q, v), v \in op.m_contexts, Listing(op)
  PROVE  v \notin q.m_contexts /\ Listing([q EXCEPT !.m_contexts = @ \cup {v}])
<1> DEFINE r == [q EXCEPT !.m_contexts = @ \cup {v}]
<1>1. q.m_contexts \cup {v} = op.m_contexts /\ v \notin q.m_contexts
  BY DEF AnswerOff
<1>2. /\ r.m_contexts = op.m_contexts /\ r.over = op.over /\ r.m_target = op.m_target
      /\ r.m_past_acc_query = op.m_past_acc_query /\ r.m_pending_avatars = op.m_pending_avatars
  BY <1>1 DEF AnswerOff, Alike, GoodOperation, OperationFields
<1> HIDE DEF r
<1>3. Listing(r)
  BY <1>2 DEF Listing
<1>4. QED
  BY <1>1, <1>3 DEF r

\* A: before the answer m; T: the answer m was taken.
LEMMA AnswerTaken ==
  ASSUME NEW A, NEW T, NEW D, NEW o \in Ops(A), NEW m, NEW q, Sound(A), Progress(A, D, o),
         m \in Coming(A, o), m.op = o, m.kind \in Answers, GoodMessage(A.operations, m),
         AnswerOff(A.operations[o], q, m.do_id), m.do_id \in A.operations[o].m_contexts,
         Present(A.clients[A.operations[o].client]),
         Sound(T), o \in Ops(T), T.operations[o] = q, T.clients = A.clients, T.disowned = A.disowned,
         Coming(T, o) \subseteq Coming(A, o), GoodMessage(T.operations, m),
         Once(A, o) => Idle(T, o)
  PROVE  Takes(T, D, o, m)
<1> DEFINE op == A.operations[o]
<1>1. /\ q.kind = op.kind /\ q.client = op.client /\ q.m_target = op.m_target /\ q.arg = op.arg
      /\ q.over = op.over /\ q.m_last = op.m_last /\ q.m_av_set = op.m_av_set
      /\ q.m_contexts = op.m_contexts \ {m.do_id}
  BY DEF AnswerOff, Alike
<1>2. ~Idle(A, o)
  BY DEF Idle, Coming, Values
<1>3. MayAsk(T, o)
  <2>1. LoginServed(A, o)
    BY DEF Sound, Served, Ops
  <2>2. op.kind = "login" => A.clients[op.client].m_state # "established"
    BY <1>2, <2>1 DEF LoginServed
  <2>3. QED
    BY <1>1, <2>2 DEF MayAsk
<1>4. op.kind \in Singly => Idle(T, o)
  BY DEF Progress
<1>5. op.kind \in Linear => ~Through(op)
  BY <1>2 DEF Progress
<1>6. Through(q) <=> Through(op)
  BY <1>1 DEF Through
<1>7. op.kind = "create" =>
        /\ q.arg \in Slots
        /\ m.kind = "create" => OpenSlot(q)
        /\ m.kind = "update" /\ m.value => Filled(D, q.m_target, q.arg, q.m_av_set[q.arg])
  <2>1. SUFFICES ASSUME op.kind = "create"
                 PROVE  /\ op.arg \in Slots
                        /\ m.kind = "create" => OpenSlot(op)
                        /\ m.kind = "update" /\ m.value => Filled(D, op.m_target, op.arg, op.m_av_set[op.arg])
    BY <1>1 DEF OpenSlot
  <2>2. Creating(A, D, o) /\ ~op.over
    BY <1>5, <2>1 DEF Progress, Linear, Through
  <2>3. QED
    BY <2>2 DEF Creating
<1>8. op.kind = "removefriend" /\ q.over /\ ~q.m_last => m.kind # "query"
  BY <1>1 DEF Progress
<1>9. op.kind = "getavatars" =>
        m.do_id \notin q.m_contexts /\ Listing([q EXCEPT !.m_contexts = @ \cup {m.do_id}])
  BY ListingBefore DEF Progress
<1>10. op.kind = "friendslist" =>
        /\ Befriending(T, o)
        /\ q.over /\ q.m_target \notin T.disowned => m.do_id # q.arg
        /\ m.kind = "activated" => q.m_target \in T.disowned
  <2>1. SUFFICES ASSUME op.kind = "friendslist", Befriending(A, o)
                 PROVE  /\ Befriending(T, o)
                        /\ q.over /\ q.m_target \notin T.disowned => m.do_id # q.arg
                        /\ m.kind = "activated" => q.m_target \in T.disowned
    BY DEF Progress
  <2>2. /\ op.over /\ op.m_target \notin A.disowned => op.arg \notin op.m_contexts
        /\ \A x \in Coming(A, o) : x.kind \in {"activated", "get_activated"} => op.m_target \in A.disowned
    BY <2>1 DEF Befriending
  <2>3. Befriending(T, o)
    BY <1>1, <2>2 DEF Befriending
  <2>4. QED
    BY <1>1, <2>2, <2>3
<1>11. Present(T.clients[q.client])
  BY <1>1
<1>12. QED
  BY <1>1, <1>3, <1>4, <1>5, <1>6, <1>7, <1>8, <1>9, <1>10, <1>11 DEF Takes

LEMMA CrashHolds ==
  ASSUME NEW A, NEW D, Holds(A, D)
  PROVE  Holds(Crash(A), D)
<1> DEFINE B == Crash(A)
<1>1. Sound(A)
  BY DEF Holds
<1>2. Sound(B) /\ Moves(A, B, 0) /\ B.crashed
  BY <1>1, AfterCrash
<1> HIDE DEF B
<1>3. B.told = A.told
  BY <1>2 DEF Moves
<1>4. Holds(B, D)
  BY <1>2, <1>3 DEF Holds
<1>5. QED
  BY <1>4 DEF B

LEMMA TellsHolds ==
  ASSUME NEW A, NEW X, NEW D, Sound(A), Tells(A, X, D)
  PROVE  /\ Sound(X) /\ X.operations = A.operations /\ X.disowned = A.disowned
         /\ X.killed_twice = A.killed_twice /\ (Registered(A) => Registered(X))
         /\ \A p \in Ops(A) : Fewer(A, X, p)
<1>1. /\ X.operations = A.operations /\ X.requests = A.requests /\ X.mail = A.mail
      /\ X.m_account2operation = A.m_account2operation /\ X.disowned = A.disowned
      /\ X.killed_twice = A.killed_twice
  BY DEF Tells, Differ, AgentFields
<1>2. \A p \in Ops(A) : Fewer(A, X, p)
  BY <1>1 DEF Fewer, Asked, Coming
<1>3. Registered(A) => Registered(X)
  BY <1>1 DEF Registered, Unresolved
<1>4. QED
  BY <1>1, <1>2, <1>3, ToldSound

LEMMA AnswerHolds ==
  ASSUME NEW A, NEW R, NEW D, Holds(A, D), ~A.crashed, A.mail # <<>>,
         Differ(A, R, {"mail"}), R.mail = Tail(A.mail), Head(A.mail).kind \in Answers
  PROVE  Holds(handle_answer(R, Head(A.mail)), D)
<1> DEFINE m == Head(A.mail)
           o == m.op
           op == A.operations[o]
           v == m.do_id
           q == [op EXCEPT !.m_contexts = @ \ {v}]
           T == [R EXCEPT !.operations[o].m_contexts = @ \ {v}]
<1>1. /\ Sound(A) /\ Typed(A) /\ Wired(A) /\ IsSeq(A.mail)
      /\ \A p \in Ops(A) : Progress(A, D, p)
  BY DEF Holds, Sound, Wired
<1>2. /\ IsSeq(R.mail) /\ Len(A.mail) \in Nat \ {0} /\ m = A.mail[1]
  BY <1>1, SeqTail
<1>3. GoodMessage(A.operations, m)
  BY <1>1, <1>2 DEF Wired
<1>4. o \in Ops(A) /\ GoodOperation(op) /\ Concerns(m, o)
  BY <1>1, <1>3 DEF GoodMessage, Replies, Answers, Ops, Typed, Concerns
<1>5. m \in Coming(A, o) /\ 1 \in Of(A.mail, o)
  BY <1>2, <1>4 DEF Coming, Values, Of
<1>6. Holds(R, D) /\ TheRest(A, R) /\ R.clients = A.clients
  <2>1. R.clients = A.clients /\ DOMAIN A.clients = Clients
    BY <1>1 DEF Differ, AgentFields, Typed
  <2>2. Differ(A, R, {"clients", "mail"})
    BY DEF Differ
  <2>3. \A k \in Clients : Continues(A.clients[k], R.clients[k])
    BY <1>1, <2>1, Unchanged DEF Typed
  <2>4. TakesFirst(A, R)
    BY <2>1, <2>2, <2>3 DEF TakesFirst
  <2>5. StillApart(A, R)
    BY DEF StillApart, Answers
  <2>6. QED
    BY <2>1, <2>4, <2>5, FirstTakenHolds
<1>7. /\ Sound(R) /\ Typed(R) /\ o \in Ops(R) /\ R.operations = A.operations /\ Ops(R) = Ops(A)
      /\ R.disowned = A.disowned /\ R.crashed = A.crashed /\ R.requests = A.requests
  BY <1>4, <1>6 DEF Holds, Sound, TheRest, Ops
<1>8. CASE v \notin op.m_contexts
  BY <1>6, <1>7, <1>8 DEF handle_answer
<1>9. CASE v \in op.m_contexts /\ A.clients[op.client].connection = "gone"
  <2>1. handle_answer(R, m) = Crash(R)
    BY <1>6, <1>7, <1>9 DEF handle_answer
  <2>2. QED
    BY <1>6, <2>1, CrashHolds
<1>10. CASE v \in op.m_contexts /\ A.clients[op.client].connection # "gone"
  <2>1. handle_answer(R, m) = AnswerHandled(T, o, m)
    BY <1>6, <1>7, <1>10 DEF handle_answer, AnswerHandled
  <2>2. AnswerOff(op, q, v)
    BY <1>4 DEF AnswerOff, Alike, GoodOperation, OperationFields, OfAccount
  <2>3. Notes(R, T, o, q)
    <3>1. Differ(R, T, {"operations"}) /\ T.operations = [R.operations EXCEPT ![o] = q]
      BY <1>7 DEF Typed, AgentFields, Differ
    <3>2. QED
      BY <1>7, <2>2, <3>1 DEF Notes, AnswerOff
  <2>4. Noted(R, T, o, q)
    BY <1>7, <2>3, AfterNote
  <2> HIDE DEF T, q
  <2>5. /\ Sound(T) /\ o \in Ops(T) /\ T.operations[o] = q /\ T.clients = A.clients
        /\ T.disowned = A.disowned /\ T.requests = A.requests /\ T.mail = Tail(A.mail)
        /\ T.killed_twice = R.killed_twice
    BY <1>6, <1>7, <2>4 DEF Noted, Held
  <2>6. Coming(T, o) \subseteq Coming(A, o) /\ (Once(A, o) => Idle(T, o))
    <3>1. /\ Values(Tail(A.mail), o) \subseteq Values(A.mail, o)
          /\ Single(Of(A.mail, o)) => Of(Tail(A.mail), o) = {}
      BY <1>1, <1>4, OfTail
    <3>2. Once(A, o) => Single(Of(A.mail, o)) /\ Of(A.requests, o) = {}
      BY <1>5 DEF Once
    <3>3. QED
      BY <2>5, <3>1, <3>2 DEF Coming, Idle
  <2>7. GoodMessage(T.operations, m)
    <3>1. \A p \in Ops(R) : Alike(R.operations[p], T.operations[p])
      <4>1. \A p \in Ops(R) : p # o => T.operations[p] = R.operations[p]
        BY <2>4 DEF Noted, Moves, Same
      <4>2. Alike(R.operations[o], T.operations[o])
        BY <1>7, <2>2, <2>5 DEF AnswerOff
      <4>3. QED
        BY ONLY <4>1, <4>2 DEF Alike
    <3>2. Len(R.operations) <= Len(T.operations)
      BY <2>4 DEF Noted, Moves
    <3>3. QED
      BY <1>3, <1>7, <2>5, <3>1, <3>2, GoodStays DEF Sound
  <2>8. Present(A.clients[op.client])
    <3>1. GoodClient(A.clients[op.client]) /\ A.clients[op.client].connection # "none"
      BY <1>1, <1>4, ClientThere, Zenon DEF Typed
    <3>2. QED
      BY <1>10, <3>1, Zenon DEF GoodClient, Present
  <2>9. Takes(T, D, o, m)
    <3>1. Progress(A, D, o)
      BY <1>1, <1>4
    <3> HIDE DEF op
    <3>2. QED
      BY <1>1, <1>3, <1>4, <1>5, <1>10, <2>2, <2>5, <2>6, <2>7, <2>8, <3>1, AnswerTaken, Zenon DEF op
  <2>10. v \notin T.operations[o].m_contexts
    BY <2>2, <2>5 DEF AnswerOff
  <2>11. PICK X : Tells(T, X, D) /\ Handles(X, AnswerHandled(T, o, m), D, o)
    BY <2>9, <2>10, AnswerHandles DEF Answers
  <2>12. /\ Sound(X) /\ X.operations = T.operations /\ X.disowned = T.disowned
         /\ X.killed_twice = T.killed_twice /\ (Registered(T) => Registered(X))
         /\ \A p \in Ops(T) : Fewer(T, X, p)
    BY <2>5, <2>11, TellsHolds
  <2>13. \A p \in Ops(X) : p # o => Progress(X, D, p)
    <3>1. SUFFICES ASSUME NEW p \in Ops(T), p # o PROVE Progress(X, D, p)
      BY <2>12 DEF Ops
    <3>2. p \in Ops(R) => Progress(R, D, p)
      BY <1>6, <1>7 DEF Holds
    <3>3. Progress(T, D, p)
      BY <1>7, <2>4, <2>5, <3>1, <3>2, OthersProgress DEF Noted, Sound
    <3>4. QED
      BY <2>12, <3>1, <3>3, FewerProgress
  <2>14. X.killed_twice \/ Registered(X)
    BY <1>6, <1>7, <2>4, <2>5, <2>12 DEF Holds, Noted
  <2>15. \A t \in X.told : Filled(D, t[1], t[2], t[3])
    <3>1. T.told = R.told
      BY <2>4 DEF Noted, Moves
    <3>2. QED
      BY <1>6, <2>11, <3>1 DEF Tells, Holds
  <2>16. QED
    BY <2>1, <2>11, <2>12, <2>13, <2>14, <2>15, HandlesHolds
<1>11. QED
  BY <1>8, <1>9, <1>10

-----------------------------------------------------------------------------
(* The other messages.                                                       *)
LEMMA AfterPosts ==
  ASSUME NEW A, NEW B, NEW n, Sound(A), Differ(A, B, {"mail"}), IsSeq(n), B.mail = A.mail \o n,
         \A i \in 1..Len(n) : GoodMessage(A.operations, n[i]) /\ n[i].kind \notin Replies
  PROVE  Sound(B) /\ Moves(A, B, 0) /\ Held(A, B) /\ B.operations = A.operations
<1> DEFINE r == <<>>
<1>1. Typed(A) /\ Wired(A) /\ IsSeq(A.requests) /\ IsSeq(A.mail)
  BY DEF Sound, Wired
<1>2. /\ Differ(A, B, {"operations", "requests", "mail"})
      /\ B.operations = A.operations /\ B.requests = A.requests
  BY DEF Differ, AgentFields
<1>3. Asks(A, B, B.operations, 0, r)
  BY <1>1, <1>2, AsksNothing
<1>4. Routes(A, B, B.operations, 0, n)
  BY <1>2 DEF Routes
<1>5. 0 \notin Ops(A) /\ IsSeq(B.operations) /\ Len(B.operations) = Len(A.operations)
  BY <1>1, <1>2, OpsAre DEF Typed
<1> HIDE DEF r
<1>6. Sound(B) /\ Moves(A, B, 0) /\ Held(A, B)
  BY <1>2, <1>3, <1>4, <1>5, Plain DEF OneGoesOn
<1>7. QED
  BY <1>2, <1>6

\* Nothing that concerns an operation happens.
LEMMA MovesHolds ==
  ASSUME NEW A, NEW B, NEW D, Holds(A, D), ~A.crashed, Sound(B), Moves(A, B, 0),
         Registered(A) => Registered(B)
  PROVE  Holds(B, D)
<1>1. Typed(A) /\ Typed(B) /\ 0 \notin Ops(A) /\ 0 \notin Ops(B)
  BY OpsAre DEF Holds, Sound
<1>2. ASSUME NEW p \in Ops(B) PROVE Progress(B, D, p)
  <2>1. p # 0 /\ (p \in Ops(A) => Progress(A, D, p))
    BY <1>1 DEF Holds
  <2>2. QED
    BY <1>1, <2>1, OthersProgress
<1>3. B.told = A.told /\ (A.killed_twice => B.killed_twice)
  BY DEF Moves
<1>4. QED
  BY <1>2, <1>3 DEF Holds

LEMMA HeldHolds ==
  ASSUME NEW A, NEW B, NEW D, Holds(A, D), ~A.crashed, Sound(B), Moves(A, B, 0), Held(A, B)
  PROVE  Holds(B, D)
<1>1. Typed(A) /\ Typed(B) /\ 0 \notin Ops(A)
  BY OpsAre DEF Holds, Sound
<1>2. Registered(A) => Registered(B)
  BY <1>1, StaysRegistered DEF Held
<1>3. QED
  BY <1>2, MovesHolds

\* What was asked or routed for operation o is replaced by the answer x.
LEMMA OneRouted ==
  ASSUME NEW A, NEW B, NEW o \in Ops(A), NEW x, Sound(A), MayAsk(A, o),
         GoodMessage(A.operations, x), x.op = o, x.kind \in Replies,
         Differ(A, B, {"mail"}), B.mail = Append(A.mail, x)
  PROVE  /\ Sound(B) /\ Moves(A, B, o) /\ Held(A, B) /\ B.operations = A.operations
         /\ Asked(B, o) = Asked(A, o) /\ Coming(B, o) = Coming(A, o) \cup {x}
         /\ Idle(A, o) => Once(B, o)
<1> DEFINE n == <<x>>
           r == <<>>
<1>1. Typed(A) /\ Wired(A) /\ IsSeq(A.requests) /\ IsSeq(A.mail) /\ Concerns(x, o)
  BY DEF Sound, Wired, Concerns
<1>2. /\ Differ(A, B, {"operations", "requests", "mail"})
      /\ B.operations = A.operations /\ B.requests = A.requests
  BY DEF Differ, AgentFields
<1>3. Asks(A, B, B.operations, o, r)
  BY <1>1, <1>2, AsksNothing
<1>4. B.mail = A.mail \o n /\ IsSeq(n) /\ Len(n) = 1 /\ n[1] = x
  BY <1>1, ConcatOne
<1>5. Routes(A, B, B.operations, o, n)
  BY <1>2, <1>4 DEF Routes
<1>6. OneGoesOn(A, B, o)
  BY <1>1, <1>2 DEF OneGoesOn, Typed, Alike, Ops
<1> HIDE DEF n, r
<1>7. Sound(B) /\ Moves(A, B, o) /\ Held(A, B)
  BY <1>2, <1>3, <1>5, <1>6, Plain
<1>8. Coming(B, o) = Coming(A, o) \cup {x} /\ (Of(A.mail, o) = {} => Single(Of(B.mail, o)))
  BY <1>1, OfAppend DEF Coming
<1>9. Asked(B, o) = Asked(A, o) /\ Of(B.requests, o) = Of(A.requests, o)
  BY <1>2 DEF Asked
<1>10. Idle(A, o) => Once(B, o)
  BY <1>8, <1>9 DEF Idle, Once, Single
<1>11. QED
  BY <1>2, <1>7, <1>8, <1>9, <1>10

\* The progress that the answer x leaves operation o in.
LEMMA RoutedHolds ==
  ASSUME NEW A, NEW B, NEW D, NEW o \in Ops(A), Holds(A, D), ~A.crashed,
         Sound(B), Moves(A, B, o), Held(A, B), B.operations = A.operations, Progress(B, D, o)
  PROVE  Holds(B, D)
<1>1. Typed(A) /\ Typed(B)
  BY DEF Holds, Sound
<1>2. Registered(A) => Registered(B)
  BY <1>1, StaysRegistered DEF Held
<1>3. Handles(A, B, D, o)
  BY <1>2 DEF Handles, Registers
<1>4. QED
  BY <1>3, HandlesHolds DEF Holds

\* The first message, which is not an ejection, is gone.
LEMMA RestIs ==
  ASSUME Holds(agent, objects), agent.mail # <<>>, Head(agent.mail).kind # "eject"
  PROVE  /\ Holds(Rest, objects) /\ TheRest(agent, Rest) /\ Rest.clients = agent.clients
         /\ Differ(agent, Rest, {"mail"}) /\ Rest.mail = Tail(agent.mail)
<1>1. Sound(agent) /\ Typed(agent) /\ DOMAIN agent.clients = Clients
  BY DEF Holds, Sound, Typed
<1>2. Differ(agent, Rest, {"mail"}) /\ Rest.mail = Tail(agent.mail) /\ Rest.clients = agent.clients
  BY <1>1 DEF Typed, AgentFields, Rest, Took, Differ
<1>3. TakesFirst(agent, Rest)
  <2>1. Differ(agent, Rest, {"clients", "mail"})
    BY <1>2 DEF Differ
  <2>2. \A k \in Clients : Continues(agent.clients[k], Rest.clients[k])
    BY <1>1, <1>2, Unchanged DEF Typed
  <2>3. QED
    BY <1>1, <1>2, <2>1, <2>2 DEF TakesFirst
<1>4. StillApart(agent, Rest)
  BY DEF StillApart
<1>5. QED
  BY <1>2, <1>3, <1>4, FirstTakenHolds

LEMMA HeadIs ==
  ASSUME Sound(agent), agent.mail # <<>>
  PROVE  /\ GoodMessage(agent.operations, Head(agent.mail))
         /\ 1 \in 1..Len(agent.mail) /\ agent.mail[1] = Head(agent.mail)
<1>1. IsSeq(agent.mail)
  BY DEF Sound, Wired
<1>2. Len(agent.mail) \in Nat \ {0} /\ Head(agent.mail) = agent.mail[1]
  BY <1>1, SeqTail
<1>3. QED
  BY <1>2 DEF Sound, Wired

\* Clients hear something.
Hears(c, d) ==
  /\ DOMAIN d = DOMAIN c /\ d.allocated = c.allocated /\ d.m_state = c.m_state
  /\ d.m_channel = c.m_channel /\ d.subscriptions = c.subscriptions
  /\ d.post_removes = c.post_removes /\ d.m_av_id = c.m_av_id
  /\ IsFiniteSet(c.owned) => IsFiniteSet(d.owned)
  /\ d.connection = c.connection \/ (Present(c) /\ d.connection = "leaving")

LEMMA HearsContinues ==
  ASSUME NEW c, NEW d, GoodClient(c), Hears(c, d)
  PROVE  Continues(c, d)
<1>1. GoodClient(d)
  BY DEF GoodClient, Hears
<1>2. QED
  BY <1>1 DEF Hears, Continues, HasAccount, get_account_id, Present

LEMMA HeardHolds ==
  ASSUME Holds(agent, objects), agent.mail # <<>>, NEW B,
         Differ(agent, B, {"clients", "mail"}), B.mail = Tail(agent.mail),
         DOMAIN B.clients = Clients, \A k \in Clients : Hears(agent.clients[k], B.clients[k]),
         StillApart(agent, B)
  PROVE  Holds(B, objects)
<1>1. \A k \in Clients : GoodClient(agent.clients[k])
  BY DEF Holds, Sound, Typed
<1>2. TakesFirst(agent, B)
  BY <1>1, HearsContinues DEF TakesFirst
<1>3. QED
  BY <1>2, FirstTakenHolds

LEMMA HearsIs ==
  ASSUME NEW c, GoodClient(c)
  PROVE  /\ Hears(c, c)
         /\ Present(c) => Hears(c, [c EXCEPT !.connection = "leaving"])
         /\ \A v : /\ Hears(c, [c EXCEPT !.m_declared_objects = @ \cup {v}])
                   /\ Hears(c, [c EXCEPT !.m_declared_objects = @ \ {v}])
                   /\ Hears(c, [c EXCEPT !.owned = @ \cup {v}])
                   /\ Hears(c, [c EXCEPT !.owned = @ \ {v}])
<1>1. IsFiniteSet(c.owned) /\ DOMAIN c = ClientFields
  BY DEF GoodClient
<1>2. \A v : IsFiniteSet(c.owned \cup {v}) /\ IsFiniteSet(c.owned \ {v})
  BY <1>1, FS_AddElement, FS_RemoveElement
<1>3. \A v : /\ Hears(c, [c EXCEPT !.owned = @ \cup {v}])
             /\ Hears(c, [c EXCEPT !.owned = @ \ {v}])
  <2>1. SUFFICES ASSUME NEW v
                 PROVE  /\ Hears(c, [c EXCEPT !.owned = @ \cup {v}])
                        /\ Hears(c, [c EXCEPT !.owned = @ \ {v}])
    OBVIOUS
  <2>2. Hears(c, [c EXCEPT !.owned = @ \cup {v}])
    BY <1>1, <1>2 DEF ClientFields, Hears
  <2>3. Hears(c, [c EXCEPT !.owned = @ \ {v}])
    BY <1>1, <1>2 DEF ClientFields, Hears
  <2>4. QED
    BY <2>2, <2>3
<1>4. \A v : /\ Hears(c, [c EXCEPT !.m_declared_objects = @ \cup {v}])
             /\ Hears(c, [c EXCEPT !.m_declared_objects = @ \ {v}])
  BY <1>1 DEF ClientFields, Hears
<1>5. Hears(c, c) /\ (Present(c) => Hears(c, [c EXCEPT !.connection = "leaving"]))
  BY <1>1 DEF ClientFields, Hears
<1>6. QED
  BY <1>3, <1>4, <1>5

LEMMA ReceivesOwn ==
  ASSUME NEW c, HasAccount(c)
  PROVE  get_account_connection_channel(get_account_id(c)) \in c.subscriptions
BY SenderIs DEF HasAccount, get_account_id

LEMMA EjectHolds ==
  ASSUME Holds(agent, objects), agent.mail # <<>>, DeliverEject(Head(agent.mail))
  PROVE  Holds(agent', objects)
<1> DEFINE m == Head(agent.mail)
           B == agent'
           Gone == Receivers(m) \ {m.from}
<1>1. Sound(agent) /\ Typed(agent) /\ Accounted(agent)
  BY DEF Holds, Sound
<1>2. /\ Differ(agent, B, {"clients", "mail"}) /\ B.mail = Tail(agent.mail)
      /\ B.clients = [k \in Clients |->
            IF k \in Gone THEN [agent.clients[k] EXCEPT !.connection = "leaving"]
            ELSE agent.clients[k]]
  BY <1>1 DEF Typed, AgentFields, Rest, Took, Differ, DeliverEject
<1> HIDE DEF B
<1>3. ASSUME NEW k \in Clients PROVE Hears(agent.clients[k], B.clients[k])
  <2>1. GoodClient(agent.clients[k]) /\ (k \in Gone => Present(agent.clients[k]))
    BY <1>1 DEF Typed, Receivers, Live, Present
  <2>2. CASE k \in Gone
    <3>1. B.clients[k] = [agent.clients[k] EXCEPT !.connection = "leaving"]
      BY <1>2, <2>2
    <3>2. QED
      BY <2>1, <2>2, <3>1, HearsIs
  <2>3. CASE k \notin Gone
    BY <1>2, <2>1, <2>3, HearsIs
  <2>4. QED
    BY <2>2, <2>3
<1>4. StillApart(agent, B)
  <2>1. SUFFICES ASSUME NEW k \in Clients, NEW l \in Clients, k # l,
                        Playing(B.clients[k]), Playing(B.clients[l]),
                        get_account_id(B.clients[k]) = get_account_id(B.clients[l]),
                        m.to = get_account_connection_channel(get_account_id(B.clients[k]))
                 PROVE  FALSE
    BY DEF StillApart
  <2>2. ASSUME NEW n \in {k, l} PROVE n = m.from
    <3>1. n \in Clients /\ GoodClient(agent.clients[n]) /\ DOMAIN agent.clients[n] = ClientFields
      <4>1. n \in Clients
        OBVIOUS
      <4>2. GoodClient(agent.clients[n])
        BY <1>1, <4>1 DEF Typed
      <4>3. QED
        BY <4>1, <4>2 DEF GoodClient
    <3>2. n \notin Gone
      BY <1>2, <2>1, <3>1 DEF Playing, ClientFields
    <3>3. B.clients[n] = agent.clients[n] /\ Playing(agent.clients[n])
      BY <1>2, <2>1, <3>1, <3>2
    <3>4. HasAccount(agent.clients[n]) /\ agent.clients[n].connection = "open"
      BY <1>1, <3>1, <3>3 DEF Accounted, Playing, Present
    <3>5. m.to \in agent.clients[n].subscriptions
      BY <2>1, <3>3, <3>4, ReceivesOwn
    <3>6. n \in Receivers(m)
      BY <3>1, <3>4, <3>5 DEF Receivers, Live
    <3>7. QED
      BY <3>2, <3>6
  <2>3. QED
    BY <2>1, <2>2
<1>5. DOMAIN B.clients = Clients
  BY <1>2
<1>6. Holds(B, objects)
  BY <1>2, <1>3, <1>4, <1>5, HeardHolds
<1>7. QED
  BY <1>6 DEF B

LEMMA AnswerDeliveredHolds ==
  ASSUME Holds(agent, objects), Running, agent.mail # <<>>, DeliverAnswer(Head(agent.mail))
  PROVE  Holds(agent', objects)
<1>1. Head(agent.mail).kind \in Answers /\ ~agent.crashed /\ Head(agent.mail).kind # "eject"
  BY DEF DeliverAnswer, Answers, Running
<1>2. /\ Holds(Rest, objects) /\ Differ(agent, Rest, {"mail"}) /\ Rest.mail = Tail(agent.mail)
  BY <1>1, RestIs
<1>3. agent' = Rest \/ agent' = handle_answer(Rest, Head(agent.mail))
  BY DEF DeliverAnswer
<1>4. Holds(handle_answer(Rest, Head(agent.mail)), objects)
  BY <1>1, <1>2, AnswerHolds
<1>5. QED
  BY <1>2, <1>3, <1>4

LEMMA ActivateHolds ==
  ASSUME Holds(agent, objects), Running, agent.mail # <<>>, DeliverActivate(Head(agent.mail)),
         IsFiniteSet(loaded)
  PROVE  Holds(agent', objects) /\ IsFiniteSet(loaded')
<1> DEFINE m == Head(agent.mail)
           x == [kind |-> "enter_owner", do_id |-> m.do_id, to |-> m.owner]
<1>1. Holds(Rest, objects) /\ ~Rest.crashed /\ Sound(Rest)
  BY RestIs DEF DeliverActivate, TheRest, Running, Holds
<1>2. CASE agent' = Rest /\ loaded' = loaded
  BY <1>1, <1>2
<1>3. CASE agent' = Post(Rest, x) /\ loaded' = loaded \cup {[do_id |-> m.do_id, owner |-> m.owner]}
  <2>1. GoodMessage(Rest.operations, x) /\ x.kind \notin Replies
    BY DEF GoodMessage, Replies
  <2> HIDE DEF x
  <2>2. Holds(Post(Rest, x), objects)
    BY <1>1, <2>1, AfterPost, HeldHolds
  <2>3. QED
    BY <1>3, <2>2, FS_AddElement
<1>4. QED
  BY <1>2, <1>3 DEF DeliverActivate

LEMMA DeleteRamHolds ==
  ASSUME Holds(agent, objects), Running, agent.mail # <<>>, DeliverDeleteRam(Head(agent.mail)),
         IsFiniteSet(loaded)
  PROVE  Holds(agent', objects) /\ IsFiniteSet(loaded')
<1> DEFINE m == Head(agent.mail)
           deleted == {l \in loaded : l.do_id = m.do_id}
           Left(l) == [kind |-> "leave_owner", do_id |-> l.do_id, to |-> l.owner]
           S == {Left(l) : l \in deleted}
           n == SetToSeq(S)
           B == [Rest EXCEPT !.mail = @ \o n]
<1>1. Holds(Rest, objects) /\ ~Rest.crashed /\ Sound(Rest) /\ Typed(Rest) /\ m.kind # "eject"
  BY RestIs DEF DeliverDeleteRam, TheRest, Running, Holds, Sound
<1>2. agent' = B /\ loaded' = loaded \ deleted
  BY DEF DeliverDeleteRam
<1>3. IsFiniteSet(deleted) /\ IsFiniteSet(loaded')
  BY <1>2, FS_Subset
<1>4. IsFiniteSet(S)
  <2> DEFINE f == [l \in deleted |-> Left(l)]
  <2>1. f \in [deleted -> S] /\ \A x \in S : \E l \in deleted : f[l] = x
    OBVIOUS
  <2> HIDE DEF deleted, f, S
  <2>2. f \in Surjection(deleted, S)
    BY <2>1 DEF Surjection
  <2>3. QED
    BY <1>3, <2>2, FS_Surjection
<1>5. \A x \in S : GoodMessage(Rest.operations, x) /\ x.kind \notin Replies
  BY DEF GoodMessage, Replies
<1> HIDE DEF S
<1>6. IsSeq(n) /\ \A i \in 1..Len(n) : n[i] \in S
  BY <1>4, SetInTurn
<1> HIDE DEF n
<1>7. Differ(Rest, B, {"mail"}) /\ B.mail = Rest.mail \o n
  BY <1>1 DEF Typed, AgentFields, Differ
<1> HIDE DEF B
<1>8. Sound(B) /\ Moves(Rest, B, 0) /\ Held(Rest, B)
  BY <1>1, <1>5, <1>6, <1>7, AfterPosts
<1>9. Holds(B, objects)
  BY <1>1, <1>8, HeldHolds
<1>10. QED
  BY <1>2, <1>3, <1>9

LEMMA HeadConcerns ==
  ASSUME NEW A, NEW R, NEW o, Sound(A), A.mail # <<>>, Concerns(Head(A.mail), o),
         R.mail = Tail(A.mail), R.requests = A.requests
  PROVE  Head(A.mail) \in Coming(A, o) /\ (Once(A, o) => Idle(R, o))
<1>1. IsSeq(A.mail)
  BY DEF Sound, Wired
<1>2. Head(A.mail) \in Values(A.mail, o) /\ (Single(Of(A.mail, o)) => Of(Tail(A.mail), o) = {})
  BY <1>1, OfTail
<1>3. Of(A.mail, o) # {}
  BY <1>2 DEF Values
<1>4. QED
  BY <1>2, <1>3 DEF Once, Idle, Coming

LEMMA GetActivatedHolds ==
  ASSUME Holds(agent, objects), Running, agent.mail # <<>>, DeliverGetActivated(Head(agent.mail))
  PROVE  Holds(agent', objects)
<1> DEFINE m == Head(agent.mail)
           o == m.op
           op == agent.operations[o]
           x == Answer(m, "activated", m.do_id \in {l.do_id : l \in loaded})
           B == Post(Rest, x)
<1>1. m.kind = "get_activated" /\ agent' = B /\ Sound(agent) /\ ~agent.crashed
  BY DEF DeliverGetActivated, Holds, Running
<1>2. /\ Holds(Rest, objects) /\ Differ(agent, Rest, {"mail"}) /\ Rest.mail = Tail(agent.mail)
      /\ TheRest(agent, Rest)
  BY <1>1, RestIs
<1>3. /\ Rest.operations = agent.operations /\ Rest.requests = agent.requests
      /\ Rest.disowned = agent.disowned /\ ~Rest.crashed /\ Sound(Rest) /\ Typed(Rest)
      /\ Ops(Rest) = Ops(agent)
  BY <1>1, <1>2 DEF TheRest, Holds, Sound, Ops
<1>4. o \in Ops(agent) /\ op.kind \in FriendKinds /\ Concerns(m, o)
  BY <1>1, HeadIs DEF GoodMessage, Replies, Ops, Concerns
<1>5. m \in Coming(agent, o) /\ (Once(agent, o) => Idle(Rest, o))
  BY <1>1, <1>2, <1>3, <1>4, HeadConcerns
<1>6. GoodMessage(Rest.operations, x) /\ x.op = o /\ x.kind = "activated" /\ x.kind \in Replies
  BY <1>3, <1>4 DEF GoodMessage, Replies, Answer, Ops
<1>7. MayAsk(Rest, o)
  BY <1>3, <1>4, Zenon DEF MayAsk, FriendKinds
<1>8. Differ(Rest, B, {"mail"}) /\ B.mail = Append(Rest.mail, x)
  BY <1>3 DEF Typed, AgentFields, Differ, Post
<1>9. /\ Progress(agent, objects, o) /\ Progress(Rest, objects, o)
  BY <1>1, <1>2, <1>3, <1>4 DEF Holds
<1> HIDE DEF x, B
<1>10. /\ Sound(B) /\ Moves(Rest, B, o) /\ Held(Rest, B) /\ B.operations = Rest.operations
       /\ Asked(B, o) = Asked(Rest, o) /\ Coming(B, o) = Coming(Rest, o) \cup {x}
       /\ Idle(Rest, o) => Once(B, o)
  BY <1>3, <1>4, <1>6, <1>7, <1>8, OneRouted
<1>11. Progress(B, objects, o)
  <2>1. B.operations[o] = op /\ Rest.operations[o] = op /\ B.disowned = agent.disowned
    BY <1>3, <1>10 DEF Held
  <2>2. CASE op.kind \in Beside
    BY <2>1, <2>2 DEF Progress, Beside, Singly, Linear
  <2>3. CASE op.kind = "removefriend"
    <3>1. Once(B, o)
      BY <1>5, <1>9, <1>10, <2>3 DEF Progress, Singly
    <3>2. op.over /\ ~op.m_last => Asked(B, o) = {} /\ \A y \in Coming(B, o) : y.kind # "query"
      BY <1>6, <1>9, <1>10, <2>1, <2>3 DEF Progress
    <3>3. QED
      BY <2>1, <2>3, <3>1, <3>2 DEF Progress, Linear
  <2>4. CASE op.kind = "friendslist"
    <3>1. Befriending(agent, o) /\ op.m_target \in agent.disowned
      BY <1>1, <1>5, <1>9, <2>4 DEF Progress, Befriending
    <3>2. Befriending(B, o)
      BY <2>1, <3>1 DEF Befriending
    <3>3. QED
      BY <2>1, <2>4, <3>2 DEF Progress, Singly, Linear
  <2>5. QED
    BY <1>4, <2>2, <2>3, <2>4 DEF FriendKinds, Beside
<1>12. Holds(B, objects)
  BY <1>2, <1>3, <1>4, <1>10, <1>11, RoutedHolds
<1>13. QED
  BY <1>1, <1>12

LEMMA UpdateDeliveredHolds ==
  ASSUME Holds(agent, objects), Running, agent.mail # <<>>, DeliverUpdateField(Head(agent.mail))
  PROVE  Holds(agent', objects)
<1> DEFINE m == Head(agent.mail)
           B == update_object(Rest, m.do_id, m.value)
<1>1. m.kind = "update_field" /\ agent' = B /\ Sound(agent)
  BY DEF DeliverUpdateField, Holds
<1>2. Holds(Rest, objects) /\ Sound(Rest) /\ ~Rest.crashed
  BY <1>1, RestIs DEF TheRest, Running, Holds
<1>3. m.value \in Updates
  BY <1>1, HeadIs DEF GoodMessage
<1>4. Sound(B) /\ Moves(Rest, B, 0) /\ Held(Rest, B)
  BY <1>2, <1>3, AfterUpdate
<1>5. QED
  BY <1>1, <1>2, <1>4, HeldHolds

\* Clients that hear of an object, by a message that is no ejection.
LEMMA DeclarationHolds ==
  ASSUME Holds(agent, objects), agent.mail # <<>>, Head(agent.mail).kind # "eject", NEW B,
         NEW f, DOMAIN f = Clients, B = [Rest EXCEPT !.clients = f],
         \A k \in Clients : Hears(agent.clients[k], f[k])
  PROVE  Holds(B, objects)
<1>1. Typed(agent)
  BY DEF Holds, Sound
<1>2. /\ Differ(agent, B, {"clients", "mail"}) /\ B.mail = Tail(agent.mail)
      /\ B.clients = f
  BY <1>1 DEF Typed, AgentFields, Rest, Took, Differ
<1>3. /\ DOMAIN B.clients = Clients /\ \A k \in Clients : Hears(agent.clients[k], B.clients[k])
  BY <1>2
<1>4. StillApart(agent, B)
  BY DEF StillApart
<1>5. QED
  BY <1>2, <1>3, <1>4, HeardHolds

LEMMA HearingHolds ==
  ASSUME Holds(agent, objects), agent.mail # <<>>,
         DeliverDeclaration(Head(agent.mail)) \/ DeliverOwnership(Head(agent.mail))
  PROVE  Holds(agent', objects)
<1> DEFINE m == Head(agent.mail)
           c(k) == Rest.clients[k]
<1>1. Typed(agent) /\ m.kind # "eject" /\ Rest.clients = agent.clients
  BY RestIs DEF Holds, Sound, DeliverDeclaration, DeliverOwnership
<1>2. \A k \in Clients : GoodClient(c(k)) /\ c(k) = agent.clients[k]
  BY <1>1 DEF Typed
<1>3. CASE DeliverDeclaration(m)
  <2> DEFINE f == [k \in Clients |-> IF k \in Receivers(m) THEN Declared(c(k), m) ELSE c(k)]
  <2>1. agent' = [Rest EXCEPT !.clients = f] /\ DOMAIN f = Clients
    BY <1>3 DEF DeliverDeclaration
  <2>2. \A k \in Clients : Hears(c(k), f[k])
    BY <1>2, HearsIs DEF Declared
  <2> HIDE DEF f
  <2>3. QED
    BY <1>1, <2>1, <2>2, DeclarationHolds
<1>4. CASE DeliverOwnership(m)
  <2> DEFINE f == [k \in Clients |-> IF k \in Receivers(m) THEN Owning(c(k), m) ELSE c(k)]
  <2>1. agent' = [Rest EXCEPT !.clients = f] /\ DOMAIN f = Clients
    BY <1>4 DEF DeliverOwnership
  <2>2. \A k \in Clients : Hears(c(k), f[k])
    BY <1>2, HearsIs DEF Owning
  <2> HIDE DEF f
  <2>3. QED
    BY <1>1, <2>1, <2>2, DeclarationHolds
<1>5. QED
  BY <1>3, <1>4

LEMMA DeliverHolds ==
  ASSUME Holds(agent, objects), IsFiniteSet(loaded), Deliver
  PROVE  Holds(agent', objects') /\ IsFiniteSet(loaded')
<1> DEFINE m == Head(agent.mail)
<1>1. Running /\ agent.mail # <<>> /\ objects' = objects
  BY DEF Deliver
<1>2. CASE DeliverEject(m)
  BY <1>1, <1>2, EjectHolds DEF DeliverEject
<1>3. CASE DeliverAnswer(m)
  BY <1>1, <1>3, AnswerDeliveredHolds DEF DeliverAnswer
<1>4. CASE DeliverActivate(m)
  BY <1>1, <1>4, ActivateHolds
<1>5. CASE DeliverDeleteRam(m)
  BY <1>1, <1>5, DeleteRamHolds
<1>6. CASE DeliverOwnership(m) \/ DeliverDeclaration(m)
  BY <1>1, <1>6, HearingHolds DEF DeliverOwnership, DeliverDeclaration
<1>7. CASE DeliverGetActivated(m)
  BY <1>1, <1>7, GetActivatedHolds DEF DeliverGetActivated
<1>8. CASE DeliverUpdateField(m)
  BY <1>1, <1>8, UpdateDeliveredHolds DEF DeliverUpdateField
<1>9. QED
  BY <1>2, <1>3, <1>4, <1>5, <1>6, <1>7, <1>8 DEF Deliver

-----------------------------------------------------------------------------
(* A request is taken by the database.                                       *)
TakesRequest(A, B, k) ==
  /\ k \in 1..Len(A.requests)
  /\ Differ(A, B, {"requests"}) /\ B.requests = RemoveAt(A.requests, k)

AllButRequests(A, B) ==
  /\ B.operations = A.operations /\ B.mail = A.mail /\ B.clients = A.clients
  /\ B.m_account2operation = A.m_account2operation
  /\ B.m_connection2operation = A.m_connection2operation
  /\ B.disowned = A.disowned /\ B.told = A.told /\ B.killed_twice = A.killed_twice
  /\ B.crashed = A.crashed /\ B.m_bridge = A.m_bridge /\ DOMAIN B = AgentFields

LEMMA RequestTaken ==
  ASSUME NEW A, NEW B, NEW k, Sound(A), TakesRequest(A, B, k)
  PROVE  /\ Sound(B) /\ AllButRequests(A, B) /\ \A p \in Ops(A) : Fewer(A, B, p)
         /\ \A p \in Ops(A) : Concerns(A.requests[k], p) =>
              A.requests[k] \in Asked(A, p) /\ (Once(A, p) => Idle(B, p))
<1>1. /\ Typed(A) /\ Wired(A) /\ Accounted(A) /\ Apart(A) /\ \A o \in Ops(A) : Served(A, o)
      /\ IsSeq(A.requests) /\ k \in 1..Len(A.requests)
  BY DEF Sound, Ops, Wired, TakesRequest
<1>2. AllButRequests(A, B)
  BY DEF TakesRequest, Differ, AgentFields, AllButRequests
<1>3. /\ B.operations = A.operations /\ B.mail = A.mail /\ B.clients = A.clients
      /\ B.m_connection2operation = A.m_connection2operation
      /\ B.requests = RemoveAt(A.requests, k)
  BY <1>2 DEF AllButRequests, TakesRequest
<1>4. Typed(B)
  BY <1>1, <1>2 DEF Typed, Tables, AllButRequests
<1>5. Wired(B)
  <2>1. /\ IsSeq(B.requests) /\ Len(B.requests) = Len(A.requests) - 1
        /\ \A j \in 1..(k - 1) : B.requests[j] = A.requests[j]
        /\ \A j \in k..(Len(A.requests) - 1) : B.requests[j] = A.requests[j + 1]
        /\ Len(A.requests) \in Nat /\ k \in Nat
    BY <1>1, <1>3, SeqRemove
  <2>2. ASSUME NEW j \in 1..Len(B.requests) PROVE \E i \in 1..Len(A.requests) : B.requests[j] = A.requests[i]
    <3>1. CASE j < k
      <4>1. j \in 1..(k - 1) /\ j \in 1..Len(A.requests)
        BY <1>1, <2>1, <3>1
      <4>2. QED
        BY <2>1, <4>1
    <3>2. CASE ~(j < k)
      <4>1. j \in k..(Len(A.requests) - 1) /\ j + 1 \in 1..Len(A.requests)
        BY <1>1, <2>1, <3>2
      <4>2. QED
        BY <2>1, <4>1
    <3>3. QED
      BY <3>1, <3>2
  <2>3. QED
    BY <1>1, <1>3, <2>1, <2>2 DEF Wired
<1>6. Accounted(B) /\ Apart(B)
  BY <1>1, <1>3 DEF Accounted, Apart, Ejecting
<1>7. ASSUME NEW p \in Ops(A)
      PROVE  /\ Fewer(A, B, p)
             /\ Concerns(A.requests[k], p) =>
                  A.requests[k] \in Asked(A, p) /\ (Once(A, p) => Idle(B, p))
  <2>1. /\ Values(B.requests, p) \subseteq Values(A.requests, p)
        /\ Of(A.requests, p) = {} => Of(B.requests, p) = {}
        /\ Single(Of(A.requests, p)) =>
             /\ Single(Of(B.requests, p))
             /\ Concerns(A.requests[k], p) => Of(B.requests, p) = {}
        /\ Concerns(A.requests[k], p) => A.requests[k] \in Values(A.requests, p) /\ k \in Of(A.requests, p)
    BY <1>1, <1>3, OfRemove
  <2>2. Fewer(A, B, p)
    BY <1>3, <2>1 DEF Fewer, Asked, Coming
  <2>3. QED
    BY <1>3, <2>1, <2>2 DEF Asked, Once, Idle
<1>8. ASSUME NEW o \in Ops(A) PROVE Served(B, o)
  <2>1. Idle(A, o) => Idle(B, o)
    BY <1>7 DEF Fewer, Idle
  <2>2. Served(A, o)
    BY <1>1
  <2>3. QED
    BY <1>3, <2>1, <2>2 DEF Served, LoginServed, AccountServed
<1>9. \A o \in 1..Len(B.operations) : Served(B, o)
  BY <1>3, <1>8 DEF Ops
<1>10. Allotted(B)
  BY <1>3, StillAllotted DEF Sound
<1>11. QED
  BY <1>2, <1>4, <1>5, <1>6, <1>7, <1>9, <1>10 DEF Sound

LEMMA RequestTakenHolds ==
  ASSUME NEW A, NEW B, NEW D, NEW k, Holds(A, D), TakesRequest(A, B, k)
  PROVE  Holds(B, D) /\ AllButRequests(A, B)
<1>1. Sound(B) /\ AllButRequests(A, B) /\ \A p \in Ops(A) : Fewer(A, B, p)
  BY RequestTaken DEF Holds
<1>2. Ops(B) = Ops(A)
  BY <1>1 DEF Ops, AllButRequests
<1>3. B.crashed \/ \A p \in Ops(B) : Progress(B, D, p)
  BY <1>1, <1>2, FewerProgress DEF Holds, AllButRequests
<1>4. Registered(A) => Registered(B)
  BY <1>1 DEF Registered, Unresolved, AllButRequests
<1>5. QED
  BY <1>1, <1>3, <1>4 DEF Holds, AllButRequests

-----------------------------------------------------------------------------
(* Objects change.                                                           *)

\* Slots that are taken stay so; there are no fewer objects.
Preserves(D, E) ==
  \A a, slot, v : Filled(D, a, slot, v) => Filled(E, a, slot, v)

LEMMA PreservesHolds ==
  ASSUME NEW A, NEW D, NEW E, Holds(A, D), Preserves(D, E)
  PROVE  Holds(A, E)
<1>1. ASSUME NEW o \in Ops(A), Progress(A, D, o) PROVE Progress(A, E, o)
  <2>1. Creating(A, D, o) => Creating(A, E, o)
    BY DEF Creating, Preserves
  <2>2. QED
    BY <1>1, <2>1 DEF Progress
<1>2. \A t \in A.told : Filled(E, t[1], t[2], t[3])
  BY DEF Holds, Preserves
<1>3. QED
  BY <1>1, <1>2 DEF Holds

Data(D) == D \in [Doids -> ObjectsNow]

LEMMA ObjectKinds ==
  ASSUME NEW x \in ObjectsNow
  PROVE  /\ x = no_object \/ x = dead_object \/ x.class = "avatar"
              \/ \E s \in AvatarSets : x = account_object(s)
         /\ x.class = "account" => x = account_object(x.ACCOUNT_AV_SET) /\ x.ACCOUNT_AV_SET \in AvatarSets
         /\ x.class = "avatar" => x # no_object /\ x # dead_object
BY DEF ObjectsNow, Objects, no_object, dead_object, account_object

LEMMA AccountObject ==
  ASSUME NEW s \in AvatarSets
  PROVE  /\ account_object(s) \in ObjectsNow /\ account_object(s) # no_object
         /\ account_object(s).class = "account" /\ account_object(s).ACCOUNT_AV_SET = s
BY DEF ObjectsNow, Objects, no_object, account_object

\* One object changes, and no slot that is taken.
LEMMA OneChanges ==
  ASSUME NEW D, NEW d \in Doids, NEW x \in ObjectsNow, Data(D),
         D[d] # no_object => x # no_object,
         \A slot, v : Filled(D, d, slot, v) /\ x.class = "account" => x.ACCOUNT_AV_SET[slot] = v
  PROVE  Data([D EXCEPT ![d] = x]) /\ Preserves(D, [D EXCEPT ![d] = x])
<1>1. Data([D EXCEPT ![d] = x])
  BY DEF Data
<1>2. Preserves(D, [D EXCEPT ![d] = x])
  BY DEF Data, Preserves, Filled
<1>3. QED
  BY <1>1, <1>2

-----------------------------------------------------------------------------
(* The database answers.                                                     *)

\* x tells creation o of a slot that is still open, or of one that is taken.
Fits(x, op, E) ==
  op.kind = "create" =>
    /\ x.kind = "create" => OpenSlot(op)
    /\ x.kind = "update" /\ x.value => Filled(E, op.m_target, op.arg, op.m_av_set[op.arg])

LEMMA ReplyProgress ==
  ASSUME NEW A, NEW B, NEW E, NEW o \in Ops(A), NEW r \in Asked(A, o), NEW x, Progress(A, E, o),
         B.operations = A.operations, B.disowned = A.disowned,
         Asked(B, o) \subseteq Asked(A, o), Coming(B, o) \subseteq Coming(A, o) \cup {x},
         Once(A, o) => Once(B, o), x.kind \in {"query", "create", "update"},
         Fits(x, A.operations[o], E)
  PROVE  Progress(B, E, o)
<1> DEFINE op == A.operations[o]
<1>1. ~Idle(A, o)
  BY DEF Idle, Asked, Values
<1>2. op.kind \in Linear => ~Through(op)
  BY <1>1 DEF Progress
<1>3. ~(op.kind = "removefriend" /\ op.over /\ ~op.m_last)
  BY DEF Progress
<1>4. op.kind = "create" => Creating(B, E, o)
  BY DEF Progress, Creating, Fits
<1>5. op.kind = "friendslist" => Befriending(B, o)
  BY DEF Progress, Befriending
<1>6. QED
  BY <1>2, <1>3, <1>4, <1>5 DEF Progress

Routing(A, B, o, x) ==
  /\ o \in Ops(A) /\ Sound(A) /\ MayAsk(A, o) /\ GoodMessage(A.operations, x) /\ x.op = o
  /\ x.kind \in Replies /\ Differ(A, B, {"mail"}) /\ B.mail = Append(A.mail, x)

Routed(A, B, o, x) ==
  /\ Sound(B) /\ Moves(A, B, o) /\ Held(A, B) /\ B.operations = A.operations
  /\ Asked(B, o) = Asked(A, o) /\ Coming(B, o) = Coming(A, o) \cup {x}
  /\ Idle(A, o) => Once(B, o)

LEMMA RoutingIs ==
  ASSUME NEW A, NEW B, NEW o, NEW x, Routing(A, B, o, x)
  PROVE  Routed(A, B, o, x)
<1>1. /\ o \in Ops(A) /\ Sound(A) /\ MayAsk(A, o) /\ GoodMessage(A.operations, x) /\ x.op = o
      /\ x.kind \in Replies /\ Differ(A, B, {"mail"}) /\ B.mail = Append(A.mail, x)
  BY DEF Routing
<1>2. /\ Sound(B) /\ Moves(A, B, o) /\ Held(A, B) /\ B.operations = A.operations
      /\ Asked(B, o) = Asked(A, o) /\ Coming(B, o) = Coming(A, o) \cup {x}
      /\ Idle(A, o) => Once(B, o)
  BY <1>1, OneRouted
<1>3. QED
  BY <1>2 DEF Routed

LEMMA AnsweredHolds ==
  ASSUME NEW A, NEW B, NEW D, NEW E, NEW i \in 1..Len(A.requests), NEW x,
         Holds(A, D), ~A.crashed, Preserves(D, E), A.requests[i].ask # "set",
         B = [A EXCEPT !.requests = RemoveAt(@, i), !.mail = @ \o <<x>>],
         GoodMessage(A.operations, x), x.op = A.requests[i].op,
         x.kind \in {"query", "create", "update"}, Fits(x, A.operations[x.op], E)
  PROVE  Holds(B, E)
<1> DEFINE r == A.requests[i]
           o == x.op
           R == [A EXCEPT !.requests = RemoveAt(@, i)]
<1>1. Sound(A) /\ Typed(A) /\ Wired(A) /\ Holds(A, E)
  BY PreservesHolds DEF Holds, Sound
<1>2. GoodRequest(A.operations, r)
  BY <1>1 DEF Wired
<1>3. o \in Ops(A) /\ Concerns(r, o)
  BY <1>2 DEF GoodRequest, Ops, Concerns
<1>4. TakesRequest(A, R, i)
  BY <1>1 DEF Typed, AgentFields, Differ, TakesRequest
<1>5. Differ(R, B, {"mail"}) /\ B.mail = R.mail \o <<x>>
  BY <1>1 DEF Typed, AgentFields, Differ
<1> HIDE DEF R
<1>6. Holds(R, E) /\ AllButRequests(A, R) /\ Fewer(A, R, o) /\ r \in Asked(A, o) /\ (Once(A, o) => Idle(R, o))
  BY <1>1, <1>3, <1>4, RequestTaken, RequestTakenHolds
<1>7. /\ R.operations = A.operations /\ R.clients = A.clients /\ R.disowned = A.disowned
      /\ ~R.crashed /\ Sound(R) /\ o \in Ops(R) /\ IsSeq(R.mail)
  BY <1>3, <1>6 DEF AllButRequests, Holds, Ops, Sound, Wired
<1>8. MayAsk(R, o)
  <2>1. ~Idle(A, o)
    BY <1>6 DEF Idle, Asked, Values
  <2>2. LoginServed(A, o)
    BY <1>1, <1>3 DEF Sound, Served, Ops
  <2>3. QED
    BY <1>7, <2>1, <2>2, Zenon DEF LoginServed, MayAsk
<1>9. B.mail = Append(R.mail, x)
  <2>1. Append(R.mail, x) = R.mail \o <<x>>
    BY ONLY <1>7, ConcatOne
  <2>2. QED
    BY <1>5, <2>1
<1>10. GoodMessage(R.operations, x) /\ x.kind \in Replies /\ x.op = o
  BY <1>7 DEF Replies
<1> HIDE DEF o
<1>11. /\ Sound(B) /\ Moves(R, B, o) /\ Held(R, B) /\ B.operations = R.operations
       /\ Asked(B, o) = Asked(R, o) /\ Coming(B, o) = Coming(R, o) \cup {x}
       /\ Idle(R, o) => Once(B, o)
  <2>1. Routing(R, B, o, x)
    BY <1>5, <1>7, <1>8, <1>9, <1>10 DEF Routing
  <2>2. Routed(R, B, o, x)
    BY <2>1, RoutingIs
  <2>3. QED
    BY <2>2 DEF Routed
<1>12. Progress(B, E, o)
  <2>1. Progress(A, E, o)
    BY <1>1, <1>3 DEF Holds, Ops
  <2>2. /\ B.operations = A.operations /\ B.disowned = A.disowned
        /\ Asked(B, o) \subseteq Asked(A, o) /\ Coming(B, o) \subseteq Coming(A, o) \cup {x}
        /\ Once(A, o) => Once(B, o)
    BY <1>6, <1>7, <1>11 DEF Fewer, Held
  <2>3. QED
    BY <1>3, <1>6, <2>1, <2>2, ReplyProgress DEF o
<1>13. QED
  BY <1>6, <1>7, <1>11, <1>12, RoutedHolds

\* The request i, and what it is for.
LEMMA RequestIs ==
  ASSUME NEW A, NEW D, Holds(A, D), ~A.crashed, NEW i \in 1..Len(A.requests)
  PROVE  LET r == A.requests[i]
         IN  /\ GoodRequest(A.operations, r) /\ Wired(A) /\ Typed(A)
             /\ r.ask # "set" => /\ r.op \in Ops(A) /\ GoodOperation(A.operations[r.op])
                                 /\ r \in Asked(A, r.op) /\ Progress(A, D, r.op)
<1> DEFINE r == A.requests[i]
<1>1. Typed(A) /\ Wired(A)
  BY DEF Holds, Sound
<1>2. GoodRequest(A.operations, r)
  BY <1>1 DEF Wired
<1>3. ASSUME r.ask # "set"
      PROVE  r.op \in Ops(A) /\ GoodOperation(A.operations[r.op]) /\ r \in Asked(A, r.op)
  BY <1>1, <1>2, <1>3 DEF GoodRequest, Ops, Typed, Asked, Values, Of, Concerns
<1>4. QED
  BY <1>1, <1>2, <1>3 DEF Holds

LEMMA AnswerIs ==
  ASSUME NEW r, NEW kind, NEW v
  PROVE  LET x == Answer(r, kind, v)
         IN  /\ "kind" \in DOMAIN x /\ x.kind = kind /\ x.op = r.op /\ x.do_id = r.do_id /\ x.value = v
BY DEF Answer

LEMMA SameObjects == \A D : Preserves(D, D)
BY DEF Preserves

Replied(i, E) ==
  /\ i \in 1..Len(agent.requests) /\ agent.requests[i].ask # "set"
  /\ \E x : /\ agent' = [agent EXCEPT !.requests = RemoveAt(@, i), !.mail = @ \o <<x>>]
            /\ GoodMessage(agent.operations, x) /\ x.op = agent.requests[i].op
            /\ x.kind \in {"query", "create", "update"} /\ Fits(x, agent.operations[x.op], E)

LEMMA RepliedHolds ==
  ASSUME Holds(agent, objects), Running, NEW i, NEW E, Replied(i, E), Preserves(objects, E)
  PROVE  Holds(agent', E)
<1>1. PICK x : /\ agent' = [agent EXCEPT !.requests = RemoveAt(@, i), !.mail = @ \o <<x>>]
               /\ GoodMessage(agent.operations, x) /\ x.op = agent.requests[i].op
               /\ x.kind \in {"query", "create", "update"} /\ Fits(x, agent.operations[x.op], E)
  BY DEF Replied
<1>2. i \in 1..Len(agent.requests) /\ agent.requests[i].ask # "set" /\ ~agent.crashed
  BY DEF Replied, Running
<1>3. QED
  BY <1>1, <1>2, AnsweredHolds

LEMMA GetHolds ==
  ASSUME Holds(agent, objects), Running, Data(objects), NEW i \in 1..Len(agent.requests),
         Get(i, agent.requests[i])
  PROVE  Holds(agent', objects') /\ Data(objects')
<1> DEFINE r == agent.requests[i]
           x == Answer(r, "query", objects[r.do_id])
<1>1. r.ask = "get" /\ objects' = objects /\ agent' = [agent EXCEPT !.requests = RemoveAt(@, i), !.mail = @ \o <<x>>]
  BY DEF Get, Answered
<1>2. GoodRequest(agent.operations, r) /\ r.op \in Ops(agent) /\ r.do_id \in Doids
  BY <1>1, RequestIs DEF GoodRequest, Running
<1>3. x.op = r.op /\ x.kind = "query" /\ "kind" \in DOMAIN x /\ x.do_id \in Doids /\ x.value \in ObjectsNow
  BY <1>2, AnswerIs DEF Data
<1> HIDE DEF x
<1>4. GoodMessage(agent.operations, x) /\ Fits(x, agent.operations[x.op], objects)
  BY <1>2, <1>3 DEF GoodMessage, Fits, Ops
<1>5. Replied(i, objects)
  BY <1>1, <1>3, <1>4 DEF Replied
<1>6. QED
  BY <1>1, <1>5, RepliedHolds, SameObjects

LEMMA CreateHolds ==
  ASSUME Holds(agent, objects), Running, Data(objects), NEW i \in 1..Len(agent.requests),
         Create(i, agent.requests[i])
  PROVE  Holds(agent', objects') /\ Data(objects')
<1> DEFINE r == agent.requests[i]
           op == agent.operations[r.op]
<1>1. /\ r.ask = "create" /\ GoodRequest(agent.operations, r) /\ r.op \in Ops(agent)
      /\ r \in Asked(agent, r.op) /\ Progress(agent, objects, r.op)
  BY RequestIs DEF Create, Running
<1>2. op.kind \in {"login", "create"} /\ r.value \in Objects \ {no_object}
  BY <1>1 DEF GoodRequest
<1>3. op.kind = "create" => OpenSlot(op)
  BY <1>1, Zenon DEF Progress, Creating
<1>4. ASSUME NEW d \in 0..MaxDoid, NEW E, agent' = Answered(i, <<Answer(r, "create", d)>>)
      PROVE  Replied(i, E)
  <2> DEFINE x == Answer(r, "create", d)
  <2>1. x.op = r.op /\ x.kind = "create" /\ "kind" \in DOMAIN x /\ x.value \in 0..MaxDoid
    BY AnswerIs
  <2>2. agent' = [agent EXCEPT !.requests = RemoveAt(@, i), !.mail = @ \o <<x>>]
    BY <1>4 DEF Answered
  <2> HIDE DEF x
  <2>3. GoodMessage(agent.operations, x)
    BY <1>1, <1>2, <2>1 DEF GoodMessage, Ops, Replies
  <2>4. Fits(x, agent.operations[x.op], E)
    BY <1>3, <2>1 DEF Fits
  <2>5. QED
    BY <1>1, <2>1, <2>2, <2>3, <2>4 DEF Replied
<1>5. CASE Free = {}
  <2>1. agent' = Answered(i, <<Answer(r, "create", 0)>>) /\ objects' = objects
    BY <1>5 DEF Create
  <2>2. 0 \in 0..MaxDoid
    BY ManagerAssumption
  <2>3. QED
    BY <1>4, <2>1, <2>2, RepliedHolds, SameObjects
<1>6. ASSUME NEW d \in Free, agent' = Answered(i, <<Answer(r, "create", d)>>),
             objects' = [objects EXCEPT ![d] = r.value]
      PROVE  Holds(agent', objects') /\ Data(objects')
  <2>1. d \in Doids /\ d \in 0..MaxDoid /\ objects[d] = no_object
    BY <1>6, ManagerAssumption DEF Free, Doids
  <2>2. r.value \in ObjectsNow /\ r.value # no_object /\ \A slot, v : ~Filled(objects, d, slot, v)
    BY <1>2, <2>1 DEF ObjectsNow, Filled
  <2>3. Data([objects EXCEPT ![d] = r.value]) /\ Preserves(objects, [objects EXCEPT ![d] = r.value])
    BY ONLY Data(objects), <2>1, <2>2, OneChanges
  <2>4. Preserves(objects, objects') /\ Data(objects')
    BY <1>6, <2>3
  <2>5. QED
    BY <1>4, <1>6, <2>1, <2>4, RepliedHolds
<1>7. QED
  BY <1>5, <1>6 DEF Create

LEMMA EmptiedSlot ==
  ASSUME NEW s \in AvatarSets, NEW n \in Slots
  PROVE  LET t == [s EXCEPT ![n] = 0]
         IN  t \in AvatarSets /\ t[n] = 0 /\ \A slot \in Slots : slot # n => t[slot] = s[slot]
<1>1. 0 \in 0..MaxDoid
  BY ManagerAssumption
<1>2. QED
  BY <1>1 DEF AvatarSets

LEMMA SetIfEqualsHolds ==
  ASSUME Holds(agent, objects), Running, Data(objects), NEW i \in 1..Len(agent.requests),
         SetIfEquals(i, agent.requests[i])
  PROVE  Holds(agent', objects') /\ Data(objects')
<1> DEFINE r == agent.requests[i]
           op == agent.operations[r.op]
           d == r.do_id
           s == op.m_av_set
           t == [s EXCEPT ![op.arg] = 0]
           success == objects[d] = account_object(r.value.old)
           x == Answer(r, "update", success)
           E == objects'
<1>1. /\ r.ask = "set_if_equals" /\ GoodRequest(agent.operations, r) /\ r.op \in Ops(agent)
      /\ r \in Asked(agent, r.op) /\ Progress(agent, objects, r.op) /\ GoodOperation(op)
  BY RequestIs DEF SetIfEquals, Running
<1>2. op.kind = "create"
  BY <1>1 DEF GoodRequest
<1>3. d = op.m_target /\ TakenSlot(op) /\ r.value.new = s /\ r.value.old = t
  BY <1>1, <1>2, Zenon DEF Progress, Creating
<1>4. d \in Doids /\ s \in AvatarSets /\ op.arg \in Slots /\ s[op.arg] # 0
  BY <1>1, <1>2, <1>3, Zenon DEF GoodOperation, OfAccount, TakenSlot, Kinds, Singly, Linear, Joining, Beside
<1>5. t \in AvatarSets /\ t[op.arg] = 0 /\ \A slot \in Slots : slot # op.arg => t[slot] = s[slot]
  BY <1>4, EmptiedSlot, Zenon
<1>6. /\ agent' = [agent EXCEPT !.requests = RemoveAt(@, i), !.mail = @ \o <<x>>]
      /\ ~success => E = objects
      /\ success => E = [objects EXCEPT ![d] = account_object(r.value.new)]
  BY DEF SetIfEquals, Answered
<1> HIDE DEF E
<1>7. CASE success
  <2> DEFINE y == account_object(s)
  <2>1. /\ y \in ObjectsNow /\ y # no_object /\ y.class = "account" /\ y.ACCOUNT_AV_SET = s
        /\ objects[d].class = "account" /\ objects[d].ACCOUNT_AV_SET = t
    <3>1. objects[d] = account_object(t)
      BY <1>3, <1>7, Zenon
    <3>2. \A u : account_object(u).class = "account" /\ account_object(u).ACCOUNT_AV_SET = u
      BY DEF account_object
    <3>3. objects[d].class = "account" /\ objects[d].ACCOUNT_AV_SET = t
      BY ONLY <3>1, <3>2, Zenon
    <3>4. y \in ObjectsNow /\ y # no_object /\ y.class = "account" /\ y.ACCOUNT_AV_SET = s
      BY <1>4, AccountObject, Zenon
    <3>5. QED
      BY ONLY <3>3, <3>4, Zenon
  <2> HIDE DEF y
  <2>2. ASSUME NEW slot, NEW v, Filled(objects, d, slot, v) PROVE y.ACCOUNT_AV_SET[slot] = v
    BY <1>4, <1>5, <2>1, <2>2, Zenon DEF Filled
  <2>3. Data([objects EXCEPT ![d] = y]) /\ Preserves(objects, [objects EXCEPT ![d] = y])
    BY ONLY Data(objects), <1>4, <2>1, <2>2, OneChanges, Zenon
  <2>4. E = [objects EXCEPT ![d] = y]
    BY <1>3, <1>6, <1>7, Zenon DEF y
  <2>5. Data(E) /\ Preserves(objects, E) /\ E[d] = y
    BY <1>4, <2>3, <2>4 DEF Data
  <2>6. Filled(E, op.m_target, op.arg, s[op.arg])
    BY <1>3, <1>4, <2>1, <2>5, Zenon DEF Filled
  <2>7. x.op = r.op /\ x.kind = "update" /\ "kind" \in DOMAIN x
    BY AnswerIs
  <2> HIDE DEF x
  <2>8. GoodMessage(agent.operations, x)
    BY <1>1, <1>2, <2>7 DEF GoodMessage, Ops, Replies
  <2>9. Fits(x, agent.operations[x.op], E)
    BY <2>6, <2>7, Zenon DEF Fits
  <2>10. Replied(i, E)
    BY <1>1, <1>6, <2>7, <2>8, <2>9 DEF Replied
  <2>11. QED
    BY <2>5, <2>10, RepliedHolds DEF E
<1>8. CASE ~success
  <2>1. E = objects
    BY <1>6, <1>8
  <2> DEFINE y == Answer(r, "update", FALSE)
  <2>8. y.op = r.op /\ y.kind = "update" /\ "kind" \in DOMAIN y /\ y.value = FALSE
    BY DEF Answer
  <2>9. success = FALSE
    BY <1>8
  <2>10. x = y
    BY <2>9
  <2> HIDE DEF y
  <2>2. x.op = r.op /\ x.kind = "update" /\ "kind" \in DOMAIN x /\ ~x.value
    BY <2>8, <2>10
  <2> HIDE DEF x
  <2>3. GoodMessage(agent.operations, x)
    BY <1>1, <1>2, <2>2 DEF GoodMessage, Ops, Replies
  <2>4. Fits(x, agent.operations[x.op], E)
    BY <2>2 DEF Fits
  <2>5. Replied(i, E)
    BY <1>1, <1>6, <2>2, <2>3, <2>4 DEF Replied
  <2>6. Holds(agent', E)
    BY <2>1, <2>5, RepliedHolds, SameObjects
  <2>7. QED
    BY <2>1, <2>6 DEF E
<1>9. QED
  BY <1>7, <1>8

LEMMA AvatarUpdated ==
  ASSUME NEW x \in ObjectsNow, x.class = "avatar", NEW f \in Updates
  PROVE  LET y == Updated(x, f)
         IN  y \in ObjectsNow /\ y.class = "avatar" /\ y # no_object
<1> DEFINE Avatars == [class : {"avatar"}, setDISLid : Doids, WishNameState : {"OPEN", "LOCKED"},
                       setFriendsList : SUBSET Doids]
           y == Updated(x, f)
           Fs == {"class", "setDISLid", "WishNameState", "setFriendsList"}
<1>1. x \in Avatars
  BY DEF ObjectsNow, Objects, no_object, dead_object, account_object
<1>2. /\ DOMAIN x = Fs /\ x.setDISLid \in Doids /\ x.WishNameState \in {"OPEN", "LOCKED"}
      /\ x.setFriendsList \in SUBSET Doids
  BY <1>1
<1>3. /\ y = [n \in Fs |-> y[n]] /\ y.class = "avatar" /\ y.setDISLid = x.setDISLid
      /\ y.WishNameState \in {"OPEN", "LOCKED"} /\ y.setFriendsList \in SUBSET Doids
  <2>4. y = [n \in Fs |-> IF n \in DOMAIN f THEN f[n] ELSE x[n]]
    BY <1>2 DEF Updated
  <2> HIDE DEF y
  <2>1. CASE f \in [WishNameState : {"OPEN", "LOCKED"}]
    <3>1. DOMAIN f = {"WishNameState"} /\ f.WishNameState \in {"OPEN", "LOCKED"}
      BY <2>1
    <3>2. QED
      BY <1>2, <2>4, <3>1
  <2>2. CASE f \in [setFriendsList : SUBSET Doids]
    <3>1. DOMAIN f = {"setFriendsList"} /\ f.setFriendsList \in SUBSET Doids
      BY <2>2
    <3>2. QED
      BY <1>2, <2>4, <3>1
  <2>3. QED
    BY <2>1, <2>2 DEF Updates
<1> HIDE DEF y
<1>4. y \in Avatars
  BY <1>2, <1>3
<1>5. y \in ObjectsNow /\ y # no_object
  BY <1>3, <1>4 DEF ObjectsNow, Objects, no_object
<1>6. QED
  BY <1>3, <1>5 DEF y

LEMMA UpdateFieldsHolds ==
  ASSUME Holds(agent, objects), Running, Data(objects), NEW i \in 1..Len(agent.requests),
         UpdateFields(i, agent.requests[i])
  PROVE  Holds(agent', objects') /\ Data(objects')
<1> DEFINE r == agent.requests[i]
           d == r.do_id
           y == Updated(objects[d], r.value)
           B == agent'
<1>1. r.ask = "set" /\ B = Answered(i, <<>>) /\ Typed(agent) /\ Wired(agent)
  BY DEF UpdateFields, Holds, Sound
<1>2. r.value \in Updates
  BY <1>1 DEF Wired, GoodRequest
<1>3. TakesRequest(agent, B, i)
  <2>1. agent.mail \o <<>> = agent.mail
    BY <1>1, ConcatNone DEF Wired
  <2>2. Differ(agent, B, {"requests"}) /\ B.requests = RemoveAt(agent.requests, i)
    BY <1>1, <2>1 DEF Typed, AgentFields, Differ, Answered
  <2>3. QED
    BY <2>2 DEF TakesRequest
<1> HIDE DEF B
<1>4. Holds(B, objects)
  BY <1>3, RequestTakenHolds
<1>5. Data(objects') /\ Preserves(objects, objects')
  <2>1. CASE objects[d].class # "avatar" \/ d \notin Doids
    <3>1. objects' = objects
      BY <2>1 DEF UpdateFields, Data
    <3>2. QED
      BY <3>1, SameObjects
  <2>2. CASE objects[d].class = "avatar" /\ d \in Doids
    <3>1. objects' = [objects EXCEPT ![d] = y]
      BY <2>2 DEF UpdateFields
    <3>2. objects[d] \in ObjectsNow
      BY <2>2 DEF Data
    <3>3. y \in ObjectsNow /\ y.class = "avatar" /\ y # no_object
      BY <1>2, <2>2, <3>2, AvatarUpdated
    <3> HIDE DEF y
    <3>4. \A slot, v : Filled(objects, d, slot, v) /\ y.class = "account" => y.ACCOUNT_AV_SET[slot] = v
      BY <3>3
    <3>5. Data([objects EXCEPT ![d] = y]) /\ Preserves(objects, [objects EXCEPT ![d] = y])
      BY ONLY Data(objects), <2>2, <3>3, <3>4, OneChanges
    <3>6. QED
      BY <3>1, <3>5
  <2>3. QED
    BY <2>1, <2>2
<1>6. Holds(B, objects')
  BY <1>4, <1>5, PreservesHolds
<1>7. QED
  BY <1>5, <1>6 DEF B

LEMMA DatabaseHolds ==
  ASSUME Holds(agent, objects), Data(objects), Database
  PROVE  Holds(agent', objects') /\ Data(objects')
<1>1. Running /\ DOMAIN agent.requests = 1..Len(agent.requests)
  BY SeqLength DEF Database, Holds, Sound, Wired
<1>2. PICK i \in 1..Len(agent.requests) :
        LET r == agent.requests[i]
        IN  Get(i, r) \/ Create(i, r) \/ UpdateFields(i, r) \/ SetIfEquals(i, r)
  BY <1>1 DEF Database
<1>3. QED
  BY <1>1, <1>2, GetHolds, CreateHolds, UpdateFieldsHolds, SetIfEqualsHolds

-----------------------------------------------------------------------------
(* Others change the objects.                                                *)
LEMMA NewAvatar ==
  ASSUME NEW a \in Doids
  PROVE  avatar_object(a) \in ObjectsNow /\ avatar_object(a) # no_object
BY DEF avatar_object, ObjectsNow, Objects, no_object

LEMMA SlotSet ==
  ASSUME NEW s \in AvatarSets, NEW slot \in Slots, NEW v \in 0..MaxDoid
  PROVE  /\ [s EXCEPT ![slot] = v] \in AvatarSets /\ [s EXCEPT ![slot] = v][slot] = v
         /\ \A n \in Slots : n # slot => [s EXCEPT ![slot] = v][n] = s[n]
BY DEF AvatarSets

LEMMA ToldHolds ==
  ASSUME NEW A, NEW B, NEW D, Holds(A, D), Tells(A, B, D)
  PROVE  Holds(B, D)
<1>1. /\ Sound(B) /\ B.operations = A.operations /\ B.disowned = A.disowned
      /\ B.killed_twice = A.killed_twice /\ (Registered(A) => Registered(B))
      /\ \A p \in Ops(A) : Fewer(A, B, p)
  BY TellsHolds DEF Holds
<1>2. B.crashed = A.crashed
  BY DEF Tells, Differ, AgentFields
<1>3. B.crashed \/ \A p \in Ops(B) : Progress(B, D, p)
  BY <1>1, <1>2, FewerProgress DEF Holds, Ops
<1>4. \A t \in B.told : Filled(D, t[1], t[2], t[3])
  BY DEF Tells, Holds
<1>5. QED
  BY <1>1, <1>2, <1>3, <1>4 DEF Holds

LEMMA OtherCreatesHolds ==
  ASSUME Holds(agent, objects), Data(objects), OtherAgentCreates
  PROVE  Holds(agent', objects') /\ Data(objects')
<1>1. PICK a \in Doids, slot \in Slots, v \in Free :
        /\ objects[a].class = "account"
        /\ objects[a].ACCOUNT_AV_SET[slot] = 0
        /\ objects' = [objects EXCEPT ![a].ACCOUNT_AV_SET[slot] = v, ![v] = avatar_object(a)]
        /\ agent' = [agent EXCEPT !.told = @ \cup {<<a, slot, v>>}]
  BY DEF OtherAgentCreates
<1> DEFINE s == objects[a].ACCOUNT_AV_SET
           t == [s EXCEPT ![slot] = v]
           x == account_object(t)
           D1 == [objects EXCEPT ![a] = x]
           E == [D1 EXCEPT ![v] = avatar_object(a)]
<1>2. /\ objects[a] = account_object(s) /\ s \in AvatarSets /\ v \in Doids /\ v \in 0..MaxDoid
      /\ objects[v] = no_object /\ v # 0
  <2>1. objects[a] \in ObjectsNow
    BY DEF Data
  <2>2. v \in Doids /\ objects[v] = no_object
    BY DEF Free
  <2>3. QED
    BY <1>1, <2>1, <2>2, ObjectKinds, ManagerAssumption DEF Doids
<1>3. v # a
  BY <1>1, <1>2 DEF no_object
<1>4. t \in AvatarSets /\ t[slot] = v /\ \A n \in Slots : n # slot => t[n] = s[n]
  BY <1>2, SlotSet
<1>5. objects' = E
  <2>1. [objects[a] EXCEPT !.ACCOUNT_AV_SET[slot] = v] = x
    BY <1>2 DEF account_object
  <2>2. objects' = [[objects EXCEPT ![a].ACCOUNT_AV_SET[slot] = v] EXCEPT ![v] = avatar_object(a)]
    BY <1>1
  <2>3. [objects EXCEPT ![a].ACCOUNT_AV_SET[slot] = v] = D1
    BY <2>1
  <2>4. QED
    BY <2>2, <2>3
<1>6. Data(D1) /\ Preserves(objects, D1) /\ D1[a] = x /\ D1[v] = no_object
  <2>1. x \in ObjectsNow /\ x # no_object /\ x.class = "account" /\ x.ACCOUNT_AV_SET = t
    BY <1>4, AccountObject
  <2>2. objects[a].ACCOUNT_AV_SET = s
    OBVIOUS
  <2> HIDE DEF x, s, t
  <2>3. ASSUME NEW n, NEW w, Filled(objects, a, n, w) PROVE x.ACCOUNT_AV_SET[n] = w
    BY <1>1, <1>4, <2>1, <2>2, <2>3 DEF Filled
  <2>4. Data([objects EXCEPT ![a] = x]) /\ Preserves(objects, [objects EXCEPT ![a] = x])
    BY ONLY a \in Doids, Data(objects), <2>1, <2>3, OneChanges
  <2>5. QED
    BY <1>2, <1>3, <2>4 DEF Data
<1>7. x.class = "account" /\ x.ACCOUNT_AV_SET = t /\ x # no_object
  BY <1>4, AccountObject
<1> HIDE DEF D1, x, t, s
<1>8. Data(E) /\ Preserves(D1, E) /\ E[a] = x
  <2> DEFINE y == avatar_object(a)
  <2>1. y \in ObjectsNow /\ y # no_object /\ \A n, w : ~Filled(D1, v, n, w)
    BY <1>6, NewAvatar DEF Filled
  <2>2. E = [D1 EXCEPT ![v] = y]
    OBVIOUS
  <2> HIDE DEF E, y
  <2>3. Data([D1 EXCEPT ![v] = y]) /\ Preserves(D1, [D1 EXCEPT ![v] = y])
    BY ONLY <1>2, <1>6, <2>1, OneChanges
  <2>4. QED
    BY <1>2, <1>3, <1>6, <2>2, <2>3 DEF Data
<1> HIDE DEF E
<1>9. Holds(agent, E) /\ Sound(agent)
  <2>1. Preserves(objects, E)
    BY <1>6, <1>8 DEF Preserves
  <2>2. QED
    BY <2>1, PreservesHolds DEF Holds
<1>10. Filled(E, a, slot, v)
  BY <1>2, <1>4, <1>7, <1>8 DEF Filled
<1>11. Tells(agent, agent', E)
  <2>1. Differ(agent, agent', {"told"}) /\ agent'.told = agent.told \cup {<<a, slot, v>>}
    BY <1>1, <1>9 DEF Sound, Typed, AgentFields, Differ
  <2>2. ASSUME NEW q \in agent'.told PROVE q \in agent.told \/ Filled(E, q[1], q[2], q[3])
    BY <1>10, <2>1
  <2>3. QED
    BY <2>1, <2>2 DEF Tells
<1>12. Holds(agent', E)
  BY <1>9, <1>11, ToldHolds
<1>13. QED
  BY <1>5, <1>8, <1>12

LEMMA ObjectDiesHolds ==
  ASSUME Holds(agent, objects), Data(objects), ObjectDies
  PROVE  Holds(agent', objects') /\ Data(objects')
<1>1. PICK d \in Doids \ Free : objects' = [objects EXCEPT ![d] = dead_object]
  BY DEF ObjectDies
<1> DEFINE y == dead_object
<1>2. y \in ObjectsNow /\ y # no_object /\ y.class # "account" /\ d \in Doids
  BY DEF ObjectsNow, dead_object, no_object
<1> HIDE DEF y
<1>3. Data([objects EXCEPT ![d] = y]) /\ Preserves(objects, [objects EXCEPT ![d] = y])
  BY ONLY Data(objects), <1>2, OneChanges
<1>4. Data(objects') /\ Preserves(objects, objects') /\ agent' = agent
  BY <1>1, <1>3 DEF y, ObjectDies
<1>5. QED
  BY <1>4, PreservesHolds

-----------------------------------------------------------------------------
(* What holds of the next agent, with this scenario and these channels, does *)
(* so in the next state.                                                     *)
Standing(A, D) ==
  /\ Typed(A) /\ Wired(A) /\ Accounted(A) /\ Apart(A)
  /\ \A o \in 1..Len(A.operations) : Served(A, o)
  /\ A.crashed \/ \A o \in Ops(A) : Progress(A, D, o)
  /\ A.killed_twice \/ A.crashed \/ Registered(A)
  /\ \A t \in A.told : Filled(D, t[1], t[2], t[3])

LEMMA StandingIs == \A A, D : Holds(A, D) <=> Standing(A, D) /\ Allotted(A)
BY DEF Holds, Standing, Sound

LEMMA Carried ==
  ASSUME Standing(agent', objects'), UNCHANGED scenario, Allotted(agent)'
  PROVE  Holds(agent, objects)'
<1>1. \A k : GoodClient(agent'.clients[k]) => GoodClient(agent.clients[k])'
  BY DEF GoodClient
<1>2. Tables(agent') => Tables(agent)'
  BY DEF Tables, PlayTokens
<1>3. Typed(agent') => Typed(agent)'
  BY <1>1, <1>2 DEF Typed
<1>4. Wired(agent') => Wired(agent)'
  BY DEF Wired, GoodRequest, GoodMessage
<1>5. Accounted(agent') => Accounted(agent)'
  BY DEF Accounted, HasAccount, Present
<1>6. Apart(agent') => Apart(agent)'
  BY DEF Apart, Playing, Ejecting
<1>7. \A o : Served(agent', o) => Served(agent, o)'
  BY DEF Served, LoginServed, AccountServed, Present, Idle
<1>8. Sound(agent)'
  BY <1>3, <1>4, <1>5, <1>6, <1>7 DEF Standing, Sound
<1>9. \A o : Progress(agent', objects', o) => Progress(agent, objects, o)'
  BY DEF Progress
<1>10. QED
  BY <1>8, <1>9 DEF Holds, Standing

LEMMA CarriedOn ==
  ASSUME Holds(agent', objects'), UNCHANGED <<scenario, m_next, m_unused_channels>>
  PROVE  Holds(agent, objects)'
<1>1. Allotted(agent')
  BY DEF Holds, Sound
<1>2. Allotted(agent)'
  BY <1>1 DEF Allotted, Spare, Present
<1>3. QED
  BY <1>2, Carried, StandingIs

LEMMA PeerLeavesHolds ==
  ASSUME Holds(agent, objects), NEW k \in Clients, PeerLeaves(k)
  PROVE  Holds(agent', objects')
<1> DEFINE B == send_disconnect(agent, k)
<1>1. Sound(agent) /\ agent.clients[k].connection # "none" /\ agent' = B /\ objects' = objects
      /\ ~agent.crashed
  BY DEF Holds, PeerLeaves, Running
<1>2. /\ Sound(B) /\ Moves(agent, B, 0) /\ B.operations = agent.operations
      /\ B.m_account2operation = agent.m_account2operation /\ B.disowned = agent.disowned
  BY <1>1, AfterDisconnect
<1> HIDE DEF B
<1>3. Registered(agent) => Registered(B)
  BY <1>2 DEF Registered, Unresolved
<1>4. Holds(B, objects)
  BY <1>1, <1>2, <1>3, MovesHolds
<1>5. QED
  BY <1>1, <1>4

-----------------------------------------------------------------------------
(* A client is gone.                                                         *)
LEMMA Unloading ==
  ASSUME NEW k, NEW V, IsFiniteSet(V)
  PROVE  LET n == SetToSeq({delete_ram(k, v) : v \in V})
         IN  IsSeq(n) /\ \A i \in 1..Len(n) : \E v : n[i] = delete_ram(k, v)
<1> DEFINE S == {delete_ram(k, v) : v \in V}
           f == [v \in V |-> delete_ram(k, v)]
<1>1. f \in [V -> S] /\ \A x \in S : \E v \in V : f[v] = x
  OBVIOUS
<1>2. \A x \in S : \E v : x = delete_ram(k, v)
  OBVIOUS
<1> HIDE DEF f, S
<1>3. f \in Surjection(V, S)
  BY <1>1 DEF Surjection
<1>4. IsFiniteSet(S)
  BY <1>3, FS_Surjection
<1>5. QED
  BY <1>2, <1>4, SetInTurn DEF S

LEMMA UnloadingPosts ==
  ASSUME NEW A, NEW B, NEW n, Sound(A), Differ(A, B, {"mail"}), IsSeq(n), B.mail = A.mail \o n,
         \A i \in 1..Len(n) : \E k, v : n[i] = delete_ram(k, v)
  PROVE  Sound(B) /\ Moves(A, B, 0) /\ Held(A, B) /\ B.operations = A.operations
<1>1. \A k, v : /\ GoodMessage(A.operations, delete_ram(k, v))
                /\ delete_ram(k, v).kind \notin Replies
  BY DEF GoodMessage, Replies, delete_ram
<1>2. \A i \in 1..Len(n) : GoodMessage(A.operations, n[i]) /\ n[i].kind \notin Replies
  BY <1>1
<1>3. QED
  BY <1>2, AfterPosts

Leaver == [NoClient EXCEPT !.connection = "gone"]

LEMMA LeaverContinues ==
  ASSUME NEW c, GoodClient(c), c.connection = "leaving", scenario.channels \in Nat
  PROVE  Continues(c, Leaver) /\ ~Present(Leaver)
<1>1. /\ DOMAIN Leaver = ClientFields /\ Leaver.connection = "gone" /\ Leaver.allocated = 0
      /\ Leaver.m_av_id = 0 /\ Leaver.owned = {} /\ Leaver.post_removes = <<>>
  BY DEF Leaver, NoClient, ClientFields
<1>2. IsFiniteSet({}) /\ IsSeq(<<>>) /\ Len(<<>>) = 0 /\ 0 \in 0..MaxDoid
  BY FS_EmptySet, SeqEmpty, ManagerAssumption
<1>3. GoodClient(Leaver)
  BY <1>1, <1>2 DEF GoodClient
<1>4. QED
  BY <1>1, <1>3 DEF Continues, Present

\* B is A after client k is gone.
Leaves(A, B, k) ==
  /\ k \in Clients /\ A.clients[k].connection = "leaving"
  /\ Differ(A, B, {"clients"}) /\ B.clients = [A.clients EXCEPT ![k] = Leaver]

LEMMA LeaverGoes ==
  ASSUME NEW A, NEW B, NEW k, Sound(A), Leaves(A, B, k), scenario.channels \in Nat
  PROVE  /\ Sound(B) /\ Moves(A, B, 0) /\ Kept(A, B) /\ ~Present(B.clients[k])
         /\ \A l \in Clients : l # k => B.clients[l] = A.clients[l]
<1>1. DOMAIN A.clients = Clients /\ GoodClient(A.clients[k])
  BY DEF Sound, Typed, Leaves
<1>2. /\ DOMAIN B.clients = Clients /\ B.clients[k] = Leaver /\ k \in Clients
      /\ \A l \in Clients : l # k => B.clients[l] = A.clients[l]
  BY <1>1 DEF Leaves
<1>3. OneClient(A, B, k) /\ ~Present(B.clients[k])
  BY <1>1, <1>2, LeaverContinues DEF OneClient, Leaves
<1>4. QED
  BY <1>2, <1>3, OneGoes

\* The object that the client played is lost.
Lost(k) == LET client == agent.clients[k]
           IN  IF client.m_av_id = 0 THEN agent ELSE lost_object(agent, k, client.m_av_id)

LEMMA LostHolds ==
  ASSUME Holds(agent, objects), Running, NEW k \in Clients, agent.clients[k].connection # "none"
  PROVE  Holds(Lost(k), objects) /\ ~Lost(k).crashed /\ Lost(k).clients = agent.clients
<1> DEFINE v == agent.clients[k].m_av_id
           X == lost_object(agent, k, v)
<1>1. Sound(agent) /\ ~agent.crashed /\ v \in 0..MaxDoid
  BY DEF Holds, Running, Sound, Typed, GoodClient
<1>2. CASE v = 0
  BY <1>1, <1>2 DEF Lost
<1>3. CASE v # 0
  <2>1. v \in Doids /\ "offline" \in Beside
    BY <1>1, <1>3, ManagerAssumption DEF Doids, Beside
  <2> HIDE DEF v
  <2>2. /\ Sound(X) /\ Moves(agent, X, 0) /\ X.clients = agent.clients /\ X.crashed = agent.crashed
        /\ Registered(agent) => Registered(X)
    BY <1>1, <2>1, AfterAnnounce DEF lost_object
  <2> HIDE DEF X
  <2>3. Holds(X, objects)
    BY <1>1, <2>2, MovesHolds
  <2>4. Lost(k) = X
    BY <1>3 DEF Lost, X, v
  <2>5. QED
    BY <1>1, <2>2, <2>3, <2>4
<1>4. QED
  BY <1>2, <1>3

LEMMA AnnihilateHolds ==
  ASSUME Holds(agent, objects), NEW k \in Clients, Annihilate(k), scenario.channels \in Nat
  PROVE  /\ Holds(agent', objects') /\ ~Present(agent'.clients[k])
         /\ \A l \in Clients : l # k => agent'.clients[l] = agent.clients[l]
<1> DEFINE c == agent.clients[k]
           X == Lost(k)
           owned == SetToSeq({delete_ram(k, v) : v \in c.owned})
           Y == [X EXCEPT !.mail = @ \o owned]
           Z == [Y EXCEPT !.mail = @ \o c.post_removes]
<1>1. /\ Running /\ c.connection = "leaving" /\ objects' = objects
      /\ agent' = [X EXCEPT !.clients[k] = Leaver, !.mail = @ \o owned \o c.post_removes]
  BY DEF Annihilate, Lost, Leaver
<1>2. GoodClient(c)
  BY DEF Holds, Sound, Typed
<1>3. Holds(X, objects) /\ ~X.crashed /\ X.clients = agent.clients
  BY <1>1, LostHolds
<1>4. /\ IsSeq(owned) /\ \A i \in 1..Len(owned) : \E j, v : owned[i] = delete_ram(j, v)
      /\ IsSeq(c.post_removes)
      /\ \A i \in 1..Len(c.post_removes) : \E j, v : c.post_removes[i] = delete_ram(j, v)
  <2>1. IsFiniteSet(c.owned) /\ IsSeq(c.post_removes)
        /\ \A i \in 1..Len(c.post_removes) : \E j, v : c.post_removes[i] = delete_ram(j, v)
    BY <1>2 DEF GoodClient
  <2> HIDE DEF c
  <2>2. IsSeq(owned) /\ \A i \in 1..Len(owned) : \E v : owned[i] = delete_ram(k, v)
    BY ONLY <2>1, Unloading
  <2> HIDE DEF owned
  <2>3. QED
    BY <2>1, <2>2
<1> HIDE DEF X, owned, c
<1>5. Sound(X) /\ DOMAIN X = AgentFields
  BY <1>3 DEF Holds, Sound, Typed
<1>6. Differ(X, Y, {"mail"}) /\ Y.mail = X.mail \o owned
  BY <1>5 DEF AgentFields, Differ
<1>7. DOMAIN Y = AgentFields /\ Differ(Y, Z, {"mail"}) /\ Z.mail = Y.mail \o c.post_removes
  BY <1>5 DEF AgentFields, Differ
<1>8. Differ(Z, agent', {"clients"}) /\ agent'.clients = [X.clients EXCEPT ![k] = Leaver]
  BY <1>1, <1>5 DEF AgentFields, Differ
<1> HIDE DEF Y, Z
<1>9. Sound(Y) /\ Moves(X, Y, 0) /\ Held(X, Y)
  BY <1>4, <1>5, <1>6, UnloadingPosts
<1>10. Sound(Z) /\ Moves(Y, Z, 0) /\ Held(Y, Z)
  BY <1>4, <1>7, <1>9, UnloadingPosts
<1>11. Holds(Y, objects) /\ ~Y.crashed /\ Y.clients = X.clients
  BY <1>3, <1>9, HeldHolds DEF Held
<1>12. Holds(Z, objects) /\ ~Z.crashed /\ Z.clients = agent.clients
  BY <1>3, <1>10, <1>11, HeldHolds DEF Held
<1>13. /\ Sound(agent') /\ Moves(Z, agent', 0) /\ Kept(Z, agent') /\ ~Present(agent'.clients[k])
       /\ \A l \in Clients : l # k => agent'.clients[l] = Z.clients[l]
  <2>1. agent'.clients = [Z.clients EXCEPT ![k] = Leaver] /\ Z.clients[k].connection = "leaving"
    BY <1>1, <1>3, <1>8, <1>12 DEF c
  <2>2. Leaves(Z, agent', k)
    BY <1>8, <2>1 DEF Leaves
  <2>3. QED
    BY <1>10, <2>2, LeaverGoes
<1>14. Registered(Z) => Registered(agent')
  BY <1>13 DEF Registered, Unresolved, Kept
<1>15. Holds(agent', objects)
  BY <1>12, <1>13, <1>14, MovesHolds
<1>16. QED
  BY <1>1, <1>12, <1>13, <1>15

-----------------------------------------------------------------------------
(* A client connects.                                                        *)
\* The channels that were used and are free: each once, and below the next.
Tracked ==
  /\ scenario.channels \in Nat /\ m_next \in Nat \ {0} /\ IsSeq(m_unused_channels)
  /\ \A i \in 1..Len(m_unused_channels) :
       /\ m_unused_channels[i] \in 0..scenario.channels
       /\ m_unused_channels[i] # 0 => m_unused_channels[i] < m_next
  /\ \A i, j \in 1..Len(m_unused_channels) :
       i # j /\ m_unused_channels[i] # 0 => m_unused_channels[i] # m_unused_channels[j]

LEMMA ChannelIs ==
  ASSUME Tracked
  PROVE  /\ Channel \in 0..scenario.channels
         /\ m_next > scenario.channels /\ Channel # 0 => Channel < m_next /\ Spare(Channel)
<1>1. CASE m_next <= scenario.channels
  BY <1>1 DEF Channel, Tracked
<1>2. CASE ~(m_next <= scenario.channels) /\ m_unused_channels = <<>>
  BY <1>2 DEF Channel, Tracked
<1>3. CASE ~(m_next <= scenario.channels) /\ m_unused_channels # <<>>
  <2>1. Head(m_unused_channels) = m_unused_channels[1] /\ 1 \in 1..Len(m_unused_channels)
    BY <1>3, SeqTail DEF Tracked
  <2>2. QED
    BY <1>3, <2>1 DEF Channel, Tracked, Spare
<1>4. QED
  BY <1>1, <1>2, <1>3

\* B is A after client k has come, and nothing was heard of it.
Comes(A, B, k, c) ==
  /\ k \in Clients /\ A.clients[k].connection = "none"
  /\ Differ(A, B, {"clients"}) /\ B.clients = [A.clients EXCEPT ![k] = c]
  /\ GoodClient(c) /\ c.connection = "open" /\ c.m_state = "anonymous"

LEMMA ComesStanding ==
  ASSUME NEW A, NEW B, NEW D, NEW k, NEW c, Standing(A, D), ~A.crashed, Comes(A, B, k, c)
  PROVE  Standing(B, D)
<1>1. /\ Typed(A) /\ Wired(A) /\ Accounted(A) /\ Apart(A) /\ \A o \in Ops(A) : Served(A, o)
      /\ 0 \notin Ops(A) /\ Len(A.operations) \in Nat
  BY OpsAre DEF Standing, Ops
<1>2. /\ B.operations = A.operations /\ B.requests = A.requests /\ B.mail = A.mail
      /\ B.m_account2operation = A.m_account2operation /\ B.m_connection2operation = A.m_connection2operation
      /\ B.crashed = A.crashed /\ B.killed_twice = A.killed_twice /\ B.disowned = A.disowned
      /\ B.told = A.told /\ B.m_bridge = A.m_bridge /\ DOMAIN B = AgentFields
  BY DEF Comes, Differ, AgentFields
<1>3. /\ DOMAIN B.clients = Clients /\ B.clients[k] = c /\ GoodClient(c)
      /\ c.connection = "open" /\ c.m_state # "established" /\ A.clients[k].connection = "none"
      /\ \A l \in Clients : l # k => B.clients[l] = A.clients[l]
  BY <1>1 DEF Typed, Comes
<1>4. Typed(B)
  <2>1. \A l \in Clients : GoodClient(B.clients[l])
    BY <1>1, <1>3 DEF Typed
  <2>2. QED
    BY <1>1, <1>2, <1>3, <2>1 DEF Typed, Tables
<1>5. Wired(B) /\ Accounted(B)
  BY <1>1, <1>2, <1>3 DEF Wired, Accounted
<1>6. Apart(B)
  BY <1>1, <1>2, <1>3 DEF Apart, Playing, Ejecting
<1>7. ASSUME NEW o \in Ops(A) PROVE Served(B, o)
  <2>1. Served(A, o) /\ GoodOperation(A.operations[o])
    BY <1>1 DEF Typed, Ops
  <2>2. A.operations[o].client \in Clients /\ A.operations[o].client # k
    BY <1>3, <2>1 DEF Served, GoodOperation
  <2>3. B.clients[A.operations[o].client] = A.clients[A.operations[o].client]
    BY <1>3, <2>2
  <2>4. QED
    BY <1>2, <2>1, <2>3 DEF Served, LoginServed, AccountServed, Idle
<1>8. Moves(A, B, 0) /\ Ops(B) = Ops(A)
  BY <1>1, <1>2 DEF Moves, Same, Alike, Asked, Coming, Ops
<1>9. ASSUME NEW p \in Ops(B) PROVE Progress(B, D, p)
  <2>1. p # 0 /\ Progress(A, D, p)
    BY <1>1, <1>8 DEF Standing
  <2>2. QED
    BY <1>1, <1>4, <1>8, <2>1, OthersProgress
<1>10. Registered(A) => Registered(B)
  BY <1>2 DEF Registered, Unresolved
<1>11. QED
  BY <1>2, <1>4, <1>5, <1>6, <1>7, <1>9, <1>10 DEF Standing, Ops

Newcomer ==
  [NoClient EXCEPT
     !.connection = "open", !.allocated = Channel, !.m_channel = allocated_channel(Channel),
     !.subscriptions = IF Channel = 0 THEN {} ELSE {allocated_channel(Channel)}]

LEMMA NewcomerIs ==
  ASSUME Tracked
  PROVE  /\ GoodClient(Newcomer) /\ Newcomer.connection = "open" /\ Newcomer.m_state = "anonymous"
         /\ Newcomer.allocated = Channel
<1>1. /\ DOMAIN Newcomer = ClientFields /\ Newcomer.connection = "open" /\ Newcomer.allocated = Channel
      /\ Newcomer.m_av_id = 0 /\ Newcomer.owned = {} /\ Newcomer.post_removes = <<>>
      /\ Newcomer.m_state = "anonymous"
  BY DEF Newcomer, NoClient, ClientFields
<1>2. IsFiniteSet({}) /\ IsSeq(<<>>) /\ Len(<<>>) = 0 /\ 0 \in 0..MaxDoid
  BY FS_EmptySet, SeqEmpty, ManagerAssumption
<1>3. Channel \in 0..scenario.channels
  BY ChannelIs
<1>4. QED
  BY <1>1, <1>2, <1>3 DEF GoodClient

LEMMA ConnectStanding ==
  ASSUME Holds(agent, objects), Tracked, NEW k \in Clients, Connect(k)
  PROVE  /\ Standing(agent', objects') /\ Present(agent'.clients[k])
         /\ agent'.clients[k].allocated = Channel
         /\ \A l \in Clients : l # k => agent'.clients[l] = agent.clients[l]
<1> DEFINE A == agent
           B == [A EXCEPT !.clients[k] = Newcomer]
<1>1. A.clients[k].connection = "none" /\ ~A.crashed /\ agent' = B /\ objects' = objects
  BY DEF Connect, Running, Newcomer
<1>2. Standing(A, objects) /\ DOMAIN A = AgentFields /\ DOMAIN A.clients = Clients
  BY StandingIs DEF Standing, Typed
<1>3. Differ(A, B, {"clients"}) /\ B.clients = [A.clients EXCEPT ![k] = Newcomer]
  BY <1>2 DEF Differ, AgentFields
<1> HIDE DEF A, B
<1>4. Comes(A, B, k, Newcomer)
  BY <1>1, <1>3, NewcomerIs DEF Comes
<1>5. Standing(B, objects)
  BY <1>1, <1>2, <1>4, ComesStanding
<1>6. /\ B.clients[k] = Newcomer /\ \A l \in Clients : l # k => B.clients[l] = A.clients[l]
  BY <1>2, <1>3
<1>7. QED
  BY <1>1, <1>5, <1>6, NewcomerIs DEF Present, A

-----------------------------------------------------------------------------
(* Channels are given out and come back.                                     *)
SpareThen(c) == \E i \in 1..Len(m_unused_channels') : m_unused_channels'[i] = c

LEMMA Gives ==
  ASSUME Tracked, NEW k \in Clients, Connect(k)
  PROVE  /\ Tracked'
         /\ Channel # 0 => Channel < m_next' /\ ~SpareThen(Channel)
         /\ \A c \in 1..scenario.channels : c < m_next => c < m_next'
         /\ \A c : ~Spare(c) => ~SpareThen(c)
         /\ \A c \in 1..scenario.channels : c < m_next /\ ~Spare(c) => c # Channel
<1>1. /\ scenario.channels \in Nat /\ m_next \in Nat \ {0} /\ IsSeq(m_unused_channels)
      /\ scenario' = scenario
  BY DEF Tracked, Connect
<1>2. CASE m_next <= scenario.channels
  <2>1. m_next' = m_next + 1 /\ m_unused_channels' = m_unused_channels /\ Channel = m_next
    BY <1>2 DEF Connect, Channel
  <2>2. \A i \in 1..Len(m_unused_channels) : m_unused_channels[i] # m_next
    BY <1>1 DEF Tracked
  <2>3. \A i \in 1..Len(m_unused_channels) : m_unused_channels[i] < m_next => m_unused_channels[i] < m_next'
    BY <1>1, <2>1 DEF Tracked
  <2>4. Tracked'
    BY <1>1, <2>1, <2>3 DEF Tracked
  <2>5. QED
    BY <1>1, <2>1, <2>2, <2>4 DEF Spare, SpareThen
<1>3. CASE ~(m_next <= scenario.channels) /\ m_unused_channels = <<>>
  <2>1. m_next' = m_next /\ m_unused_channels' = <<>> /\ Channel = 0
    BY <1>3 DEF Connect, Channel
  <2>2. Len(<<>>) = 0 /\ IsSeq(<<>>)
    BY SeqEmpty
  <2>3. Tracked'
    BY <1>1, <2>1, <2>2 DEF Tracked
  <2>4. QED
    BY <1>1, <2>1, <2>2, <2>3 DEF Spare, SpareThen
<1>4. CASE ~(m_next <= scenario.channels) /\ m_unused_channels # <<>>
  <2> DEFINE u == m_unused_channels
             w == m_unused_channels'
  <2>1. m_next' = m_next /\ w = Tail(u) /\ Channel = Head(u)
    BY <1>4 DEF Connect, Channel
  <2>2. /\ IsSeq(w) /\ Len(w) = Len(u) - 1 /\ Len(u) \in Nat \ {0} /\ Head(u) = u[1]
        /\ \A i \in 1..Len(w) : w[i] = u[i + 1]
    BY <1>1, <1>4, <2>1, SeqTail
  <2>3. 1 \in 1..Len(u) /\ \A i \in 1..Len(w) : i + 1 \in 1..Len(u) /\ i + 1 # 1 /\ i \in Nat
    BY <2>2
  <2>4. /\ \A i \in 1..Len(u) : u[i] \in 0..scenario.channels /\ (u[i] # 0 => u[i] < m_next)
        /\ \A i, j \in 1..Len(u) : i # j /\ u[i] # 0 => u[i] # u[j]
    BY DEF Tracked
  <2> HIDE DEF u, w
  <2>5. /\ \A i \in 1..Len(w) : w[i] \in 0..scenario.channels /\ (w[i] # 0 => w[i] < m_next)
    BY <2>2, <2>3, <2>4
  <2>6. \A i, j \in 1..Len(w) : i # j /\ w[i] # 0 => w[i] # w[j]
    <3>1. SUFFICES ASSUME NEW i \in 1..Len(w), NEW j \in 1..Len(w), i # j, w[i] # 0 PROVE w[i] # w[j]
      OBVIOUS
    <3>2. i + 1 # j + 1 /\ i + 1 \in 1..Len(u) /\ j + 1 \in 1..Len(u)
      BY <2>3, <3>1
    <3>3. w[i] = u[i + 1] /\ w[j] = u[j + 1]
      BY <2>2
    <3>4. QED
      BY <2>4, <3>1, <3>2, <3>3
  <2>7. Tracked'
    BY <1>1, <2>1, <2>2, <2>5, <2>6 DEF Tracked, w
  <2>8. Channel # 0 => Channel < m_next' /\ \A i \in 1..Len(w) : w[i] # Channel
    <3>1. ASSUME Channel # 0, NEW i \in 1..Len(w) PROVE w[i] # Channel
      <4>1. i + 1 \in 1..Len(u) /\ i + 1 # 1 /\ w[i] = u[i + 1] /\ Channel = u[1] /\ 1 \in 1..Len(u)
        BY <2>1, <2>2, <2>3 DEF u
      <4>2. QED
        BY <2>4, <3>1, <4>1
    <3>2. QED
      BY <2>1, <2>2, <2>3, <2>4, <3>1 DEF u
  <2>9. \A c : (\E i \in 1..Len(w) : w[i] = c) => (\E i \in 1..Len(u) : u[i] = c)
    BY <2>2, <2>3
  <2>10. \A c : ~(\E i \in 1..Len(u) : u[i] = c) => c # Channel
    BY <2>1, <2>2, <2>3 DEF u
  <2>11. QED
    BY <2>1, <2>7, <2>8, <2>9, <2>10 DEF Spare, SpareThen, u, w
<1>5. QED
  BY <1>2, <1>3, <1>4

LEMMA ConnectHolds ==
  ASSUME Holds(agent, objects), Tracked, NEW k \in Clients, Connect(k)
  PROVE  Holds(agent, objects)' /\ Tracked'
<1>1. /\ Standing(agent', objects') /\ agent'.clients[k].allocated = Channel
      /\ \A l \in Clients : l # k => agent'.clients[l] = agent.clients[l]
  BY ConnectStanding
<1>2. Allotted(agent) /\ \A l \in Clients : agent.clients[l].allocated \in 0..scenario.channels
  BY DEF Holds, Sound, Typed, GoodClient
<1>3. /\ Tracked' /\ scenario' = scenario
      /\ Channel # 0 => Channel < m_next' /\ ~SpareThen(Channel)
      /\ \A c \in 1..scenario.channels : c < m_next => c < m_next'
      /\ \A c : ~Spare(c) => ~SpareThen(c)
      /\ \A c \in 1..scenario.channels : c < m_next /\ ~Spare(c) => c # Channel
  BY Gives DEF Connect
<1>4. ASSUME NEW l \in Clients, l # k, Present(agent.clients[l]), agent.clients[l].allocated # 0
      PROVE  /\ agent.clients[l].allocated < m_next' /\ ~SpareThen(agent.clients[l].allocated)
             /\ agent.clients[l].allocated # Channel
  <2> DEFINE c == agent.clients[l].allocated
  <2>1. c \in 1..scenario.channels /\ c < m_next /\ ~Spare(c)
    BY <1>2, <1>4 DEF Allotted, Tracked
  <2> HIDE DEF c
  <2>2. c < m_next' /\ c # Channel
    BY <1>3, <2>1
  <2>3. ~SpareThen(c)
    BY <1>3, <2>1
  <2>4. QED
    BY <2>1, <2>2, <2>3 DEF c
<1>5. Allotted(agent)'
  <2>1. ASSUME NEW l \in Clients, Present(agent'.clients[l]), agent'.clients[l].allocated # 0
        PROVE  /\ agent'.clients[l].allocated < m_next'
               /\ ~(\E i \in 1..Len(m_unused_channels') : m_unused_channels'[i] = agent'.clients[l].allocated)
    <3>1. CASE l = k
      BY <1>1, <1>3, <2>1, <3>1 DEF Spare, SpareThen
    <3>2. CASE l # k
      BY <1>1, <1>4, <2>1, <3>2 DEF Spare, SpareThen
    <3>3. QED
      BY <3>1, <3>2
  <2>2. ASSUME NEW l \in Clients, NEW m \in Clients, l # m, Present(agent'.clients[l]),
               Present(agent'.clients[m]), agent'.clients[l].allocated # 0
        PROVE  agent'.clients[l].allocated # agent'.clients[m].allocated
    <3>1. CASE l = k
      BY <1>1, <1>4, <2>2, <3>1
    <3>2. CASE m = k
      BY <1>1, <1>4, <2>2, <3>2
    <3>3. CASE l # k /\ m # k
      BY <1>1, <1>2, <2>2, <3>3 DEF Allotted
    <3>4. QED
      BY <3>1, <3>2, <3>3
  <2>3. QED
    BY <2>1, <2>2 DEF Allotted, Spare, Present
<1>6. QED
  BY <1>1, <1>3, <1>5, Carried

LEMMA AnnihilateCarried ==
  ASSUME Holds(agent, objects), Tracked, NEW k \in Clients, Annihilate(k)
  PROVE  Holds(agent, objects)' /\ Tracked'
<1> DEFINE c == agent.clients[k].allocated
           u == m_unused_channels
           w == m_unused_channels'
<1>1. /\ scenario.channels \in Nat /\ m_next \in Nat \ {0} /\ IsSeq(u) /\ scenario' = scenario
      /\ m_next' = m_next /\ w = Append(u, c) /\ Present(agent.clients[k])
  BY DEF Tracked, Annihilate, Present
<1>2. /\ Holds(agent', objects') /\ ~Present(agent'.clients[k])
      /\ \A l \in Clients : l # k => agent'.clients[l] = agent.clients[l]
  BY <1>1, AnnihilateHolds
<1>3. Allotted(agent) /\ c \in 0..scenario.channels
  BY DEF Holds, Sound, Typed, GoodClient
<1>4. c # 0 => c < m_next /\ \A i \in 1..Len(u) : u[i] # c
  BY <1>1, <1>3 DEF Allotted, Spare
<1>5. \A l \in Clients : l # k /\ Present(agent.clients[l]) /\ agent.clients[l].allocated # 0
                         => agent.clients[l].allocated # c
  BY <1>1, <1>3 DEF Allotted
<1>6. /\ IsSeq(w) /\ Len(w) = Len(u) + 1 /\ w[Len(u) + 1] = c /\ \A i \in 1..Len(u) : w[i] = u[i]
      /\ Len(u) \in Nat
  BY <1>1, SeqAppend, SeqLength
<1>7. \A i \in 1..Len(w) : i \in 1..Len(u) \/ i = Len(u) + 1
  BY <1>6
<1>8. /\ \A i \in 1..Len(u) : u[i] \in 0..scenario.channels /\ (u[i] # 0 => u[i] < m_next)
      /\ \A i, j \in 1..Len(u) : i # j /\ u[i] # 0 => u[i] # u[j]
  BY DEF Tracked
<1> HIDE DEF c, u, w
<1>9. \A i \in 1..Len(w) : w[i] \in 0..scenario.channels /\ (w[i] # 0 => w[i] < m_next)
  BY <1>3, <1>4, <1>6, <1>7, <1>8
<1>10. \A i, j \in 1..Len(w) : i # j /\ w[i] # 0 => w[i] # w[j]
  BY <1>4, <1>6, <1>7, <1>8
<1>11. Tracked'
  BY <1>1, <1>6, <1>9, <1>10 DEF Tracked, w
<1>12. Allotted(agent)'
  <2>1. ASSUME NEW l \in Clients, Present(agent'.clients[l])
        PROVE  l # k /\ agent'.clients[l] = agent.clients[l]
    BY <1>2, <2>1
  <2>2. ASSUME NEW l \in Clients, Present(agent'.clients[l]), agent'.clients[l].allocated # 0
        PROVE  /\ agent'.clients[l].allocated < m_next'
               /\ ~(\E i \in 1..Len(w) : w[i] = agent'.clients[l].allocated)
    <3>1. l # k /\ agent'.clients[l] = agent.clients[l]
      BY <2>1, <2>2
    <3>2. agent.clients[l].allocated < m_next /\ ~(\E i \in 1..Len(u) : u[i] = agent.clients[l].allocated)
      BY <1>3, <2>2, <3>1 DEF Allotted, Spare, u
    <3>3. agent.clients[l].allocated # c
      BY <1>5, <2>2, <3>1
    <3>4. QED
      BY <1>1, <1>6, <1>7, <3>1, <3>2, <3>3
  <2>3. ASSUME NEW l \in Clients, NEW m \in Clients, l # m, Present(agent'.clients[l]),
               Present(agent'.clients[m]), agent'.clients[l].allocated # 0
        PROVE  agent'.clients[l].allocated # agent'.clients[m].allocated
    BY <1>3, <2>1, <2>3 DEF Allotted
  <2>4. QED
    BY <2>2, <2>3 DEF Allotted, Spare, Present, w
<1>13. QED
  BY <1>1, <1>2, <1>11, <1>12, Carried, StandingIs

-----------------------------------------------------------------------------
(* A client's request begins an operation of its account.                    *)
Requested == Kinds \ Joining

GoodArg(kind, arg) ==
  /\ kind \in Requested
  /\ kind \in OfAvatar => arg \in Doids
  /\ kind = "typed" => arg \in Doids \cup {0}
  /\ kind = "removefriend" => arg[1] \in Doids /\ arg[2] \in Doids

LEMMA NewIsGood ==
  ASSUME NEW kind, NEW k \in Clients, NEW a \in Doids, NEW arg, GoodArg(kind, arg)
  PROVE  LET op == NewOperation(kind, k, a, arg)
         IN  /\ GoodOperation(op) /\ OfAccount(op) /\ op.kind = kind /\ op.client = k
             /\ op.m_target = a /\ op.arg = arg /\ ~op.over /\ ~op.m_past_acc_query
             /\ op.m_contexts = {} /\ op.m_pending_avatars = {} /\ op.m_av_set = <<>>
             /\ DOMAIN op = OperationFields
BY DEF NewOperation, GoodOperation, OperationFields, OfAccount, GoodArg, Requested, Joining

LEMMA FriendsListStarts ==
  ASSUME NEW A, NEW D, NEW o \in Ops(A), NEW d \in Doids, Sound(A), Idle(A, o),
         A.operations[o].kind = "friendslist", ~A.operations[o].over
  PROVE  Handles(A, query_object(A, o, d), D, o)
<1> DEFINE B == query_object(A, o, d)
           op == A.operations[o]
           x == Request(A, o, "get", d, no_object)
<1>1. GoodRequest(A.operations, x) /\ x.ask = "get" /\ MayAsk(A, o)
  BY DEF GoodRequest, Request, Ops, MayAsk
<1>2. /\ Sound(B) /\ Moves(A, B, o) /\ Held(A, B)
      /\ B.operations[o] = [op EXCEPT !.m_contexts = @ \cup {d}]
      /\ Coming(B, o) = Coming(A, o)
  BY <1>1, AfterAsk DEF query_object
<1> HIDE DEF B, x
<1>3. B.operations[o].kind = op.kind /\ B.operations[o].over = op.over
  BY <1>2, ClientThere DEF GoodOperation, OperationFields
<1>4. Coming(A, o) = {}
  BY DEF Idle, Coming, Values
<1>5. Befriending(B, o)
  BY <1>2, <1>3, <1>4 DEF Befriending
<1>6. Progress(B, D, o)
  BY <1>3, <1>5 DEF Progress, Linear, Singly
<1>7. Registered(A) => Registered(B)
  <2>1. Typed(A) /\ Typed(B) /\ B.m_account2operation = A.m_account2operation
    BY <1>2 DEF Sound, Held
  <2>2. QED
    BY <1>2, <1>3, <2>1, StaysRegistered
<1>8. QED
  BY <1>2, <1>6, <1>7 DEF Handles, Registers, B

LEMMA ListStarts ==
  ASSUME NEW A, NEW D, NEW o \in Ops(A), Sound(A),
         LET op == A.operations[o]
         IN  /\ op.kind = "getavatars" /\ ~op.over /\ ~op.m_past_acc_query
             /\ op.m_contexts = {} /\ op.m_pending_avatars = {}
  PROVE  Handles(A, query_object(A, o, A.operations[o].m_target), D, o)
<1> DEFINE op == A.operations[o]
           d == op.m_target
           B == query_object(A, o, d)
           x == Request(A, o, "get", d, no_object)
<1>1. GoodOperation(op) /\ d \in Doids
  <2>1. GoodOperation(op)
    BY ClientThere
  <2>2. QED
    BY <2>1 DEF GoodOperation, OfAccount, Kinds, Joining, Beside
<1>2. GoodRequest(A.operations, x) /\ x.ask = "get" /\ MayAsk(A, o)
  BY <1>1 DEF GoodRequest, Request, Ops, MayAsk
<1>3. /\ Sound(B) /\ Moves(A, B, o) /\ Held(A, B)
      /\ B.operations[o] = [op EXCEPT !.m_contexts = @ \cup {d}]
  BY <1>2, AfterAsk DEF query_object
<1> HIDE DEF B, x
<1>4. /\ B.operations[o].kind = op.kind /\ B.operations[o].over = op.over
      /\ B.operations[o].m_past_acc_query = op.m_past_acc_query
      /\ B.operations[o].m_pending_avatars = op.m_pending_avatars
      /\ B.operations[o].m_target = d /\ B.operations[o].m_contexts = {d}
  BY <1>1, <1>3 DEF GoodOperation, OperationFields
<1>5. Listing(B.operations[o])
  BY <1>4 DEF Listing
<1>6. Progress(B, D, o)
  BY <1>4, <1>5 DEF Progress, Linear, Singly
<1>7. Registered(A) => Registered(B)
  <2>1. Typed(A) /\ Typed(B) /\ B.m_account2operation = A.m_account2operation
    BY <1>3 DEF Sound, Held
  <2>2. QED
    BY <1>3, <1>4, <2>1, StaysRegistered
<1>8. QED
  BY <1>3, <1>6, <1>7 DEF Handles, Registers, B

\* Begun: operation o of client k has just been started.
Begun(A, o, k, kind, a, arg) ==
  /\ Sound(A) /\ o \in Ops(A) /\ Idle(A, o)
  /\ A.operations[o] = NewOperation(kind, k, a, arg)
  /\ k \in Clients /\ a \in Doids /\ GoodArg(kind, arg) /\ Present(A.clients[k])

LEMMA StartHandles ==
  ASSUME NEW A, NEW D, NEW o, NEW k, NEW kind, NEW a, NEW arg, Begun(A, o, k, kind, a, arg)
  PROVE  Handles(A, start(A, o), D, o)
<1> DEFINE op == A.operations[o]
<1>1. /\ Sound(A) /\ o \in Ops(A) /\ Idle(A, o) /\ Present(A.clients[op.client])
      /\ GoodOperation(op) /\ op.kind = kind /\ op.client = k
      /\ op.m_target = a /\ op.arg = arg /\ ~op.over /\ ~op.m_past_acc_query
      /\ op.m_contexts = {} /\ op.m_pending_avatars = {}
      /\ a \in Doids /\ GoodArg(kind, arg)
  <2> DEFINE N == NewOperation(kind, k, a, arg)
  <2>1. /\ GoodOperation(N) /\ N.kind = kind /\ N.client = k
        /\ N.m_target = a /\ N.arg = arg /\ ~N.over /\ ~N.m_past_acc_query
        /\ N.m_contexts = {} /\ N.m_pending_avatars = {}
    <3>1. k \in Clients /\ a \in Doids /\ GoodArg(kind, arg)
      BY DEF Begun
    <3>2. QED
      BY ONLY <3>1, NewIsGood
  <2> HIDE DEF N
  <2>2. op = N
    BY DEF Begun, N
  <2>3. QED
    BY <2>1, <2>2 DEF Begun
<1>2. MayAsk(A, o) /\ kind \in Requested
  BY <1>1 DEF MayAsk, GoodArg, Requested, Joining
<1> HIDE DEF op
<1>3. CASE kind = "unload"
  <2>1. start(A, o) = unload_avatar(A, o)
    BY <1>1, <1>3 DEF start, op
  <2>2. QED
    BY <1>1, <1>3, <2>1, UnloadHandles DEF op
<1>4. CASE kind = "details"
  <2>1. start(A, o) = query_object(A, o, arg) /\ arg \in Doids
    BY <1>1, <1>4 DEF start, op, GoodArg, OfAvatar
  <2>2. QED
    BY <1>1, <1>2, <1>4, <2>1, Queries DEF op, Linear, Through
<1>5. CASE kind = "friendslist"
  <2>1. start(A, o) = query_object(A, o, arg) /\ arg \in Doids
    BY <1>1, <1>5 DEF start, op, GoodArg, OfAvatar
  <2>2. QED
    BY <1>1, <1>5, <2>1, FriendsListStarts DEF op
<1>6. CASE kind = "removefriend"
  <2>1. start(A, o) = query_object(A, o, arg[1]) /\ arg[1] \in Doids
    BY <1>1, <1>6 DEF start, op, GoodArg
  <2>2. QED
    BY <1>1, <1>2, <1>6, <2>1, Queries DEF op
<1>7. CASE kind = "typed" /\ arg = 0
  <2>1. start(A, o) = off(A, o)
    BY <1>1, <1>7 DEF start, op
  <2>2. QED
    BY <1>1, <1>7, <2>1, Ends DEF op, Singly, Linear
<1>8. CASE kind = "create" /\ arg \notin Slots
  <2>1. start(A, o) = kill(A, o)
    BY <1>1, <1>8 DEF start, op
  <2>2. QED
    BY <1>1, <1>8, <2>1, Kills DEF op, Singly, Linear
<1>9. CASE kind = "getavatars"
  <2>1. start(A, o) = query_object(A, o, op.m_target)
    BY <1>1, <1>9 DEF start, op
  <2>2. QED
    BY <1>1, <1>9, <2>1, ListStarts DEF op
<1>10. CASE kind \in {"typed", "pattern", "load", "create"} /\ ~(kind = "typed" /\ arg = 0)
            /\ ~(kind = "create" /\ arg \notin Slots)
  <2>1. start(A, o) = query_object(A, o, a)
    BY <1>1, <1>10 DEF start, op
  <2>2. QED
    BY <1>1, <1>2, <1>10, <2>1, Queries DEF op, Linear, Through
<1>11. kind \in {"typed", "pattern", "load", "create", "details", "unload", "removefriend",
                 "getavatars", "friendslist"}
  BY <1>2 DEF Requested, Kinds, Joining, Singly, Linear, Beside
<1>12. QED
  BY <1>3, <1>4, <1>5, <1>6, <1>7, <1>8, <1>9, <1>10, <1>11

-----------------------------------------------------------------------------
(* run_operation.                                                            *)
LEMMA SameProgress ==
  ASSUME NEW A, NEW B, NEW D, NEW p, Same(A, B, p), A.disowned \subseteq B.disowned, Progress(A, D, p)
  PROVE  Progress(B, D, p)
<1>1. Fewer(A, B, p)
  BY DEF Fewer, Same
<1>2. QED
  BY <1>1, FewerProgress

BegunWith(A, k, kind, arg) ==
  LET sender == get_account_id(A.clients[k])
      o == Len(A.operations) + 1
  IN  [Started(A, NewOperation(kind, k, sender, arg)) EXCEPT !.m_account2operation[sender] = o]

\* Client k, who is established, sends a request.
Sends(A, k) ==
  /\ Sound(A) /\ ~A.crashed /\ k \in Clients /\ Present(A.clients[k])
  /\ A.clients[k].m_state = "established"

LEMMA SenderThere ==
  ASSUME NEW A, NEW k, Sends(A, k)
  PROVE  /\ get_account_id(A.clients[k]) \in Doids
         /\ get_avatar_id(A.clients[k]) \in 0..MaxDoid
<1>1. HasAccount(A.clients[k])
  BY DEF Sends, Sound, Accounted
<1>2. QED
  BY <1>1, SenderIs DEF HasAccount, get_account_id, get_avatar_id

LEMMA BegunIs ==
  ASSUME NEW A, NEW k, NEW kind, NEW arg, Sends(A, k), GoodArg(kind, arg),
         A.m_account2operation[get_account_id(A.clients[k])] = 0
  PROVE  LET X == BegunWith(A, k, kind, arg)
             n == Len(A.operations) + 1
         IN  /\ Begun(X, n, k, kind, get_account_id(A.clients[k]), arg)
             /\ \A p \in Ops(X) : p # n => p \in Ops(A) /\ Same(A, X, p)
             /\ X.disowned = A.disowned /\ X.told = A.told /\ X.killed_twice = A.killed_twice
             /\ Registered(A) => Registered(X)
<1> DEFINE X == BegunWith(A, k, kind, arg)
           n == Len(A.operations) + 1
           a == get_account_id(A.clients[k])
           op == NewOperation(kind, k, a, arg)
<1>1. /\ Sound(A) /\ Typed(A) /\ Tables(A) /\ a \in Doids /\ k \in Clients /\ Len(A.operations) \in Nat
      /\ Present(A.clients[k]) /\ A.clients[k].m_state = "established" /\ DOMAIN A = AgentFields
  BY SenderThere, OpsAre DEF Sends, Sound, Typed
<1>2. /\ GoodOperation(op) /\ op.client = k /\ op.m_target = a /\ op.kind = kind /\ kind # "login"
      /\ ~op.over
  BY <1>1, NewIsGood DEF GoodArg, Requested, Joining
<1>3. /\ Differ(A, X, {"operations", "m_account2operation"})
      /\ X.operations = Append(A.operations, op)
      /\ X.m_account2operation = [A.m_account2operation EXCEPT ![a] = n]
  BY <1>1 DEF BegunWith, Started, Differ, AgentFields
<1> HIDE DEF X, op, a
<1>4. /\ Len(X.operations) = n /\ X.operations[n] = op
      /\ \A p \in Ops(A) : X.operations[p] = A.operations[p]
  BY <1>1, <1>2, <1>3, OneMore
<1>5. /\ DOMAIN X.m_account2operation = Doids /\ X.m_account2operation[a] = n
      /\ \A b \in Doids : b # a => X.m_account2operation[b] = A.m_account2operation[b]
  BY <1>1, <1>3 DEF Tables
<1>6. Tables(X)
  <2>1. X.m_bridge = A.m_bridge
    BY <1>3 DEF Differ, AgentFields
  <2>2. \A b \in Doids : X.m_account2operation[b] \in 0..Len(X.operations)
    BY <1>1, <1>4, <1>5 DEF Tables
  <2>3. QED
    BY <1>1, <1>5, <2>1, <2>2 DEF Tables
<1>7. X.clients = A.clients
  BY <1>3 DEF Differ, AgentFields
<1>8. AccountServed(X, n) /\ A.clients[op.client].connection # "none"
  BY <1>1, <1>2, <1>4, <1>7 DEF AccountServed, Present, a
<1>9. /\ Sound(X) /\ Idle(X, n) /\ n \in Ops(X) /\ n \notin Ops(A)
      /\ Ops(X) = Ops(A) \cup {n}
      /\ \A p \in Ops(A) : Same(A, X, p)
      /\ X.disowned = A.disowned /\ X.killed_twice = A.killed_twice /\ X.told = A.told
  BY <1>1, <1>2, <1>3, <1>6, <1>8, AfterStarted
<1>10. Begun(X, n, k, kind, a, arg)
  BY <1>1, <1>4, <1>7, <1>9 DEF Begun, op
<1>11. ASSUME Registered(A) PROVE Registered(X)
  <2>1. SUFFICES ASSUME NEW p \in Ops(X), Unresolved(X, p), X.operations[p].m_target \in Doids \ X.disowned
                 PROVE  X.m_account2operation[X.operations[p].m_target] = p
    BY DEF Registered, Ops
  <2>2. CASE p = n
    BY <1>2, <1>4, <1>5, <2>2
  <2>3. CASE p \in Ops(A)
    <3>1. X.operations[p] = A.operations[p] /\ Unresolved(A, p) /\ p # 0
      BY <1>1, <1>4, <2>1, <2>3, OpsAre DEF Unresolved
    <3>2. A.m_account2operation[A.operations[p].m_target] = p
      BY <1>9, <1>11, <2>1, <2>3, <3>1 DEF Registered, Ops
    <3>3. A.operations[p].m_target # a
      BY <3>1, <3>2 DEF a
    <3>4. QED
      BY <1>5, <2>1, <3>1, <3>2, <3>3
  <2>4. QED
    BY <1>9, <2>2, <2>3
<1>12. \A p \in Ops(X) : p # n => p \in Ops(A) /\ Same(A, X, p)
  BY <1>9
<1>13. QED
  BY <1>9, <1>10, <1>11, <1>12 DEF X, a

LEMMA RunHolds ==
  ASSUME NEW A, NEW D, NEW k, NEW kind, NEW arg, Holds(A, D), Sends(A, k), GoodArg(kind, arg)
  PROVE  Holds(run_operation(A, kind, k, arg), D)
<1> DEFINE a == get_account_id(A.clients[k])
           n == Len(A.operations) + 1
           X == BegunWith(A, k, kind, arg)
<1>1. a \in Doids /\ Sound(A) /\ ~A.crashed
  BY SenderThere DEF Sends
<1>2. CASE A.m_account2operation[a] # 0
  <2> DEFINE B == kill_account(A, a)
  <2>1. run_operation(A, kind, k, arg) = B
    BY <1>2 DEF run_operation
  <2> HIDE DEF a
  <2>2. /\ Sound(B) /\ Moves(A, B, 0) /\ B.operations = A.operations
        /\ B.m_account2operation = A.m_account2operation /\ B.disowned = A.disowned
    BY <1>1, AfterKillAccount
  <2> HIDE DEF B
  <2>3. Registered(A) => Registered(B)
    BY <2>2 DEF Registered, Unresolved
  <2>4. QED
    BY <1>1, <2>1, <2>2, <2>3, MovesHolds
<1>3. CASE A.m_account2operation[a] = 0
  <2>1. run_operation(A, kind, k, arg) = start(X, n)
    BY <1>3 DEF run_operation, BegunWith
  <2>2. /\ Begun(X, n, k, kind, a, arg)
        /\ \A p \in Ops(X) : p # n => p \in Ops(A) /\ Same(A, X, p)
        /\ X.disowned = A.disowned /\ X.told = A.told /\ X.killed_twice = A.killed_twice
        /\ Registered(A) => Registered(X)
    BY <1>3, BegunIs
  <2> HIDE DEF X, n, a
  <2>3. Handles(X, start(X, n), D, n) /\ Sound(X)
    BY <2>2, StartHandles DEF Begun
  <2>4. \A p \in Ops(X) : p # n => Progress(X, D, p)
    BY <1>1, <2>2, SameProgress DEF Holds
  <2>5. X.killed_twice \/ Registered(X)
    BY <1>1, <2>2 DEF Holds
  <2>6. \A t \in X.told : Filled(D, t[1], t[2], t[3])
    BY <2>2 DEF Holds
  <2>7. QED
    BY <2>1, <2>3, <2>4, <2>5, <2>6, HandlesHolds
<1>4. QED
  BY <1>2, <1>3

-----------------------------------------------------------------------------
(* What the established clients send.                                        *)
LEMMA ReceiverIs ==
  ASSUME Holds(agent, objects), NEW k \in Clients, NEW message, NEW handled,
         Receive(k, "established", message, handled)
  PROVE  Sends(agent, k) /\ agent' = handled /\ objects' = objects
BY DEF Receive, Holds, Sends, Running, Live, Present

LEMMA ArgIs ==
  /\ \A arg : GoodArg("getavatars", arg) /\ GoodArg("create", arg)
  /\ \A kind \in {"typed", "pattern", "load", "details", "unload", "friendslist"}, v \in Doids : GoodArg(kind, v)
  /\ GoodArg("typed", 0)
  /\ \A v, f \in Doids : GoodArg("removefriend", <<v, f>>)
BY DEF GoodArg, Requested, Kinds, Joining, Singly, Linear, Beside, OfAvatar

LEMMA RequestHolds ==
  ASSUME Holds(agent, objects), NEW k \in Clients, NEW message, NEW kind, NEW arg,
         Receive(k, "established", message, run_operation(agent, kind, k, arg)), GoodArg(kind, arg)
  PROVE  Holds(agent', objects')
<1> DEFINE B == run_operation(agent, kind, k, arg)
<1>1. Sends(agent, k) /\ agent' = B /\ objects' = objects
  BY ReceiverIs
<1> HIDE DEF B
<1>2. Holds(B, objects)
  BY <1>1, RunHolds DEF B
<1>3. QED
  BY <1>1, <1>2

LEMMA GetAvatarsHolds ==
  ASSUME Holds(agent, objects), NEW k \in Clients, GetAvatars(k)
  PROVE  Holds(agent', objects')
BY RequestHolds, ArgIs DEF GetAvatars

LEMMA CreateAvatarHolds ==
  ASSUME Holds(agent, objects), NEW k \in Clients, CreateAvatar(k)
  PROVE  Holds(agent', objects')
<1>1. PICK slot \in scenario.slots : Receive(k, "established", "create", run_operation(agent, "create", k, slot))
  BY DEF CreateAvatar
<1>2. GoodArg("create", slot)
  BY ArgIs
<1>3. QED
  BY <1>1, <1>2, RequestHolds

LEMMA SetNameHolds ==
  ASSUME Holds(agent, objects), NEW k \in Clients, SetName(k), scenario.avatars \subseteq Doids
  PROVE  Holds(agent', objects')
<1>1. CASE Receive(k, "established", "setname", run_operation(agent, "typed", k, 0))
  BY <1>1, RequestHolds, ArgIs
<1>2. ASSUME NEW v \in scenario.avatars, NEW kind \in {"typed", "pattern"},
             Receive(k, "established", "setname", run_operation(agent, kind, k, v))
      PROVE  Holds(agent', objects')
  <2>1. GoodArg(kind, v)
    BY ArgIs
  <2>2. QED
    BY <1>2, <2>1, RequestHolds
<1>3. QED
  BY <1>1, <1>2 DEF SetName

LEMMA DetailsHolds ==
  ASSUME Holds(agent, objects), NEW k \in Clients, GetAvatarDetails(k), scenario.avatars \subseteq Doids
  PROVE  Holds(agent', objects')
<1>1. PICK v \in scenario.avatars : Receive(k, "established", "details", run_operation(agent, "details", k, v))
  BY DEF GetAvatarDetails
<1>2. GoodArg("details", v)
  BY ArgIs
<1>3. QED
  BY <1>1, <1>2, RequestHolds

LEMMA PlayedIs ==
  ASSUME NEW A, NEW k, Sends(A, k), get_avatar_id(A.clients[k]) # 0
  PROVE  get_avatar_id(A.clients[k]) \in Doids
BY SenderThere, ManagerAssumption DEF Doids

LEMMA RemoveHolds ==
  ASSUME Holds(agent, objects), NEW k \in Clients, RemoveFriend(k), scenario.avatars \subseteq Doids
  PROVE  Holds(agent', objects')
<1> DEFINE v == get_avatar_id(agent.clients[k])
<1>1. PICK f \in scenario.avatars :
        Plays(k) /\ Receive(k, "established", "removefriend", run_operation(agent, "removefriend", k, <<v, f>>))
  BY DEF RemoveFriend
<1>2. Sends(agent, k)
  BY <1>1, ReceiverIs
<1>3. v \in Doids /\ f \in Doids
  BY <1>1, <1>2, PlayedIs DEF Plays
<1> HIDE DEF v
<1>4. GoodArg("removefriend", <<v, f>>)
  BY <1>3, ArgIs
<1>5. QED
  BY <1>1, <1>4, RequestHolds

LEMMA FriendsListHolds ==
  ASSUME Holds(agent, objects), NEW k \in Clients, GetFriendsList(k)
  PROVE  Holds(agent', objects')
<1> DEFINE v == get_avatar_id(agent.clients[k])
<1>1. Plays(k) /\ Receive(k, "established", "friendslist", run_operation(agent, "friendslist", k, v))
  BY DEF GetFriendsList
<1>2. Sends(agent, k)
  BY <1>1, ReceiverIs
<1>3. v \in Doids
  BY <1>1, <1>2, PlayedIs DEF Plays
<1> HIDE DEF v
<1>4. GoodArg("friendslist", v)
  BY <1>3, ArgIs
<1>5. QED
  BY <1>1, <1>4, RequestHolds

\* One client changes, and nothing else.
LEMMA OneGoesHolds ==
  ASSUME NEW A, NEW B, NEW D, NEW k, Holds(A, D), OneClient(A, B, k)
  PROVE  Holds(B, D)
<1>1. Sound(B) /\ Moves(A, B, 0) /\ Kept(A, B)
  BY OneGoes DEF Holds
<1>2. Registered(A) => Registered(B)
  BY <1>1 DEF Registered, Unresolved, Kept
<1>3. CASE ~A.crashed
  BY <1>1, <1>2, <1>3, MovesHolds
<1>4. CASE A.crashed
  BY <1>1, <1>4 DEF Holds, Kept, Moves
<1>5. QED
  BY <1>3, <1>4

LEMMA PlayHolds ==
  ASSUME NEW A, NEW D, NEW k, NEW v \in Doids \cup {0}, Holds(A, D), Sends(A, k)
  PROVE  Holds(request_play_avatar(A, k, v), D)
<1> DEFINE w == get_avatar_id(A.clients[k])
           a == get_account_id(A.clients[k])
<1>1. w \in 0..MaxDoid /\ a \in Doids /\ (w # 0 => w \in Doids) /\ Sound(A) /\ ~A.crashed
  BY SenderThere, PlayedIs DEF Sends
<1>2. CASE w # 0 /\ v # 0
  <2> DEFINE B == kill_account(A, a)
  <2>1. request_play_avatar(A, k, v) = B
    BY <1>2 DEF request_play_avatar
  <2> HIDE DEF a, w
  <2>2. /\ Sound(B) /\ Moves(A, B, 0) /\ B.operations = A.operations
        /\ B.m_account2operation = A.m_account2operation /\ B.disowned = A.disowned
    BY <1>1, AfterKillAccount
  <2> HIDE DEF B
  <2>3. Registered(A) => Registered(B)
    BY <2>2 DEF Registered, Unresolved
  <2>4. QED
    BY <1>1, <2>1, <2>2, <2>3, MovesHolds
<1>3. CASE w = 0 /\ v = 0
  BY <1>3 DEF request_play_avatar
<1>4. CASE w = 0 /\ v # 0
  <2>1. request_play_avatar(A, k, v) = run_operation(A, "load", k, v)
    BY <1>4 DEF request_play_avatar
  <2>2. GoodArg("load", v)
    BY <1>4, ArgIs
  <2>3. QED
    BY <2>1, <2>2, RunHolds
<1>5. CASE w # 0 /\ v = 0
  <2>1. request_play_avatar(A, k, v) = run_operation(A, "unload", k, w)
    BY <1>5 DEF request_play_avatar
  <2> HIDE DEF w
  <2>2. GoodArg("unload", w)
    BY <1>1, <1>5, ArgIs
  <2>3. QED
    BY <2>1, <2>2, RunHolds
<1>6. QED
  BY <1>2, <1>3, <1>4, <1>5

LEMMA SetAvatarHolds ==
  ASSUME Holds(agent, objects), NEW k \in Clients, SetAvatar(k), scenario.avatars \subseteq Doids
  PROVE  Holds(agent', objects')
<1>1. PICK v \in scenario.avatars \cup {0} :
        Receive(k, "established", "setavatar",
                [request_play_avatar(agent, k, v) EXCEPT !.clients[k].m_av_id = v])
  BY DEF SetAvatar
<1> DEFINE Y == request_play_avatar(agent, k, v)
           B == [Y EXCEPT !.clients[k].m_av_id = v]
           d == [Y.clients[k] EXCEPT !.m_av_id = v]
<1>2. Sends(agent, k) /\ agent' = B /\ objects' = objects /\ v \in Doids \cup {0}
  BY <1>1, ReceiverIs
<1>3. Holds(Y, objects)
  BY <1>2, PlayHolds
<1> HIDE DEF Y
<1>4. Typed(Y) /\ DOMAIN Y = AgentFields /\ DOMAIN Y.clients = Clients /\ GoodClient(Y.clients[k])
  BY <1>3 DEF Holds, Sound, Typed
<1>5. Differ(Y, B, {"clients"}) /\ B.clients = [Y.clients EXCEPT ![k] = d]
  BY <1>4 DEF Differ, AgentFields
<1>6. Continues(Y.clients[k], d)
  <2> DEFINE c == Y.clients[k]
  <2>1. /\ DOMAIN d = ClientFields /\ d.m_av_id = v /\ d.connection = c.connection
        /\ d.m_state = c.m_state /\ d.allocated = c.allocated /\ d.m_channel = c.m_channel
        /\ d.subscriptions = c.subscriptions /\ d.owned = c.owned /\ d.post_removes = c.post_removes
    BY <1>4 DEF GoodClient, ClientFields
  <2>2. v \in 0..MaxDoid
    BY <1>2, ManagerAssumption DEF Doids
  <2> HIDE DEF d
  <2>3. GoodClient(d)
    BY <1>4, <2>1, <2>2 DEF GoodClient
  <2>4. QED
    BY <2>1, <2>3 DEF Continues, HasAccount, get_account_id, Present
<1> HIDE DEF B, d
<1>7. OneClient(Y, B, k)
  <2>1. DOMAIN B.clients = Clients /\ B.clients[k] = d /\ \A l \in Clients : l # k => B.clients[l] = Y.clients[l]
    BY <1>4, <1>5
  <2>2. QED
    BY <1>5, <1>6, <2>1 DEF OneClient
<1>8. Holds(B, objects)
  BY <1>3, <1>7, OneGoesHolds
<1>9. QED
  BY <1>2, <1>8

-----------------------------------------------------------------------------
(* A client logs in.                                                         *)
LoginBegun(A, k, t) ==
  LET channel == A.clients[k].allocated
      o == Len(A.operations) + 1
  IN  [Started(A, NewOperation("login", k, channel, t)) EXCEPT !.m_connection2operation[channel] = o]

\* Client k, who is not yet, and not about to be, established.
Knocks(A, k) ==
  /\ Sound(A) /\ ~A.crashed /\ k \in Clients /\ Present(A.clients[k])
  /\ A.clients[k].m_state = "anonymous"

LEMMA LoginIs ==
  ASSUME NEW k \in Clients, NEW c, NEW t
  PROVE  LET op == NewOperation("login", k, c, t)
         IN  /\ GoodOperation(op) /\ ~OfAccount(op) /\ op.kind = "login" /\ op.client = k /\ ~op.over
BY DEF NewOperation, GoodOperation, OperationFields, OfAccount, Kinds, Joining, Singly, Linear, Beside, OfAvatar

LEMMA LoginBegunIs ==
  ASSUME NEW A, NEW k, NEW t, Knocks(A, k), A.m_connection2operation[A.clients[k].allocated] = 0
  PROVE  LET X == LoginBegun(A, k, t)
             n == Len(A.operations) + 1
         IN  /\ Sound(X) /\ n \in Ops(X) /\ Idle(X, n) /\ MayAsk(X, n)
             /\ X.operations[n].kind = "login" /\ ~X.operations[n].over
             /\ \A p \in Ops(X) : p # n => p \in Ops(A) /\ Same(A, X, p)
             /\ X.disowned = A.disowned /\ X.told = A.told /\ X.killed_twice = A.killed_twice
             /\ X.m_bridge = A.m_bridge
             /\ Registered(A) => Registered(X)
<1> DEFINE X == LoginBegun(A, k, t)
           n == Len(A.operations) + 1
           c == A.clients[k].allocated
           op == NewOperation("login", k, c, t)
<1>1. /\ Sound(A) /\ Typed(A) /\ Wired(A) /\ k \in Clients /\ Len(A.operations) \in Nat /\ DOMAIN A = AgentFields
      /\ Present(A.clients[k]) /\ A.clients[k].m_state = "anonymous" /\ c \in 0..scenario.channels
      /\ \A o \in Ops(A) : Served(A, o)
  BY OpsAre DEF Knocks, Sound, Typed, GoodClient, Ops
<1>2. GoodOperation(op) /\ ~OfAccount(op) /\ op.kind = "login" /\ op.client = k /\ ~op.over
  BY <1>1, LoginIs
<1>3. /\ Differ(A, X, {"operations", "m_connection2operation"})
      /\ X.operations = Append(A.operations, op)
      /\ X.m_connection2operation = [A.m_connection2operation EXCEPT ![c] = n]
  BY <1>1 DEF LoginBegun, Started, Differ, AgentFields
<1> HIDE DEF X, op, c
<1>4. /\ X.requests = A.requests /\ X.mail = A.mail /\ X.clients = A.clients
      /\ X.m_account2operation = A.m_account2operation /\ X.m_bridge = A.m_bridge
      /\ X.crashed = A.crashed /\ X.killed_twice = A.killed_twice /\ X.disowned = A.disowned
      /\ X.told = A.told /\ DOMAIN X = AgentFields
  BY <1>3 DEF Differ, AgentFields
<1>5. /\ IsSeq(X.operations) /\ Len(X.operations) = n /\ X.operations[n] = op /\ n \notin Ops(A) /\ n # 0
      /\ \A p \in Ops(A) : X.operations[p] = A.operations[p] /\ p \in Ops(X)
      /\ Ops(X) = Ops(A) \cup {n} /\ n \in Ops(X)
      /\ \A p \in Ops(X) : GoodOperation(X.operations[p])
  BY <1>1, <1>2, <1>3, OneMore DEF Ops
<1>6. /\ DOMAIN X.m_connection2operation = 0..scenario.channels /\ X.m_connection2operation[c] = n
      /\ \A d \in 0..scenario.channels : d # c => X.m_connection2operation[d] = A.m_connection2operation[d]
  BY <1>1, <1>3 DEF Typed
<1>7. Typed(X)
  <2>1. \A d \in 0..scenario.channels : X.m_connection2operation[d] \in 0..Len(X.operations)
    BY <1>1, <1>5, <1>6 DEF Typed
  <2>2. DOMAIN X.clients = Clients /\ \A l \in Clients : GoodClient(X.clients[l])
    BY <1>1, <1>4 DEF Typed
  <2>3. Tables(X)
    BY <1>1, <1>4, <1>5 DEF Typed, Tables
  <2>4. QED
    BY <1>4, <1>5, <1>6, <2>1, <2>2, <2>3 DEF Typed, Ops
<1>8. \A p \in Ops(A) : Same(A, X, p) /\ Alike(A.operations[p], X.operations[p])
  BY <1>4, <1>5 DEF Same, Alike, Asked, Coming
<1>9. Wired(X)
  <2>1. Added(A, X, <<>>, <<>>)
    BY <1>1, <1>4, AsksNothing, RoutesNothing DEF Added, Asks, Routes
  <2>2. Len(A.operations) <= Len(X.operations)
    BY <1>1, <1>5
  <2>3. QED
    BY <1>1, <1>7, <1>8, <2>1, <2>2, WiredOn
<1>10. Accounted(X) /\ Apart(X) /\ Allotted(X)
  BY <1>1, <1>4, StillAllotted DEF Sound, Accounted, Apart, Ejecting
<1>11. Idle(X, n)
  <2>1. Idle(A, n)
    BY <1>1, <1>5, NewIsIdle
  <2>2. QED
    BY <1>4, <2>1 DEF Idle
<1>12. \A p \in Ops(A) : A.operations[p].kind = "login" => A.operations[p].client # k
  BY <1>1 DEF Served, LoginServed, c
<1>13. ASSUME NEW p \in Ops(A) PROVE Served(X, p)
  <2>1. Served(A, p) /\ X.operations[p] = A.operations[p] /\ GoodOperation(A.operations[p])
    BY <1>1, <1>5 DEF Typed, Ops
  <2> DEFINE l == A.operations[p].client
  <2>2. l \in Clients /\ GoodClient(A.clients[l])
    BY <1>1, <2>1 DEF GoodOperation, Typed
  <2>3. AccountServed(X, p) /\ X.clients[l].connection # "none"
    BY <1>4, <2>1 DEF Served, AccountServed
  <2>4. LoginServed(X, p)
    <3>1. SUFFICES ASSUME A.operations[p].kind = "login", Present(A.clients[l])
                   PROVE  /\ X.m_connection2operation[A.clients[l].allocated] # 0
                          /\ A.clients[l].m_state = "established" => Idle(X, p)
                          /\ \A q \in Ops(X) : X.operations[q].kind = "login" /\ X.operations[q].client = l => q = p
      BY <1>4, <2>1 DEF LoginServed, Ops
    <3>2. /\ A.m_connection2operation[A.clients[l].allocated] # 0
          /\ A.clients[l].m_state = "established" => Idle(A, p)
          /\ \A q \in Ops(A) : A.operations[q].kind = "login" /\ A.operations[q].client = l => q = p
      BY <2>1, <3>1 DEF Served, LoginServed, Ops
    <3>3. X.m_connection2operation[A.clients[l].allocated] # 0
      BY <1>5, <1>6, <2>2, <3>2, Zenon DEF GoodClient
    <3>4. Idle(A, p) => Idle(X, p)
      BY <1>4 DEF Idle
    <3>5. l # k
      BY <1>12, <3>1
    <3>6. \A q \in Ops(X) : X.operations[q].kind = "login" /\ X.operations[q].client = l => q = p
      BY <1>2, <1>5, <3>2, <3>5
    <3>7. QED
      BY <3>2, <3>3, <3>4, <3>6
  <2>5. QED
    BY <2>1, <2>3, <2>4 DEF Served
<1>14. Served(X, n)
  <2>1. LoginServed(X, n)
    <3>1. X.m_connection2operation[A.clients[k].allocated] # 0
      BY <1>5, <1>6 DEF c
    <3>2. \A q \in Ops(X) : X.operations[q].kind = "login" /\ X.operations[q].client = k => q = n
      BY <1>5, <1>12
    <3>3. QED
      BY <1>1, <1>2, <1>4, <1>5, <3>1, <3>2 DEF LoginServed, Ops
  <2>2. AccountServed(X, n)
    BY <1>2, <1>5 DEF AccountServed
  <2>3. QED
    BY <1>1, <1>2, <1>4, <1>5, <2>1, <2>2 DEF Served, Present
<1>15. Sound(X)
  <2>1. \A o \in 1..Len(X.operations) : Served(X, o)
    BY <1>5, <1>13, <1>14 DEF Ops
  <2>2. QED
    BY <1>7, <1>9, <1>10, <2>1 DEF Sound
<1>16. MayAsk(X, n)
  BY <1>1, <1>2, <1>4, <1>5 DEF MayAsk
<1>17. Registered(A) => Registered(X)
  BY <1>2, <1>4, <1>5 DEF Registered, Unresolved, Ops
<1>18. QED
  BY <1>2, <1>4, <1>5, <1>8, <1>11, <1>15, <1>16, <1>17 DEF X

LEMMA LookupHandles ==
  ASSUME NEW A, NEW D, NEW o \in Ops(A), NEW a \in 0..MaxDoid, Sound(A), Idle(A, o), MayAsk(A, o),
         A.operations[o].kind = "login", ~A.operations[o].over
  PROVE  Handles(A, handle_lookup(A, o, a), D, o)
<1>1. CASE a > 0
  <2>1. a \in Doids /\ handle_lookup(A, o, a) = query_object(A, o, a)
    BY <1>1, ManagerAssumption DEF Doids, handle_lookup
  <2>2. QED
    BY <2>1, Queries DEF Linear, Through
<1>2. CASE ~(a > 0)
  <2> DEFINE object == account_object(NoAvatars)
  <2>1. object \in Objects \ {no_object}
    <3>1. NoAvatars \in AvatarSets
      BY ManagerAssumption DEF NoAvatars, AvatarSets
    <3>2. QED
      BY <3>1 DEF Objects, account_object, no_object
  <2>2. handle_lookup(A, o, a) = create_object(A, o, object)
    BY <1>2 DEF handle_lookup
  <2> HIDE DEF object
  <2>3. QED
    BY <2>1, <2>2, Creates
<1>3. QED
  BY <1>1, <1>2

LEMMA LoggingInHolds ==
  ASSUME NEW A, NEW D, NEW k, NEW t \in PlayTokens, Holds(A, D), Knocks(A, k)
  PROVE  Holds(login(A, k, t), D)
<1> DEFINE c == A.clients[k].allocated
           n == Len(A.operations) + 1
           X == LoginBegun(A, k, t)
           a == A.m_bridge[t]
<1>1. /\ Sound(A) /\ ~A.crashed /\ c \in 0..scenario.channels /\ a \in 0..MaxDoid
  BY DEF Knocks, Sound, Typed, GoodClient, Tables
<1>2. CASE A.m_connection2operation[c] # 0
  <2> DEFINE B == kill_connection(A, c)
  <2>1. login(A, k, t) = B
    BY <1>2 DEF login
  <2> HIDE DEF c
  <2>2. /\ Sound(B) /\ Moves(A, B, 0) /\ B.operations = A.operations
        /\ B.m_account2operation = A.m_account2operation /\ B.disowned = A.disowned
    BY <1>1, <1>2, AfterKillConnection
  <2> HIDE DEF B
  <2>3. Registered(A) => Registered(B)
    BY <2>2 DEF Registered, Unresolved
  <2>4. QED
    BY <1>1, <2>1, <2>2, <2>3, MovesHolds
<1>3. CASE A.m_connection2operation[c] = 0
  <2>1. login(A, k, t) = handle_lookup(X, n, a)
    BY <1>3 DEF login, LoginBegun
  <2>2. /\ Sound(X) /\ n \in Ops(X) /\ Idle(X, n) /\ MayAsk(X, n)
        /\ X.operations[n].kind = "login" /\ ~X.operations[n].over
        /\ \A p \in Ops(X) : p # n => p \in Ops(A) /\ Same(A, X, p)
        /\ X.disowned = A.disowned /\ X.told = A.told /\ X.killed_twice = A.killed_twice
        /\ Registered(A) => Registered(X)
    BY <1>3, LoginBegunIs
  <2> HIDE DEF X, n, a
  <2>3. Handles(X, handle_lookup(X, n, a), D, n)
    BY <1>1, <2>2, LookupHandles
  <2>4. \A p \in Ops(X) : p # n => Progress(X, D, p)
    BY <1>1, <2>2, SameProgress DEF Holds
  <2>5. X.killed_twice \/ Registered(X)
    BY <1>1, <2>2 DEF Holds
  <2>6. \A u \in X.told : Filled(D, u[1], u[2], u[3])
    BY <2>2 DEF Holds
  <2>7. QED
    BY <2>1, <2>2, <2>3, <2>4, <2>5, <2>6, HandlesHolds
<1>4. QED
  BY <1>2, <1>3

LEMMA LoginHolds ==
  ASSUME Holds(agent, objects), NEW k \in Clients, Login(k)
  PROVE  Holds(agent', objects')
<1>1. PICK t \in PlayTokens : Receive(k, "anonymous", "login", login(agent, k, t))
  BY DEF Login
<1> DEFINE B == login(agent, k, t)
<1>2. Knocks(agent, k) /\ agent' = B /\ objects' = objects
  BY <1>1 DEF Receive, Holds, Knocks, Running, Live, Present
<1> HIDE DEF B
<1>3. Holds(B, objects)
  BY <1>2, LoggingInHolds DEF B
<1>4. QED
  BY <1>2, <1>3

-----------------------------------------------------------------------------
(* The inductive invariant.                                                  *)
IInv ==
  /\ scenario \in Scenarios
  /\ Holds(agent, objects) /\ Data(objects) /\ Tracked /\ IsFiniteSet(loaded)

LEMMA ScenarioIs ==
  ASSUME scenario \in Scenarios
  PROVE  scenario.channels \in Nat /\ scenario.avatars \subseteq Doids
BY ScenariosAssumption

\* What is the same for all steps but those of connections.
Untouched == UNCHANGED <<scenario, m_next, m_unused_channels>>

LEMMA UntouchedIs ==
  ASSUME IInv, Untouched, Holds(agent', objects'), Data(objects'), IsFiniteSet(loaded')
  PROVE  IInv'
<1>1. Holds(agent, objects)'
  BY CarriedOn DEF Untouched
<1>2. Data(objects)'
  BY DEF Data
<1>3. Tracked'
  BY DEF IInv, Untouched, Tracked
<1>4. QED
  BY <1>1, <1>2, <1>3 DEF IInv, Untouched

LEMMA ConnectionSteps ==
  ASSUME IInv, NEW k \in Clients, Connect(k) \/ Annihilate(k)
  PROVE  IInv'
<1>1. Holds(agent, objects)' /\ Tracked'
  BY ConnectHolds, AnnihilateCarried DEF IInv
<1>2. scenario' = scenario /\ objects' = objects /\ loaded' = loaded
  BY DEF Connect, Annihilate
<1>3. QED
  BY <1>1, <1>2 DEF IInv, Data

LEMMA RequestSteps ==
  ASSUME IInv, NEW k \in Clients,
         \/ PeerLeaves(k) \/ Login(k) \/ GetAvatars(k) \/ CreateAvatar(k) \/ SetAvatar(k)
         \/ SetName(k) \/ GetAvatarDetails(k) \/ RemoveFriend(k) \/ GetFriendsList(k)
  PROVE  IInv'
<1>1. Holds(agent, objects) /\ scenario.avatars \subseteq Doids
  BY ScenarioIs DEF IInv
<1>2. Holds(agent', objects')
  BY <1>1, PeerLeavesHolds, LoginHolds, GetAvatarsHolds, CreateAvatarHolds, SetAvatarHolds,
     SetNameHolds, DetailsHolds, RemoveHolds, FriendsListHolds
<1>3. Untouched /\ objects' = objects /\ loaded' = loaded
  BY DEF PeerLeaves, Login, GetAvatars, CreateAvatar, SetAvatar, SetName, GetAvatarDetails,
         RemoveFriend, GetFriendsList, Receive, Untouched
<1>4. QED
  BY <1>2, <1>3, UntouchedIs DEF IInv

LEMMA OtherSteps ==
  ASSUME IInv, Deliver \/ Database \/ OtherAgentCreates \/ ObjectDies
  PROVE  IInv'
<1>1. Holds(agent, objects) /\ Data(objects) /\ IsFiniteSet(loaded)
  BY DEF IInv
<1>2. CASE Deliver
  <2>1. Untouched /\ objects' = objects
    BY <1>2 DEF Deliver, Untouched
  <2>2. QED
    BY <1>1, <1>2, <2>1, DeliverHolds, UntouchedIs
<1>3. CASE Database \/ OtherAgentCreates \/ ObjectDies
  <2>1. Untouched /\ loaded' = loaded
    BY <1>3 DEF Database, OtherAgentCreates, ObjectDies, Untouched
  <2>2. QED
    BY <1>1, <1>3, <2>1, DatabaseHolds, OtherCreatesHolds, ObjectDiesHolds, UntouchedIs
<1>4. QED
  BY <1>2, <1>3

LEMMA StepKeeps == IInv /\ [Next]_vars => IInv'
<1>1. SUFFICES ASSUME IInv, [Next]_vars PROVE IInv'
  OBVIOUS
<1>2. CASE UNCHANGED vars
  <2>1. agent' = agent /\ objects' = objects /\ loaded' = loaded /\ Untouched
    BY <1>2 DEF vars, Untouched
  <2>2. QED
    BY <1>1, <2>1, UntouchedIs DEF IInv
<1>3. ASSUME NEW k \in Clients, ClientStep(k) PROVE IInv'
  BY <1>1, <1>3, ConnectionSteps, RequestSteps DEF ClientStep
<1>4. CASE Deliver \/ Database \/ OtherAgentCreates \/ ObjectDies
  BY <1>1, <1>4, OtherSteps
<1>5. QED
  BY <1>1, <1>2, <1>3, <1>4 DEF Next

-----------------------------------------------------------------------------
(* The invariant holds at first.                                             *)
LEMMA SeqOne ==
  ASSUME NEW x
  PROVE  IsSeq(<<x>>) /\ Len(<<x>>) = 1 /\ <<x>>[1] = x
<1>1. <<x>> \in Seq({x})
  OBVIOUS
<1>2. QED
  BY <1>1 DEF IsSeq

LEMMA SeqListed ==
  ASSUME NEW n \in Nat, NEW S, NEW f \in [1..n -> S]
  PROVE  IsSeq(f) /\ Len(f) = n
<1>1. f \in Seq(S)
  OBVIOUS
<1>2. Len(f) = n
  OBVIOUS
<1>3. QED
  BY <1>1, <1>2 DEF IsSeq

LEMMA PlayerAt ==
  ASSUME scenario \in Scenarios, NEW k \in DOMAIN scenario.players
  PROVE  /\ scenario.players[k].account \in Doids /\ scenario.players[k].avatar \in 0..MaxDoid
         /\ k \in 1..Len(scenario.players) /\ k \in Clients /\ Len(scenario.players) \in Nat
         /\ Len(scenario.players) <= scenario.channels /\ scenario.channels \in Nat
<1>1. /\ scenario.players \in Seq([account : Doids, avatar : Doids \cup {0}])
      /\ DOMAIN scenario.players \subseteq Clients /\ Len(scenario.players) <= scenario.channels
      /\ scenario.channels \in Nat
  BY ScenariosAssumption
<1> DEFINE P == scenario.players
           R == [account : Doids, avatar : Doids \cup {0}]
<1>2. P[k] \in R /\ k \in 1..Len(P) /\ Len(P) \in Nat
  <2> HIDE DEF R
  <2>1. P \in Seq(R)
    BY <1>1 DEF R
  <2> HIDE DEF P
  <2>2. k \in DOMAIN P
    BY DEF P
  <2>3. QED
    BY <2>1, <2>2
<1>3. QED
  BY <1>1, <1>2, ManagerAssumption DEF Doids

LEMMA NoClientIs ==
  ASSUME scenario.channels \in Nat
  PROVE  GoodClient(NoClient) /\ NoClient.connection = "none"
<1>1. /\ DOMAIN NoClient = ClientFields /\ NoClient.connection = "none" /\ NoClient.allocated = 0
      /\ NoClient.m_av_id = 0 /\ NoClient.owned = {} /\ NoClient.post_removes = <<>>
  BY DEF NoClient, ClientFields
<1>2. IsFiniteSet({}) /\ IsSeq(<<>>) /\ Len(<<>>) = 0 /\ 0 \in 0..MaxDoid /\ 0 \in 0..scenario.channels
  BY FS_EmptySet, SeqEmpty, ManagerAssumption
<1>3. QED
  BY <1>1, <1>2 DEF GoodClient

LEMMA PlayerIs ==
  ASSUME scenario \in Scenarios, NEW k \in DOMAIN scenario.players
  PROVE  /\ GoodClient(Player(k)) /\ HasAccount(Player(k))
         /\ Player(k).connection = "open" /\ Player(k).m_state = "established"
         /\ Player(k).allocated = k
         /\ get_account_id(Player(k)) = scenario.players[k].account
<1> DEFINE a == scenario.players[k].account
           v == scenario.players[k].avatar
           c == Player(k)
<1>1. /\ a \in Doids /\ v \in 0..MaxDoid /\ k \in 0..scenario.channels
  BY PlayerAt
<1>2. /\ DOMAIN c = ClientFields /\ c.connection = "open" /\ c.m_state = "established"
      /\ c.allocated = k /\ c.m_channel = sender_channel(a, v) /\ c.m_av_id = v
      /\ get_account_connection_channel(a) \in c.subscriptions
  BY DEF Player, NoClient, ClientFields
<1>3. IsFiniteSet(c.owned)
  <2>1. c.owned = {} \/ c.owned = {v}
    BY DEF Player, NoClient
  <2> HIDE DEF c, v
  <2>2. IsFiniteSet({}) /\ IsFiniteSet({v})
    BY FS_EmptySet, FS_Singleton
  <2>3. QED
    BY <2>1, <2>2
<1>4. IsSeq(c.post_removes) /\ \A i \in 1..Len(c.post_removes) : \E l, w : c.post_removes[i] = delete_ram(l, w)
  <2>1. CASE v = 0
    <3>1. c.post_removes = <<>>
      BY <2>1 DEF Player, NoClient
    <3>2. QED
      BY <3>1, SeqEmpty
  <2>2. CASE v # 0
    <3>1. c.post_removes = <<delete_ram(k, v)>>
      BY <2>2 DEF Player, NoClient
    <3>2. /\ IsSeq(<<delete_ram(k, v)>>) /\ Len(<<delete_ram(k, v)>>) = 1
          /\ <<delete_ram(k, v)>>[1] = delete_ram(k, v)
      BY SeqOne
    <3>3. IsSeq(c.post_removes) /\ Len(c.post_removes) = 1 /\ c.post_removes[1] = delete_ram(k, v)
      BY <3>1, <3>2
    <3>4. QED
      BY <3>3
  <2>3. QED
    BY <2>1, <2>2
<1>5. get_account_id(c) = a
  BY <1>2 DEF get_account_id, sender_channel
<1> HIDE DEF c, a, v
<1>6. GoodClient(c)
  BY <1>1, <1>2, <1>3, <1>4 DEF GoodClient
<1>7. HasAccount(c)
  BY <1>1, <1>2 DEF HasAccount
<1>8. QED
  BY <1>2, <1>5, <1>6, <1>7 DEF c, a

\* The logins that are over when a scenario begins.
AtFirst == {[NewOperation("login", k, k, "player") EXCEPT !.over = TRUE] : k \in DOMAIN scenario.players}

LEMMA LoggedIn ==
  ASSUME Init, NEW o \in 1..Len(agent.operations)
  PROVE  LET op == agent.operations[o]
         IN  /\ o \in DOMAIN scenario.players
             /\ GoodOperation(op) /\ op.kind = "login" /\ op.client = o /\ op.over
<1> DEFINE op == agent.operations[o]
           P == scenario.players
           N == NewOperation("login", o, o, "player")
<1>1. agent.operations = [k \in DOMAIN P |-> [NewOperation("login", k, k, "player") EXCEPT !.over = TRUE]]
  BY DEF Init
<1>2. P \in Seq([account : Doids, avatar : Doids \cup {0}])
  BY ScenariosAssumption DEF Init
<1>3. DOMAIN P = 1..Len(P) /\ Len(P) \in Nat
  BY <1>2
<1>4. Len(agent.operations) = Len(P)
  <2>1. agent.operations \in [1..Len(P) -> AtFirst]
    BY <1>1, <1>3 DEF AtFirst
  <2>2. QED
    BY <1>3, <2>1, SeqListed
<1>5. o \in DOMAIN P /\ op = [N EXCEPT !.over = TRUE]
  BY <1>1, <1>3, <1>4
<1>6. o \in Clients
  BY <1>5, PlayerAt DEF Init
<1>7. /\ N.kind = "login" /\ N.client = o /\ DOMAIN N = OperationFields
      /\ N.m_av_set = <<>> /\ N.m_friends_list = {}
  BY DEF NewOperation, OperationFields
<1>8. /\ DOMAIN op = OperationFields /\ op.kind = "login" /\ op.client = o /\ op.over
      /\ op.m_av_set = <<>> /\ op.m_friends_list = {}
  BY <1>5, <1>7 DEF OperationFields
<1>9. GoodOperation(op)
  BY <1>6, <1>8 DEF GoodOperation, OfAccount, Kinds, Joining, Beside, OfAvatar, Singly, Linear
<1>10. QED
  BY <1>5, <1>8, <1>9

LEMMA InitTyped == Init => Typed(agent) /\ Wired(agent)
<1>1. SUFFICES ASSUME Init PROVE Typed(agent) /\ Wired(agent)
  OBVIOUS
<1> DEFINE P == scenario.players
           S == scenario.channels
<1>2. /\ scenario \in Scenarios /\ S \in Nat /\ Len(P) \in Nat /\ Len(P) <= S
      /\ DOMAIN P = 1..Len(P) /\ DOMAIN P \subseteq Clients
      /\ scenario.bridge \in [PlayTokens -> Doids \cup {0}]
  BY <1>1, ScenariosAssumption DEF Init, PlayTokens
<1>3. /\ DOMAIN agent = AgentFields
      /\ agent.clients = [k \in Clients |-> IF Joined(k) THEN Player(k) ELSE NoClient]
      /\ agent.operations = [k \in DOMAIN P |-> [NewOperation("login", k, k, "player") EXCEPT !.over = TRUE]]
      /\ agent.m_account2operation = [a \in Doids |-> 0]
      /\ agent.m_connection2operation = [c \in 0..S |-> IF Joined(c) THEN c ELSE 0]
      /\ agent.m_bridge = scenario.bridge /\ agent.requests = <<>> /\ agent.mail = <<>>
  BY <1>1 DEF Init, AgentFields
<1>4. IsSeq(agent.operations) /\ Len(agent.operations) = Len(P)
  <2>1. agent.operations \in [1..Len(P) -> AtFirst]
    BY <1>2, <1>3 DEF AtFirst
  <2>2. QED
    BY <1>2, <2>1, SeqListed
<1>5. ASSUME NEW k \in Clients PROVE GoodClient(agent.clients[k])
  <2>1. CASE Joined(k)
    BY <1>2, <1>3, <2>1, PlayerIs DEF Joined
  <2>2. CASE ~Joined(k)
    BY <1>2, <1>3, <2>2, NoClientIs
  <2>3. QED
    BY <2>1, <2>2
<1>6. \A o \in 1..Len(agent.operations) : GoodOperation(agent.operations[o])
  BY <1>1, LoggedIn
<1>7. Tables(agent)
  BY <1>2, <1>3, <1>4, ManagerAssumption DEF Tables, Doids
<1>8. /\ DOMAIN agent.m_connection2operation = 0..S
      /\ \A c \in 0..S : agent.m_connection2operation[c] \in 0..Len(agent.operations)
  BY <1>2, <1>3, <1>4 DEF Joined
<1>9. Typed(agent)
  BY <1>3, <1>4, <1>5, <1>6, <1>7, <1>8 DEF Typed
<1>10. Wired(agent)
  BY <1>3, SeqEmpty DEF Wired
<1>11. QED
  BY <1>9, <1>10

LEMMA InitApart == Init => Accounted(agent) /\ Apart(agent)
<1>1. SUFFICES ASSUME Init PROVE Accounted(agent) /\ Apart(agent)
  OBVIOUS
<1>2. /\ scenario \in Scenarios
      /\ \A k, l \in DOMAIN scenario.players :
           k # l => scenario.players[k].account # scenario.players[l].account
      /\ agent.clients = [k \in Clients |-> IF Joined(k) THEN Player(k) ELSE NoClient]
  BY <1>1, ScenariosAssumption DEF Init
<1>3. ASSUME NEW k \in Clients, agent.clients[k].connection # "none"
      PROVE  k \in DOMAIN scenario.players /\ agent.clients[k] = Player(k)
  <2>1. NoClient.connection = "none"
    BY DEF NoClient
  <2>2. QED
    BY <1>2, <1>3, <2>1 DEF Joined
<1>4. ASSUME NEW k \in Clients, agent.clients[k].connection # "none"
      PROVE  /\ HasAccount(agent.clients[k])
             /\ get_account_id(agent.clients[k]) = scenario.players[k].account
  <2>1. k \in DOMAIN scenario.players /\ agent.clients[k] = Player(k)
    BY <1>3, <1>4
  <2>2. HasAccount(Player(k)) /\ get_account_id(Player(k)) = scenario.players[k].account
    BY <1>2, <2>1, PlayerIs
  <2>3. QED
    BY <2>1, <2>2
<1>5. Accounted(agent)
  BY <1>4 DEF Accounted, Present
<1>6. Apart(agent)
  BY <1>2, <1>3, <1>4 DEF Apart, Playing
<1>7. QED
  BY <1>5, <1>6

LEMMA InitAllotted == Init => Allotted(agent) /\ Tracked
<1>1. SUFFICES ASSUME Init PROVE Allotted(agent) /\ Tracked
  OBVIOUS
<1> DEFINE n == Len(scenario.players)
<1>2. /\ scenario \in Scenarios /\ n \in Nat /\ scenario.channels \in Nat
      /\ m_next = n + 1 /\ m_unused_channels = <<>>
      /\ agent.clients = [k \in Clients |-> IF Joined(k) THEN Player(k) ELSE NoClient]
  BY <1>1, ScenariosAssumption DEF Init
<1>3. ASSUME NEW k \in Clients, agent.clients[k].connection # "none"
      PROVE  k \in 1..n /\ agent.clients[k].allocated = k
  <2>1. NoClient.connection = "none"
    BY DEF NoClient
  <2>2. k \in DOMAIN scenario.players /\ agent.clients[k] = Player(k)
    BY <1>2, <1>3, <2>1 DEF Joined
  <2>3. k \in 1..n /\ Player(k).allocated = k
    BY <1>2, <2>2, PlayerIs, PlayerAt
  <2>4. QED
    BY <2>2, <2>3
<1>4. Allotted(agent)
  <2>1. \A c : ~Spare(c)
    BY <1>2 DEF Spare
  <2>2. \A k \in Clients : Present(agent.clients[k]) => agent.clients[k].connection # "none"
    BY DEF Present
  <2> HIDE DEF n
  <2>3. QED
    BY <1>2, <1>3, <2>1, <2>2 DEF Allotted
<1>5. Tracked
  BY <1>2, SeqEmpty DEF Tracked
<1>6. QED
  BY <1>4, <1>5

LEMMA InitServed == Init => \A o \in 1..Len(agent.operations) : Served(agent, o)
<1>1. SUFFICES ASSUME Init, NEW o \in 1..Len(agent.operations) PROVE Served(agent, o)
  OBVIOUS
<1>2. /\ scenario \in Scenarios /\ agent.requests = <<>> /\ agent.mail = <<>>
      /\ agent.clients = [k \in Clients |-> IF Joined(k) THEN Player(k) ELSE NoClient]
      /\ agent.m_connection2operation = [c \in 0..scenario.channels |-> IF Joined(c) THEN c ELSE 0]
  BY <1>1 DEF Init
<1> DEFINE op == agent.operations[o]
<1>3. o \in DOMAIN scenario.players /\ op.kind = "login" /\ op.client = o
  BY <1>1, LoggedIn
<1>4. /\ o \in Clients /\ o \in 1..Len(scenario.players) /\ o \in 0..scenario.channels /\ o # 0
  BY <1>2, <1>3, PlayerAt
<1>5. agent.clients[o] = Player(o) /\ Player(o).connection = "open" /\ Player(o).allocated = o
  BY <1>2, <1>3, <1>4, PlayerIs DEF Joined
<1>6. agent.m_connection2operation[o] # 0
  BY <1>2, <1>3, <1>4 DEF Joined
<1>7. Idle(agent, o)
  BY <1>2 DEF Idle, Of
<1>8. \A p \in 1..Len(agent.operations) : agent.operations[p].client = o => p = o
  BY <1>1, LoggedIn
<1>9. LoginServed(agent, o)
  BY <1>3, <1>5, <1>6, <1>7, <1>8 DEF LoginServed
<1>10. AccountServed(agent, o)
  BY <1>3 DEF AccountServed, OfAccount, Joining
<1>11. QED
  BY <1>3, <1>5, <1>9, <1>10 DEF Served

LEMMA InitHolds == Init => Holds(agent, objects)
<1>1. SUFFICES ASSUME Init PROVE Holds(agent, objects)
  OBVIOUS
<1>2. Sound(agent)
  BY <1>1, InitTyped, InitApart, InitAllotted, InitServed DEF Sound
<1>3. ASSUME NEW o \in Ops(agent) PROVE Progress(agent, objects, o)
  <2>1. agent.operations[o].kind = "login"
    BY <1>1, LoggedIn DEF Ops
  <2>2. agent.requests = <<>> /\ agent.mail = <<>>
    BY <1>1 DEF Init
  <2>3. Of(agent.requests, o) = {} /\ Of(agent.mail, o) = {}
    BY <2>2 DEF Of
  <2>4. Once(agent, o) /\ Idle(agent, o)
    BY <2>3 DEF Once, Idle, Single
  <2>5. QED
    BY <2>1, <2>4 DEF Progress
<1>4. Registered(agent)
  <2>1. \A o \in 1..Len(agent.operations) : agent.operations[o].kind = "login"
    BY <1>1, LoggedIn
  <2>2. QED
    BY <2>1 DEF Registered, Unresolved
<1>5. agent.told = {}
  BY <1>1 DEF Init
<1>6. QED
  BY <1>2, <1>3, <1>4, <1>5 DEF Holds

LEMMA InitLoaded == Init => IsFiniteSet(loaded) /\ Data(objects)
<1>1. SUFFICES ASSUME Init PROVE IsFiniteSet(loaded) /\ Data(objects)
  OBVIOUS
<1>2. IsFiniteSet(loaded)
  <2> DEFINE P == scenario.players
             n == Len(P)
             f == [i \in 1..n |-> [do_id |-> P[i].avatar,
                                   owner |-> get_account_connection_channel(P[i].account)]]
             T == {f[i] : i \in 1..n}
  <2>1. n \in Nat /\ DOMAIN P = 1..n
    BY <1>1, ScenariosAssumption DEF Init
  <2>2. loaded \subseteq T
    BY <1>1, <2>1 DEF Init, Played, ToSet
  <2>3. f \in [1..n -> T] /\ \A x \in T : \E i \in 1..n : f[i] = x
    OBVIOUS
  <2> HIDE DEF P, n, f, T
  <2>4. f \in Surjection(1..n, T) /\ IsFiniteSet(1..n)
    BY <2>1, <2>3, FS_Interval DEF Surjection
  <2>5. IsFiniteSet(T)
    BY <2>4, FS_Surjection
  <2>6. QED
    BY <2>2, <2>5, FS_Subset
<1>3. Data(objects)
  <2>1. /\ scenario.objects \in [DOMAIN scenario.objects -> Objects]
        /\ objects = [d \in Doids |-> IF d \in DOMAIN scenario.objects
                                      THEN scenario.objects[d] ELSE no_object]
    BY <1>1, ScenariosAssumption DEF Init
  <2>2. no_object \in Objects
    BY DEF Objects
  <2> HIDE DEF Objects, no_object
  <2>3. \A d \in Doids : objects[d] \in Objects
    BY <2>1, <2>2
  <2>4. QED
    BY <2>1, <2>3 DEF Data, ObjectsNow
<1>4. QED
  BY <1>2, <1>3

LEMMA InitKeeps == Init => IInv
BY InitHolds, InitLoaded, InitAllotted DEF IInv, Init

-----------------------------------------------------------------------------
(* What follows from the invariant.                                          *)
LEMMA Invariance == Spec => []IInv
<1>1. Init => IInv
  BY InitKeeps
<1>2. IInv /\ [Next]_vars => IInv'
  BY StepKeeps
<1>3. QED
  BY <1>1, <1>2, PTL DEF Spec

LEMMA OneRegistered == IInv => OneOperation
<1>1. SUFFICES ASSUME IInv, ~agent.crashed, ~agent.killed_twice,
                      NEW a \in Doids \ agent.disowned, NEW o \in InProgress(a)
               PROVE  agent.m_account2operation[a] = o
  BY DEF OneOperation
<1>2. Registered(agent) /\ IsSeq(agent.operations)
  BY <1>1 DEF IInv, Holds, Sound, Typed
<1>3. o \in 1..Len(agent.operations)
  BY <1>1, <1>2, SeqLength DEF InProgress
<1>4. Unresolved(agent, o) /\ agent.operations[o].m_target = a
  BY <1>1 DEF InProgress, Unresolved
<1>5. QED
  BY <1>1, <1>2, <1>3, <1>4 DEF Registered

LEMMA PromisesKept == IInv => PromisedSlots
BY DEF IInv, Holds, Filled, PromisedSlots

LEMMA SessionsApart == IInv => SoleSession
<1>1. SUFFICES ASSUME IInv, agent.mail = <<>>, NEW k \in Clients, NEW l \in Clients, k # l
               PROVE  /\ Established(k) /\ Established(l)
                         => get_account_id(agent.clients[k]) # get_account_id(agent.clients[l])
                      /\ Live(k) /\ Live(l) /\ agent.clients[k].allocated # 0
                         => agent.clients[k].allocated # agent.clients[l].allocated
  BY DEF SoleSession
<1>2. Apart(agent) /\ Allotted(agent)
  BY <1>1 DEF IInv, Holds, Sound
<1>3. \A a : ~Ejecting(agent, a)
  BY <1>1 DEF Ejecting
<1>4. Established(k) /\ Established(l) => get_account_id(agent.clients[k]) # get_account_id(agent.clients[l])
  BY <1>1, <1>2, <1>3 DEF Apart, Established, Playing
<1>5. Live(k) /\ Live(l) /\ agent.clients[k].allocated # 0
      => agent.clients[k].allocated # agent.clients[l].allocated
  BY <1>1, <1>2 DEF Allotted, Live, Present
<1>6. QED
  BY <1>4, <1>5

(* Whatever the clients of an account send, and on however many connections, *)
(* an operation that is under way for it (run_operation, off) is the one     *)
(* registered in m_account2operation: no second one was started beside it.   *)
THEOREM AccountsRunOneOperation == Spec => []OneOperation
BY Invariance, OneRegistered, PTL

(* The avatar that a client was told it has created (handle_update) stays in *)
(* its slot of the account: whoever stores the slots from then on has read   *)
(* them with that avatar (SET_FIELD_IF_EQUALS), also at other agents.        *)
THEOREM SlotsAreKept == Spec => []PromisedSlots
BY Invariance, PromisesKept, PTL

(* When what was routed is delivered, no two clients of one account are      *)
(* connected and established (set_account ejects the earlier ones), and no   *)
(* two clients have one channel (ChannelTracker).                            *)
THEOREM SessionsAreSole == Spec => []SoleSession
BY Invariance, SessionsApart, PTL
=============================================================================
