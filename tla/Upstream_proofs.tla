--------------------------- MODULE Upstream_proofs ---------------------------
(***************************************************************************)
(* What the upstream director holds for this one: it forwards exactly what *)
(* somebody here subscribes to, the answer to a request finds its way, and *)
(* the post-removes there are those of the participants still here.        *)
(***************************************************************************)
EXTENDS MessageDirector_proofs, NaturalsInduction, SequenceTheorems

(* The least element of a set of naturals.                                   *)
LEMMA LeastElement ==
  ASSUME NEW N \in SUBSET Nat, N # {}
  PROVE  \E n \in N : \A m \in N : n <= m
<1>1. IsWellFoundedOn(OpToRel(<, Nat), Nat)
  BY NatLessThanWellFounded
<1>2. PICK n \in N : \A m \in N : ~ (<<m, n>> \in OpToRel(<, Nat))
  BY <1>1, WFMin
<1>3. \A m \in N : ~ (m < n)
  BY <1>2 DEF OpToRel
<1>4. QED
  BY <1>3

-----------------------------------------------------------------------------
(* on_remove_range is called for the maximal intervals of a set.             *)
Maximal(S) ==
  {R \in Interval : /\ R \subseteq S
                    /\ \A T \in Interval : R \subseteq T /\ T \subseteq S => T = R}
Preceding(S, R) == {T \in Maximal(S) : \A c \in T, d \in R : c < d}

LEMMA IntervalBounds ==
  /\ \A R \in Interval : \E lo, hi \in Channel : lo <= hi /\ R = lo..hi
  /\ \A lo, hi \in Channel : lo <= hi => lo..hi \in Interval
  /\ \A R \in Interval : R \subseteq Channel /\ R # {}
  /\ MaxChannel \in Nat /\ \A c \in Channel : c \in Nat /\ 1 <= c /\ c <= MaxChannel
<1>1. MaxChannel \in Nat
  BY ChannelMapAssumption
<1>2. \A c \in Channel : c \in Nat /\ 1 <= c /\ c <= MaxChannel
  BY <1>1 DEF Channel
<1>3. ASSUME NEW R \in Interval
      PROVE  /\ R \subseteq Channel /\ R # {}
             /\ \E lo, hi \in Channel : lo <= hi /\ R = lo..hi
  <2>1. PICK lo, hi \in Channel : R = lo..hi
    BY DEF Interval
  <2>2. R # {}
    BY DEF Interval
  <2>3. lo <= hi
    BY <1>2, <2>1, <2>2
  <2>4. R \subseteq Channel
    BY <1>1, <2>1 DEF Channel
  <2>5. QED
    BY <2>1, <2>2, <2>3, <2>4
<1>4. ASSUME NEW lo \in Channel, NEW hi \in Channel, lo <= hi PROVE lo..hi \in Interval
  <2>1. lo \in lo..hi
    BY <1>2, <1>4
  <2>2. QED
    BY <2>1 DEF Interval
<1>5. QED
  BY <1>1, <1>2, <1>3, <1>4

(* Every channel of a set is in a maximal interval of it.                    *)
LEMMA MaximalAround ==
  ASSUME NEW S \in SUBSET Channel, NEW c \in S
  PROVE  \E R \in Maximal(S) : c \in R
<1>1. MaxChannel \in Nat /\ c \in Nat /\ 1 <= c /\ c <= MaxChannel
      /\ \A d \in S : d \in Nat /\ 1 <= d /\ d <= MaxChannel
  BY IntervalBounds
<1>2. PICK hi \in Nat : c <= hi /\ hi + 1 \notin S /\ \A d \in c..hi : d \in S
  <2> DEFINE N == {n \in Nat : n > c /\ n \notin S}
  <2>1. MaxChannel + 1 \in N
    BY <1>1
  <2>2. PICK n \in N : \A m \in N : n <= m
    BY <2>1, LeastElement
  <2>3. \A d \in c..(n - 1) : d \in S
    <3>1. \A d \in c..(n - 1) : d \in Nat /\ ~(n <= d) /\ (d = c \/ d > c)
      BY <1>1, <2>2
    <3>2. QED
      BY <2>2, <3>1
  <2>4. n - 1 \in Nat /\ c <= n - 1 /\ (n - 1) + 1 = n
    BY <1>1, <2>2
  <2>5. QED
    BY <2>2, <2>3, <2>4
<1>3. PICK lo \in Nat : lo <= c /\ 1 <= lo /\ lo - 1 \notin S /\ \A d \in lo..c : d \in S
  <2> DEFINE N == {n \in Nat : n <= c /\ c - n \notin S}
  <2>1. c \in N
    <3>1. c - c = 0 /\ 0 \notin S
      BY <1>1
    <3>2. QED
      BY <1>1, <3>1
  <2>2. PICK n \in N : \A m \in N : n <= m
    BY <2>1, LeastElement
  <2>3. n # 0
    BY <1>1, <2>2
  <2>4. \A d \in (c - n + 1)..c : d \in S
    <3>1. \A d \in (c - n + 1)..c : /\ c - d \in Nat /\ c - d <= c /\ ~(n <= c - d)
                                    /\ c - (c - d) = d
      BY <1>1, <2>2
    <3>2. QED
      BY <2>2, <3>1
  <2>5. /\ c - n + 1 \in Nat /\ c - n + 1 <= c /\ 1 <= c - n + 1
        /\ (c - n + 1) - 1 = c - n
    BY <1>1, <2>2, <2>3
  <2>6. QED
    BY <2>2, <2>4, <2>5
<1>4. lo \in Channel /\ hi \in Channel /\ lo <= hi
  <2>1. lo \in S /\ hi \in S
    BY <1>1, <1>2, <1>3
  <2>2. QED
    BY <1>1, <1>2, <1>3, <2>1
<1>5. lo..hi \in Interval /\ c \in lo..hi
  BY <1>1, <1>2, <1>3, <1>4, IntervalBounds
<1>6. lo..hi \subseteq S
  <2>1. \A d \in lo..hi : d \in lo..c \/ d \in c..hi
    BY <1>1, <1>2, <1>3
  <2>2. QED
    BY <1>2, <1>3, <2>1
<1>7. ASSUME NEW T \in Interval, lo..hi \subseteq T, T \subseteq S PROVE T = lo..hi
  <2>1. PICK l, h \in Channel : l <= h /\ T = l..h
    BY IntervalBounds
  <2>2. l \in Nat /\ h \in Nat
    BY <2>1, IntervalBounds
  <2>3. lo \in T /\ hi \in T
    BY <1>2, <1>3, <1>4, <1>7
  <2>4. l <= lo /\ hi <= h
    BY <1>2, <1>3, <2>1, <2>2, <2>3
  <2>5. lo - 1 \notin T /\ hi + 1 \notin T
    BY <1>2, <1>3, <1>7
  <2>6. l = lo /\ h = hi
    BY <1>2, <1>3, <1>4, <2>1, <2>2, <2>4, <2>5
  <2>7. QED
    BY <2>1, <2>6
<1>8. lo..hi \in Maximal(S)
  BY <1>5, <1>6, <1>7 DEF Maximal
<1>9. QED
  BY <1>5, <1>8

(* Of two maximal intervals one precedes the other.                          *)
LEMMA MaximalApart ==
  ASSUME NEW S, NEW R \in Maximal(S), NEW T \in Maximal(S), R # T
  PROVE  \/ \A c \in R, d \in T : c < d
         \/ \A c \in T, d \in R : c < d
<1>1. R \in Interval /\ T \in Interval /\ R \subseteq S /\ T \subseteq S
  BY DEF Maximal
<1>2. PICK lo, hi \in Channel : lo <= hi /\ R = lo..hi
  BY <1>1, IntervalBounds
<1>3. PICK l, h \in Channel : l <= h /\ T = l..h
  BY <1>1, IntervalBounds
<1>4. lo \in Nat /\ hi \in Nat /\ l \in Nat /\ h \in Nat
  BY <1>2, <1>3, IntervalBounds
<1>5. CASE hi < l
  BY <1>2, <1>3, <1>4, <1>5
<1>6. CASE h < lo
  BY <1>2, <1>3, <1>4, <1>6
<1>7. CASE l <= hi /\ lo <= h
  <2>1. PICK a \in Channel : a = IF lo < l THEN lo ELSE l
    BY <1>2, <1>3
  <2>2. PICK b \in Channel : b = IF hi < h THEN h ELSE hi
    BY <1>2, <1>3
  <2>3. a <= b /\ a..b = R \cup T
    BY <1>2, <1>3, <1>4, <1>7, <2>1, <2>2
  <2>4. R \cup T \in Interval
    BY <2>1, <2>2, <2>3, IntervalBounds, ZenonT(60)
  <2>5. R \cup T = R
    BY <1>1, <2>4 DEF Maximal
  <2>6. R \cup T = T
    BY <1>1, <2>4 DEF Maximal
  <2>7. QED
    BY <2>5, <2>6
<1>8. QED
  BY <1>4, <1>5, <1>6, <1>7

LEMMA IntervalsExact ==
  ASSUME NEW S \in SUBSET Channel
  PROVE  /\ \A k \in 1..Len(Intervals(S)) : Intervals(S)[k] \in Interval /\ Intervals(S)[k] \subseteq S
         /\ \A c \in S : \E k \in 1..Len(Intervals(S)) : c \in Intervals(S)[k]
<1> DEFINE M == Maximal(S)
           n == Cardinality(M)
           rank == [R \in M |-> Cardinality(Preceding(S, R))]
<1>1. M \subseteq Interval /\ IsFiniteSet(M) /\ n \in Nat
  BY ChannelsFinite, FS_Subset, FS_CardinalityType DEF Maximal
<1>2. ASSUME NEW R \in M
      PROVE  /\ Preceding(S, R) \subseteq M /\ R \notin Preceding(S, R)
             /\ IsFiniteSet(Preceding(S, R))
  <2>1. Preceding(S, R) \subseteq M
    BY DEF Preceding
  <2>2. R \notin Preceding(S, R)
    <3>1. PICK c : c \in R /\ c \in Nat
      BY <1>1, IntervalBounds
    <3>2. QED
      BY <3>1 DEF Preceding
  <2>3. QED
    BY <1>1, <2>1, <2>2, FS_Subset
<1>3. ASSUME NEW R \in M
      PROVE  rank[R] \in 0..(n - 1)
  <2>1. Preceding(S, R) # M
    BY <1>2
  <2>2. Cardinality(Preceding(S, R)) <= n /\ Cardinality(Preceding(S, R)) # n
        /\ Cardinality(Preceding(S, R)) \in Nat
    BY <1>1, <1>2, <2>1, FS_Subset, FS_CardinalityType
  <2>3. QED
    BY <1>1, <2>2
<1>4. ASSUME NEW R \in M, NEW T \in M, \A c \in R, d \in T : c < d
      PROVE  rank[R] # rank[T]
  <2>1. PICK r : r \in R
    BY <1>1, IntervalBounds
  <2>2. Preceding(S, R) \subseteq Preceding(S, T)
    <3>1. ASSUME NEW Q \in Preceding(S, R), NEW c \in Q, NEW d \in T PROVE c < d
      <4>1. c < r /\ r < d
        BY <1>4, <2>1 DEF Preceding
      <4>2. c \in Nat /\ r \in Nat /\ d \in Nat
        BY <1>1, <1>2, <2>1, <3>1, IntervalBounds
      <4>3. QED
        BY <4>1, <4>2
    <3>2. QED
      BY <3>1 DEF Preceding
  <2>3. R \in Preceding(S, T)
    BY <1>4 DEF Preceding
  <2>4. Preceding(S, R) # Preceding(S, T)
    BY <1>2, <2>3
  <2>5. QED
    BY <1>2, <2>2, <2>4, FS_Subset
<1>5. rank \in Injection(M, 0..(n - 1))
  <2>1. \A R, T \in M : R # T => rank[R] # rank[T]
    BY <1>4, MaximalApart
  <2>2. rank \in [M -> 0..(n - 1)]
    BY <1>3
  <2> HIDE DEF rank
  <2>3. QED
    BY <2>1, <2>2 DEF Injection, IsInjective
<1>6. IsFiniteSet(0..(n - 1)) /\ Cardinality(0..(n - 1)) = n
  BY <1>1, FS_Interval
<1>7. rank \in Surjection(M, 0..(n - 1))
  <2> HIDE DEF rank
  <2> QED
    BY <1>5, <1>6, FS_Injection
<1>8. \A k \in 1..n : \E R \in M : Cardinality(Preceding(S, R)) = k - 1
  <2>1. \A k \in 1..n : k - 1 \in 0..(n - 1)
    BY <1>1
  <2>2. \A i \in 0..(n - 1) : \E R \in M : rank[R] = i
    <3> HIDE DEF rank
    <3> QED
      BY <1>7 DEF Surjection
  <2>3. QED
    BY <2>1, <2>2
<1>9. Intervals(S) = [k \in 1..n |-> CHOOSE R \in M : Cardinality(Preceding(S, R)) = k - 1]
  BY DEF Intervals, Maximal, Preceding
<1>10. Len(Intervals(S)) = n
  BY <1>1, <1>9
<1>11. ASSUME NEW k \in 1..n
       PROVE  Intervals(S)[k] \in M /\ Cardinality(Preceding(S, Intervals(S)[k])) = k - 1
  BY <1>8, <1>9
<1>12. ASSUME NEW R \in M PROVE \E k \in 1..n : Intervals(S)[k] = R
  <2>1. PICK k \in 1..n : k - 1 = rank[R]
    <3>1. rank[R] + 1 \in 1..n /\ (rank[R] + 1) - 1 = rank[R]
      BY <1>1, <1>3
    <3>2. QED
      BY <3>1
  <2>2. PICK T : T = Intervals(S)[k]
    OBVIOUS
  <2>3. T \in M /\ rank[T] = rank[R]
    BY <1>11, <2>1, <2>2
  <2>4. T = R
    <3> HIDE DEF rank, M
    <3> QED
      BY <1>5, <2>3 DEF Injection, IsInjective
  <2>5. QED
    BY <2>2, <2>4
<1>13. \A k \in 1..n : Intervals(S)[k] \in Interval /\ Intervals(S)[k] \subseteq S
  BY <1>11 DEF Maximal
<1>14. \A c \in S : \E k \in 1..n : c \in Intervals(S)[k]
  BY <1>12, MaximalAround
<1>15. QED
  BY <1>10, <1>13, <1>14

-----------------------------------------------------------------------------
(* Messages that switch something on and off: after a sequence of them it is *)
(* on when it was and none switched it off, or when one of the first n       *)
(* switched it on and none has switched it off since.                        *)
Holds(s, M) == \E k \in 1..Len(s) : s[k] \in M

Wins(n, b, A, D, s) ==
  \/ b /\ ~Holds(s, D)
  \/ \E k \in 1..n : s[k] \in A /\ \A j \in (k + 1)..Len(s) : s[j] \notin D

LEMMA HoldsConcat ==
  ASSUME NEW S, NEW s \in Seq(S), NEW t \in Seq(S), NEW M
  PROVE  Holds(s \o t, M) <=> Holds(s, M) \/ Holds(t, M)
<1> DEFINE u == s \o t
<1>1. Joins(u, s, t)
  BY ConcatParts
<1> HIDE DEF u
<1>2. ASSUME Holds(u, M) PROVE Holds(s, M) \/ Holds(t, M)
  <2>1. PICK k \in 1..Len(u) : u[k] \in M
    BY <1>2 DEF Holds
  <2>2. CASE k \in 1..Len(s)
    BY <1>1, <2>1, <2>2 DEF Joins, Holds
  <2>3. ASSUME NEW l \in 1..Len(t), k = Len(s) + l PROVE Holds(t, M)
    BY <1>1, <2>1, <2>3 DEF Joins, Holds
  <2>4. QED
    BY <1>1, <2>2, <2>3 DEF Joins
<1>3. ASSUME Holds(s, M) PROVE Holds(u, M)
  BY <1>1, <1>3 DEF Joins, Holds
<1>4. ASSUME Holds(t, M) PROVE Holds(u, M)
  BY <1>1, <1>4 DEF Joins, Holds
<1>5. QED
  BY <1>2, <1>3, <1>4 DEF u

LEMMA HoldsSmall ==
  /\ \A M : ~Holds(<<>>, M)
  /\ \A msg, M : Holds(<<msg>>, M) <=> msg \in M
<1>1. \A M : ~Holds(<<>>, M)
  BY DEF Holds
<1>2. \A msg : Len(<<msg>>) = 1 /\ <<msg>>[1] = msg
  OBVIOUS
<1>3. QED
  BY <1>1, <1>2 DEF Holds

(* More messages arrive.                                                     *)
LEMMA WinsConcat ==
  ASSUME NEW S, NEW s \in Seq(S), NEW t \in Seq(S), NEW A, NEW D, NEW b,
         NEW n \in 0..Len(s), ~Holds(t, D), Wins(n, b, A, D, s)
  PROVE  Wins(n, b, A, D, s \o t)
<1> DEFINE u == s \o t
<1>1. Joins(u, s, t) /\ Len(s) \in Nat /\ Len(t) \in Nat
  BY ConcatParts
<1>2. Holds(u, D) <=> Holds(s, D)
  BY HoldsConcat
<1> HIDE DEF u
<1>3. CASE b /\ ~Holds(s, D)
  BY <1>2, <1>3 DEF Wins, u
<1>4. ASSUME NEW k \in 1..n, s[k] \in A, \A j \in (k + 1)..Len(s) : s[j] \notin D
      PROVE  Wins(n, b, A, D, u)
  <2>1. u[k] \in A
    BY <1>1, <1>4 DEF Joins
  <2>2. ASSUME NEW j \in (k + 1)..Len(u) PROVE u[j] \notin D
    <3>1. j \in 1..Len(u)
      BY <1>1
    <3>2. CASE j \in 1..Len(s)
      <4>1. u[j] = s[j] /\ j \in (k + 1)..Len(s)
        BY <1>1, <3>2 DEF Joins
      <4>2. QED
        BY <1>4, <4>1
    <3>3. ASSUME NEW l \in 1..Len(t), j = Len(s) + l PROVE u[j] \notin D
      BY <1>1, <3>3 DEF Joins, Holds
    <3>4. QED
      BY <1>1, <3>1, <3>2, <3>3 DEF Joins
  <2>3. QED
    BY <2>1, <2>2 DEF Wins
<1>5. QED
  BY <1>3, <1>4 DEF Wins, u

LEMMA WinsJoin ==
  ASSUME NEW S, NEW s \in Seq(S), NEW t \in Seq(S), NEW A, NEW D, NEW b
  PROVE  /\ Holds(t, D) /\ ~Holds(t, A) => ~Wins(Len(s \o t), b, A, D, s \o t)
         /\ ~Holds(t, D) => (Wins(Len(s \o t), b, A, D, s \o t)
                               <=> Wins(Len(s), b, A, D, s) \/ Holds(t, A))
<1> DEFINE u == s \o t
<1>1. Joins(u, s, t) /\ Len(s) \in Nat /\ Len(t) \in Nat
  BY ConcatParts
<1>2. Holds(u, D) <=> Holds(s, D) \/ Holds(t, D)
  BY HoldsConcat
<1> HIDE DEF u
<1>3. ASSUME Holds(t, D), ~Holds(t, A), Wins(Len(u), b, A, D, u) PROVE FALSE
  <2>1. PICK k \in 1..Len(u) : u[k] \in A /\ \A j \in (k + 1)..Len(u) : u[j] \notin D
    BY <1>2, <1>3 DEF Wins
  <2>2. PICK l \in 1..Len(t) : t[l] \in D
    BY <1>3 DEF Holds
  <2>3. u[Len(s) + l] \in D /\ Len(s) + l \in 1..Len(u)
    BY <1>1, <2>2 DEF Joins
  <2>4. k \in 1..Len(s)
    <3>1. \A m \in 1..Len(t) : k # Len(s) + m
      BY <1>1, <1>3, <2>1 DEF Joins, Holds
    <3>2. QED
      BY <1>1, <3>1 DEF Joins
  <2>5. Len(s) + l \in (k + 1)..Len(u)
    BY <1>1, <2>3, <2>4
  <2>6. QED
    BY <2>1, <2>3, <2>5
<1>4. ASSUME ~Holds(t, D), Wins(Len(s), b, A, D, s) PROVE Wins(Len(u), b, A, D, u)
  <2>1. Wins(Len(s), b, A, D, u)
    BY <1>1, <1>4, WinsConcat DEF u
  <2>2. Len(s) <= Len(u) /\ Len(u) \in Nat
    BY <1>1 DEF Joins
  <2>3. QED
    BY <1>1, <2>1, <2>2 DEF Wins
<1>5. ASSUME ~Holds(t, D), Holds(t, A) PROVE Wins(Len(u), b, A, D, u)
  <2>1. PICK l \in 1..Len(t) : t[l] \in A
    BY <1>5 DEF Holds
  <2>2. Len(s) + l \in 1..Len(u) /\ u[Len(s) + l] \in A
    BY <1>1, <2>1 DEF Joins
  <2>3. ASSUME NEW j \in (Len(s) + l + 1)..Len(u) PROVE u[j] \notin D
    <3>1. j \in 1..Len(u) /\ j \notin 1..Len(s)
      BY <1>1
    <3>2. PICK m \in 1..Len(t) : j = Len(s) + m
      BY <1>1, <3>1 DEF Joins
    <3>3. QED
      BY <1>1, <1>5, <3>2 DEF Joins, Holds
  <2>4. QED
    BY <2>2, <2>3 DEF Wins
<1>6. ASSUME ~Holds(t, D), ~Holds(t, A), Wins(Len(u), b, A, D, u)
      PROVE  Wins(Len(s), b, A, D, s)
  <2>1. CASE b /\ ~Holds(u, D)
    BY <1>2, <2>1 DEF Wins
  <2>2. ASSUME NEW k \in 1..Len(u), u[k] \in A, \A j \in (k + 1)..Len(u) : u[j] \notin D
        PROVE  Wins(Len(s), b, A, D, s)
    <3>1. k \in 1..Len(s)
      <4>1. \A m \in 1..Len(t) : k # Len(s) + m
        BY <1>1, <1>6, <2>2 DEF Joins, Holds
      <4>2. QED
        BY <1>1, <4>1 DEF Joins
    <3>2. s[k] \in A
      BY <1>1, <2>2, <3>1 DEF Joins
    <3>3. ASSUME NEW j \in (k + 1)..Len(s) PROVE s[j] \notin D
      <4>1. j \in 1..Len(s) /\ j \in (k + 1)..Len(u)
        BY <1>1, <3>1 DEF Joins
      <4>2. QED
        BY <1>1, <2>2, <4>1 DEF Joins
    <3>4. QED
      BY <3>1, <3>2, <3>3 DEF Wins
  <2>3. QED
    BY <1>6, <2>1, <2>2 DEF Wins
<1>7. QED
  BY <1>3, <1>4, <1>5, <1>6 DEF u

(* The first message is taken.                                               *)
LEMMA WinsTail ==
  ASSUME NEW S, NEW s \in Seq(S), s # <<>>, NEW A, NEW D, NEW b, NEW d,
         d <=> Head(s) \in A \/ (b /\ Head(s) \notin D),
         NEW n \in 1..Len(s)
  PROVE  Wins(n, b, A, D, s) <=> Wins(n - 1, d, A, D, Tail(s))
<1>1. /\ Len(s) \in Nat \ {0} /\ Len(Tail(s)) = Len(s) - 1 /\ Head(s) = s[1]
      /\ \A k \in 1..(Len(s) - 1) : Tail(s)[k] = s[k + 1]
  OBVIOUS
<1> DEFINE t == Tail(s)
<1>2. /\ Len(t) = Len(s) - 1
      /\ \A k \in 1..Len(t) : k + 1 \in 2..Len(s) /\ t[k] = s[k + 1]
      /\ \A k \in 2..Len(s) : k - 1 \in 1..Len(t) /\ s[k] = t[k - 1]
  BY <1>1
<1> HIDE DEF t
<1>3. Holds(s, D) <=> s[1] \in D \/ Holds(t, D)
  <2>1. ASSUME Holds(t, D) PROVE Holds(s, D)
    <3>1. PICK k \in 1..Len(t) : t[k] \in D
      BY <2>1 DEF Holds
    <3>2. k + 1 \in 1..Len(s) /\ s[k + 1] \in D
      BY <1>1, <1>2, <3>1
    <3>3. QED
      BY <3>2 DEF Holds
  <2>2. ASSUME Holds(s, D), s[1] \notin D PROVE Holds(t, D)
    <3>1. PICK k \in 1..Len(s) : s[k] \in D
      BY <2>2 DEF Holds
    <3>2. k - 1 \in 1..Len(t) /\ t[k - 1] \in D
      BY <1>1, <1>2, <2>2, <3>1
    <3>3. QED
      BY <3>2 DEF Holds
  <2>3. 1 \in 1..Len(s)
    BY <1>1
  <2>4. QED
    BY <2>1, <2>2, <2>3 DEF Holds
<1>4. \A k \in 1..Len(t) :
        (\A j \in (k + 1)..Len(t) : t[j] \notin D) <=> \A j \in (k + 2)..Len(s) : s[j] \notin D
  <2>1. ASSUME NEW k \in 1..Len(t), \A j \in (k + 1)..Len(t) : t[j] \notin D,
               NEW j \in (k + 2)..Len(s)
        PROVE  s[j] \notin D
    <3>1. j - 1 \in (k + 1)..Len(t) /\ s[j] = t[j - 1]
      BY <1>1, <1>2
    <3>2. QED
      BY <2>1, <3>1
  <2>2. ASSUME NEW k \in 1..Len(t), \A j \in (k + 2)..Len(s) : s[j] \notin D,
               NEW j \in (k + 1)..Len(t)
        PROVE  t[j] \notin D
    <3>1. j + 1 \in (k + 2)..Len(s) /\ t[j] = s[j + 1]
      BY <1>1, <1>2
    <3>2. QED
      BY <2>2, <3>1
  <2>3. QED
    BY <2>1, <2>2
<1>5. (\A j \in 2..Len(s) : s[j] \notin D) <=> ~Holds(t, D)
  BY <1>1, <1>2 DEF Holds
<1>6. ASSUME Wins(n, b, A, D, s) PROVE Wins(n - 1, d, A, D, t)
  <2>1. CASE b /\ ~Holds(s, D)
    BY <1>1, <1>3, <2>1 DEF Wins
  <2>2. ASSUME NEW k \in 1..n, s[k] \in A, \A j \in (k + 1)..Len(s) : s[j] \notin D
        PROVE  Wins(n - 1, d, A, D, t)
    <3>1. CASE k = 1
      BY <1>1, <1>5, <2>2, <3>1 DEF Wins
    <3>2. CASE k # 1
      <4>1. k - 1 \in 1..(n - 1) /\ k - 1 \in 1..Len(t) /\ t[k - 1] \in A /\ (k - 1) + 2 = k + 1
        BY <1>1, <1>2, <2>2, <3>2
      <4>2. \A j \in ((k - 1) + 1)..Len(t) : t[j] \notin D
        BY <1>4, <2>2, <4>1
      <4>3. QED
        BY <4>1, <4>2 DEF Wins
    <3>3. QED
      BY <3>1, <3>2
  <2>3. QED
    BY <1>6, <2>1, <2>2 DEF Wins
<1>7. ASSUME Wins(n - 1, d, A, D, t) PROVE Wins(n, b, A, D, s)
  <2>1. CASE d /\ ~Holds(t, D)
    <3>1. CASE s[1] \in A
      <4>1. 1 \in 1..n /\ 1 + 1 = 2
        BY <1>1
      <4>2. QED
        BY <1>5, <2>1, <3>1, <4>1 DEF Wins
    <3>2. CASE b /\ s[1] \notin D
      BY <1>3, <2>1, <3>2 DEF Wins
    <3>3. QED
      BY <1>1, <2>1, <3>1, <3>2
  <2>2. ASSUME NEW k \in 1..(n - 1), t[k] \in A, \A j \in (k + 1)..Len(t) : t[j] \notin D
        PROVE  Wins(n, b, A, D, s)
    <3>1. k \in 1..Len(t) /\ k + 1 \in 1..n /\ s[k + 1] \in A /\ (k + 1) + 1 = k + 2
      BY <1>1, <1>2, <2>2
    <3>2. \A j \in ((k + 1) + 1)..Len(s) : s[j] \notin D
      BY <1>4, <2>2, <3>1
    <3>3. QED
      BY <3>1, <3>2 DEF Wins
  <2>3. QED
    BY <1>7, <2>1, <2>2 DEF Wins
<1>8. QED
  BY <1>6, <1>7 DEF t

-----------------------------------------------------------------------------
(* The messages to the upstream.                                             *)
Covered == UNION Ranges

LinkMessage ==
  [kind : {"add_channel", "remove_channel"}, span : {{c} : c \in Channels}]
  \cup [kind : {"add_range", "remove_range"}, span : {R \in Interval : R \subseteq Covered}]
  \cup [kind : {"add_post_remove", "clear_post_removes"}, sender : Local, ids : SUBSET Ids]
  \cup [kind : {"datagram"}, id : Ids]

\* Those that subscribe Down to a channel and those that drop it, those that
\* leave a post-remove there and those that withdraw a participant's.
Adding(c) ==
  [kind : {"add_channel", "add_range"}, span : {R \in SUBSET Channel : c \in R}]
Dropping(c) ==
  [kind : {"remove_channel", "remove_range"}, span : {R \in SUBSET Channel : c \in R}]
Posting(p, i) ==
  [kind : {"add_post_remove"}, sender : {p}, ids : {I \in SUBSET Nat : i \in I}]
Recalling(p) ==
  [kind : {"clear_post_removes"}, sender : {p}, ids : SUBSET Nat]

LEMMA ControlMarks ==
  ASSUME NEW kind \in {"add_channel", "remove_channel", "add_range", "remove_range"},
         NEW R \in SUBSET Channel, NEW c, NEW p, NEW i
  PROVE  /\ Control(kind, R) \in Adding(c) <=> kind \in {"add_channel", "add_range"} /\ c \in R
         /\ Control(kind, R) \in Dropping(c)
              <=> kind \in {"remove_channel", "remove_range"} /\ c \in R
         /\ Control(kind, R) \notin Posting(p, i) /\ Control(kind, R) \notin Recalling(p)
<1>1. Control(kind, R).kind = kind
  BY DEF Control
<1>2. \A x \in Posting(p, i) : x.kind = "add_post_remove"
  BY DEF Posting
<1>3. \A x \in Recalling(p) : x.kind = "clear_post_removes"
  BY DEF Recalling
<1>4. Control(kind, R) \in Adding(c) <=> kind \in {"add_channel", "add_range"} /\ c \in R
  BY DEF Control, Adding
<1>5. Control(kind, R) \in Dropping(c) <=> kind \in {"remove_channel", "remove_range"} /\ c \in R
  BY DEF Control, Dropping
<1>6. QED
  BY <1>1, <1>2, <1>3, <1>4, <1>5

LEMMA PostMarks ==
  ASSUME NEW kind \in {"add_post_remove", "clear_post_removes"},
         NEW q, NEW I \in SUBSET Nat, NEW c, NEW p, NEW i
  PROVE  /\ PostRemove(kind, q, I) \notin Adding(c) /\ PostRemove(kind, q, I) \notin Dropping(c)
         /\ PostRemove(kind, q, I) \in Posting(p, i) <=> kind = "add_post_remove" /\ q = p /\ i \in I
         /\ PostRemove(kind, q, I) \in Recalling(p) <=> kind = "clear_post_removes" /\ q = p
<1>1. PostRemove(kind, q, I).kind = kind
  BY DEF PostRemove
<1>2. \A x \in Adding(c) : x.kind \in {"add_channel", "add_range"}
  BY DEF Adding
<1>3. \A x \in Dropping(c) : x.kind \in {"remove_channel", "remove_range"}
  BY DEF Dropping
<1>4. PostRemove(kind, q, I) \in Posting(p, i) <=> kind = "add_post_remove" /\ q = p /\ i \in I
  BY DEF PostRemove, Posting
<1>5. PostRemove(kind, q, I) \in Recalling(p) <=> kind = "clear_post_removes" /\ q = p
  BY DEF PostRemove, Recalling
<1>6. QED
  BY <1>1, <1>2, <1>3, <1>4, <1>5

LEMMA ForwardMarks ==
  ASSUME NEW id, NEW c, NEW p, NEW i
  PROVE  /\ Forward(id) \notin Adding(c) /\ Forward(id) \notin Dropping(c)
         /\ Forward(id) \notin Posting(p, i) /\ Forward(id) \notin Recalling(p)
<1>1. Forward(id).kind = "datagram"
  BY DEF Forward
<1>2. /\ \A x \in Adding(c) : x.kind # "datagram"
      /\ \A x \in Dropping(c) : x.kind # "datagram"
  BY DEF Adding, Dropping
<1>3. /\ \A x \in Posting(p, i) : x.kind # "datagram"
      /\ \A x \in Recalling(p) : x.kind # "datagram"
  BY DEF Posting, Recalling
<1>4. QED
  BY <1>1, <1>2, <1>3

(* SetToSeq lists every element.                                             *)
LEMMA SetToSeqComplete ==
  ASSUME NEW S, IsFiniteSet(S)
  PROVE  /\ SetToSeq(S) \in Seq(S)
         /\ \A x \in S : \E k \in 1..Len(SetToSeq(S)) : SetToSeq(S)[k] = x
<1> DEFINE n == Cardinality(S)
           f == SetToSeq(S)
<1>1. n \in Nat /\ ExistsBijection(1..n, S)
  BY FS_CardinalityType
<1>2. \E g \in [1..n -> S] : IsInjective(g)
  BY <1>1 DEF ExistsBijection, Bijection, Injection
<1>3. f \in [1..n -> S] /\ IsInjective(f)
  BY <1>2 DEF SetToSeq
<1>4. Cardinality(1..n) = n /\ IsFiniteSet(1..n)
  BY <1>1, FS_Interval
<1>5. f \in Surjection(1..n, S)
  <2> HIDE DEF f
  <2>1. f \in Injection(1..n, S)
    BY <1>3 DEF Injection
  <2>2. QED
    BY <1>4, <2>1, FS_Injection
<1>6. Len(f) = n
  BY <1>1, <1>3
<1>7. \A x \in S : \E k \in 1..n : f[k] = x
  <2> HIDE DEF f
  <2> QED
    BY <1>5 DEF Surjection
<1>8. QED
  BY <1>1, <1>3, <1>6, <1>7

\* The channels a sequence of messages drops are those of S; it does nothing else.
DropsExactly(s, S) ==
  /\ s \in Seq(LinkMessage)
  /\ \A c \in Channel : ~Holds(s, Adding(c)) /\ (Holds(s, Dropping(c)) <=> c \in S)
  /\ \A p, i : ~Holds(s, Posting(p, i)) /\ ~Holds(s, Recalling(p))

LEMMA RemoveRangesDrops ==
  ASSUME NEW S \in SUBSET Channel, S \subseteq Covered
  PROVE  DropsExactly(RemoveRanges(S), S)
<1> DEFINE n == Len(Intervals(S))
           I == Intervals(S)
           s == RemoveRanges(S)
<1>1. /\ n \in Nat
      /\ \A k \in 1..n : I[k] \in Interval /\ I[k] \subseteq S
      /\ \A c \in S : \E k \in 1..n : c \in I[k]
  BY IntervalsLength, IntervalsExact
<1>2. s = [k \in 1..n |-> Control("remove_range", I[k])]
  BY DEF RemoveRanges
<1> HIDE DEF n, I, s
<1>3. Len(s) = n /\ \A k \in 1..n : s[k] = Control("remove_range", I[k])
  BY <1>1, <1>2
<1>4. \A k \in 1..n : Control("remove_range", I[k]) \in LinkMessage
  BY <1>1 DEF LinkMessage, Control
<1>5. s \in Seq(LinkMessage)
  BY <1>1, <1>2, <1>4
<1>6. ASSUME NEW c \in Channel
      PROVE  ~Holds(s, Adding(c)) /\ (Holds(s, Dropping(c)) <=> c \in S)
  <2>1. \A k \in 1..n : s[k] \notin Adding(c) /\ (s[k] \in Dropping(c) <=> c \in I[k])
    BY <1>1, <1>3, ControlMarks
  <2>2. QED
    BY <1>1, <1>3, <2>1 DEF Holds
<1>7. ASSUME NEW p, NEW i PROVE ~Holds(s, Posting(p, i)) /\ ~Holds(s, Recalling(p))
  <2>1. \A k \in 1..n : s[k] \notin Posting(p, i) /\ s[k] \notin Recalling(p)
    BY <1>1, <1>3, ControlMarks
  <2>2. QED
    BY <1>3, <2>1 DEF Holds
<1>8. QED
  BY <1>5, <1>6, <1>7 DEF DropsExactly, s

LEMMA RemoveChannelsDrops ==
  ASSUME NEW S \in SUBSET Channel, S \subseteq Channels
  PROVE  DropsExactly(RemoveChannels(S), S)
<1> DEFINE n == Len(SetToSeq(S))
           C == SetToSeq(S)
           s == RemoveChannels(S)
<1>1. IsFiniteSet(S)
  BY ChannelsFinite, FS_Subset
<1>2. /\ n \in Nat
      /\ \A k \in 1..n : C[k] \in S
      /\ \A c \in S : \E k \in 1..n : C[k] = c
  BY <1>1, SetToSeqComplete
<1>3. s = [k \in 1..n |-> Control("remove_channel", {C[k]})]
  BY DEF RemoveChannels
<1> HIDE DEF n, C, s
<1>4. Len(s) = n /\ \A k \in 1..n : s[k] = Control("remove_channel", {C[k]})
  BY <1>2, <1>3
<1>5. \A k \in 1..n : Control("remove_channel", {C[k]}) \in LinkMessage
  BY <1>2 DEF LinkMessage, Control
<1>6. s \in Seq(LinkMessage)
  BY <1>2, <1>3, <1>5
<1>0. \A k \in 1..n : {C[k]} \in SUBSET Channel
  BY <1>2
<1>7. ASSUME NEW c \in Channel
      PROVE  ~Holds(s, Adding(c)) /\ (Holds(s, Dropping(c)) <=> c \in S)
  <2>1. ASSUME NEW k \in 1..n
        PROVE  s[k] \notin Adding(c) /\ (s[k] \in Dropping(c) <=> c \in {C[k]})
    <3>1. PICK R \in SUBSET Channel : R = {C[k]} /\ s[k] = Control("remove_channel", R)
      BY <1>0, <1>4
    <3>2. QED
      BY <3>1, ControlMarks
  <2>2. QED
    BY <1>2, <1>4, <2>1 DEF Holds
<1>8. ASSUME NEW p, NEW i PROVE ~Holds(s, Posting(p, i)) /\ ~Holds(s, Recalling(p))
  <2>1. ASSUME NEW k \in 1..n PROVE s[k] \notin Posting(p, i) /\ s[k] \notin Recalling(p)
    <3>1. PICK R \in SUBSET Channel : R = {C[k]} /\ s[k] = Control("remove_channel", R)
      BY <1>0, <1>4
    <3>2. QED
      BY <3>1, ControlMarks
  <2>2. QED
    BY <1>4, <2>1 DEF Holds
<1>9. QED
  BY <1>6, <1>7, <1>8 DEF DropsExactly, s

(* The post-removes of P are withdrawn, and nothing else happens.            *)
RecallsExactly(s, P) ==
  /\ s \in Seq(LinkMessage)
  /\ \A c \in Channel : ~Holds(s, Adding(c)) /\ ~Holds(s, Dropping(c))
  /\ \A p, i : ~Holds(s, Posting(p, i)) /\ (Holds(s, Recalling(p)) <=> p \in P)

LEMMA RecallRecalls ==
  ASSUME NEW P \in SUBSET Local, IsFiniteSet(P)
  PROVE  RecallsExactly(Recall(P), P)
<1> DEFINE n == Len(SetToSeq(P))
           C == SetToSeq(P)
           s == Recall(P)
<1>1. /\ n \in Nat
      /\ \A k \in 1..n : C[k] \in P
      /\ \A c \in P : \E k \in 1..n : C[k] = c
  BY SetToSeqComplete
<1>2. s = [k \in 1..n |-> PostRemove("clear_post_removes", C[k], {})]
  BY DEF Recall
<1> HIDE DEF n, C, s
<1>3. Len(s) = n /\ \A k \in 1..n : s[k] = PostRemove("clear_post_removes", C[k], {})
  BY <1>1, <1>2
<1>4. \A k \in 1..n : PostRemove("clear_post_removes", C[k], {}) \in LinkMessage
  BY <1>1 DEF LinkMessage, PostRemove
<1>5. s \in Seq(LinkMessage)
  BY <1>1, <1>2, <1>4
<1>6. ASSUME NEW c \in Channel PROVE ~Holds(s, Adding(c)) /\ ~Holds(s, Dropping(c))
  <2>1. ASSUME NEW k \in 1..n PROVE s[k] \notin Adding(c) /\ s[k] \notin Dropping(c)
    <3>1. s[k] = PostRemove("clear_post_removes", C[k], {})
      BY <1>3
    <3>2. {} \in SUBSET Nat
      OBVIOUS
    <3>3. QED
      BY <3>1, <3>2, PostMarks
  <2>2. QED
    BY <1>3, <2>1 DEF Holds
<1>7. ASSUME NEW p, NEW i
      PROVE  ~Holds(s, Posting(p, i)) /\ (Holds(s, Recalling(p)) <=> p \in P)
  <2>1. ASSUME NEW k \in 1..n PROVE s[k] \notin Posting(p, i) /\ (s[k] \in Recalling(p) <=> C[k] = p)
    <3>1. s[k] = PostRemove("clear_post_removes", C[k], {})
      BY <1>3
    <3>2. {} \in SUBSET Nat
      OBVIOUS
    <3>3. QED
      BY <3>1, <3>2, PostMarks
  <2>2. QED
    BY <1>1, <1>3, <2>1 DEF Holds
<1>8. QED
  BY <1>5, <1>6, <1>7 DEF RecallsExactly, s

-----------------------------------------------------------------------------
(* What each operation does to who subscribes to what, and what it tells.    *)
\* The participants of this director subscribe in this map, the scenario's
\* channels and ranges.
Shaped(m) ==
  /\ \A p \in Local : m.channels[p] \subseteq Channels /\ m.ranges[p] \subseteq Covered
  /\ \A p \in Subscriber \ Local : m.channels[p] = {} /\ m.ranges[p] = {}

Somebody(m, c) == \E p \in Local : IsSubscribed(m, p, c)

\* By msgs the upstream can know what changes from m to n.
Tells(msgs, m, n) ==
  \A c \in Channel :
    /\ Holds(msgs, Adding(c)) => Somebody(n, c)
    /\ Holds(msgs, Dropping(c)) => ~Somebody(n, c)
    /\ ~Holds(msgs, Adding(c)) /\ ~Holds(msgs, Dropping(c))
         => (Somebody(n, c) <=> Somebody(m, c))

LEMMA ScenarioShape ==
  ASSUME MapsInv
  PROVE  /\ Channels \subseteq Channel /\ Covered \subseteq Channel
         /\ Ranges \subseteq Interval /\ \A R \in Ranges : R \subseteq Covered /\ R \subseteq Channel
         /\ Local \subseteq Subscriber
         /\ Apart => Channels \cap Covered = {}
<1>1. scenario \in Scenarios
  BY DEF MapsInv
<1>2. Channels \subseteq Channel /\ Ranges \subseteq Interval
  BY <1>1, MessageDirectorAssumption DEF Channels, Ranges
<1>3. \A R \in Ranges : R \subseteq Covered /\ R \subseteq Channel
  BY <1>2, IntervalBounds DEF Covered
<1>4. Covered \subseteq Channel
  BY <1>3 DEF Covered
<1>5. Apart => Channels \cap Covered = {}
  BY DEF Apart, Covered
<1>6. QED
  BY <1>2, <1>3, <1>4, <1>5, MessageDirectorAssumption

LEMMA IndexRead ==
  ASSUME NEW m \in Map, MapsAgree(m), NEW c \in Channel
  PROVE  /\ ChannelSubscribers(m, c) = {q \in Subscriber : c \in m.channels[q]}
         /\ m.range_subs[c] = {q \in Subscriber : c \in m.ranges[q]}
<1>1. m.range_subs[c] \subseteq Subscriber
  BY DEF Map
<1>2. QED
  BY <1>1 DEF ChannelSubscribers, MapsAgree

LEMMA SubscribeChannelTells ==
  ASSUME MapsInv, NEW p \in Local, NEW c \in Channels, Shaped(map)
  PROVE  /\ Shaped(SubscribeChannel(map, p, c))
         /\ Tells(IF AddsChannel(map, p, c) THEN <<Control("add_channel", {c})>> ELSE <<>>,
                  map, SubscribeChannel(map, p, c))
<1>1. PICK n : n = SubscribeChannel(map, p, c)
  OBVIOUS
<1>2. PICK msgs : msgs = IF AddsChannel(map, p, c) THEN <<Control("add_channel", {c})>> ELSE <<>>
  OBVIOUS
<1>3. map \in Map /\ MapsAgree(map) /\ p \in Subscriber /\ c \in Channel /\ Local \subseteq Subscriber
  BY ScenarioShape DEF MapsInv, ConsistentMaps
<1>4. \/ IsSubscribed(map, p, c) /\ n = map
      \/ /\ ~IsSubscribed(map, p, c)
         /\ n.ranges = map.ranges
         /\ n.channels = [map.channels EXCEPT ![p] = @ \cup {c}]
  BY <1>1, <1>3 DEF SubscribeChannel, Map
<1>5. map.channels \in [Subscriber -> SUBSET Channel] /\ map.ranges \in [Subscriber -> SUBSET Channel]
  BY <1>3 DEF Map
<1>6. Shaped(n)
  BY <1>3, <1>4, <1>5 DEF Shaped
<1>7. \A q \in Local, d \in Channel :
        IsSubscribed(n, q, d) <=> IsSubscribed(map, q, d) \/ (q = p /\ d = c)
  BY <1>3, <1>4, <1>5 DEF IsSubscribed
<1>8. \A d \in Channel : ~Holds(msgs, Dropping(d))
                         /\ (Holds(msgs, Adding(d)) <=> AddsChannel(map, p, c) /\ d = c)
  <2>1. {c} \in SUBSET Channel
    BY <1>3
  <2>2. \A d : /\ Control("add_channel", {c}) \in Adding(d) <=> d = c
               /\ Control("add_channel", {c}) \notin Dropping(d)
    BY <2>1, ControlMarks
  <2>3. CASE AddsChannel(map, p, c)
    BY <1>2, <2>2, <2>3, HoldsSmall
  <2>4. CASE ~AddsChannel(map, p, c)
    BY <1>2, <2>4, HoldsSmall
  <2>5. QED
    BY <2>3, <2>4
<1>9. ~AddsChannel(map, p, c) => Somebody(map, c)
  <2>1. ASSUME ~AddsChannel(map, p, c), ~IsSubscribed(map, p, c) PROVE Somebody(map, c)
    <3>1. PICK q \in Subscriber : c \in map.channels[q]
      BY <1>3, <2>1, IndexRead DEF AddsChannel
    <3>2. q \in Local
      BY <3>1 DEF Shaped
    <3>3. QED
      BY <3>1, <3>2 DEF Somebody, IsSubscribed
  <2>2. QED
    BY <2>1 DEF Somebody
<1>10. Tells(msgs, map, n)
  BY <1>7, <1>8, <1>9 DEF Tells, Somebody
<1>11. QED
  BY <1>1, <1>2, <1>6, <1>10

LEMMA UnsubscribeChannelTells ==
  ASSUME MapsInv, Apart, NEW p \in Local, NEW c \in Channels, Shaped(map)
  PROVE  Tells(IF RemovesChannel(map, p, c) THEN <<Control("remove_channel", {c})>> ELSE <<>>,
               map, UnsubscribeChannel(map, p, c))
<1>1. PICK n : n = UnsubscribeChannel(map, p, c)
  OBVIOUS
<1>2. PICK msgs : msgs = IF RemovesChannel(map, p, c)
                         THEN <<Control("remove_channel", {c})>> ELSE <<>>
  OBVIOUS
<1>3. map \in Map /\ MapsAgree(map) /\ p \in Subscriber /\ c \in Channel /\ Local \subseteq Subscriber
  BY ScenarioShape DEF MapsInv, ConsistentMaps
<1>4. \/ ~IsSubscribed(map, p, c) /\ n = map
      \/ /\ IsSubscribed(map, p, c)
         /\ n.ranges = map.ranges
         /\ n.channels = [map.channels EXCEPT ![p] = @ \ {c}]
  BY <1>1, <1>3 DEF UnsubscribeChannel, Map
<1>5. map.channels \in [Subscriber -> SUBSET Channel] /\ map.ranges \in [Subscriber -> SUBSET Channel]
  BY <1>3 DEF Map
<1>6. \A q \in Local : c \notin map.ranges[q]
  BY ScenarioShape DEF Shaped
<1>7. \A q \in Local, d \in Channel :
        IsSubscribed(n, q, d) <=> IsSubscribed(map, q, d) /\ ~(q = p /\ d = c)
  BY <1>3, <1>4, <1>5, <1>6 DEF IsSubscribed
<1>8. \A d \in Channel : ~Holds(msgs, Adding(d))
                         /\ (Holds(msgs, Dropping(d)) <=> RemovesChannel(map, p, c) /\ d = c)
  <2>1. {c} \in SUBSET Channel
    BY <1>3
  <2>2. \A d : /\ Control("remove_channel", {c}) \in Dropping(d) <=> d = c
               /\ Control("remove_channel", {c}) \notin Adding(d)
    BY <2>1, ControlMarks
  <2>3. CASE RemovesChannel(map, p, c)
    BY <1>2, <2>2, <2>3, HoldsSmall
  <2>4. CASE ~RemovesChannel(map, p, c)
    BY <1>2, <2>4, HoldsSmall
  <2>5. QED
    BY <2>3, <2>4
<1>9. ASSUME RemovesChannel(map, p, c), NEW q \in Local, IsSubscribed(map, q, c) PROVE q = p
  <2>1. c \in map.channels[q] /\ q \in Subscriber
    BY <1>3, <1>6, <1>9 DEF IsSubscribed
  <2>2. QED
    BY <1>3, <1>9, <2>1, IndexRead DEF RemovesChannel
<1>10. ASSUME ~RemovesChannel(map, p, c), Somebody(map, c) PROVE Somebody(n, c)
  <2>1. CASE ~IsSubscribed(map, p, c)
    BY <1>4, <1>10, <2>1
  <2>2. CASE IsSubscribed(map, p, c)
    <3>1. p \in ChannelSubscribers(map, c)
      BY <1>3, <1>6, <2>2, IndexRead DEF IsSubscribed
    <3>2. PICK q \in ChannelSubscribers(map, c) : q # p
      BY <1>10, <2>2, <3>1 DEF RemovesChannel
    <3>3. q \in Subscriber /\ c \in map.channels[q]
      BY <1>3, <3>2, IndexRead
    <3>4. q \in Local
      BY <3>3 DEF Shaped
    <3>5. QED
      BY <1>3, <1>7, <3>2, <3>3, <3>4 DEF Somebody, IsSubscribed
  <2>3. QED
    BY <2>1, <2>2
<1>11. Tells(msgs, map, n)
  BY <1>7, <1>8, <1>9, <1>10 DEF Tells, Somebody
<1>12. QED
  BY <1>1, <1>2, <1>11

LEMMA UnsubscribeChannelShape ==
  ASSUME MapsInv, NEW p \in Local, NEW c, Shaped(map)
  PROVE  Shaped(UnsubscribeChannel(map, p, c))
<1>1. PICK n : n = UnsubscribeChannel(map, p, c)
  OBVIOUS
<1>2. map \in Map /\ p \in Subscriber
  BY ScenarioShape DEF MapsInv
<1>3. \/ n = map
      \/ /\ n.ranges = map.ranges
         /\ n.channels = [map.channels EXCEPT ![p] = @ \ {c}]
  BY <1>1, <1>2 DEF UnsubscribeChannel, Map
<1>4. map.channels \in [Subscriber -> SUBSET Channel]
  BY <1>2 DEF Map
<1>5. \A q \in Subscriber : n.channels[q] \subseteq map.channels[q] /\ n.ranges[q] = map.ranges[q]
  BY <1>2, <1>3, <1>4
<1>6. Shaped(n)
  BY <1>2, <1>5, ScenarioShape DEF Shaped
<1>7. QED
  BY <1>1, <1>6

LEMMA SubscribeRangeTells ==
  ASSUME MapsInv, NEW p \in Local, NEW R \in Ranges, Shaped(map)
  PROVE  /\ Shaped(SubscribeRange(map, p, R))
         /\ Tells(IF AddsRange(map, p, R) THEN <<Control("add_range", R)>> ELSE <<>>,
                  map, SubscribeRange(map, p, R))
<1>1. PICK n : n = SubscribeRange(map, p, R)
  OBVIOUS
<1>2. PICK msgs : msgs = IF AddsRange(map, p, R) THEN <<Control("add_range", R)>> ELSE <<>>
  OBVIOUS
<1>3. /\ map \in Map /\ MapsAgree(map) /\ p \in Subscriber /\ Local \subseteq Subscriber
      /\ R \subseteq Channel /\ R \subseteq Covered
  BY ScenarioShape DEF MapsInv, ConsistentMaps
<1>4. n.channels = map.channels /\ n.ranges = [map.ranges EXCEPT ![p] = @ \cup R]
  BY <1>1, <1>3 DEF SubscribeRange, Map
<1>5. map.channels \in [Subscriber -> SUBSET Channel] /\ map.ranges \in [Subscriber -> SUBSET Channel]
  BY <1>3 DEF Map
<1>6. \A q \in Subscriber :
        n.channels[q] = map.channels[q]
        /\ n.ranges[q] = IF q = p THEN map.ranges[q] \cup R ELSE map.ranges[q]
  BY <1>3, <1>4, <1>5
<1>7. Shaped(n)
  BY <1>3, <1>6 DEF Shaped
<1>8. \A q \in Local, d \in Channel :
        IsSubscribed(n, q, d) <=> IsSubscribed(map, q, d) \/ (q = p /\ d \in R)
  BY <1>3, <1>6 DEF IsSubscribed
<1>9. \A d \in Channel : ~Holds(msgs, Dropping(d))
                         /\ (Holds(msgs, Adding(d)) <=> AddsRange(map, p, R) /\ d \in R)
  <2>1. \A d : /\ Control("add_range", R) \in Adding(d) <=> d \in R
               /\ Control("add_range", R) \notin Dropping(d)
    BY <1>3, ControlMarks
  <2>2. CASE AddsRange(map, p, R)
    BY <1>2, <2>1, <2>2, HoldsSmall
  <2>3. CASE ~AddsRange(map, p, R)
    BY <1>2, <2>3, HoldsSmall
  <2>4. QED
    BY <2>2, <2>3
<1>10. ASSUME ~AddsRange(map, p, R), NEW d \in R PROVE Somebody(map, d)
  <2>1. PICK q \in map.range_subs[d] : q # p
    BY <1>10 DEF AddsRange
  <2>2. q \in Subscriber /\ d \in map.ranges[q]
    BY <1>3, <2>1, IndexRead
  <2>3. q \in Local
    BY <2>2 DEF Shaped
  <2>4. QED
    BY <2>2, <2>3 DEF Somebody, IsSubscribed
<1>11. Tells(msgs, map, n)
  BY <1>8, <1>9, <1>10 DEF Tells, Somebody
<1>12. QED
  BY <1>1, <1>2, <1>7, <1>11

LEMMA UnsubscribeRangeShape ==
  ASSUME MapsInv, NEW p \in Local, NEW R, Shaped(map)
  PROVE  /\ Shaped(UnsubscribeRange(map, p, R))
         /\ \A a, b : SilentRanges(map, p, R, a, b) \subseteq R
<1>1. PICK n : n = UnsubscribeRange(map, p, R)
  OBVIOUS
<1>2. map \in Map /\ p \in Subscriber
  BY ScenarioShape DEF MapsInv
<1>3. \/ n = map
      \/ /\ n.ranges = [map.ranges EXCEPT ![p] = @ \ R]
         /\ n.channels = [map.channels EXCEPT ![p] = @ \ R]
  BY <1>1, <1>2 DEF UnsubscribeRange, Map
<1>4. /\ map.channels \in [Subscriber -> SUBSET Channel]
      /\ map.ranges \in [Subscriber -> SUBSET Channel]
  BY <1>2 DEF Map
<1>5. \A q \in Subscriber : /\ n.channels[q] \subseteq map.channels[q]
                            /\ n.ranges[q] \subseteq map.ranges[q]
  BY <1>2, <1>3, <1>4
<1>6. Shaped(n)
  BY <1>2, <1>5, ScenarioShape DEF Shaped
<1>7. \A a, b : SilentRanges(map, p, R, a, b) \subseteq R
  BY DEF SilentRanges, Bounded
<1>8. QED
  BY <1>1, <1>6, <1>7

(* Whatever the bounds, a range is withdrawn where p was the last.           *)
LEMMA SilentRangesExact ==
  ASSUME MapsInv, NEW p \in Local, NEW R \in SUBSET Channel, Shaped(map),
         NEW a \in {0, 1}, NEW b \in {0, 1}, NEW c \in R
  PROVE  /\ c \in SilentRanges(map, p, R, a, b) => \A q \in Local \ {p} : c \notin map.ranges[q]
         /\ (\A q \in Local \ {p} : c \notin map.ranges[q]) /\ c \in map.ranges[p]
              => c \in SilentRanges(map, p, R, a, b)
<1>1. map \in Map /\ MapsAgree(map) /\ p \in Subscriber /\ c \in Channel /\ Local \subseteq Subscriber
  BY ScenarioShape DEF MapsInv, ConsistentMaps
<1>2. map.range_subs[c] = {q \in Subscriber : c \in map.ranges[q]}
  BY <1>1, IndexRead
<1>3. \A q \in Subscriber : c \in map.ranges[q] => q \in Local
  BY DEF Shaped
<1>4. c \in Nat
  BY <1>1, IntervalBounds
<1>5. map.range_subs[c] # {} => c \in Bounded(map, R, a, b)
  <2>1. c <= c + a /\ c <= c + b
    BY <1>4
  <2>2. QED
    BY <1>1, <2>1 DEF Bounded, Ranged
<1>6. QED
  BY <1>1, <1>2, <1>3, <1>5 DEF SilentRanges

LEMMA UnsubscribeRangeTells ==
  ASSUME MapsInv, Apart, NEW p \in Local, NEW R \in Ranges, Shaped(map),
         NEW a \in {0, 1}, NEW b \in {0, 1}
  PROVE  Tells(RemoveRanges(SilentRanges(map, p, R, a, b)), map, UnsubscribeRange(map, p, R))
<1>1. PICK n : n = UnsubscribeRange(map, p, R)
  OBVIOUS
<1>2. PICK S : S = SilentRanges(map, p, R, a, b)
  OBVIOUS
<1>3. PICK msgs : msgs = RemoveRanges(S)
  OBVIOUS
<1>4. /\ map \in Map /\ MapsAgree(map) /\ p \in Subscriber /\ Local \subseteq Subscriber
      /\ R \subseteq Channel /\ R \subseteq Covered /\ Channels \cap Covered = {}
  BY ScenarioShape DEF MapsInv, ConsistentMaps
<1>5. S \subseteq R
  BY <1>2, UnsubscribeRangeShape
<1>6. DropsExactly(msgs, S)
  BY <1>3, <1>4, <1>5, RemoveRangesDrops
<1>7. /\ map.channels \in [Subscriber -> SUBSET Channel]
      /\ map.ranges \in [Subscriber -> SUBSET Channel]
  BY <1>4 DEF Map
<1>8. \A q \in Local : map.channels[q] \cap R = {}
  BY <1>4 DEF Shaped
<1>9. \A q \in Local, d \in Channel :
        IsSubscribed(n, q, d) <=> IsSubscribed(map, q, d) /\ ~(q = p /\ d \in R)
  <2>1. CASE Ranged(map) = {}
    <3>1. \A d \in Channel, q \in Subscriber : d \notin map.ranges[q]
      BY <1>4, <2>1, IndexRead DEF Ranged
    <3>2. n = map
      BY <1>1, <2>1 DEF UnsubscribeRange
    <3>3. QED
      BY <1>4, <1>8, <3>1, <3>2 DEF IsSubscribed
  <2>2. CASE Ranged(map) # {}
    <3>1. /\ n.ranges = [map.ranges EXCEPT ![p] = @ \ R]
          /\ n.channels = [map.channels EXCEPT ![p] = @ \ R]
      BY <1>1, <1>4, <2>2 DEF UnsubscribeRange, Map
    <3>2. \A q \in Subscriber :
            /\ n.channels[q] = IF q = p THEN map.channels[q] \ R ELSE map.channels[q]
            /\ n.ranges[q] = IF q = p THEN map.ranges[q] \ R ELSE map.ranges[q]
      BY <1>4, <1>7, <3>1
    <3>3. QED
      BY <1>4, <3>2 DEF IsSubscribed
  <2>3. QED
    BY <2>1, <2>2
<1>10. ASSUME NEW d \in Channel, d \in S PROVE ~Somebody(n, d)
  <2>1. d \in R /\ \A q \in Local \ {p} : d \notin map.ranges[q]
    BY <1>2, <1>4, <1>5, <1>10, SilentRangesExact
  <2>2. \A q \in Local \ {p} : ~IsSubscribed(map, q, d)
    BY <1>8, <2>1 DEF IsSubscribed
  <2>3. QED
    BY <1>9, <2>1, <2>2 DEF Somebody
<1>11. ASSUME NEW d \in Channel, d \notin S, Somebody(map, d) PROVE Somebody(n, d)
  <2>1. PICK q \in Local : IsSubscribed(map, q, d)
    BY <1>11 DEF Somebody
  <2>2. CASE q = p /\ d \in R
    <3>1. d \in map.ranges[p]
      BY <1>8, <2>1, <2>2 DEF IsSubscribed
    <3>2. PICK r \in Local \ {p} : d \in map.ranges[r]
      BY <1>2, <1>4, <1>11, <2>2, <3>1, SilentRangesExact
    <3>3. QED
      BY <1>9, <3>2 DEF Somebody, IsSubscribed
  <2>3. CASE ~(q = p /\ d \in R)
    BY <1>9, <2>1, <2>3 DEF Somebody
  <2>4. QED
    BY <2>2, <2>3
<1>12. Tells(msgs, map, n)
  BY <1>6, <1>9, <1>10, <1>11 DEF Tells, Somebody, DropsExactly
<1>13. QED
  BY <1>1, <1>2, <1>3, <1>12

LEMMA UnsubscribeAllTells ==
  ASSUME MapsInv, Apart, NEW p \in Local, Shaped(map), NEW recall, RecallsExactly(recall, {p}) \/ recall = <<>>
  PROVE  Tells((RemoveChannels(LastChannels(map, p))
                  \o RemoveRanges(SilentRanges(map, p, map.ranges[p], 0, 0))) \o recall,
               map, UnsubscribeAll(map, p))
<1>1. PICK n : n = UnsubscribeAll(map, p)
  OBVIOUS
<1>2. PICK L, S : L = LastChannels(map, p) /\ S = SilentRanges(map, p, map.ranges[p], 0, 0)
  OBVIOUS
<1>3. PICK ls, ss : ls = RemoveChannels(L) /\ ss = RemoveRanges(S)
  OBVIOUS
<1>4. /\ map \in Map /\ MapsAgree(map) /\ p \in Subscriber /\ Local \subseteq Subscriber
      /\ Channels \cap Covered = {} /\ map.ranges[p] \subseteq Channel
      /\ map.channels[p] \subseteq Channel
      /\ Channels \subseteq Channel /\ Covered \subseteq Channel
  BY ScenarioShape DEF MapsInv, ConsistentMaps, Map
<1>5. L \subseteq map.channels[p] /\ S \subseteq map.ranges[p]
  BY <1>2, UnsubscribeRangeShape DEF LastChannels
<1>6. L \subseteq Channels /\ S \subseteq Covered
  BY <1>5 DEF Shaped
<1>7. DropsExactly(ls, L) /\ DropsExactly(ss, S)
  BY <1>3, <1>4, <1>6, RemoveChannelsDrops, RemoveRangesDrops
<1>8. PICK msgs : msgs = (ls \o ss) \o recall
  OBVIOUS
<1>9. ls \in Seq(LinkMessage) /\ ss \in Seq(LinkMessage) /\ recall \in Seq(LinkMessage)
      /\ ls \o ss \in Seq(LinkMessage)
  <2>1. ls \in Seq(LinkMessage) /\ ss \in Seq(LinkMessage)
    BY <1>7 DEF DropsExactly
  <2>2. recall \in Seq(LinkMessage)
    <3>1. CASE RecallsExactly(recall, {p})
      BY <3>1 DEF RecallsExactly
    <3>2. CASE recall = <<>>
      BY <3>2
    <3>3. QED
      BY <3>1, <3>2
  <2>3. QED
    BY <2>1, <2>2
<1>10. \A d \in Channel : ~Holds(recall, Adding(d)) /\ ~Holds(recall, Dropping(d))
  BY HoldsSmall DEF RecallsExactly
<1>11. ASSUME NEW d \in Channel
       PROVE  ~Holds(msgs, Adding(d)) /\ (Holds(msgs, Dropping(d)) <=> d \in L \cup S)
  <2>1. /\ ~Holds(ls, Adding(d)) /\ ~Holds(ss, Adding(d)) /\ ~Holds(recall, Adding(d))
        /\ Holds(ls, Dropping(d)) <=> d \in L
        /\ Holds(ss, Dropping(d)) <=> d \in S
        /\ ~Holds(recall, Dropping(d))
    BY <1>7, <1>10 DEF DropsExactly
  <2>2. \A M : Holds(msgs, M) <=> Holds(ls, M) \/ Holds(ss, M) \/ Holds(recall, M)
    BY <1>8, <1>9, HoldsConcat, ZenonT(60)
  <2>3. QED
    BY <2>1, <2>2
<1>12. \A q \in Local, d \in Channel :
        IsSubscribed(n, q, d) <=> IsSubscribed(map, q, d) /\ q # p
  <2>1. /\ n.ranges = [map.ranges EXCEPT ![p] = {}]
        /\ n.channels = [map.channels EXCEPT ![p] = {}]
    BY <1>1, <1>4 DEF UnsubscribeAll, Map
  <2>2. /\ map.channels \in [Subscriber -> SUBSET Channel]
        /\ map.ranges \in [Subscriber -> SUBSET Channel]
    BY <1>4 DEF Map
  <2>3. \A q \in Subscriber :
          /\ n.channels[q] = IF q = p THEN {} ELSE map.channels[q]
          /\ n.ranges[q] = IF q = p THEN {} ELSE map.ranges[q]
    BY <1>4, <2>1, <2>2
  <2>4. QED
    BY <1>4, <2>3 DEF IsSubscribed
<1>13. \A q \in Local : /\ map.channels[q] \subseteq Channels /\ map.ranges[q] \subseteq Covered
  BY DEF Shaped
<1>14. ASSUME NEW d \in Channel, d \in L \cup S, NEW q \in Local, IsSubscribed(map, q, d)
       PROVE  q = p
  <2>1. CASE d \in L
    <3>1. ChannelSubscribers(map, d) = {p} /\ d \in Channels
      BY <1>2, <1>6, <2>1 DEF LastChannels
    <3>2. d \in map.channels[q]
      BY <1>4, <1>13, <1>14, <3>1 DEF IsSubscribed
    <3>3. QED
      BY <1>4, <3>1, <3>2, IndexRead
  <2>2. CASE d \in S
    <3>1. d \in Covered /\ \A r \in Local \ {p} : d \notin map.ranges[r]
      BY <1>2, <1>4, <1>5, <1>6, <2>2, SilentRangesExact
    <3>2. d \in map.ranges[q]
      BY <1>4, <1>13, <1>14, <3>1 DEF IsSubscribed
    <3>3. QED
      BY <3>1, <3>2
  <2>3. QED
    BY <1>14, <2>1, <2>2
<1>15. ASSUME NEW d \in Channel, d \notin L \cup S, Somebody(map, d) PROVE Somebody(n, d)
  <2>1. PICK q \in Local : IsSubscribed(map, q, d)
    BY <1>15 DEF Somebody
  <2>2. CASE q # p
    BY <1>12, <2>1, <2>2 DEF Somebody
  <2>3. CASE q = p /\ d \in map.ranges[p]
    <3>1. PICK r \in Local \ {p} : d \in map.ranges[r]
      BY <1>2, <1>4, <1>15, <2>3, SilentRangesExact
    <3>2. QED
      BY <1>12, <3>1 DEF Somebody, IsSubscribed
  <2>4. CASE q = p /\ d \in map.channels[p]
    <3>1. p \in ChannelSubscribers(map, d)
      BY <1>4, <2>4, IndexRead
    <3>2. PICK r \in ChannelSubscribers(map, d) : r # p
      BY <1>2, <1>15, <2>4, <3>1 DEF LastChannels
    <3>3. r \in Subscriber /\ d \in map.channels[r]
      BY <1>4, <3>2, IndexRead
    <3>4. r \in Local
      BY <3>3 DEF Shaped
    <3>5. QED
      BY <1>12, <3>2, <3>3, <3>4 DEF Somebody, IsSubscribed
  <2>5. QED
    BY <2>1, <2>2, <2>3, <2>4 DEF IsSubscribed
<1>16. Tells(msgs, map, n)
  BY <1>11, <1>12, <1>14, <1>15 DEF Tells, Somebody
<1>17. QED
  BY <1>1, <1>2, <1>3, <1>8, <1>16

LEMMA UnsubscribeAllShape ==
  ASSUME MapsInv, NEW p \in Local, Shaped(map)
  PROVE  Shaped(UnsubscribeAll(map, p))
<1>1. PICK n : n = UnsubscribeAll(map, p)
  OBVIOUS
<1>2. map \in Map /\ p \in Subscriber
  BY ScenarioShape DEF MapsInv
<1>3. /\ n.ranges = [map.ranges EXCEPT ![p] = {}]
      /\ n.channels = [map.channels EXCEPT ![p] = {}]
  BY <1>1, <1>2 DEF UnsubscribeAll, Map
<1>4. /\ map.channels \in [Subscriber -> SUBSET Channel]
      /\ map.ranges \in [Subscriber -> SUBSET Channel]
  BY <1>2 DEF Map
<1>5. \A q \in Subscriber : /\ n.channels[q] \subseteq map.channels[q]
                            /\ n.ranges[q] \subseteq map.ranges[q]
  BY <1>2, <1>3, <1>4
<1>6. Shaped(n)
  BY <1>2, <1>5, ScenarioShape DEF Shaped
<1>7. QED
  BY <1>1, <1>6

-----------------------------------------------------------------------------
(* A step keeps what is known of a datagram; only "live" may be lost.        *)
SentKept ==
  /\ scenario' = scenario /\ Ids \subseteq Ids'
  /\ \A i \in Ids :
       /\ sent'[i].from = sent[i].from /\ sent'[i].to = sent[i].to
       /\ sent'[i].reply = sent[i].reply /\ sent'[i].bad = sent[i].bad
       /\ sent'[i].live => sent[i].live

LEMMA TrackedLive ==
  ASSUME DataInv, NEW m, TrackReplies(m)
  PROVE  /\ Ids' = Ids
         /\ \A i \in Ids :
              /\ sent'[i].from = sent[i].from /\ sent'[i].to = sent[i].to
              /\ sent'[i].reply = sent[i].reply /\ sent'[i].bad = sent[i].bad
              /\ sent'[i].live => /\ sent[i].live /\ sent[i].from \in Local
                                  /\ IsSubscribed(m, sent[i].from, sent[i].reply)
<1>1. \A i \in Ids : sent[i] \in Datagrams
  BY DEF DataInv, Ids
<1>2. Len(sent) \in Nat /\ Ids = 1..Len(sent)
  BY DEF DataInv, Ids
<1> DEFINE live(i) == sent[i].live /\ sent[i].from \in Local
                                  /\ IsSubscribed(m, sent[i].from, sent[i].reply)
           dg(i) == [sent[i] EXCEPT !.live = live(i)]
<1>3. sent' = [i \in Ids |-> dg(i)]
  BY DEF TrackReplies
<1>4. ASSUME NEW i \in Ids
      PROVE  /\ dg(i).from = sent[i].from /\ dg(i).to = sent[i].to
             /\ dg(i).reply = sent[i].reply /\ dg(i).bad = sent[i].bad
             /\ dg(i).live = live(i)
  <2> HIDE DEF live
  <2> QED
    BY <1>1 DEF Datagrams
<1> HIDE DEF dg
<1>5. Ids' = Ids
  <2>1. Len(sent') = Len(sent)
    BY TrackedReplies
  <2>2. QED
    BY <2>1 DEF Ids
<1>6. QED
  BY <1>3, <1>4, <1>5

LEMMA StepKeepsSent ==
  ASSUME MapsInv, DataInv, [Next]_vars
  PROVE  SentKept
<1>1. ASSUME UNCHANGED <<scenario, sent>> PROVE SentKept
  BY <1>1 DEF SentKept, Ids
<1>2. ASSUME NEW m, TrackReplies(m), scenario' = scenario PROVE SentKept
  BY <1>2, TrackedLive DEF SentKept
<1>3. ASSUME NEW dg, sent' = Append(sent, dg), scenario' = scenario PROVE SentKept
  <2>1. sent \in Seq(Datagrams) /\ sent \in Seq(Datagrams \cup {dg}) /\ dg \in Datagrams \cup {dg}
    BY DEF DataInv
  <2>2. Len(sent) \in Nat /\ Len(sent') = Len(sent) + 1 /\ \A i \in 1..Len(sent) : sent'[i] = sent[i]
    BY <1>3, <2>1
  <2>3. QED
    BY <1>3, <2>2 DEF SentKept, Ids
<1>4. ASSUME NEW p \in Alive, Participate(p) PROVE SentKept
  <2>1. CASE \/ \E c \in Channels : SubscribeTo(p, c) \/ UnsubscribeFrom(p, c)
             \/ \E R \in Ranges : SubscribeToRange(p, R) \/ UnsubscribeFromRange(p, R)
             \/ RemoveParticipant(p)
    <3>1. \E m, msgs : Change(m, msgs)
      BY <2>1 DEF SubscribeTo, UnsubscribeFrom, SubscribeToRange, UnsubscribeFromRange,
        RemoveParticipant
    <3>2. QED
      BY <1>2, <3>1 DEF Change
  <2>2. CASE \E to \in Destinations : AddPostRemove(p, to)
    BY <1>3, <2>2 DEF AddPostRemove, NewDatagram, subscriptions
  <2>3. CASE ClearPostRemoves(p)
    BY <1>1, <2>3 DEF ClearPostRemoves, subscriptions
  <2>4. CASE \E to \in Destinations, main \in BOOLEAN : RouteDatagram(p, to, main)
    BY <1>3, <2>4 DEF RouteDatagram, NewDatagram, subscriptions
  <2>5. QED
    BY <1>4, <2>1, <2>2, <2>3, <2>4 DEF Participate
<1>5. CASE \E u \in Remote, id \in Ids : Answer(u, id)
  BY <1>3, <1>5 DEF Answer, subscriptions
<1>6. CASE Route \/ Link \/ UNCHANGED vars
  <2>1. UNCHANGED <<scenario, sent>>
    BY <1>6 DEF Route, Link, FlushTask, TakeMessage, StopFlushing, FinishMessage, Deliver,
      DeliverTruncated, Connect, FlushSendQueue, UpstreamReceives, ReceiveFromUpstream,
      subscriptions, vars
  <2>2. QED
    BY <1>1, <2>1
<1>7. QED
  BY <1>4, <1>5, <1>6 DEF Next

LEMMA LinkMessagesGrow ==
  ASSUME SentKept
  PROVE  /\ Channels' = Channels /\ Ranges' = Ranges /\ Covered' = Covered
         /\ Threaded' = Threaded /\ Apart' = Apart
         /\ LinkMessage \subseteq LinkMessage'
         /\ \A s \in Seq(LinkMessage) : s \in Seq(LinkMessage')
<1>1. /\ Channels' = Channels /\ Ranges' = Ranges /\ Threaded' = Threaded
      /\ Ids \subseteq Ids'
  BY DEF SentKept, Channels, Ranges, Threaded
<1>2. Covered' = Covered /\ Apart' = Apart
  BY <1>1 DEF Covered, Apart
<1>3. LinkMessage \subseteq LinkMessage'
  BY <1>1, <1>2 DEF LinkMessage
<1>4. QED
  BY <1>1, <1>2, <1>3, SequencesGrow

-----------------------------------------------------------------------------
(* The link, typed, and what the maps may hold.                              *)
UpstreamTyped ==
  /\ link \in Seq(LinkMessage) /\ unsent \in Seq(LinkMessage)
  /\ uppost \in [Local -> SUBSET Ids]
  /\ Shaped(map)
  /\ upmap.channels[Down] \subseteq Channels /\ upmap.ranges[Down] \subseteq Covered
  /\ \A u \in Remote : Service \in upmap.channels[u]

\* What remove_participant routes while the participant is there.
Keeps(p, i) == i \in post[p] /\ p \notin terminated \cup deleted

\* A step that sends msgs upstream: enough for the upstream to keep up.
Telling(msgs) ==
  /\ msgs \in Seq(LinkMessage')
  /\ Send(msgs)
  /\ UNCHANGED <<upmap, uppost>>
  /\ Shaped(map')
  /\ Apart => Tells(msgs, map, map')
  /\ \A p \in Local, i \in Nat :
       /\ Holds(msgs, Posting(p, i)) => Keeps(p, i)'
       /\ Holds(msgs, Recalling(p)) => ~Keeps(p, i)'
       /\ ~Holds(msgs, Posting(p, i)) /\ ~Holds(msgs, Recalling(p))
            => (Keeps(p, i)' <=> Keeps(p, i))

LEMMA SilenceTells ==
  ASSUME UpstreamTyped, SentKept,
         UNCHANGED <<link, unsent, m_initialized, upmap, uppost, map>>,
         \A p \in Local, i \in Nat : Keeps(p, i)' <=> Keeps(p, i)
  PROVE  Telling(<<>>)
<1>1. link \o <<>> = link /\ unsent \o <<>> = unsent
  BY DEF UpstreamTyped
<1>2. Send(<<>>)
  BY <1>1 DEF Send
<1>3. \A M : ~Holds(<<>>, M)
  BY HoldsSmall
<1>4. Tells(<<>>, map, map')
  BY <1>3 DEF Tells
<1>5. <<>> \in Seq(LinkMessage')
  OBVIOUS
<1>6. QED
  BY <1>2, <1>3, <1>4, <1>5 DEF Telling, UpstreamTyped

LEMMA ChangeTells ==
  ASSUME UpstreamTyped, SentKept, NEW m, NEW msgs, Change(m, msgs),
         UNCHANGED <<terminated, deleted, post>>,
         Shaped(m), Apart => Tells(msgs, map, m), msgs \in Seq(LinkMessage),
         \A p, i : ~Holds(msgs, Posting(p, i)) /\ ~Holds(msgs, Recalling(p))
  PROVE  Telling(msgs)
<1>1. map' = m /\ UNCHANGED <<upmap, uppost>> /\ Send(msgs)
  BY DEF Change, upstream
<1>2. msgs \in Seq(LinkMessage')
  BY LinkMessagesGrow
<1>3. \A p \in Local, i \in Nat : Keeps(p, i)' <=> Keeps(p, i)
  BY DEF Keeps
<1>4. QED
  BY <1>1, <1>2, <1>3 DEF Telling

LEMMA SubscriptionsTell ==
  ASSUME MapsInv, DataInv, UpstreamTyped, NEW p \in Alive, SentKept,
         \/ \E c \in Channels : SubscribeTo(p, c) \/ UnsubscribeFrom(p, c)
         \/ \E R \in Ranges : SubscribeToRange(p, R) \/ UnsubscribeFromRange(p, R)
  PROVE  \E msgs : Telling(msgs)
<1>1. p \in Local /\ Shaped(map)
  BY AliveIsLocal DEF UpstreamTyped
<1>2. /\ Channels \subseteq Channel /\ Covered \subseteq Channel /\ Ranges \subseteq Interval
      /\ \A R \in Ranges : R \subseteq Covered /\ R \subseteq Channel
  BY ScenarioShape
<1>3. \A q, i : ~Holds(<<>>, Posting(q, i)) /\ ~Holds(<<>>, Recalling(q))
  BY HoldsSmall
<1>4. ASSUME NEW kind \in {"add_channel", "remove_channel"}, NEW c \in Channels
      PROVE  /\ <<Control(kind, {c})>> \in Seq(LinkMessage)
             /\ \A q, i : /\ ~Holds(<<Control(kind, {c})>>, Posting(q, i))
                          /\ ~Holds(<<Control(kind, {c})>>, Recalling(q))
  <2>1. {c} \in SUBSET Channel
    BY <1>2
  <2>2. \A q, i : Control(kind, {c}) \notin Posting(q, i) /\ Control(kind, {c}) \notin Recalling(q)
    BY <2>1, ControlMarks
  <2>3. Control(kind, {c}) \in LinkMessage
    BY DEF Control, LinkMessage
  <2>4. QED
    BY <2>2, <2>3, HoldsSmall
<1>5. ASSUME NEW R \in Ranges
      PROVE  /\ <<Control("add_range", R)>> \in Seq(LinkMessage)
             /\ \A q, i : /\ ~Holds(<<Control("add_range", R)>>, Posting(q, i))
                          /\ ~Holds(<<Control("add_range", R)>>, Recalling(q))
  <2>1. R \in SUBSET Channel /\ R \in Interval /\ R \subseteq Covered
    BY <1>2
  <2>2. \A q, i : Control("add_range", R) \notin Posting(q, i)
                  /\ Control("add_range", R) \notin Recalling(q)
    BY <2>1, ControlMarks
  <2>3. Control("add_range", R) \in LinkMessage
    BY <2>1 DEF Control, LinkMessage
  <2>4. QED
    BY <2>2, <2>3, HoldsSmall
<1>6. <<>> \in Seq(LinkMessage)
  OBVIOUS
<1>7. ASSUME NEW c \in Channels, SubscribeTo(p, c) PROVE \E msgs : Telling(msgs)
  <2>1. PICK msgs : msgs = IF AddsChannel(map, p, c) THEN <<Control("add_channel", {c})>> ELSE <<>>
    OBVIOUS
  <2>2. Change(SubscribeChannel(map, p, c), msgs) /\ UNCHANGED <<terminated, deleted, post>>
    BY <1>7, <2>1 DEF SubscribeTo
  <2>3. Shaped(SubscribeChannel(map, p, c)) /\ Tells(msgs, map, SubscribeChannel(map, p, c))
    BY <1>1, <2>1, SubscribeChannelTells
  <2>4. msgs \in Seq(LinkMessage)
        /\ \A q, i : ~Holds(msgs, Posting(q, i)) /\ ~Holds(msgs, Recalling(q))
    BY <1>3, <1>4, <1>6, <2>1
  <2>5. QED
    BY <2>2, <2>3, <2>4, ChangeTells
<1>8. ASSUME NEW c \in Channels, UnsubscribeFrom(p, c) PROVE \E msgs : Telling(msgs)
  <2>1. PICK msgs : msgs = IF RemovesChannel(map, p, c)
                           THEN <<Control("remove_channel", {c})>> ELSE <<>>
    OBVIOUS
  <2>2. Change(UnsubscribeChannel(map, p, c), msgs) /\ UNCHANGED <<terminated, deleted, post>>
    BY <1>8, <2>1 DEF UnsubscribeFrom
  <2>3. Shaped(UnsubscribeChannel(map, p, c))
    BY <1>1, UnsubscribeChannelShape
  <2>4. Apart => Tells(msgs, map, UnsubscribeChannel(map, p, c))
    BY <1>1, <2>1, UnsubscribeChannelTells
  <2>5. msgs \in Seq(LinkMessage)
        /\ \A q, i : ~Holds(msgs, Posting(q, i)) /\ ~Holds(msgs, Recalling(q))
    BY <1>3, <1>4, <1>6, <2>1
  <2>6. QED
    BY <2>2, <2>3, <2>4, <2>5, ChangeTells
<1>9. ASSUME NEW R \in Ranges, SubscribeToRange(p, R) PROVE \E msgs : Telling(msgs)
  <2>1. PICK msgs : msgs = IF AddsRange(map, p, R) THEN <<Control("add_range", R)>> ELSE <<>>
    OBVIOUS
  <2>2. Change(SubscribeRange(map, p, R), msgs) /\ UNCHANGED <<terminated, deleted, post>>
    BY <1>9, <2>1 DEF SubscribeToRange
  <2>3. Shaped(SubscribeRange(map, p, R)) /\ Tells(msgs, map, SubscribeRange(map, p, R))
    BY <1>1, <2>1, SubscribeRangeTells
  <2>4. msgs \in Seq(LinkMessage)
        /\ \A q, i : ~Holds(msgs, Posting(q, i)) /\ ~Holds(msgs, Recalling(q))
    BY <1>3, <1>5, <1>6, <2>1
  <2>5. QED
    BY <2>2, <2>3, <2>4, ChangeTells
<1>10. ASSUME NEW R \in Ranges, UnsubscribeFromRange(p, R) PROVE \E msgs : Telling(msgs)
  <2>1. PICK a, b \in {0, 1} :
          Change(UnsubscribeRange(map, p, R), RemoveRanges(SilentRanges(map, p, R, a, b)))
    BY <1>10 DEF UnsubscribeFromRange
  <2>2. PICK msgs : msgs = RemoveRanges(SilentRanges(map, p, R, a, b))
    OBVIOUS
  <2>3. UNCHANGED <<terminated, deleted, post>>
    BY <1>10 DEF UnsubscribeFromRange
  <2>4. /\ Shaped(UnsubscribeRange(map, p, R))
        /\ SilentRanges(map, p, R, a, b) \subseteq R
    BY <1>1, UnsubscribeRangeShape
  <2>5. Apart => Tells(msgs, map, UnsubscribeRange(map, p, R))
    BY <1>1, <2>2, UnsubscribeRangeTells
  <2>6. /\ SilentRanges(map, p, R, a, b) \in SUBSET Channel
        /\ SilentRanges(map, p, R, a, b) \subseteq Covered
    BY <1>2, <2>4
  <2>7. DropsExactly(msgs, SilentRanges(map, p, R, a, b))
    BY <2>2, <2>6, RemoveRangesDrops
  <2>8. msgs \in Seq(LinkMessage)
        /\ \A q, i : ~Holds(msgs, Posting(q, i)) /\ ~Holds(msgs, Recalling(q))
    BY <2>7 DEF DropsExactly
  <2>9. QED
    BY <2>1, <2>2, <2>3, <2>4, <2>5, <2>8, ChangeTells
<1>11. QED
  BY <1>7, <1>8, <1>9, <1>10

LEMMA RemovalTells ==
  ASSUME MapsInv, DataInv, UpstreamTyped, NEW p \in Alive, SentKept, RemoveParticipant(p)
  PROVE  \E msgs : Telling(msgs)
<1> DEFINE nested == Threaded \/ m_main_is_routing \/ post[p] = {}
<1>1. p \in Local /\ Shaped(map) /\ map \in Map /\ p \in Subscriber
  BY AliveIsLocal DEF UpstreamTyped, MapsInv
<1>2. PICK recall : recall = IF nested /\ post[p] # {} THEN Recall({p}) ELSE <<>>
  OBVIOUS
<1>3. RecallsExactly(recall, {p}) \/ recall = <<>>
  <2>1. IsFiniteSet({p}) /\ {p} \in SUBSET Local
    BY <1>1, FS_Singleton
  <2>2. RecallsExactly(Recall({p}), {p})
    BY <2>1, RecallRecalls
  <2>3. QED
    BY <1>2, <2>2
<1>4. PICK ls, ss : /\ ls = RemoveChannels(LastChannels(map, p))
                    /\ ss = RemoveRanges(SilentRanges(map, p, map.ranges[p], 0, 0))
  OBVIOUS
<1>5. PICK msgs : msgs = (ls \o ss) \o recall
  OBVIOUS
<1>6. Shaped(UnsubscribeAll(map, p)) /\ (Apart => Tells(msgs, map, UnsubscribeAll(map, p)))
  BY <1>1, <1>3, <1>4, <1>5, UnsubscribeAllTells, UnsubscribeAllShape
<1>7. map' = UnsubscribeAll(map, p) /\ UNCHANGED <<upmap, uppost, post>> /\ Send(msgs)
      /\ IF nested THEN terminated' = terminated \cup {p} /\ UNCHANGED deleted
                   ELSE UNCHANGED <<terminated, deleted>>
  BY <1>2, <1>4, <1>5 DEF RemoveParticipant, Change, upstream, MarkForDeletion
<1>8. ls \in Seq(LinkMessage) /\ ss \in Seq(LinkMessage)
      /\ \A q, i : /\ ~Holds(ls, Posting(q, i)) /\ ~Holds(ls, Recalling(q))
                   /\ ~Holds(ss, Posting(q, i)) /\ ~Holds(ss, Recalling(q))
  <2>1. /\ LastChannels(map, p) \in SUBSET Channel /\ LastChannels(map, p) \subseteq Channels
        /\ SilentRanges(map, p, map.ranges[p], 0, 0) \in SUBSET Channel
        /\ SilentRanges(map, p, map.ranges[p], 0, 0) \subseteq Covered
    <3>1. LastChannels(map, p) \subseteq map.channels[p]
          /\ SilentRanges(map, p, map.ranges[p], 0, 0) \subseteq map.ranges[p]
      BY <1>1, UnsubscribeRangeShape DEF LastChannels
    <3>2. Channels \subseteq Channel /\ Covered \subseteq Channel
      BY ScenarioShape
    <3>3. QED
      BY <1>1, <3>1, <3>2 DEF Shaped
  <2>2. DropsExactly(ls, LastChannels(map, p))
        /\ DropsExactly(ss, SilentRanges(map, p, map.ranges[p], 0, 0))
    BY <1>4, <2>1, RemoveChannelsDrops, RemoveRangesDrops
  <2>3. QED
    BY <2>2 DEF DropsExactly
<1>9. recall \in Seq(LinkMessage)
      /\ \A q, i : ~Holds(recall, Posting(q, i))
                   /\ (Holds(recall, Recalling(q)) <=> q = p /\ nested /\ post[p] # {})
  <2>1. CASE recall = Recall({p}) /\ nested /\ post[p] # {}
    <3>1. IsFiniteSet({p}) /\ {p} \in SUBSET Local
      BY <1>1, FS_Singleton
    <3>2. RecallsExactly(recall, {p})
      BY <2>1, <3>1, RecallRecalls
    <3>3. QED
      BY <2>1, <3>2 DEF RecallsExactly
  <2>2. CASE recall = <<>> /\ ~(nested /\ post[p] # {})
    BY <2>2, HoldsSmall
  <2>3. QED
    BY <1>2, <2>1, <2>2
<1>10. msgs \in Seq(LinkMessage)
       /\ \A q, i : ~Holds(msgs, Posting(q, i))
                    /\ (Holds(msgs, Recalling(q)) <=> q = p /\ nested /\ post[p] # {})
  <2>1. ls \o ss \in Seq(LinkMessage)
    BY <1>8
  <2>2. \A M : Holds(msgs, M) <=> Holds(ls, M) \/ Holds(ss, M) \/ Holds(recall, M)
    <3> SUFFICES ASSUME NEW M PROVE Holds(msgs, M) <=> Holds(ls, M) \/ Holds(ss, M) \/ Holds(recall, M)
      OBVIOUS
    <3>1. Holds(msgs, M) <=> Holds(ls \o ss, M) \/ Holds(recall, M)
      BY <1>5, <1>9, <2>1, HoldsConcat
    <3>2. Holds(ls \o ss, M) <=> Holds(ls, M) \/ Holds(ss, M)
      BY <1>8, HoldsConcat
    <3>3. QED
      BY <3>1, <3>2
  <2>3. msgs \in Seq(LinkMessage)
    BY <1>5, <1>9, <2>1
  <2>4. QED
    BY <1>8, <1>9, <2>2, <2>3
<1>11. msgs \in Seq(LinkMessage')
  BY <1>10, LinkMessagesGrow
<1>12. ASSUME NEW q \in Local, NEW i \in Nat
       PROVE  /\ Holds(msgs, Recalling(q)) => ~Keeps(q, i)'
              /\ ~Holds(msgs, Recalling(q)) => (Keeps(q, i)' <=> Keeps(q, i))
  <2>1. CASE nested /\ post[p] # {}
    <3>1. terminated' = terminated \cup {p} /\ deleted' = deleted /\ post' = post
          /\ (Holds(msgs, Recalling(q)) <=> q = p)
      BY <1>7, <1>10, <2>1
    <3>2. QED
      BY <3>1 DEF Keeps
  <2>2. CASE nested /\ post[p] = {}
    BY <1>7, <1>10, <2>2 DEF Keeps
  <2>3. CASE ~nested
    BY <1>7, <1>10, <2>3 DEF Keeps
  <2>4. QED
    BY <2>1, <2>2, <2>3
<1> HIDE DEF nested
<1>13. QED
  BY <1>6, <1>7, <1>10, <1>11, <1>12 DEF Telling

LEMMA PostRemovesTell ==
  ASSUME MapsInv, DataInv, UpstreamTyped, NEW p \in Alive, SentKept,
         ClearPostRemoves(p) \/ \E to \in Destinations : AddPostRemove(p, to)
  PROVE  \E msgs : Telling(msgs)
<1>1. p \in Local /\ p \notin terminated \cup deleted
  BY DEF Alive
<1>2. UNCHANGED <<map, terminated, deleted, upmap, uppost>>
  BY DEF ClearPostRemoves, AddPostRemove, subscriptions, upstream
<1>3. Len(sent) + 1 \in Nat /\ post \in [Local -> SUBSET Ids] /\ Ids \subseteq Nat
  BY DEF DataInv, Ids
<1>4. CASE ClearPostRemoves(p)
  <2>1. PICK msgs : msgs = Recall({p})
    OBVIOUS
  <2>2. RecallsExactly(msgs, {p})
    <3>1. IsFiniteSet({p}) /\ {p} \in SUBSET Local
      BY <1>1, FS_Singleton
    <3>2. QED
      BY <2>1, <3>1, RecallRecalls
  <2>3. Send(msgs) /\ post' = [post EXCEPT ![p] = {}]
    BY <1>4, <2>1 DEF ClearPostRemoves
  <2>4. Tells(msgs, map, map')
    BY <1>2, <2>2 DEF Tells, RecallsExactly
  <2>5. msgs \in Seq(LinkMessage')
    BY <2>2, LinkMessagesGrow DEF RecallsExactly
  <2>6. Shaped(map')
    BY <1>2 DEF UpstreamTyped
  <2>7. ASSUME NEW q \in Local, NEW i \in Nat
        PROVE  /\ ~Holds(msgs, Posting(q, i))
               /\ Holds(msgs, Recalling(q)) => ~Keeps(q, i)'
               /\ ~Holds(msgs, Recalling(q)) => (Keeps(q, i)' <=> Keeps(q, i))
    BY <1>1, <1>2, <1>3, <2>2, <2>3 DEF Keeps, RecallsExactly
  <2>8. QED
    BY <1>2, <2>3, <2>4, <2>5, <2>6, <2>7 DEF Telling
<1>5. ASSUME NEW to \in Destinations, AddPostRemove(p, to) PROVE \E msgs : Telling(msgs)
  <2>1. PICK n \in Nat : n = Len(sent) + 1
    BY <1>3
  <2>2. PICK msg : msg = PostRemove("add_post_remove", p, {n})
    OBVIOUS
  <2>3. /\ Send(<<msg>>) /\ post' = [post EXCEPT ![p] = @ \cup {n}]
        /\ n \in Ids'
    <3>1. Send(<<msg>>) /\ post' = [post EXCEPT ![p] = @ \cup {n}]
          /\ \E dg : sent' = Append(sent, dg)
      BY <1>5, <2>1, <2>2 DEF AddPostRemove, NewDatagram
    <3>2. Len(sent') = Len(sent) + 1
      <4>1. PICK dg : sent' = Append(sent, dg)
        BY <3>1
      <4>2. sent \in Seq(Datagrams \cup {dg})
        BY DEF DataInv
      <4>3. QED
        BY <4>1, <4>2
    <3>3. QED
      BY <1>3, <2>1, <3>1, <3>2 DEF Ids
  <2>4. <<msg>> \in Seq(LinkMessage')
    <3>1. msg \in LinkMessage'
      BY <1>1, <2>2, <2>3 DEF PostRemove, LinkMessage
    <3>2. QED
      BY <3>1
  <2>5. ASSUME NEW c, NEW q, NEW i
        PROVE  /\ ~Holds(<<msg>>, Adding(c)) /\ ~Holds(<<msg>>, Dropping(c))
               /\ ~Holds(<<msg>>, Recalling(q))
               /\ Holds(<<msg>>, Posting(q, i)) <=> p = q /\ i = n
    <3>1. {n} \in SUBSET Nat
      OBVIOUS
    <3>2. /\ msg \notin Adding(c) /\ msg \notin Dropping(c)
          /\ msg \in Posting(q, i) <=> p = q /\ i \in {n}
          /\ msg \notin Recalling(q)
      BY <2>2, <3>1, PostMarks
    <3>3. QED
      BY <3>2, HoldsSmall
  <2>6. Tells(<<msg>>, map, map') /\ Shaped(map')
    BY <1>2, <2>5 DEF Tells, UpstreamTyped
  <2>7. ASSUME NEW q \in Local, NEW i \in Nat
        PROVE  /\ Holds(<<msg>>, Posting(q, i)) => Keeps(q, i)'
               /\ ~Holds(<<msg>>, Posting(q, i)) => (Keeps(q, i)' <=> Keeps(q, i))
    BY <1>1, <1>2, <1>3, <2>3, <2>5 DEF Keeps
  <2>8. QED
    BY <1>2, <2>3, <2>4, <2>5, <2>6, <2>7 DEF Telling
<1>6. QED
  BY <1>4, <1>5

LEMMA RoutingTells ==
  ASSUME MapsInv, ParticipantsInv, DataInv, TokenInv, UpstreamTyped, SentKept,
         StopFlushing \/ FinishMessage
  PROVE  \E msgs : Telling(msgs)
<1>1. CASE StopFlushing
  <2>1. PICK msgs : msgs = Recall(leaving)
    OBVIOUS
  <2>2. /\ Send(msgs) /\ terminated' = terminated \cup leaving
        /\ UNCHANGED <<deleted, map, post, upmap, uppost>>
    BY <1>1, <2>1 DEF StopFlushing, MarkForDeletion, upstream
  <2>3. RecallsExactly(msgs, leaving)
    BY <2>1, RecallRecalls DEF ParticipantsInv
  <2>4. Tells(msgs, map, map') /\ msgs \in Seq(LinkMessage') /\ Shaped(map')
    BY <2>2, <2>3, LinkMessagesGrow DEF Tells, RecallsExactly, UpstreamTyped
  <2>5. ASSUME NEW q \in Local, NEW i \in Nat
        PROVE  /\ ~Holds(msgs, Posting(q, i))
               /\ Holds(msgs, Recalling(q)) => ~Keeps(q, i)'
               /\ ~Holds(msgs, Recalling(q)) => (Keeps(q, i)' <=> Keeps(q, i))
    <3>1. ~Holds(msgs, Posting(q, i)) /\ (Holds(msgs, Recalling(q)) <=> q \in leaving)
      BY <2>3 DEF RecallsExactly
    <3>2. Keeps(q, i)' <=> Keeps(q, i) /\ q \notin leaving
      BY <2>2 DEF Keeps
    <3>3. QED
      BY <3>1, <3>2
  <2>6. QED
    BY <2>2, <2>4, <2>5 DEF Telling
<1>2. CASE FinishMessage
  <2>1. PICK msgs : msgs = IF routing.from # Upstream THEN <<Forward(routing.id)>> ELSE <<>>
    OBVIOUS
  <2>2. /\ Send(msgs) /\ deleted' = deleted \cup terminated /\ terminated' = {} /\ routing # Idle
        /\ UNCHANGED <<map, post, upmap, uppost>>
    BY <1>2, <2>1 DEF FinishMessage, upstream
  <2>3. routing.id \in Ids
    BY <2>2 DEF DataInv, Routing
  <2>4. msgs \in Seq(LinkMessage)
    <3>1. Forward(routing.id) \in LinkMessage
      BY <2>3 DEF Forward, LinkMessage
    <3>2. <<Forward(routing.id)>> \in Seq(LinkMessage)
      BY <3>1
    <3>3. QED
      BY <2>1, <3>2
  <2>5. ASSUME NEW c, NEW q, NEW i
        PROVE  /\ ~Holds(msgs, Adding(c)) /\ ~Holds(msgs, Dropping(c))
               /\ ~Holds(msgs, Posting(q, i)) /\ ~Holds(msgs, Recalling(q))
    BY <2>1, HoldsSmall, ForwardMarks
  <2>6. Tells(msgs, map, map') /\ msgs \in Seq(LinkMessage') /\ Shaped(map')
    BY <2>2, <2>4, <2>5, LinkMessagesGrow DEF Tells, UpstreamTyped
  <2>7. \A q \in Local, i \in Nat : Keeps(q, i)' <=> Keeps(q, i)
    BY <2>2 DEF Keeps
  <2>8. QED
    BY <2>2, <2>5, <2>6, <2>7 DEF Telling
<1>3. QED
  BY <1>1, <1>2

\* Everything but the link itself tells the upstream what it changes.
LEMMA StepTells ==
  ASSUME MapsInv, ParticipantsInv, DataInv, TokenInv, UpstreamTyped, [Next]_vars
  PROVE  (\E msgs : Telling(msgs)) \/ Connect \/ FlushSendQueue \/ UpstreamReceives
<1>1. SentKept
  BY StepKeepsSent
<1>2. ASSUME UNCHANGED <<upstreamLink, upmap, uppost, map, post, terminated, deleted>>
      PROVE  \E msgs : Telling(msgs)
  <2>1. \A p \in Local, i \in Nat : Keeps(p, i)' <=> Keeps(p, i)
    BY <1>2 DEF Keeps
  <2>2. UNCHANGED <<link, unsent, m_initialized, upmap, uppost, map>>
    BY <1>2 DEF upstreamLink
  <2>3. QED
    BY <1>1, <2>1, <2>2, SilenceTells
<1>3. ASSUME NEW p \in Alive, Participate(p) PROVE \E msgs : Telling(msgs)
  <2>1. CASE \E to \in Destinations, main \in BOOLEAN : RouteDatagram(p, to, main)
    BY <1>2, <2>1 DEF RouteDatagram, subscriptions, upstream
  <2>2. QED
    BY <1>1, <1>3, <2>1, SubscriptionsTell, RemovalTells, PostRemovesTell DEF Participate
<1>4. CASE \/ FlushTask \/ TakeMessage \/ ReceiveFromUpstream \/ UNCHANGED vars
           \/ \E p \in Local : Deliver(p) \/ DeliverTruncated(p)
           \/ \E u \in Remote, id \in Ids : Answer(u, id)
  <2>1. UNCHANGED <<upstreamLink, upmap, uppost, map, post, terminated, deleted>>
    BY <1>4 DEF FlushTask, TakeMessage, ReceiveFromUpstream, Deliver, DeliverTruncated, Answer,
      subscriptions, upstream, vars
  <2>2. QED
    BY <1>2, <2>1
<1>5. QED
  BY <1>1, <1>3, <1>4, RoutingTells DEF Next, Route, Link

-----------------------------------------------------------------------------
(* The upstream takes a message.                                             *)
LEMMA ControlEffect ==
  ASSUME MapsInv, NEW m \in Map, MapsAgree(m), NEW msg \in LinkMessage,
         m.channels[Down] \subseteq Channels, m.ranges[Down] \subseteq Covered
  PROVE  LET n == ApplyControl(m, msg)
         IN  /\ n \in Map /\ MapsAgree(n)
             /\ n.channels[Down] \subseteq Channels /\ n.ranges[Down] \subseteq Covered
             /\ \A q \in Subscriber \ {Down} : n.channels[q] = m.channels[q]
             /\ Apart => \A c \in Channel :
                  IsSubscribed(n, Down, c)
                    <=> msg \in Adding(c) \/ (IsSubscribed(m, Down, c) /\ msg \notin Dropping(c))
<1>1. PICK n : n = ApplyControl(m, msg)
  OBVIOUS
<1>2. /\ Channels \subseteq Channel /\ Covered \subseteq Channel /\ Down \in Subscriber
      /\ Apart => Channels \cap Covered = {}
  BY ScenarioShape, MessageDirectorAssumption
<1>3. /\ m.channels \in [Subscriber -> SUBSET Channel]
      /\ m.ranges \in [Subscriber -> SUBSET Channel]
  BY DEF Map
<1> DEFINE Effect(add, drop) ==
             \A c \in Channel : /\ msg \in Adding(c) <=> add /\ c \in msg.span
                                /\ msg \in Dropping(c) <=> drop /\ c \in msg.span
           Goal == /\ n \in Map /\ MapsAgree(n)
                   /\ n.channels[Down] \subseteq Channels /\ n.ranges[Down] \subseteq Covered
                   /\ Apart => \A c \in Channel :
                        IsSubscribed(n, Down, c)
                          <=> msg \in Adding(c)
                              \/ (IsSubscribed(m, Down, c) /\ msg \notin Dropping(c))
<1>4. ASSUME NEW kind \in {"add_channel", "remove_channel", "add_range", "remove_range"},
             NEW R \in SUBSET Channel, msg = Control(kind, R)
      PROVE  /\ msg.kind = kind /\ msg.span = R
             /\ Effect(kind \in {"add_channel", "add_range"},
                       kind \in {"remove_channel", "remove_range"})
  <2>1. msg.kind = kind /\ msg.span = R
    BY <1>4 DEF Control
  <2>2. QED
    BY <1>4, <2>1, ControlMarks
<1>5. ASSUME NEW c \in Channels, msg = Control("add_channel", {c}) PROVE Goal
  <2>1. {c} \in SUBSET Channel /\ c \in Channel
    BY <1>2
  <2>2. msg.kind = "add_channel" /\ msg.span = {c} /\ Effect(TRUE, FALSE)
    BY <1>4, <1>5, <2>1
  <2>3. (CHOOSE x \in {c} : TRUE) = c
    OBVIOUS
  <2>4. n = SubscribeChannel(m, Down, c)
    BY <1>1, <2>2, <2>3 DEF ApplyControl
  <2>5. n \in Map /\ MapsAgree(n)
    BY <1>2, <2>1, <2>4, SubscribeChannelAgrees
  <2>6. \/ IsSubscribed(m, Down, c) /\ n = m
        \/ /\ ~IsSubscribed(m, Down, c)
           /\ n.ranges = m.ranges
           /\ n.channels = [m.channels EXCEPT ![Down] = @ \cup {c}]
    BY <2>4 DEF SubscribeChannel, Map
  <2>7. \/ n.channels[Down] = m.channels[Down] /\ n.ranges[Down] = m.ranges[Down] /\ IsSubscribed(m, Down, c)
        \/ n.channels[Down] = m.channels[Down] \cup {c} /\ n.ranges[Down] = m.ranges[Down]
    BY <1>2, <1>3, <2>6
  <2>8. QED
    BY <2>2, <2>5, <2>7 DEF IsSubscribed
<1>6. ASSUME NEW c \in Channels, msg = Control("remove_channel", {c}) PROVE Goal
  <2>1. {c} \in SUBSET Channel /\ c \in Channel
    BY <1>2
  <2>2. msg.kind = "remove_channel" /\ msg.span = {c} /\ Effect(FALSE, TRUE)
    BY <1>4, <1>6, <2>1
  <2>3. (CHOOSE x \in {c} : TRUE) = c
    OBVIOUS
  <2>4. n = UnsubscribeChannel(m, Down, c)
    BY <1>1, <2>2, <2>3 DEF ApplyControl
  <2>5. n \in Map /\ MapsAgree(n)
    BY <1>2, <2>1, <2>4, UnsubscribeChannelAgrees
  <2>6. \/ ~IsSubscribed(m, Down, c) /\ n = m
        \/ /\ IsSubscribed(m, Down, c)
           /\ n.ranges = m.ranges
           /\ n.channels = [m.channels EXCEPT ![Down] = @ \ {c}]
    BY <2>4 DEF UnsubscribeChannel, Map
  <2>7. \/ n.channels[Down] = m.channels[Down] /\ n.ranges[Down] = m.ranges[Down] /\ ~IsSubscribed(m, Down, c)
        \/ n.channels[Down] = m.channels[Down] \ {c} /\ n.ranges[Down] = m.ranges[Down]
    BY <1>2, <1>3, <2>6
  <2>8. Apart => c \notin m.ranges[Down]
    BY <1>2
  <2>9. QED
    BY <2>2, <2>5, <2>7, <2>8 DEF IsSubscribed
<1>7. ASSUME NEW R \in Interval, R \subseteq Covered, msg = Control("add_range", R) PROVE Goal
  <2>1. R \in SUBSET Channel
    BY IntervalBounds
  <2>2. msg.kind = "add_range" /\ msg.span = R /\ Effect(TRUE, FALSE)
    BY <1>4, <1>7, <2>1
  <2>3. n = SubscribeRange(m, Down, R)
    BY <1>1, <2>2 DEF ApplyControl
  <2>4. n \in Map /\ MapsAgree(n)
    BY <1>2, <2>1, <2>3, SubscribeRangeAgrees
  <2>5. n.channels = m.channels /\ n.ranges = [m.ranges EXCEPT ![Down] = @ \cup R]
    BY <2>3 DEF SubscribeRange, Map
  <2>6. n.channels[Down] = m.channels[Down] /\ n.ranges[Down] = m.ranges[Down] \cup R
    BY <1>2, <1>3, <2>5
  <2>7. QED
    BY <1>7, <2>2, <2>4, <2>6 DEF IsSubscribed
<1>8. ASSUME NEW R \in Interval, R \subseteq Covered, msg = Control("remove_range", R) PROVE Goal
  <2>1. R \in SUBSET Channel
    BY IntervalBounds
  <2>2. msg.kind = "remove_range" /\ msg.span = R /\ Effect(FALSE, TRUE)
    BY <1>4, <1>8, <2>1
  <2>3. n = UnsubscribeRange(m, Down, R)
    BY <1>1, <2>2 DEF ApplyControl
  <2>4. n \in Map /\ MapsAgree(n)
    BY <1>2, <2>1, <2>3, UnsubscribeRangeAgrees
  <2>5. \/ n.channels[Down] = m.channels[Down] /\ n.ranges[Down] = {} /\ m.ranges[Down] = {}
        \/ n.channels[Down] = m.channels[Down] \ R /\ n.ranges[Down] = m.ranges[Down] \ R
    <3>1. CASE Ranged(m) = {}
      <4>1. m.ranges[Down] = {}
        <5>1. \A c \in Channel : m.range_subs[c] = {}
          BY <3>1 DEF Ranged
        <5>2. \A c \in Channel : c \notin m.ranges[Down]
          BY <1>2, <5>1 DEF MapsAgree
        <5>3. QED
          BY <1>2, <5>2
      <4>2. n = m
        BY <2>3, <3>1 DEF UnsubscribeRange
      <4>3. QED
        BY <4>1, <4>2
    <3>2. CASE Ranged(m) # {}
      <4>1. /\ n.ranges = [m.ranges EXCEPT ![Down] = @ \ R]
            /\ n.channels = [m.channels EXCEPT ![Down] = @ \ R]
        BY <2>3, <3>2 DEF UnsubscribeRange, Map
      <4>2. QED
        BY <1>2, <1>3, <4>1
    <3>3. QED
      BY <3>1, <3>2
  <2>6. Apart => m.channels[Down] \cap R = {}
    BY <1>2, <1>8
  <2>7. n.channels[Down] \subseteq Channels /\ n.ranges[Down] \subseteq Covered
    BY <2>5
  <2>8. Apart => \A c \in Channel :
                   IsSubscribed(n, Down, c) <=> IsSubscribed(m, Down, c) /\ c \notin R
    BY <2>5, <2>6 DEF IsSubscribed
  <2>9. QED
    BY <2>2, <2>4, <2>7, <2>8
<1>9. ASSUME msg.kind \in {"add_post_remove", "clear_post_removes", "datagram"} PROVE Goal
  <2>1. n = m
    BY <1>1, <1>9 DEF ApplyControl
  <2>2. \A c \in Channel : msg \notin Adding(c) /\ msg \notin Dropping(c)
    BY <1>9 DEF Adding, Dropping
  <2>3. QED
    BY <2>1, <2>2
<1>10. Goal
  <2>1. \/ \E c \in Channels : msg = Control("add_channel", {c}) \/ msg = Control("remove_channel", {c})
        \/ \E R \in Interval : /\ R \subseteq Covered
                               /\ msg = Control("add_range", R) \/ msg = Control("remove_range", R)
        \/ msg.kind \in {"add_post_remove", "clear_post_removes", "datagram"}
    BY DEF LinkMessage, Control
  <2> HIDE DEF Goal
  <2>2. QED
    BY <1>5, <1>6, <1>7, <1>8, <1>9, <2>1
<1>11. \A q \in Subscriber \ {Down} : n.channels[q] = m.channels[q]
  BY <1>1, <1>2, OperationsAreLocal DEF ApplyControl
<1>12. QED
  BY <1>1, <1>10, <1>11

LEMMA PostRemoveEffect ==
  ASSUME NEW P \in [Local -> SUBSET Ids], NEW msg \in LinkMessage, Ids \subseteq Nat
  PROVE  LET Q == ApplyPostRemove(P, msg)
         IN  /\ Q \in [Local -> SUBSET Ids]
             /\ \A p \in Local, i \in Nat :
                  i \in Q[p] <=> msg \in Posting(p, i) \/ (i \in P[p] /\ msg \notin Recalling(p))
<1>1. PICK Q : Q = ApplyPostRemove(P, msg)
  OBVIOUS
<1> DEFINE Goal == /\ Q \in [Local -> SUBSET Ids]
                   /\ \A p \in Local, i \in Nat :
                        i \in Q[p] <=> msg \in Posting(p, i) \/ (i \in P[p] /\ msg \notin Recalling(p))
<1>2. ASSUME NEW q \in Local, NEW I \in SUBSET Ids, msg = PostRemove("add_post_remove", q, I)
      PROVE  Goal
  <2>1. Q = [P EXCEPT ![q] = @ \cup I]
    BY <1>1, <1>2 DEF ApplyPostRemove, PostRemove
  <2>2. ASSUME NEW p \in Local, NEW i \in Nat
        PROVE  (msg \in Posting(p, i) <=> q = p /\ i \in I) /\ msg \notin Recalling(p)
    <3>1. I \in SUBSET Nat
      OBVIOUS
    <3>2. QED
      BY <1>2, <3>1, PostMarks
  <2>3. QED
    BY <2>1, <2>2
<1>3. ASSUME NEW q \in Local, NEW I \in SUBSET Ids, msg = PostRemove("clear_post_removes", q, I)
      PROVE  Goal
  <2>1. Q = [P EXCEPT ![q] = {}]
    BY <1>1, <1>3 DEF ApplyPostRemove, PostRemove
  <2>2. ASSUME NEW p \in Local, NEW i \in Nat
        PROVE  (msg \in Recalling(p) <=> q = p) /\ msg \notin Posting(p, i)
    <3>1. I \in SUBSET Nat
      OBVIOUS
    <3>2. QED
      BY <1>3, <3>1, PostMarks
  <2>3. QED
    BY <2>1, <2>2
<1>4. ASSUME msg.kind \notin {"add_post_remove", "clear_post_removes"} PROVE Goal
  <2>1. Q = P
    BY <1>1, <1>4 DEF ApplyPostRemove
  <2>2. \A p, i : msg \notin Posting(p, i) /\ msg \notin Recalling(p)
    BY <1>4 DEF Posting, Recalling
  <2>3. QED
    BY <2>1, <2>2
<1>5. \/ \E q \in Local, I \in SUBSET Ids : \/ msg = PostRemove("add_post_remove", q, I)
                                            \/ msg = PostRemove("clear_post_removes", q, I)
      \/ msg.kind \notin {"add_post_remove", "clear_post_removes"}
  BY DEF LinkMessage, PostRemove
<1> HIDE DEF Goal
<1>6. Goal
  BY <1>2, <1>3, <1>4, <1>5
<1>7. QED
  BY <1>1, <1>6 DEF Goal

LEMMA HeadAndTail ==
  ASSUME NEW S, NEW s \in Seq(S), s # <<>>
  PROVE  Head(s) \in S /\ Tail(s) \in Seq(S)
OBVIOUS

LEMMA EmptyIsSeq == \A S : <<>> \in Seq(S)
OBVIOUS

LEMMA ConcatType ==
  ASSUME NEW S, NEW s \in Seq(S), NEW t \in Seq(S)
  PROVE  s \o t \in Seq(S)
OBVIOUS

LEMMA UpstreamStaysTyped ==
  ASSUME MapsInv, ParticipantsInv, DataInv, TokenInv, UpstreamTyped, [Next]_vars
  PROVE  UpstreamTyped'
<1>1. SentKept /\ Ids \subseteq Ids' /\ Ids \subseteq Nat
  BY StepKeepsSent DEF SentKept, Ids
<1>2. /\ Channels' = Channels /\ Covered' = Covered
      /\ LinkMessage \subseteq LinkMessage'
      /\ \A s \in Seq(LinkMessage) : s \in Seq(LinkMessage')
  BY <1>1, LinkMessagesGrow
<1>3. link \in Seq(LinkMessage') /\ unsent \in Seq(LinkMessage') /\ uppost \in [Local -> SUBSET Ids']
  BY <1>1, <1>2 DEF UpstreamTyped
<1>4. ASSUME NEW msgs, Telling(msgs) PROVE UpstreamTyped'
  <2>1. msgs \in Seq(LinkMessage') /\ Send(msgs)
    BY <1>4 DEF Telling
  <2>2. link' \in Seq(LinkMessage') /\ unsent' \in Seq(LinkMessage')
    BY <1>3, <2>1, ConcatType DEF Send
  <2>3. UNCHANGED <<upmap, uppost>> /\ Shaped(map')
    BY <1>4 DEF Telling
  <2>4. Shaped(map)'
    BY <1>2, <2>3 DEF Shaped
  <2>5. QED
    BY <1>2, <1>3, <2>2, <2>3, <2>4 DEF UpstreamTyped
<1>5. CASE Connect \/ FlushSendQueue
  <2>1. UNCHANGED <<map, upmap, uppost>>
    BY <1>5 DEF Connect, FlushSendQueue, subscriptions, upstream
  <2>2. link' \in Seq(LinkMessage') /\ unsent' \in Seq(LinkMessage')
    <3>1. CASE Connect
      BY <1>3, <3>1, ConcatType, EmptyIsSeq DEF Connect
    <3>2. CASE FlushSendQueue
      BY <1>3, <3>2, HeadAndTail, AppendType DEF FlushSendQueue
    <3>3. QED
      BY <1>5, <3>1, <3>2
  <2>3. Shaped(map)'
    BY <1>2, <2>1 DEF Shaped, UpstreamTyped
  <2>4. QED
    BY <1>2, <1>3, <2>1, <2>2, <2>3 DEF UpstreamTyped
<1>6. CASE UpstreamReceives
  <2>1. PICK msg : msg = Head(link)
    OBVIOUS
  <2>2. /\ link # <<>> /\ link' = Tail(link) /\ unsent' = unsent
        /\ upmap' = ApplyControl(upmap, msg) /\ uppost' = ApplyPostRemove(uppost, msg)
        /\ UNCHANGED map
    BY <1>6, <2>1 DEF UpstreamReceives, subscriptions
  <2>3. msg \in LinkMessage /\ link' \in Seq(LinkMessage')
    <3>1. msg \in LinkMessage /\ Tail(link) \in Seq(LinkMessage)
      BY <2>1, <2>2, HeadAndTail DEF UpstreamTyped
    <3>2. QED
      BY <1>2, <2>2, <3>1
  <2>4. uppost' \in [Local -> SUBSET Ids']
    <3>1. uppost' \in [Local -> SUBSET Ids]
      BY <1>1, <2>2, <2>3, PostRemoveEffect DEF UpstreamTyped
    <3>2. QED
      BY <1>1, <3>1
  <2>5. /\ upmap'.channels[Down] \subseteq Channels /\ upmap'.ranges[Down] \subseteq Covered
        /\ \A q \in Subscriber \ {Down} : upmap'.channels[q] = upmap.channels[q]
    BY <2>2, <2>3, ControlEffect DEF UpstreamTyped, MapsInv, ConsistentMaps
  <2>6. \A u \in Remote : Service \in upmap'.channels[u]
    BY <2>5, MessageDirectorAssumption DEF UpstreamTyped
  <2>7. Shaped(map)'
    BY <1>2, <2>2 DEF Shaped, UpstreamTyped
  <2>8. QED
    BY <1>2, <1>3, <2>2, <2>3, <2>4, <2>5, <2>6, <2>7 DEF UpstreamTyped
<1>7. QED
  BY <1>4, <1>5, <1>6, StepTells

-----------------------------------------------------------------------------
UpstreamInv == DeliveryInv /\ UpstreamTyped /\ tasks \in Nat

LEMMA UpstreamInitially == Init => UpstreamInv
<1> SUFFICES ASSUME Init PROVE UpstreamInv
  OBVIOUS
<1>1. UpstreamTyped
  <2>1. Local \subseteq Subscriber /\ Remote \subseteq Subscriber /\ Down \in Subscriber
        /\ Down \notin Remote
    BY MessageDirectorAssumption
  <2>2. Shaped(map)
    BY <2>1 DEF Init, EmptyMap, Shaped
  <2>3. /\ upmap.channels = [p \in Subscriber |-> IF p \in Remote THEN {Service} ELSE {}]
        /\ upmap.ranges = [p \in Subscriber |-> {}]
    BY DEF Init, EmptyMap
  <2>4. QED
    BY <2>1, <2>2, <2>3 DEF Init, UpstreamTyped
<1>2. QED
  BY <1>1, DeliveryInitially DEF UpstreamInv, Init

LEMMA UpstreamStep == UpstreamInv /\ [Next]_vars => UpstreamInv'
<1> SUFFICES ASSUME UpstreamInv, [Next]_vars PROVE UpstreamInv'
  OBVIOUS
<1>1. DeliveryInv' /\ UpstreamTyped'
  BY DeliveryStep, UpstreamStaysTyped DEF UpstreamInv, DeliveryInv, DirectorInv
<1>2. tasks' \in Nat
  <2>1. tasks \in Nat
    BY DEF UpstreamInv
  <2>2. ASSUME NEW p \in Alive, Participate(p) PROVE tasks' \in Nat
    <3>1. CASE \E to \in Destinations, main \in BOOLEAN : RouteDatagram(p, to, main)
      <4>1. tasks' = tasks \/ tasks' = tasks + 1
        BY <3>1 DEF RouteDatagram, Enqueue
      <4>2. QED
        BY <2>1, <4>1
    <3>2. CASE RemoveParticipant(p)
      BY <2>1, <3>2 DEF RemoveParticipant
    <3>3. CASE \/ \E c \in Channels : SubscribeTo(p, c) \/ UnsubscribeFrom(p, c)
               \/ \E R \in Ranges : SubscribeToRange(p, R) \/ UnsubscribeFromRange(p, R)
               \/ \E to \in Destinations : AddPostRemove(p, to)
               \/ ClearPostRemoves(p)
      BY <2>1, <3>3 DEF SubscribeTo, UnsubscribeFrom, SubscribeToRange, UnsubscribeFromRange,
        AddPostRemove, ClearPostRemoves, queues
    <3>4. QED
      BY <2>2, <3>1, <3>2, <3>3 DEF Participate
  <2>3. CASE Route \/ Link
    <3>1. CASE FlushTask
      BY <2>1, <3>1 DEF FlushTask
    <3>2. CASE ReceiveFromUpstream
      BY <2>1, <3>2 DEF ReceiveFromUpstream, Enqueue
    <3>3. CASE \/ TakeMessage \/ StopFlushing \/ FinishMessage
               \/ \E p \in Local : Deliver(p) \/ DeliverTruncated(p)
               \/ Connect \/ FlushSendQueue \/ UpstreamReceives
      <4>1. tasks' = tasks
        BY <3>3 DEF TakeMessage, StopFlushing, FinishMessage, Deliver, DeliverTruncated, Connect,
          FlushSendQueue, UpstreamReceives, queues
      <4>2. QED
        BY <2>1, <4>1
    <3>4. QED
      BY <2>3, <3>1, <3>2, <3>3 DEF Route, Link
  <2>4. CASE UNCHANGED vars \/ \E u \in Remote, id \in Ids : Answer(u, id)
    BY <2>1, <2>4 DEF Answer, vars, queues
  <2>5. QED
    BY <2>2, <2>3, <2>4 DEF Next
<1>3. QED
  BY <1>1, <1>2 DEF UpstreamInv

(* Every datagram that is queued, routed, on the link or on the way back     *)
(* exists, the link carries what MDNetworkUpstream can send, and the post-   *)
(* removes that the upstream keeps are ones that were sent.                  *)
THEOREM DirectorTypes == Spec => []TypeOK
<1>1. UpstreamInv => TypeOK
  <2> SUFFICES ASSUME UpstreamInv PROVE TypeOK
    OBVIOUS
  <2>1. MapsInv /\ ParticipantsInv /\ DataInv /\ TokenInv /\ UpstreamTyped /\ tasks \in Nat
    BY DEF UpstreamInv, DeliveryInv, DirectorInv
  <2> DEFINE Messages == [kind : {"add_channel", "remove_channel", "add_range", "remove_range"},
                          span : Interval]
                         \cup [kind : {"add_post_remove", "clear_post_removes"},
                               sender : Local, ids : SUBSET Ids]
                         \cup [kind : {"datagram"}, id : Ids]
  <2>2. link \in Seq(Messages)
    <3>1. \A c \in Channels : {c} \in Interval
      <4> SUFFICES ASSUME NEW c \in Channels PROVE {c} \in Interval
        OBVIOUS
      <4>1. c \in Channel
        BY <2>1, ScenarioShape
      <4>2. c \in Nat /\ c <= c
        BY <4>1, IntervalBounds
      <4>3. c..c \in Interval
        BY <4>1, <4>2, IntervalBounds
      <4>4. c..c = {c}
        BY <4>2
      <4>5. QED
        BY <4>3, <4>4
    <3>2. LinkMessage \subseteq Messages
      BY <3>1 DEF LinkMessage
    <3>3. QED
      BY <2>1, <3>2, SequencesGrow DEF UpstreamTyped
  <2>3. \A k \in 1..Len(m_messages) : m_messages[k].id \in Ids
    <3>1. m_messages \in Seq(Message) /\ \A msg \in Message : msg.id \in Ids
      BY <2>1 DEF DataInv, Message
    <3>2. QED
      BY <3>1
  <2>4. /\ routing # Idle => routing.id \in Ids /\ routing.to \subseteq Local \ deleted
        /\ terminated \subseteq Local /\ deleted \subseteq Local /\ terminated \cap deleted = {}
    BY <2>1 DEF DataInv, Routing, ParticipantsInv
  <2>5. ConsistentMaps /\ map \in Map /\ upmap \in Map
    BY <2>1 DEF MapsInv
  <2>6. uppost \in [Local -> SUBSET Ids] /\ Len(got) = Len(sent)
    BY <2>1 DEF UpstreamTyped, TokenInv, GotInv
  <2>7. ReceiversLive
    BY <2>4 DEF ReceiversLive
  <2>8. QED
    BY <2>1, <2>2, <2>3, <2>4, <2>5, <2>6, <2>7 DEF TypeOK
<1>2. QED
  BY <1>1, UpstreamInitially, UpstreamStep, PTL DEF Spec

-----------------------------------------------------------------------------
(* What the upstream's map is once it has taken everything.                  *)
LEMMA TakenExists ==
  ASSUME NEW m, NEW s, Len(s) \in Nat
  PROVE  \E f : /\ Taken(m, s) = f[Len(s)]
                /\ f[0] = m
                /\ \A k \in 1..Len(s) : f[k] = ApplyControl(f[k - 1], s[k])
<1> DEFINE Upto(f, n) == f = [k \in 0..n |-> IF k = 0 THEN m ELSE ApplyControl(f[k - 1], s[k])]
           N == {n \in 0..Len(s) : ~\E f : Upto(f, n)}
<1>1. N = {}
  <2> SUFFICES ASSUME N # {} PROVE FALSE
    OBVIOUS
  <2>1. PICK n \in N : \A l \in N : n <= l
    <3> HIDE DEF N
    <3>1. N \in SUBSET Nat
      BY DEF N
    <3>2. QED
      BY <3>1, LeastElement
  <2>2. n \in 0..Len(s) /\ ~\E f : Upto(f, n)
    OBVIOUS
  <2>3. n # 0
    <3>1. SUFFICES ASSUME n = 0 PROVE FALSE
      OBVIOUS
    <3>2. PICK f : f = [k \in 0..0 |-> m]
      OBVIOUS
    <3>3. f = [k \in 0..0 |-> IF k = 0 THEN m ELSE ApplyControl(f[k - 1], s[k])]
      BY <3>2
    <3>4. Upto(f, n)
      BY <3>1, <3>3
    <3>5. QED
      BY <2>2, <3>4
  <2>4. n - 1 \in 0..Len(s) /\ n - 1 \notin N
    <3> HIDE DEF N, Upto
    <3>1. n \in Nat /\ n - 1 \in 0..Len(s) /\ ~(n <= n - 1)
      BY <2>2, <2>3
    <3>2. n - 1 \notin N
      BY <2>1, <3>1
    <3>3. QED
      BY <3>1, <3>2
  <2>5. PICK f : Upto(f, n - 1)
    BY <2>4
  <2>6. PICK g : g = [k \in 0..n |-> IF k = n THEN ApplyControl(f[n - 1], s[n]) ELSE f[k]]
    OBVIOUS
  <2>7. \A k \in 0..(n - 1) : g[k] = f[k]
    BY <2>2, <2>3, <2>6
  <2>8. ASSUME NEW k \in 0..n
        PROVE  g[k] = IF k = 0 THEN m ELSE ApplyControl(g[k - 1], s[k])
    <3>1. CASE k = n
      <4>1. g[k] = ApplyControl(f[n - 1], s[n]) /\ g[n - 1] = f[n - 1]
        BY <2>2, <2>3, <2>6, <2>7, <3>1
      <4>2. QED
        BY <2>3, <3>1, <4>1
    <3>2. CASE k # n
      <4>1. k \in 0..(n - 1) /\ (k # 0 => k - 1 \in 0..(n - 1))
        BY <2>2, <2>3, <3>2
      <4>2. f[k] = IF k = 0 THEN m ELSE ApplyControl(f[k - 1], s[k])
        BY <2>5, <4>1
      <4>3. QED
        BY <2>7, <4>1, <4>2
    <3>3. QED
      BY <3>1, <3>2
  <2>9. g = [k \in 0..n |-> IF k = 0 THEN m ELSE ApplyControl(g[k - 1], s[k])]
    BY <2>6, <2>8
  <2>10. QED
    BY <2>2, <2>9
<1>2. \E f : Upto(f, Len(s))
  BY <1>1
<1>3. PICK f : f = CHOOSE x : Upto(x, Len(s))
  OBVIOUS
<1>4. f = [k \in 0..Len(s) |-> IF k = 0 THEN m ELSE ApplyControl(f[k - 1], s[k])]
  BY <1>2, <1>3
<1>5. Taken(m, s) = f[Len(s)]
  BY <1>3 DEF Taken
<1>6. f[0] = m
  BY <1>4
<1>7. \A k \in 1..Len(s) : f[k] = ApplyControl(f[k - 1], s[k])
  <2> SUFFICES ASSUME NEW k \in 1..Len(s) PROVE f[k] = ApplyControl(f[k - 1], s[k])
    OBVIOUS
  <2>1. k \in 0..Len(s) /\ k # 0
    OBVIOUS
  <2>2. QED
    BY <1>4, <2>1
<1>8. QED
  BY <1>5, <1>6, <1>7

LEMMA TakenWins ==
  ASSUME MapsInv, Apart, NEW m \in Map, MapsAgree(m), NEW s \in Seq(LinkMessage),
         m.channels[Down] \subseteq Channels, m.ranges[Down] \subseteq Covered,
         NEW c \in Channel
  PROVE  IsSubscribed(Taken(m, s), Down, c)
           <=> Wins(Len(s), IsSubscribed(m, Down, c), Adding(c), Dropping(c), s)
<1>1. Len(s) \in Nat /\ \A k \in 1..Len(s) : s[k] \in LinkMessage
  OBVIOUS
<1>2. PICK f : /\ Taken(m, s) = f[Len(s)]
               /\ f[0] = m
               /\ \A k \in 1..Len(s) : f[k] = ApplyControl(f[k - 1], s[k])
  BY <1>1, TakenExists
<1> DEFINE b == IsSubscribed(m, Down, c)
           A == Adding(c)
           D == Dropping(c)
           \* The first n messages make the difference they should.
           First(n) == \/ b /\ \A j \in 1..n : s[j] \notin D
                       \/ \E k \in 1..n : s[k] \in A /\ \A j \in (k + 1)..n : s[j] \notin D
           Right(n) == /\ f[n] \in Map /\ MapsAgree(f[n])
                       /\ f[n].channels[Down] \subseteq Channels
                       /\ f[n].ranges[Down] \subseteq Covered
                       /\ IsSubscribed(f[n], Down, c) <=> First(n)
           N == {n \in 0..Len(s) : ~Right(n)}
<1>3. ASSUME NEW n \in 1..Len(s) PROVE First(n) <=> s[n] \in A \/ (First(n - 1) /\ s[n] \notin D)
  <2> HIDE DEF b, A, D
  <2>1. n \in Nat /\ n - 1 \in Nat /\ n \notin 1..(n - 1)
        /\ \A j : j \in 1..n <=> j \in 1..(n - 1) \/ j = n
    BY <1>1
  <2>2. ASSUME NEW k \in 1..(n - 1)
        PROVE  /\ \A j : j \in (k + 1)..n <=> j \in (k + 1)..(n - 1) \/ j = n
    BY <2>1
  <2>3. \A j : j \notin (n + 1)..n
    BY <2>1
  <2>4. CASE s[n] \in A
    BY <2>1, <2>3, <2>4
  <2>5. CASE s[n] \notin A
    <3>1. ASSUME First(n) PROVE First(n - 1) /\ s[n] \notin D
      <4>1. CASE b /\ \A j \in 1..n : s[j] \notin D
        BY <2>1, <4>1
      <4>2. ASSUME NEW k \in 1..n, s[k] \in A, \A j \in (k + 1)..n : s[j] \notin D
            PROVE  First(n - 1) /\ s[n] \notin D
        <5>1. k \in 1..(n - 1)
          BY <2>1, <2>5, <4>2
        <5>2. QED
          BY <2>2, <4>2, <5>1
      <4>3. QED
        BY <3>1, <4>1, <4>2
    <3>2. ASSUME First(n - 1), s[n] \notin D PROVE First(n)
      <4>1. CASE b /\ \A j \in 1..(n - 1) : s[j] \notin D
        BY <2>1, <3>2, <4>1
      <4>2. ASSUME NEW k \in 1..(n - 1), s[k] \in A, \A j \in (k + 1)..(n - 1) : s[j] \notin D
            PROVE  First(n)
        <5>1. \A j \in (k + 1)..n : s[j] \notin D
          BY <2>2, <3>2, <4>2
        <5>2. QED
          BY <2>1, <4>2, <5>1
      <4>3. QED
        BY <3>2, <4>1, <4>2
    <3> HIDE DEF First
    <3>3. QED
      BY <2>5, <3>1, <3>2
  <2>6. QED
    BY <2>4, <2>5
<1>4. First(0) <=> b
  <2> HIDE DEF b, A, D
  <2>1. \A j : j \notin 1..0
    OBVIOUS
  <2>2. QED
    BY <2>1
<1>5. First(Len(s)) <=> Wins(Len(s), b, A, D, s)
  BY DEF Wins, Holds
<1> HIDE DEF First, b, A, D
<1>6. Right(0)
  BY <1>2, <1>4 DEF b
<1>7. ASSUME NEW n \in 1..Len(s), Right(n - 1) PROVE Right(n)
  <2>1. PICK g, msg : g = f[n - 1] /\ msg = s[n]
    OBVIOUS
  <2>2. f[n] = ApplyControl(g, msg) /\ msg \in LinkMessage
    BY <1>1, <1>2, <2>1
  <2>3. /\ g \in Map /\ MapsAgree(g)
        /\ g.channels[Down] \subseteq Channels /\ g.ranges[Down] \subseteq Covered
        /\ IsSubscribed(g, Down, c) <=> First(n - 1)
    BY <1>7, <2>1
  <2>4. /\ f[n] \in Map /\ MapsAgree(f[n])
        /\ f[n].channels[Down] \subseteq Channels /\ f[n].ranges[Down] \subseteq Covered
        /\ IsSubscribed(f[n], Down, c) <=> msg \in A \/ (IsSubscribed(g, Down, c) /\ msg \notin D)
    BY <2>2, <2>3, ControlEffect DEF A, D
  <2>5. QED
    BY <1>3, <2>1, <2>3, <2>4
<1>8. N = {}
  <2> SUFFICES ASSUME N # {} PROVE FALSE
    OBVIOUS
  <2>1. PICK n \in N : \A l \in N : n <= l
    <3> HIDE DEF N
    <3>1. N \in SUBSET Nat
      BY DEF N
    <3>2. QED
      BY <3>1, LeastElement
  <2> HIDE DEF Right
  <2>2. n \in 0..Len(s) /\ ~Right(n)
    OBVIOUS
  <2>3. n # 0
    BY <1>6, <2>2
  <2>4. n \in 1..Len(s) /\ n - 1 \in 0..Len(s) /\ n - 1 \notin N
    BY <2>1, <2>2, <2>3
  <2>5. Right(n - 1)
    BY <2>4
  <2>6. QED
    BY <1>7, <2>2, <2>4, <2>5
<1>9. Right(Len(s))
  <2> HIDE DEF Right
  <2>1. Len(s) \in 0..Len(s)
    BY <1>1
  <2>2. QED
    BY <1>8, <2>1
<1>10. QED
  BY <1>2, <1>5, <1>9 DEF b, A, D

-----------------------------------------------------------------------------
(* Without the routing thread, messages to the upstream keep their order.    *)
Pending == link \o unsent

InOrder == ~Threaded /\ m_initialized => unsent = <<>>

LEMMA PendingTyped ==
  ASSUME UpstreamTyped
  PROVE  Pending \in Seq(LinkMessage) /\ Len(Pending) \in Nat
<1>1. Pending \in Seq(LinkMessage)
  BY ConcatType DEF UpstreamTyped, Pending
<1>2. QED
  BY <1>1

LEMMA SentIsPending ==
  ASSUME UpstreamTyped, InOrder, ~Threaded, SentKept,
         NEW msgs \in Seq(LinkMessage'), Send(msgs)
  PROVE  Pending' = Pending \o msgs /\ InOrder'
<1>1. PICK S : S = LinkMessage'
  OBVIOUS
<1>2. link \in Seq(S) /\ unsent \in Seq(S) /\ msgs \in Seq(S) /\ Threaded' = Threaded
  BY <1>1, LinkMessagesGrow DEF UpstreamTyped
<1>3. CASE m_initialized
  <2>1. link' = link \o msgs /\ unsent' = unsent /\ unsent = <<>> /\ m_initialized' = m_initialized
    BY <1>3 DEF Send, InOrder
  <2>2. Pending' = (link \o msgs) \o <<>> /\ Pending = link \o <<>>
    BY <2>1 DEF Pending
  <2>3. link \o msgs \in Seq(S)
    BY <1>2
  <2>4. Pending' = link \o msgs /\ Pending = link
    BY <1>2, <2>2, <2>3, ConcatEmptySeq
  <2>5. QED
    BY <2>1, <2>4 DEF InOrder
<1>4. CASE ~m_initialized
  <2>1. unsent' = unsent \o msgs /\ link' = link /\ m_initialized' = m_initialized
    BY <1>4 DEF Send
  <2>2. Pending' = link \o (unsent \o msgs)
    BY <2>1 DEF Pending
  <2>3. link \o (unsent \o msgs) = (link \o unsent) \o msgs
    BY <1>2, ConcatAssociative
  <2>4. QED
    BY <1>4, <2>1, <2>2, <2>3 DEF InOrder, Pending
<1>5. QED
  BY <1>3, <1>4

LEMMA ConnectedIsPending ==
  ASSUME UpstreamTyped, ~Threaded, Connect
  PROVE  Pending' = Pending /\ InOrder'
<1>1. link' = link \o unsent /\ unsent' = <<>>
  BY DEF Connect
<1>2. link \o unsent \in Seq(LinkMessage)
  BY ConcatType DEF UpstreamTyped
<1>3. Pending' = (link \o unsent) \o <<>>
  BY <1>1 DEF Pending
<1>4. QED
  BY <1>1, <1>2, <1>3, ConcatEmptySeq DEF Pending, InOrder

LEMMA ReceivedWasPending ==
  ASSUME UpstreamTyped, InOrder, SentKept, UpstreamReceives
  PROVE  /\ Pending # <<>> /\ Len(Pending) >= 1 /\ Head(Pending) = Head(link)
         /\ Pending' = Tail(Pending)
         /\ InOrder'
<1>1. link # <<>> /\ link' = Tail(link) /\ unsent' = unsent /\ m_initialized' = m_initialized
  BY DEF UpstreamReceives
<1>2. PICK S : S = LinkMessage
  OBVIOUS
<1>3. link \in Seq(S) /\ unsent \in Seq(S)
  BY <1>2 DEF UpstreamTyped
<1>4. /\ link \o unsent # <<>> /\ Len(link \o unsent) >= 1
      /\ Head(link \o unsent) = Head(link)
      /\ Tail(link) \o unsent = Tail(link \o unsent)
  <2>1. Len(link) \in Nat /\ Len(link) >= 1 /\ Len(unsent) \in Nat
        /\ Len(link \o unsent) = Len(link) + Len(unsent) /\ link \o unsent \in Seq(S)
    BY <1>1, <1>3
  <2>2. (link \o unsent)[1] = link[1]
    BY <1>3, <2>1
  <2>3. Head(link \o unsent) = Head(link) /\ link \o unsent # <<>>
    BY <2>1, <2>2
  <2>4. Tail(link) \in Seq(S) /\ Len(Tail(link)) = Len(link) - 1
        /\ \A k \in 1..(Len(link) - 1) : Tail(link)[k] = link[k + 1]
    BY <1>1, <1>3, <2>1
  <2>5. PICK w : w = link \o unsent
    OBVIOUS
  <2>6. Tail(w) \in Seq(S) /\ Len(Tail(w)) = Len(w) - 1
        /\ \A k \in 1..(Len(w) - 1) : Tail(w)[k] = w[k + 1]
    BY <2>1, <2>3, <2>5
  <2>7. PICK t : t = Tail(link)
    OBVIOUS
  <2>8. Len(t \o unsent) = Len(Tail(w)) /\ t \o unsent \in Seq(S)
    BY <1>3, <2>1, <2>4, <2>5, <2>6, <2>7
  <2>9. ASSUME NEW k \in 1..Len(Tail(w)) PROVE (t \o unsent)[k] = Tail(w)[k]
    <3>1. Tail(w)[k] = (link \o unsent)[k + 1]
      BY <2>1, <2>5, <2>6
    <3>2. CASE k <= Len(t)
      BY <1>3, <2>1, <2>4, <2>5, <2>6, <2>7, <3>1, <3>2
    <3>3. CASE k > Len(t)
      BY <1>3, <2>1, <2>4, <2>5, <2>6, <2>7, <3>1, <3>3
    <3>4. QED
      BY <2>1, <2>4, <2>5, <2>6, <2>7, <3>2, <3>3
  <2>10. t \o unsent = Tail(w)
    BY <2>6, <2>8, <2>9, SeqEqual
  <2>11. QED
    BY <2>1, <2>3, <2>5, <2>7, <2>10
<1>5. Threaded' = Threaded
  BY LinkMessagesGrow
<1>6. QED
  BY <1>1, <1>4, <1>5 DEF Pending, InOrder

-----------------------------------------------------------------------------
(* What the upstream will have when it has taken what is pending.            *)
ExactInv ==
  (Apart /\ ~Threaded) => \A c \in Channel :
    Wins(Len(Pending), IsSubscribed(upmap, Down, c), Adding(c), Dropping(c), Pending)
      <=> Somebody(map, c)

KeptInv ==
  ~Threaded => \A p \in Local, i \in Nat :
    Wins(Len(Pending), i \in uppost[p], Posting(p, i), Recalling(p), Pending) <=> Keeps(p, i)

LEMMA WinsSent ==
  ASSUME NEW S, NEW s \in Seq(S), NEW t \in Seq(S), NEW A, NEW D, NEW b, NEW v, NEW w,
         Wins(Len(s), b, A, D, s) <=> v,
         Holds(t, A) => w, Holds(t, D) => ~w, ~Holds(t, A) /\ ~Holds(t, D) => (w <=> v)
  PROVE  Wins(Len(s \o t), b, A, D, s \o t) <=> w
<1>1. CASE Holds(t, D)
  BY <1>1, WinsJoin
<1>2. CASE ~Holds(t, D)
  <2>1. Wins(Len(s \o t), b, A, D, s \o t) <=> Wins(Len(s), b, A, D, s) \/ Holds(t, A)
    BY <1>2, WinsJoin
  <2>2. QED
    BY <1>2, <2>1
<1>3. QED
  BY <1>1, <1>2

LEMMA WinsReceived ==
  ASSUME NEW S, NEW s \in Seq(S), Len(s) >= 1, s # <<>>, NEW A, NEW D, NEW b, NEW d,
         d <=> Head(s) \in A \/ (b /\ Head(s) \notin D)
  PROVE  Wins(Len(Tail(s)), d, A, D, Tail(s)) <=> Wins(Len(s), b, A, D, s)
<1>1. PICK n : n = Len(s)
  OBVIOUS
<1>2. n \in 1..Len(s) /\ Len(Tail(s)) = n - 1
  BY <1>1
<1>3. Wins(n, b, A, D, s) <=> Wins(n - 1, d, A, D, Tail(s))
  BY <1>2, WinsTail
<1>4. QED
  BY <1>1, <1>2, <1>3

LEMMA ExactStep ==
  ASSUME UpstreamInv, InOrder, ExactInv, KeptInv, [Next]_vars
  PROVE  InOrder' /\ ExactInv' /\ KeptInv'
<1>0. /\ MapsInv /\ ParticipantsInv /\ DataInv /\ TokenInv /\ UpstreamTyped
      /\ SentKept
  BY StepKeepsSent DEF UpstreamInv, DeliveryInv, DirectorInv
<1>1. /\ Threaded' = Threaded /\ Apart' = Apart
      /\ \A s \in Seq(LinkMessage) : s \in Seq(LinkMessage')
  BY <1>0, LinkMessagesGrow
<1>2. CASE Threaded
  BY <1>1, <1>2 DEF InOrder, ExactInv, KeptInv
<1>3. ASSUME ~Threaded, NEW msgs, Telling(msgs) PROVE InOrder' /\ ExactInv' /\ KeptInv'
  <2>1. /\ msgs \in Seq(LinkMessage') /\ Send(msgs) /\ UNCHANGED <<upmap, uppost>>
        /\ Apart => Tells(msgs, map, map')
        /\ \A p \in Local, i \in Nat :
             /\ Holds(msgs, Posting(p, i)) => Keeps(p, i)'
             /\ Holds(msgs, Recalling(p)) => ~Keeps(p, i)'
             /\ ~Holds(msgs, Posting(p, i)) /\ ~Holds(msgs, Recalling(p))
                  => (Keeps(p, i)' <=> Keeps(p, i))
    BY <1>3 DEF Telling
  <2>2. Pending' = Pending \o msgs /\ InOrder'
    BY <1>0, <1>3, <2>1, SentIsPending
  <2>3. PICK S : S = LinkMessage'
    OBVIOUS
  <2>4. Pending \in Seq(S) /\ msgs \in Seq(S)
    BY <1>0, <1>1, <2>1, <2>3, PendingTyped
  <2>5. ASSUME Apart, NEW c \in Channel
        PROVE  Wins(Len(Pending'), IsSubscribed(upmap, Down, c), Adding(c), Dropping(c), Pending')
                 <=> Somebody(map', c)
    <3>1. Wins(Len(Pending), IsSubscribed(upmap, Down, c), Adding(c), Dropping(c), Pending)
            <=> Somebody(map, c)
      BY <1>3, <2>5 DEF ExactInv
    <3>2. /\ Holds(msgs, Adding(c)) => Somebody(map', c)
          /\ Holds(msgs, Dropping(c)) => ~Somebody(map', c)
          /\ ~Holds(msgs, Adding(c)) /\ ~Holds(msgs, Dropping(c))
               => (Somebody(map', c) <=> Somebody(map, c))
      BY <2>1, <2>5 DEF Tells
    <3>3. PICK v, w : v = Somebody(map, c) /\ w = Somebody(map', c)
      OBVIOUS
    <3>4. QED
      BY <2>2, <2>4, <3>1, <3>2, <3>3, WinsSent
  <2>6. ASSUME NEW p \in Local, NEW i \in Nat
        PROVE  Wins(Len(Pending'), i \in uppost[p], Posting(p, i), Recalling(p), Pending')
                 <=> Keeps(p, i)'
    <3>1. Wins(Len(Pending), i \in uppost[p], Posting(p, i), Recalling(p), Pending) <=> Keeps(p, i)
      BY <1>3 DEF KeptInv
    <3>2. PICK v, w : v = Keeps(p, i) /\ w = Keeps(p, i)'
      OBVIOUS
    <3>3. /\ Holds(msgs, Posting(p, i)) => w
          /\ Holds(msgs, Recalling(p)) => ~w
          /\ ~Holds(msgs, Posting(p, i)) /\ ~Holds(msgs, Recalling(p)) => (w <=> v)
      BY <2>1, <3>2
    <3>4. QED
      BY <2>2, <2>4, <3>1, <3>2, <3>3, WinsSent
  <2>7. ExactInv' /\ KeptInv'
    BY <1>1, <2>1, <2>5, <2>6 DEF ExactInv, KeptInv
  <2>8. QED
    BY <2>2, <2>7
<1>4. CASE ~Threaded /\ Connect
  <2>1. UNCHANGED <<map, upmap, uppost, post, terminated, deleted>>
    BY <1>4 DEF Connect, subscriptions, upstream
  <2>2. Pending' = Pending /\ InOrder'
    BY <1>0, <1>4, ConnectedIsPending
  <2>3. \A p, i : Keeps(p, i)' <=> Keeps(p, i)
    BY <2>1 DEF Keeps
  <2>4. QED
    BY <1>1, <2>1, <2>2, <2>3 DEF ExactInv, KeptInv
<1>5. CASE ~Threaded /\ UpstreamReceives
  <2>1. /\ upmap' = ApplyControl(upmap, Head(link)) /\ uppost' = ApplyPostRemove(uppost, Head(link))
        /\ UNCHANGED <<map, post, terminated, deleted, sent>>
    BY <1>5 DEF UpstreamReceives, subscriptions
  <2>2. /\ Pending # <<>> /\ Len(Pending) >= 1 /\ Head(Pending) = Head(link)
        /\ Pending' = Tail(Pending) /\ InOrder'
    BY <1>0, <1>5, ReceivedWasPending
  <2>3. PICK S : S = LinkMessage
    OBVIOUS
  <2>4. Pending \in Seq(S) /\ Head(Pending) \in LinkMessage
    BY <1>0, <2>2, <2>3, PendingTyped, HeadAndTail
  <2>5. ASSUME Apart, NEW c \in Channel
        PROVE  Wins(Len(Pending'), IsSubscribed(upmap', Down, c), Adding(c), Dropping(c), Pending')
                 <=> Somebody(map, c)
    <3>1. Wins(Len(Pending), IsSubscribed(upmap, Down, c), Adding(c), Dropping(c), Pending)
            <=> Somebody(map, c)
      BY <1>5, <2>5 DEF ExactInv
    <3>2. PICK b, d : b = IsSubscribed(upmap, Down, c) /\ d = IsSubscribed(upmap', Down, c)
      OBVIOUS
    <3>3. PICK msg : msg = Head(Pending)
      OBVIOUS
    <3>4. IsSubscribed(upmap', Down, c)
            <=> msg \in Adding(c) \/ (IsSubscribed(upmap, Down, c) /\ msg \notin Dropping(c))
      <4>1. msg \in LinkMessage /\ upmap' = ApplyControl(upmap, msg)
        BY <2>1, <2>2, <2>4, <3>3
      <4>2. upmap \in Map /\ MapsAgree(upmap)
            /\ upmap.channels[Down] \subseteq Channels /\ upmap.ranges[Down] \subseteq Covered
        BY <1>0 DEF MapsInv, ConsistentMaps, UpstreamTyped
      <4>3. QED
        BY <1>0, <2>5, <4>1, <4>2, ControlEffect
    <3>5. Wins(Len(Tail(Pending)), d, Adding(c), Dropping(c), Tail(Pending))
            <=> Wins(Len(Pending), b, Adding(c), Dropping(c), Pending)
      BY <2>2, <2>4, <3>2, <3>3, <3>4, WinsReceived
    <3>6. QED
      BY <2>2, <3>1, <3>2, <3>5
  <2>6. ASSUME NEW p \in Local, NEW i \in Nat
        PROVE  Wins(Len(Pending'), i \in uppost'[p], Posting(p, i), Recalling(p), Pending')
                 <=> Keeps(p, i)
    <3>1. Wins(Len(Pending), i \in uppost[p], Posting(p, i), Recalling(p), Pending) <=> Keeps(p, i)
      BY <1>5 DEF KeptInv
    <3>2. PICK b, d : b = (i \in uppost[p]) /\ d = (i \in uppost'[p])
      OBVIOUS
    <3>3. PICK msg : msg = Head(Pending)
      OBVIOUS
    <3>4. i \in uppost'[p] <=> msg \in Posting(p, i) \/ (i \in uppost[p] /\ msg \notin Recalling(p))
      <4>1. msg \in LinkMessage /\ uppost' = ApplyPostRemove(uppost, msg)
        BY <2>1, <2>2, <2>4, <3>3
      <4>2. uppost \in [Local -> SUBSET Ids] /\ Ids \subseteq Nat
        BY <1>0 DEF UpstreamTyped, Ids
      <4>3. QED
        BY <4>1, <4>2, PostRemoveEffect
    <3>5. Wins(Len(Tail(Pending)), d, Posting(p, i), Recalling(p), Tail(Pending))
            <=> Wins(Len(Pending), b, Posting(p, i), Recalling(p), Pending)
      <4>1. d <=> Head(Pending) \in Posting(p, i) \/ (b /\ Head(Pending) \notin Recalling(p))
        BY <3>2, <3>3, <3>4
      <4>2. QED
        BY <2>2, <2>4, <4>1, WinsReceived
    <3>6. QED
      BY <2>2, <3>1, <3>2, <3>5
  <2>7. \A p, i : Keeps(p, i)' <=> Keeps(p, i)
    BY <2>1 DEF Keeps
  <2>8. QED
    BY <1>1, <2>1, <2>2, <2>5, <2>6, <2>7 DEF ExactInv, KeptInv
<1>6. CASE FlushSendQueue
  BY <1>2, <1>6 DEF FlushSendQueue
<1>7. QED
  BY <1>0, <1>2, <1>3, <1>4, <1>5, <1>6, StepTells

ExactnessInv == UpstreamInv /\ InOrder /\ ExactInv /\ KeptInv

LEMMA ExactInitially == Init => ExactnessInv
<1> SUFFICES ASSUME Init PROVE ExactnessInv
  OBVIOUS
<1>1. UpstreamInv /\ InOrder
  BY UpstreamInitially DEF Init, InOrder
<1>2. Pending = <<>> /\ Len(Pending) = 0
  BY DEF Init, Pending
<1>3. ~Holds(<<>>, {}) /\ \A b, A, D : Wins(0, b, A, D, <<>>) <=> b
  BY HoldsSmall DEF Wins
<1>4. ExactInv
  <2>1. Down \in Subscriber /\ Down \notin Remote /\ Local \subseteq Subscriber
    BY MessageDirectorAssumption
  <2>2. \A c : ~IsSubscribed(upmap, Down, c)
    <3>1. /\ upmap.channels = [p \in Subscriber |-> IF p \in Remote THEN {Service} ELSE {}]
          /\ upmap.ranges = [p \in Subscriber |-> {}]
      BY DEF Init, EmptyMap
    <3>2. QED
      BY <2>1, <3>1 DEF IsSubscribed
  <2>3. \A c : ~Somebody(map, c)
    BY <2>1 DEF Init, EmptyMap, Somebody, IsSubscribed
  <2>4. QED
    BY <1>2, <1>3, <2>2, <2>3 DEF ExactInv
<1>5. KeptInv
  <2>1. \A p \in Local : \A i : i \notin uppost[p] /\ ~Keeps(p, i)
    BY DEF Init, Keeps
  <2>2. ASSUME NEW p \in Local, NEW i
        PROVE  ~Wins(0, i \in uppost[p], Posting(p, i), Recalling(p), <<>>) /\ ~Keeps(p, i)
    <3>1. i \notin uppost[p]
      BY <2>1
    <3>2. ~Wins(0, i \in uppost[p], Posting(p, i), Recalling(p), <<>>)
      BY <3>1 DEF Wins
    <3>3. QED
      BY <2>1, <3>2
  <2>3. QED
    BY <1>2, <2>2 DEF KeptInv
<1>6. QED
  BY <1>1, <1>4, <1>5 DEF ExactnessInv

LEMMA ExactnessStep == ExactnessInv /\ [Next]_vars => ExactnessInv'
  BY UpstreamStep, ExactStep DEF ExactnessInv

(* Where no range contains a channel that is subscribed by itself, and       *)
(* without the routing thread, the upstream forwards what somebody here      *)
(* subscribes to and nothing else, once it has taken the messages already    *)
(* sent: on_add_channel, on_remove_channel, on_add_range and on_remove_range *)
(* are called when they must be, and the link keeps their order while it     *)
(* comes up.                                                                 *)
THEOREM UpstreamStaysExact == Spec => []UpstreamIsExact
<1>1. ExactnessInv => UpstreamIsExact
  <2> SUFFICES ASSUME ExactnessInv, Apart, ~Threaded, NEW c \in Channel
               PROVE  IsSubscribed(EventualUpmap, Down, c) <=> \E p \in Local : IsSubscribed(map, p, c)
    BY DEF UpstreamIsExact
  <2>1. MapsInv /\ UpstreamTyped /\ ExactInv
    BY DEF ExactnessInv, UpstreamInv, DeliveryInv, DirectorInv
  <2>2. PICK s : s = Pending
    OBVIOUS
  <2>3. s \in Seq(LinkMessage) /\ EventualUpmap = Taken(upmap, s)
    BY <2>1, <2>2, PendingTyped DEF EventualUpmap, Pending
  <2>4. upmap \in Map /\ MapsAgree(upmap)
        /\ upmap.channels[Down] \subseteq Channels /\ upmap.ranges[Down] \subseteq Covered
    BY <2>1 DEF MapsInv, ConsistentMaps, UpstreamTyped
  <2>5. IsSubscribed(Taken(upmap, s), Down, c)
          <=> Wins(Len(s), IsSubscribed(upmap, Down, c), Adding(c), Dropping(c), s)
    BY <2>1, <2>3, <2>4, TakenWins
  <2>6. QED
    BY <2>1, <2>2, <2>3, <2>5 DEF ExactInv, Somebody
<1>2. QED
  BY <1>1, ExactInitially, ExactnessStep, PTL DEF Spec

-----------------------------------------------------------------------------
(* Datagrams that expect an answer, answers, and post-removes.               *)
DatagramsInv ==
  /\ \A i \in Ids : sent[i].live => /\ sent[i].from \in Local /\ sent[i].reply \in Channel
                                    /\ IsSubscribed(map, sent[i].from, sent[i].reply)
  /\ \A i \in Ids : sent[i].from \in Remote => /\ sent[i].reply \in Ids /\ ~sent[i].bad
                                               /\ sent[i].to = {sent[sent[i].reply].reply}
  /\ \A p \in Local : \A i \in post[p] : ~sent[i].bad

LEMMA DatagramJoins ==
  ASSUME MapsInv, DataInv, DatagramsInv, NEW dg, sent' = Append(sent, dg), UNCHANGED map,
         dg.live => /\ dg.from \in Local /\ dg.reply \in Channel
                    /\ IsSubscribed(map, dg.from, dg.reply),
         dg.from \in Remote => dg.reply \in Ids /\ ~dg.bad /\ dg.to = {sent[dg.reply].reply},
         \A p \in Local : \A i \in post'[p] : i \in post[p] \/ (i = Len(sent) + 1 /\ ~dg.bad)
  PROVE  DatagramsInv'
<1>1. /\ Len(sent) \in Nat /\ sent \in Seq(Datagrams \cup {dg}) /\ dg \in Datagrams \cup {dg}
      /\ post \in [Local -> SUBSET Ids]
  BY DEF DataInv
<1>2. PICK n : n = Len(sent) + 1
  OBVIOUS
<1>3. Ids' = Ids \cup {n} /\ sent'[n] = dg /\ \A i \in Ids : sent'[i] = sent[i]
  <2>1. Len(sent') = n /\ sent'[n] = dg /\ \A i \in 1..Len(sent) : sent'[i] = sent[i]
    BY <1>1, <1>2
  <2>2. QED
    BY <1>1, <1>2, <2>1 DEF Ids
<1>4. ASSUME NEW i \in Ids'
      PROVE  /\ sent'[i].live => /\ sent'[i].from \in Local /\ sent'[i].reply \in Channel
                                 /\ IsSubscribed(map', sent'[i].from, sent'[i].reply)
             /\ sent'[i].from \in Remote => /\ sent'[i].reply \in Ids' /\ ~sent'[i].bad
                                            /\ sent'[i].to = {sent'[sent'[i].reply].reply}
  <2>1. CASE i \in Ids
    BY <1>3, <2>1, ZenonT(60) DEF DatagramsInv
  <2>2. CASE i = n
    BY <1>3, <2>2
  <2>3. QED
    BY <1>3, <2>1, <2>2
<1>5. ASSUME NEW p \in Local, NEW i \in post'[p] PROVE ~sent'[i].bad
  BY <1>1, <1>2, <1>3, ZenonT(60) DEF DatagramsInv
<1>6. QED
  BY <1>4, <1>5 DEF DatagramsInv

LEMMA DatagramsStep ==
  ASSUME MapsInv, DataInv, DatagramsInv, [Next]_vars
  PROVE  DatagramsInv'
<1>1. SentKept /\ Ids \subseteq Ids'
  BY StepKeepsSent DEF SentKept
<1>0. post \in [Local -> SUBSET Ids]
  BY DEF DataInv
<1>2. ASSUME UNCHANGED <<sent, map>>, \A p \in Local : post'[p] \subseteq post[p] PROVE DatagramsInv'
  BY <1>2 DEF DatagramsInv, Ids
<1>3. ASSUME NEW m, TrackReplies(m), map' = m, UNCHANGED post PROVE DatagramsInv'
  <2>1. Ids' = Ids /\ \A i \in Ids :
          /\ sent'[i].from = sent[i].from /\ sent'[i].to = sent[i].to
          /\ sent'[i].reply = sent[i].reply /\ sent'[i].bad = sent[i].bad
          /\ sent'[i].live => /\ sent[i].live /\ sent[i].from \in Local
                              /\ IsSubscribed(m, sent[i].from, sent[i].reply)
    BY <1>3, TrackedLive
  <2>2. ASSUME NEW i \in Ids
        PROVE  /\ sent'[i].live => /\ sent'[i].from \in Local /\ sent'[i].reply \in Channel
                                   /\ IsSubscribed(map', sent'[i].from, sent'[i].reply)
               /\ sent'[i].from \in Remote => /\ sent'[i].reply \in Ids' /\ ~sent'[i].bad
                                              /\ sent'[i].to = {sent'[sent'[i].reply].reply}
    BY <1>3, <2>1 DEF DatagramsInv
  <2>3. \A p \in Local : \A i \in post'[p] : ~sent'[i].bad
    BY <1>0, <1>3, <2>1 DEF DatagramsInv
  <2>4. QED
    BY <2>1, <2>2, <2>3 DEF DatagramsInv
<1>4. ASSUME NEW p \in Alive, Participate(p) PROVE DatagramsInv'
  <2>0. p \in Local /\ p \notin Remote /\ p \in Subscriber
    BY MessageDirectorAssumption DEF Alive
  <2>1. CASE \/ \E c \in Channels : SubscribeTo(p, c) \/ UnsubscribeFrom(p, c)
             \/ \E R \in Ranges : SubscribeToRange(p, R) \/ UnsubscribeFromRange(p, R)
             \/ RemoveParticipant(p)
    <3>1. (\E m, msgs : Change(m, msgs)) /\ UNCHANGED post
      BY <2>1 DEF SubscribeTo, UnsubscribeFrom, SubscribeToRange, UnsubscribeFromRange,
        RemoveParticipant
    <3>2. QED
      BY <1>3, <3>1 DEF Change
  <2>2. ASSUME NEW to, AddPostRemove(p, to) PROVE DatagramsInv'
    <3>1. PICK dg : dg = Datagram(p, to, NoReply, FALSE)
      OBVIOUS
    <3>2. ~dg.live /\ dg.from = p /\ ~dg.bad
      BY <3>1 DEF Datagram
    <3>3. sent' = Append(sent, dg) /\ UNCHANGED map
          /\ post' = [post EXCEPT ![p] = @ \cup {Len(sent) + 1}]
      BY <2>2, <3>1 DEF AddPostRemove, NewDatagram, subscriptions
    <3>4. \A q \in Local : \A i \in post'[q] : i \in post[q] \/ (i = Len(sent) + 1 /\ ~dg.bad)
      BY <1>0, <3>2, <3>3
    <3>5. QED
      BY <2>0, <3>2, <3>3, <3>4, DatagramJoins
  <2>3. CASE ClearPostRemoves(p)
    <3>1. UNCHANGED <<sent, map>> /\ post' = [post EXCEPT ![p] = {}]
      BY <2>3 DEF ClearPostRemoves, subscriptions
    <3>2. \A q \in Local : post'[q] \subseteq post[q]
      BY <1>0, <3>1
    <3>3. QED
      BY <1>2, <3>1, <3>2
  <2>4. ASSUME NEW to, NEW main, RouteDatagram(p, to, main) PROVE DatagramsInv'
    <3>1. PICK reply \in {NoReply} \cup map.channels[p] \cup map.ranges[p], bad \in BOOLEAN :
            NewDatagram(Datagram(p, to, reply, bad))
      BY <2>4 DEF RouteDatagram
    <3>2. PICK dg : dg = Datagram(p, to, reply, bad)
      OBVIOUS
    <3>3. dg.from = p /\ dg.reply = reply /\ (dg.live <=> reply # NoReply)
      BY <3>2 DEF Datagram
    <3>4. sent' = Append(sent, dg) /\ UNCHANGED <<map, post>>
      BY <2>4, <3>1, <3>2 DEF RouteDatagram, NewDatagram, subscriptions
    <3>5. reply # NoReply => reply \in Channel /\ IsSubscribed(map, p, reply)
      BY <2>0 DEF MapsInv, Map, IsSubscribed
    <3>6. QED
      BY <2>0, <3>3, <3>4, <3>5, DatagramJoins
  <2>5. QED
    BY <1>4, <2>1, <2>2, <2>3, <2>4 DEF Participate
<1>5. ASSUME NEW u \in Remote, NEW id \in Ids, Answer(u, id) PROVE DatagramsInv'
  <2>1. PICK dg : dg = [Datagram(u, {sent[id].reply}, id, FALSE) EXCEPT !.live = FALSE]
    OBVIOUS
  <2>2. dg.reply = id /\ ~dg.live /\ ~dg.bad /\ dg.to = {sent[id].reply}
    BY <2>1 DEF Datagram
  <2>3. sent' = Append(sent, dg) /\ UNCHANGED <<map, post>>
    BY <1>5, <2>1 DEF Answer, subscriptions
  <2>4. QED
    BY <2>2, <2>3, DatagramJoins
<1>6. CASE Route \/ Link \/ UNCHANGED vars
  <2>1. UNCHANGED <<sent, map, post>>
    BY <1>6 DEF Route, Link, FlushTask, TakeMessage, StopFlushing, FinishMessage, Deliver,
      DeliverTruncated, Connect, FlushSendQueue, UpstreamReceives, ReceiveFromUpstream,
      subscriptions, vars
  <2>2. QED
    BY <1>2, <2>1
<1>7. QED
  BY <1>4, <1>5, <1>6 DEF Next

-----------------------------------------------------------------------------
(* When the upstream takes a request, it forwards the channel of the answer, *)
(* and goes on to do so while the participant stays subscribed.              *)
Secured(n, c) == Wins(n, IsSubscribed(upmap, Down, c), Adding(c), Dropping(c), Pending)

RequestSecured(k) ==
  Pending[k].kind = "datagram" /\ sent[Pending[k].id].live => Secured(k, sent[Pending[k].id].reply)

AnswerSecured(i, u) == sent[i].live /\ got[i][u] > 0 => Secured(0, sent[i].reply)

SecuredInv ==
  (Apart /\ ~Threaded) =>
    /\ \A k \in 1..Len(Pending) : RequestSecured(k)
    /\ \A i \in Ids, u \in Remote : AnswerSecured(i, u)

LEMMA WinsMonotone ==
  ASSUME NEW n \in Nat, NEW m \in Nat, n <= m, NEW s, NEW A, NEW D, NEW b, Wins(n, b, A, D, s)
  PROVE  Wins(m, b, A, D, s)
BY DEF Wins

(* No datagram is sent upstream in the step that makes it.                   *)
LEMMA RisingIsOld ==
  ASSUME DeliveryInv, UpstreamTyped, [Next]_vars
  PROVE  \A k \in 1..Len(Pending') :
           Pending'[k].kind = "datagram" => Pending'[k].id \in Ids
<1>1. MapsInv /\ ParticipantsInv /\ DataInv /\ TokenInv /\ DeliveryInv' /\ UpstreamTyped'
  BY DeliveryStep, UpstreamStaysTyped DEF DeliveryInv, DirectorInv
<1>2. \A i \in Rising : i \in Ids
  BY <1>1 DEF TokenInv, OriginInv
<1>3. \A i \in Rising' : i \in Ids'
  BY <1>1 DEF DeliveryInv, TokenInv, OriginInv
<1>4. ASSUME NEW p \in Alive, Participate(p) PROVE Rising' \subseteq Ids
  <2>1. ASSUME NEW m, NEW msgs, Change(m, msgs) PROVE Rising' \subseteq Ids
    <3>1. Ids' = Ids
      BY <1>1, <2>1, TrackedLive DEF Change
    <3>2. QED
      BY <1>3, <3>1
  <2>2. ASSUME NEW to, AddPostRemove(p, to) PROVE Rising' \subseteq Ids
    <3>1. PICK msg : /\ msg = PostRemove("add_post_remove", p, {Len(sent) + 1})
                     /\ Send(<<msg>>)
      BY <2>2 DEF AddPostRemove
    <3>2. Good(msg) /\ NoDatagrams(<<msg>>)
      BY <3>1, GoodMessages, ControlsOnly
    <3>3. Rising' = Rising
      BY <1>1, <3>1, <3>2, GoodSingle, ControlsSent DEF TokenInv, PlacesInv
    <3>4. QED
      BY <1>2, <3>3
  <2>3. CASE ClearPostRemoves(p)
    <3>1. sent' = sent
      BY <2>3 DEF ClearPostRemoves
    <3>2. QED
      BY <1>3, <3>1 DEF Ids
  <2>4. ASSUME NEW to, NEW main, RouteDatagram(p, to, main) PROVE Rising' \subseteq Ids
    <3>1. link' = link /\ unsent' = unsent
      BY <2>4 DEF RouteDatagram, upstreamLink
    <3>2. QED
      BY <1>2, <3>1 DEF Rising
  <2>5. CASE \/ \E c \in Channels : SubscribeTo(p, c) \/ UnsubscribeFrom(p, c)
             \/ \E R \in Ranges : SubscribeToRange(p, R) \/ UnsubscribeFromRange(p, R)
             \/ RemoveParticipant(p)
    <3>1. \E m, msgs : Change(m, msgs)
      BY <2>5 DEF SubscribeTo, UnsubscribeFrom, SubscribeToRange, UnsubscribeFromRange,
        RemoveParticipant
    <3>2. QED
      BY <2>1, <3>1
  <2>6. QED
    BY <1>4, <2>2, <2>3, <2>4, <2>5 DEF Participate
<1>5. ASSUME NEW u \in Remote, NEW id \in Ids, Answer(u, id) PROVE Rising' \subseteq Ids
  <2>1. link' = link /\ unsent' = unsent
    BY <1>5 DEF Answer, upstreamLink
  <2>2. QED
    BY <1>2, <2>1 DEF Rising
<1>6. ASSUME Route \/ Link \/ UNCHANGED vars PROVE Rising' \subseteq Ids
  <2>1. sent' = sent
    BY <1>6 DEF Route, Link, FlushTask, TakeMessage, StopFlushing, FinishMessage, Deliver,
      DeliverTruncated, Connect, FlushSendQueue, UpstreamReceives, ReceiveFromUpstream, vars
  <2>2. Ids' = Ids
    BY <2>1 DEF Ids
  <2>3. QED
    BY <1>3, <2>2
<1>7. Rising' \subseteq Ids
  <2>1. \/ \E p \in Alive : Participate(p)
        \/ \E u \in Remote, id \in Ids : Answer(u, id)
        \/ Route \/ Link \/ UNCHANGED vars
    BY DEF Next
  <2>2. QED
    BY <1>4, <1>5, <1>6, <2>1
<1>8. LinkIds(Pending') = Rising'
  <2>1. PICK S : S = LinkMessage'
    OBVIOUS
  <2>2. link' \in Seq(S) /\ unsent' \in Seq(S)
    BY <1>1, <2>1 DEF UpstreamTyped
  <2>3. Pending' = link' \o unsent'
    BY DEF Pending
  <2>4. LinkIds(link' \o unsent') = LinkIds(link') \cup LinkIds(unsent')
    BY <2>2, LinkConcat
  <2>5. QED
    BY <2>3, <2>4 DEF Rising
<1>9. QED
  BY <1>7, <1>8 DEF LinkIds

(* Only the upstream director hands datagrams to its participants.           *)
LEMMA HandedUpstream ==
  ASSUME DataInv, GotInv, MapsInv, [Next]_vars, ~UpstreamReceives
  PROVE  \A i \in Ids', u \in Remote :
           sent'[i].live /\ got'[i][u] > 0 => i \in Ids /\ got[i][u] > 0
<1>1. Len(got) = Len(sent) /\ Len(sent) \in Nat /\ got \in Seq([Subscriber -> Nat])
      /\ Remote \subseteq Subscriber /\ Ids = 1..Len(sent)
  BY MessageDirectorAssumption DEF DataInv, GotInv, Ids
<1>2. ASSUME got' = got, Ids' = Ids PROVE \A i \in Ids', u \in Remote : got'[i][u] > 0 => i \in Ids /\ got[i][u] > 0
  BY <1>2
<1>3. ASSUME NEW dg, NEW g, sent' = Append(sent, dg), got' = Append(got, g),
             ~dg.live \/ \A u \in Remote : g[u] = 0
      PROVE  \A i \in Ids', u \in Remote :
               sent'[i].live /\ got'[i][u] > 0 => i \in Ids /\ got[i][u] > 0
  <2>1. PICK n : n = Len(sent) + 1
    OBVIOUS
  <2>2. /\ sent \in Seq(Datagrams \cup {dg}) /\ dg \in Datagrams \cup {dg}
        /\ got \in Seq([Subscriber -> Nat] \cup {g}) /\ g \in [Subscriber -> Nat] \cup {g}
    BY <1>1 DEF DataInv
  <2>3. Len(sent') = n /\ sent'[n] = dg
    BY <1>1, <1>3, <2>1, <2>2
  <2>4. got'[n] = g /\ \A i \in 1..Len(sent) : got'[i] = got[i]
    BY <1>1, <1>3, <2>1, <2>2
  <2>5. Ids' = Ids \cup {n}
    BY <1>1, <2>1, <2>3 DEF Ids
  <2>6. QED
    BY <1>1, <1>3, <2>3, <2>4, <2>5
<1>4. ASSUME NEW p \in Alive, Participate(p)
      PROVE  \A i \in Ids', u \in Remote :
               sent'[i].live /\ got'[i][u] > 0 => i \in Ids /\ got[i][u] > 0
  <2>1. CASE \/ \E c \in Channels : SubscribeTo(p, c) \/ UnsubscribeFrom(p, c)
             \/ \E R \in Ranges : SubscribeToRange(p, R) \/ UnsubscribeFromRange(p, R)
             \/ RemoveParticipant(p)
    <3>1. PICK m, msgs : Change(m, msgs)
      BY <2>1 DEF SubscribeTo, UnsubscribeFrom, SubscribeToRange, UnsubscribeFromRange,
        RemoveParticipant
    <3>2. got' = got /\ Ids' = Ids
      BY <3>1, TrackedLive DEF Change
    <3>3. QED
      BY <1>2, <3>2
  <2>2. ASSUME NEW to, AddPostRemove(p, to) \/ \E main : RouteDatagram(p, to, main)
        PROVE  \A i \in Ids', u \in Remote :
                 sent'[i].live /\ got'[i][u] > 0 => i \in Ids /\ got[i][u] > 0
    <3>1. PICK dg : NewDatagram(dg)
      BY <2>2 DEF AddPostRemove, RouteDatagram
    <3>2. PICK g : g = [q \in Subscriber |-> 0]
      OBVIOUS
    <3>3. sent' = Append(sent, dg) /\ got' = Append(got, g) /\ \A u \in Remote : g[u] = 0
      BY <1>1, <3>1, <3>2 DEF NewDatagram
    <3>4. QED
      BY <1>3, <3>3
  <2>3. CASE ClearPostRemoves(p)
    BY <1>2, <2>3 DEF ClearPostRemoves, Ids
  <2>4. QED
    BY <1>4, <2>1, <2>2, <2>3 DEF Participate
<1>5. ASSUME NEW v \in Remote, NEW id \in Ids, Answer(v, id)
      PROVE  \A i \in Ids', u \in Remote :
               sent'[i].live /\ got'[i][u] > 0 => i \in Ids /\ got[i][u] > 0
  <2>1. PICK dg : dg = [Datagram(v, {sent[id].reply}, id, FALSE) EXCEPT !.live = FALSE]
    OBVIOUS
  <2>2. ~dg.live
    BY <2>1 DEF Datagram
  <2>3. sent' = Append(sent, dg) /\ \E g : got' = Append(got, g)
    BY <1>5, <2>1 DEF Answer
  <2>4. QED
    BY <1>3, <2>2, <2>3
<1>6. ASSUME NEW p \in Local, Deliver(p) \/ DeliverTruncated(p)
      PROVE  \A i \in Ids', u \in Remote :
               sent'[i].live /\ got'[i][u] > 0 => i \in Ids /\ got[i][u] > 0
  <2>1. got' = [got EXCEPT ![routing.id][p] = @ + 1] /\ Ids' = Ids
    BY <1>6 DEF Deliver, DeliverTruncated, Ids
  <2>2. \A u \in Remote : u # p
    BY MessageDirectorAssumption
  <2>3. \A i \in Ids, u \in Remote : got'[i][u] = got[i][u]
    BY <1>1, <2>1, <2>2
  <2>4. QED
    BY <2>1, <2>3
<1>7. CASE \/ FlushTask \/ TakeMessage \/ StopFlushing \/ FinishMessage
           \/ Connect \/ FlushSendQueue \/ ReceiveFromUpstream \/ UNCHANGED vars
  <2>1. got' = got /\ sent' = sent
    BY <1>7 DEF FlushTask, TakeMessage, StopFlushing, FinishMessage,
      Connect, FlushSendQueue, ReceiveFromUpstream, vars
  <2>2. QED
    BY <1>2, <2>1 DEF Ids
<1>8. QED
  BY <1>4, <1>5, <1>6, <1>7 DEF Next, Route, Link

LEMMA SecuredStep ==
  ASSUME ExactnessInv, DatagramsInv, SecuredInv, [Next]_vars
  PROVE  SecuredInv'
<1>0. /\ MapsInv /\ ParticipantsInv /\ DataInv /\ TokenInv /\ UpstreamTyped /\ UpstreamTyped'
      /\ DeliveryInv /\ SentKept /\ InOrder /\ ExactInv /\ DatagramsInv' /\ GotInv
  BY StepKeepsSent, UpstreamStaysTyped, DatagramsStep
     DEF ExactnessInv, UpstreamInv, DeliveryInv, DirectorInv, TokenInv
<1>1. /\ Threaded' = Threaded /\ Apart' = Apart
      /\ \A s \in Seq(LinkMessage) : s \in Seq(LinkMessage')
  BY <1>0, LinkMessagesGrow
<1>2. /\ Pending \in Seq(LinkMessage) /\ Len(Pending) \in Nat
      /\ \A k \in 1..Len(Pending') : Pending'[k].kind = "datagram" => Pending'[k].id \in Ids
  BY <1>0, PendingTyped, RisingIsOld
<1>3. \A i \in Ids : /\ sent'[i].reply = sent[i].reply
                     /\ sent'[i].live => sent[i].live
  BY <1>0 DEF SentKept
<1>4. \A i \in Ids : sent[i].live => sent[i].reply \in Channel /\ Somebody(map, sent[i].reply)
  BY DEF DatagramsInv, Somebody
<1>5. ASSUME NEW i \in Ids, sent'[i].live PROVE Somebody(map', sent[i].reply)
  <2>1. i \in Ids' /\ sent'[i].reply = sent[i].reply
    BY <1>0, <1>3 DEF SentKept
  <2>2. sent'[i].from \in Local /\ IsSubscribed(map', sent'[i].from, sent'[i].reply)
    BY <1>0, <1>5, <2>1 DEF DatagramsInv
  <2>3. QED
    BY <2>1, <2>2 DEF Somebody
<1>6. SUFFICES ASSUME Apart, ~Threaded
      PROVE  /\ \A k \in 1..Len(Pending') : RequestSecured(k)'
             /\ \A i \in Ids', u \in Remote : AnswerSecured(i, u)'
  BY <1>1 DEF SecuredInv
<1>7. /\ \A k \in 1..Len(Pending) :
           Pending[k].kind = "datagram" /\ sent[Pending[k].id].live
             => Secured(k, sent[Pending[k].id].reply)
      /\ \A i \in Ids, u \in Remote : sent[i].live /\ got[i][u] > 0 => Secured(0, sent[i].reply)
  BY <1>6 DEF SecuredInv, RequestSecured, AnswerSecured
<1>a. ASSUME NEW k, NEW c, c = sent'[Pending'[k].id].reply, Secured(k, c)' PROVE RequestSecured(k)'
  BY <1>a DEF RequestSecured, Secured
<1>b. ASSUME NEW i, NEW u, NEW c, c = sent'[i].reply, Secured(0, c)' PROVE AnswerSecured(i, u)'
  BY <1>b DEF AnswerSecured, Secured
<1>8. ASSUME NEW msgs, Telling(msgs), ~UpstreamReceives
      PROVE  /\ \A k \in 1..Len(Pending') : RequestSecured(k)'
             /\ \A i \in Ids', u \in Remote : AnswerSecured(i, u)'
  <2>1. /\ msgs \in Seq(LinkMessage') /\ Send(msgs) /\ UNCHANGED upmap /\ Tells(msgs, map, map')
    BY <1>6, <1>8 DEF Telling
  <2>2. Pending' = Pending \o msgs
    BY <1>0, <1>6, <2>1, SentIsPending
  <2>3. PICK S : S = LinkMessage'
    OBVIOUS
  <2>4. Pending \in Seq(S) /\ msgs \in Seq(S)
    BY <1>1, <1>2, <2>1, <2>3
  <2>5. ASSUME NEW c \in Channel, Somebody(map', c), NEW n \in 0..Len(Pending), Secured(n, c)
        PROVE  Secured(n, c)'
    <3>1. ~Holds(msgs, Dropping(c))
      BY <2>1, <2>5 DEF Tells
    <3>2. Wins(n, IsSubscribed(upmap, Down, c), Adding(c), Dropping(c), Pending)
      BY <2>5 DEF Secured
    <3>3. Wins(n, IsSubscribed(upmap, Down, c), Adding(c), Dropping(c), Pending \o msgs)
      BY <2>4, <3>1, <3>2, WinsConcat
    <3>4. QED
      BY <2>1, <2>2, <3>3 DEF Secured
  <2>6. Joins(Pending', Pending, msgs) /\ Len(msgs) \in Nat
    BY <2>2, <2>4, ConcatParts
  <2>7. ASSUME NEW k \in 1..Len(Pending'), Pending'[k].kind = "datagram",
               sent'[Pending'[k].id].live
        PROVE  RequestSecured(k)'
    <3>1. PICK i \in Ids : i = Pending'[k].id
      BY <1>2, <2>7
    <3>2. PICK c \in Channel : c = sent[i].reply
      BY <1>3, <1>4, <2>7, <3>1
    <3>3. sent[i].live /\ sent'[i].reply = c /\ Somebody(map', c) /\ Somebody(map, c)
      BY <1>3, <1>4, <1>5, <2>7, <3>1, <3>2
    <3>4. CASE k \in 1..Len(Pending)
      <4>1. Pending'[k] = Pending[k]
        BY <2>6, <3>4 DEF Joins
      <4>2. Secured(k, c)
        BY <1>7, <2>7, <3>1, <3>2, <3>3, <3>4, <4>1
      <4>3. k \in 0..Len(Pending)
        BY <1>2, <3>4
      <4>4. QED
        BY <1>a, <2>5, <3>1, <3>3, <4>2, <4>3
    <3>5. CASE k \notin 1..Len(Pending)
      <4>1. PICK n \in 0..Len(Pending) : n = Len(Pending)
        BY <1>2
      <4>2. Secured(n, c)
        BY <1>0, <1>6, <3>3, <4>1 DEF ExactInv, Secured
      <4>3. Secured(n, c)'
        BY <2>5, <3>3, <4>2
      <4>4. k \in Nat /\ n \in Nat /\ n <= k
        BY <1>2, <2>6, <3>5, <4>1 DEF Joins
      <4>5. PICK b, s : b = IsSubscribed(upmap', Down, c) /\ s = Pending'
        OBVIOUS
      <4>6. Wins(n, b, Adding(c), Dropping(c), s)
        BY <4>3, <4>5 DEF Secured
      <4>7. Wins(k, b, Adding(c), Dropping(c), s)
        BY <4>4, <4>6, WinsMonotone
      <4>8. Secured(k, c)'
        BY <4>5, <4>7 DEF Secured
      <4>9. QED
        BY <1>a, <3>1, <3>3, <4>8
    <3>6. QED
      BY <3>4, <3>5
  <2>8. ASSUME NEW i \in Ids', NEW u \in Remote, sent'[i].live, got'[i][u] > 0
        PROVE  AnswerSecured(i, u)'
    <3>1. i \in Ids /\ got[i][u] > 0
      BY <1>0, <1>8, <2>8, HandedUpstream
    <3>2. sent[i].live /\ sent[i].reply \in Channel /\ sent'[i].reply = sent[i].reply
          /\ Somebody(map', sent[i].reply)
      BY <1>3, <1>4, <1>5, <2>8, <3>1
    <3>3. PICK c \in Channel : c = sent[i].reply
      BY <3>2
    <3>4. Secured(0, c) /\ 0 \in 0..Len(Pending)
      BY <1>2, <1>7, <3>1, <3>2, <3>3
    <3>5. Secured(0, c)'
      BY <2>5, <3>2, <3>3, <3>4
    <3>6. QED
      BY <1>b, <3>2, <3>3, <3>5
  <2>9. \A k \in 1..Len(Pending') : RequestSecured(k)'
    BY <2>7 DEF RequestSecured
  <2>10. \A i \in Ids', u \in Remote : AnswerSecured(i, u)'
    BY <2>8 DEF AnswerSecured
  <2>11. QED
    BY <2>9, <2>10
<1>9. CASE Connect
  <2>1. UNCHANGED <<sent, got, upmap>> /\ Pending' = Pending
    BY <1>0, <1>6, <1>9, ConnectedIsPending DEF Connect, upstream
  <2>2. \A n, c : Secured(n, c)' <=> Secured(n, c)
    BY <2>1 DEF Secured
  <2>3. Ids' = Ids
    BY <2>1 DEF Ids
  <2>4. ASSUME NEW k \in 1..Len(Pending') PROVE RequestSecured(k)'
    BY <1>7, <2>1 DEF RequestSecured, Secured
  <2>5. ASSUME NEW i \in Ids', NEW u \in Remote PROVE AnswerSecured(i, u)'
    BY <1>7, <2>1, <2>3 DEF AnswerSecured, Secured
  <2>6. QED
    BY <2>4, <2>5
<1>10. CASE UpstreamReceives
  <2>1. PICK msg : msg = Head(Pending)
    OBVIOUS
  <2>2. /\ Pending # <<>> /\ Len(Pending) >= 1 /\ msg = Head(link)
        /\ Pending' = Tail(Pending)
    BY <1>0, <1>10, <2>1, ReceivedWasPending
  <2>3. /\ upmap' = ApplyControl(upmap, msg) /\ UNCHANGED sent
        /\ msg.kind # "datagram" => got' = got
        /\ msg.kind = "datagram" => \E g : got' = [got EXCEPT ![msg.id] = g]
    BY <1>10, <2>2 DEF UpstreamReceives
  <2>4. /\ msg \in LinkMessage /\ msg = Pending[1] /\ Len(Tail(Pending)) = Len(Pending) - 1
        /\ \A k \in 1..(Len(Pending) - 1) : Tail(Pending)[k] = Pending[k + 1]
    BY <1>2, <2>1, <2>2
  <2>5. ASSUME NEW c \in Channel, NEW n \in 1..Len(Pending), Secured(n, c)
        PROVE  Secured(n - 1, c)'
    <3>1. PICK b, d : b = IsSubscribed(upmap, Down, c) /\ d = IsSubscribed(upmap', Down, c)
      OBVIOUS
    <3>2. d <=> msg \in Adding(c) \/ (b /\ msg \notin Dropping(c))
      <4>1. upmap \in Map /\ MapsAgree(upmap)
            /\ upmap.channels[Down] \subseteq Channels /\ upmap.ranges[Down] \subseteq Covered
        BY <1>0 DEF MapsInv, ConsistentMaps, UpstreamTyped
      <4>2. IsSubscribed(ApplyControl(upmap, msg), Down, c)
              <=> msg \in Adding(c) \/ (IsSubscribed(upmap, Down, c) /\ msg \notin Dropping(c))
        BY <1>0, <1>6, <2>4, <4>1, ControlEffect
      <4>3. QED
        BY <2>3, <3>1, <4>2
    <3>3. d <=> Head(Pending) \in Adding(c) \/ (b /\ Head(Pending) \notin Dropping(c))
      BY <2>1, <3>2
    <3>4. Wins(n, b, Adding(c), Dropping(c), Pending)
      BY <2>5, <3>1 DEF Secured
    <3>5. PICK S : S = LinkMessage
      OBVIOUS
    <3>6. Wins(n - 1, d, Adding(c), Dropping(c), Tail(Pending))
      BY <1>2, <2>2, <3>3, <3>4, <3>5, WinsTail
    <3>7. QED
      BY <2>2, <3>1, <3>6 DEF Secured
  <2>6. Ids' = Ids
    BY <2>3 DEF Ids
  <2>7. ASSUME NEW k \in 1..Len(Pending'), Pending'[k].kind = "datagram",
               sent'[Pending'[k].id].live
        PROVE  RequestSecured(k)'
    <3>1. k + 1 \in 1..Len(Pending) /\ Pending'[k] = Pending[k + 1] /\ (k + 1) - 1 = k
      BY <1>2, <2>2, <2>4
    <3>2. PICK i \in Ids : i = Pending'[k].id
      BY <1>2, <2>7
    <3>3. sent[i].live /\ sent[i].reply \in Channel
      BY <1>3, <1>4, <2>7, <3>2
    <3>4. PICK c \in Channel : c = sent[i].reply
      BY <3>3
    <3>5. Secured(k + 1, c)
      BY <1>7, <2>7, <3>1, <3>2, <3>3, <3>4
    <3>6. Secured((k + 1) - 1, c)'
      BY <2>5, <3>1, <3>5
    <3>7. QED
      BY <1>a, <2>3, <3>1, <3>2, <3>4, <3>6
  <2>8. ASSUME NEW i \in Ids, NEW u \in Remote, sent[i].live, got'[i][u] > 0
        PROVE  AnswerSecured(i, u)'
    <3>1. PICK c \in Channel : c = sent[i].reply
      BY <1>4, <2>8
    <3>2. Secured(1, c)
      <4>1. CASE got[i][u] > 0
        <5>1. Secured(0, c)
          BY <1>7, <2>8, <3>1, <4>1
        <5>2. QED
          BY <5>1, WinsMonotone DEF Secured
      <4>2. CASE ~(got[i][u] > 0)
        <5>1. msg.kind = "datagram" /\ msg.id = i
          <6>1. got'[i] # got[i]
            BY <2>8, <4>2
          <6>2. got \in Seq([Subscriber -> Nat]) /\ i \in 1..Len(got)
            BY <1>0 DEF GotInv, Ids
          <6>3. QED
            BY <2>3, <6>1, <6>2
        <5>2. Pending[1].kind = "datagram" /\ Pending[1].id = i /\ 1 \in 1..Len(Pending)
          BY <1>2, <2>2, <2>4, <5>1
        <5>3. QED
          BY <1>7, <2>8, <3>1, <5>2
      <4>3. QED
        BY <4>1, <4>2
    <3>3. 1 \in 1..Len(Pending) /\ 1 - 1 = 0
      BY <1>2, <2>2
    <3>4. Secured(1 - 1, c)'
      BY <2>5, <3>2, <3>3
    <3>5. QED
      BY <1>b, <2>3, <3>1, <3>3, <3>4
  <2>9. \A k \in 1..Len(Pending') : RequestSecured(k)'
    BY <2>7 DEF RequestSecured
  <2>10. \A i \in Ids', u \in Remote : AnswerSecured(i, u)'
    BY <2>3, <2>6, <2>8 DEF AnswerSecured
  <2>11. QED
    BY <2>9, <2>10
<1>11. CASE FlushSendQueue
  BY <1>6, <1>11 DEF FlushSendQueue
<1>12. QED
  BY <1>0, <1>8, <1>9, <1>10, <1>11, StepTells

-----------------------------------------------------------------------------
(* What a step never takes back.                                             *)
LEMMA GotGrows ==
  ASSUME MapsInv, DataInv, GotInv, [Next]_vars
  PROVE  \A i \in Ids, p \in Subscriber : got'[i][p] >= got[i][p]
<1>1. /\ got \in Seq([Subscriber -> Nat]) /\ Ids = 1..Len(got) /\ Len(got) \in Nat
      /\ Remote \subseteq Subscriber /\ Local \subseteq Subscriber
      /\ \A i \in Ids, p \in Subscriber : got[i][p] \in Nat
  BY MessageDirectorAssumption DEF DataInv, GotInv, Ids
<1>2. ASSUME got' = got PROVE \A i \in Ids, p \in Subscriber : got'[i][p] >= got[i][p]
  BY <1>1, <1>2
<1>3. ASSUME NEW g, got' = Append(got, g)
      PROVE  \A i \in Ids, p \in Subscriber : got'[i][p] >= got[i][p]
  <2>1. got \in Seq([Subscriber -> Nat] \cup {g}) /\ g \in [Subscriber -> Nat] \cup {g}
    BY <1>1
  <2>2. \A i \in 1..Len(got) : got'[i] = got[i]
    BY <1>3, <2>1
  <2>3. QED
    BY <1>1, <2>2
<1>4. ASSUME NEW p \in Local, Deliver(p) \/ DeliverTruncated(p)
      PROVE  \A i \in Ids, q \in Subscriber : got'[i][q] >= got[i][q]
  <2>1. got' = [got EXCEPT ![routing.id][p] = @ + 1]
    BY <1>4 DEF Deliver, DeliverTruncated
  <2>2. ASSUME NEW i \in Ids, NEW q \in Subscriber
        PROVE  got'[i][q] >= got[i][q]
    <3>1. got'[i][q] = got[i][q] \/ got'[i][q] = got[i][q] + 1
      BY <1>1, <2>1
    <3>2. QED
      BY <1>1, <3>1
  <2>3. QED
    BY <2>2
<1>5. CASE UpstreamReceives
  <2>1. PICK i, to : \/ got' = got
                     \/ got' = [got EXCEPT ![i] =
                                  [p \in Subscriber |-> IF p \in to THEN @[p] + 1 ELSE @[p]]]
    <3>1. PICK i, to : i = Head(link).id /\ to = Receivers(upmap, Down, sent[Head(link).id].to)
      OBVIOUS
    <3>2. \/ got' = got
          \/ got' = [got EXCEPT ![i] = [p \in Subscriber |-> IF p \in to THEN @[p] + 1 ELSE @[p]]]
      BY <1>5, <3>1 DEF UpstreamReceives
    <3>3. QED
      BY <3>2
  <2>2. CASE got' = got
    BY <1>2, <2>2
  <2>3. CASE got' = [got EXCEPT ![i] = [p \in Subscriber |-> IF p \in to THEN @[p] + 1 ELSE @[p]]]
    <3>1. ASSUME NEW j \in Ids, NEW q \in Subscriber
          PROVE  got'[j][q] >= got[j][q]
      <4>1. CASE j = i
        <5>1. got'[j] = [p \in Subscriber |-> IF p \in to THEN got[j][p] + 1 ELSE got[j][p]]
          BY <1>1, <2>3, <4>1
        <5>2. got'[j][q] = got[j][q] \/ got'[j][q] = got[j][q] + 1
          BY <5>1
        <5>3. QED
          BY <1>1, <5>2
      <4>2. CASE j # i
        <5>1. got'[j] = got[j]
          BY <1>1, <2>3, <4>2
        <5>2. QED
          BY <1>1, <5>1
      <4>3. QED
        BY <4>1, <4>2
    <3>2. QED
      BY <3>1
  <2>4. QED
    BY <2>1, <2>2, <2>3
<1>6. ASSUME NEW p \in Alive, Participate(p)
      PROVE  \A i \in Ids, q \in Subscriber : got'[i][q] >= got[i][q]
  <2>1. got' = got \/ \E g : got' = Append(got, g)
    <3>1. CASE \/ \E c \in Channels : SubscribeTo(p, c) \/ UnsubscribeFrom(p, c)
               \/ \E R \in Ranges : SubscribeToRange(p, R) \/ UnsubscribeFromRange(p, R)
               \/ RemoveParticipant(p)
      BY <3>1 DEF SubscribeTo, UnsubscribeFrom, SubscribeToRange, UnsubscribeFromRange,
        RemoveParticipant, Change
    <3>2. CASE \E to \in Destinations : AddPostRemove(p, to)
      BY <3>2 DEF AddPostRemove, NewDatagram
    <3>3. CASE ClearPostRemoves(p)
      BY <3>3 DEF ClearPostRemoves
    <3>4. CASE \E to \in Destinations, main \in BOOLEAN : RouteDatagram(p, to, main)
      BY <3>4 DEF RouteDatagram, NewDatagram
    <3>5. QED
      BY <1>6, <3>1, <3>2, <3>3, <3>4 DEF Participate
  <2>2. QED
    BY <1>2, <1>3, <2>1
<1>7. ASSUME NEW u, NEW id, Answer(u, id)
      PROVE  \A i \in Ids, q \in Subscriber : got'[i][q] >= got[i][q]
  <2>1. \E g : got' = Append(got, g)
    BY <1>7 DEF Answer
  <2>2. QED
    BY <1>3, <2>1
<1>8. CASE \/ FlushTask \/ TakeMessage \/ StopFlushing \/ FinishMessage
           \/ Connect \/ FlushSendQueue \/ ReceiveFromUpstream \/ UNCHANGED vars
  <2>1. got' = got
    BY <1>8 DEF FlushTask, TakeMessage, StopFlushing, FinishMessage,
      Connect, FlushSendQueue, ReceiveFromUpstream, vars
  <2>2. QED
    BY <1>2, <2>1
<1>9. QED
  BY <1>4, <1>5, <1>6, <1>7, <1>8 DEF Next, Route, Link

LEMMA RemovedAreAllQueued ==
  ASSUME DataInv, NEW p \in Alive, RemoveParticipant(p)
  PROVE  Queued' = Queued \cup post[p] /\ Alive' = Alive \ {p}
<1>1. p \in Local /\ post[p] \subseteq Ids /\ IsFiniteSet(Ids) /\ Ids \subseteq Nat
  BY FS_Interval DEF Alive, Ids, DataInv
<1>2. IsFiniteSet(post[p])
  BY <1>1, FS_Subset
<1>3. PICK P : P = SetToSeq(post[p])
  OBVIOUS
<1>4. /\ Len(P) \in Nat /\ \A k \in 1..Len(P) : P[k] \in post[p]
      /\ \A i \in post[p] : \E k \in 1..Len(P) : P[k] = i
  BY <1>2, <1>3, SetToSeqComplete
<1>5. PICK routed : routed = [k \in 1..Len(P) |-> [from |-> p, id |-> P[k]]]
  OBVIOUS
<1>6. m_messages' = m_messages \o routed
  BY <1>3, <1>5 DEF RemoveParticipant
<1>7. PICK S : S = [from : Local \cup {Upstream}, id : Ids]
  OBVIOUS
<1>8. m_messages \in Seq(S) /\ routed \in Seq(S)
  <2>1. m_messages \in Seq(S)
    BY <1>7 DEF DataInv, Message
  <2>2. \A k \in 1..Len(P) : [from |-> p, id |-> P[k]] \in S
    BY <1>1, <1>4, <1>7
  <2>3. QED
    BY <1>4, <1>5, <2>1, <2>2
<1>9. QueueIds(m_messages \o routed) = QueueIds(m_messages) \cup QueueIds(routed)
  BY <1>8, QueueConcat
<1>10. QueueIds(routed) = post[p]
  <2>1. Len(routed) = Len(P) /\ \A k \in 1..Len(P) : routed[k].id = P[k]
    BY <1>4, <1>5
  <2>2. QED
    BY <1>4, <2>1 DEF QueueIds
<1>11. Alive' = Alive \ {p}
  <2>1. \/ terminated' = terminated \cup {p} /\ UNCHANGED <<leaving, deleted>>
        \/ leaving' = leaving \cup {p} /\ UNCHANGED <<terminated, deleted>>
    BY DEF RemoveParticipant, MarkForDeletion
  <2>2. QED
    BY <2>1 DEF Alive
<1>12. QED
  BY <1>6, <1>9, <1>10, <1>11 DEF Queued

LEMMA PlacesGrow ==
  ASSUME DataInv, [Next]_vars
  PROVE  /\ ~TakeMessage => Queued \subseteq Queued'
         /\ ~ReceiveFromUpstream => Returning \subseteq Returning'
<1>1. ASSUME m_messages' = m_messages PROVE Queued \subseteq Queued'
  BY <1>1 DEF Queued
<1>2. ASSUME NEW msg, m_messages' = Append(m_messages, msg) PROVE Queued \subseteq Queued'
  <2>1. m_messages \in Seq(Message \cup {msg}) /\ msg \in Message \cup {msg}
    BY DEF DataInv
  <2>2. QueueIds(Append(m_messages, msg)) = QueueIds(m_messages) \cup {msg.id}
    BY <2>1, QueueAppend
  <2>3. QED
    BY <1>2, <2>2 DEF Queued
<1>3. ASSUME back' = back PROVE Returning \subseteq Returning'
  BY <1>3 DEF Returning
<1>4. ASSUME NEW id, back' = Append(back, id) PROVE Returning \subseteq Returning'
  <2>1. back \in Seq(Ids \cup {id}) /\ id \in Ids \cup {id}
    BY DEF DataInv
  <2>2. BackIds(Append(back, id)) = BackIds(back) \cup {id}
    BY <2>1, BackAppend
  <2>3. QED
    BY <1>4, <2>2 DEF Returning
<1>5. ASSUME NEW p \in Alive, Participate(p)
      PROVE  Queued \subseteq Queued' /\ Returning \subseteq Returning'
  <2>1. CASE RemoveParticipant(p)
    <3>1. back' = back
      BY <2>1 DEF RemoveParticipant, Change, upstream
    <3>2. QED
      BY <1>3, <2>1, <3>1, RemovedAreAllQueued
  <2>2. CASE \E to \in Destinations, main \in BOOLEAN : RouteDatagram(p, to, main)
    <3>1. back' = back /\ \E msg : m_messages' = Append(m_messages, msg)
      BY <2>2 DEF RouteDatagram, Enqueue, upstream
    <3>2. QED
      BY <1>2, <1>3, <3>1
  <2>3. CASE \/ \E c \in Channels : SubscribeTo(p, c) \/ UnsubscribeFrom(p, c)
             \/ \E R \in Ranges : SubscribeToRange(p, R) \/ UnsubscribeFromRange(p, R)
             \/ \E to \in Destinations : AddPostRemove(p, to)
             \/ ClearPostRemoves(p)
    <3>1. back' = back /\ m_messages' = m_messages
      BY <2>3 DEF SubscribeTo, UnsubscribeFrom, SubscribeToRange, UnsubscribeFromRange, Change,
        AddPostRemove, ClearPostRemoves, queues, upstream
    <3>2. QED
      BY <1>1, <1>3, <3>1
  <2>4. QED
    BY <1>5, <2>1, <2>2, <2>3 DEF Participate
<1>6. ASSUME NEW u, NEW id, Answer(u, id)
      PROVE  Queued \subseteq Queued' /\ Returning \subseteq Returning'
  <2>1. m_messages' = m_messages /\ (back' = back \/ \E i : back' = Append(back, i))
    BY <1>6 DEF Answer, queues
  <2>2. QED
    BY <1>1, <1>3, <1>4, <2>1
<1>7. CASE TakeMessage
  <2>1. back' = back /\ ~ReceiveFromUpstream
    <3>1. back' = back /\ m_messages # <<>> /\ m_messages' = Tail(m_messages)
      BY <1>7 DEF TakeMessage, upstream
    <3>2. Len(m_messages') = Len(m_messages) - 1 /\ Len(m_messages) \in Nat
      BY <3>1 DEF DataInv
    <3>3. ASSUME ReceiveFromUpstream PROVE FALSE
      <4>1. PICK msg : m_messages' = Append(m_messages, msg)
        BY <3>3 DEF ReceiveFromUpstream, Enqueue
      <4>2. m_messages \in Seq(Message \cup {msg}) /\ msg \in Message \cup {msg}
        BY DEF DataInv
      <4>3. Len(m_messages') = Len(m_messages) + 1
        BY <4>1, <4>2
      <4>4. QED
        BY <3>2, <4>3
    <3>4. QED
      BY <3>1, <3>3
  <2>2. QED
    BY <1>3, <1>7, <2>1
<1>8. CASE ReceiveFromUpstream
  <2>1. \E msg : m_messages' = Append(m_messages, msg)
    BY <1>8 DEF ReceiveFromUpstream, Enqueue
  <2>2. QED
    BY <1>2, <1>8, <2>1
<1>9. CASE \/ FlushTask \/ StopFlushing \/ FinishMessage
           \/ \E p \in Local : Deliver(p) \/ DeliverTruncated(p)
           \/ Connect \/ FlushSendQueue \/ UNCHANGED vars
  <2>1. back' = back /\ m_messages' = m_messages
    BY <1>9 DEF FlushTask, StopFlushing, FinishMessage, Deliver, DeliverTruncated,
      Connect, FlushSendQueue, vars, queues, upstream
  <2>2. QED
    BY <1>1, <1>3, <2>1
<1>10. CASE UpstreamReceives
  <2>1. m_messages' = m_messages /\ (back' = back \/ \E i : back' = Append(back, i))
    BY <1>10 DEF UpstreamReceives, queues
  <2>2. QED
    BY <1>1, <1>3, <1>4, <2>1
<1>11. QED
  BY <1>5, <1>6, <1>7, <1>8, <1>9, <1>10 DEF Next, Route, Link

-----------------------------------------------------------------------------
(* Where an answer is that its asker has not been handed yet.                *)
AtDirector(i, p) == routing # Idle /\ routing.id = i /\ p \in routing.to

Underway(i, p) == got[i][p] > 0 \/ i \in Returning \/ i \in Queued \/ AtDirector(i, p)

LEMMA RoutingRests ==
  ASSUME [Next]_vars, routing # Idle
  PROVE  \/ routing' = routing
         \/ \E p \in Local : Deliver(p) \/ DeliverTruncated(p)
         \/ FinishMessage
<1>1. ASSUME NEW p \in Alive, Participate(p) PROVE routing' = routing
  BY <1>1 DEF Participate, SubscribeTo, UnsubscribeFrom, SubscribeToRange, UnsubscribeFromRange,
    RemoveParticipant, Change, AddPostRemove, ClearPostRemoves, RouteDatagram
<1>2. CASE \/ FlushTask \/ TakeMessage \/ StopFlushing
           \/ Connect \/ FlushSendQueue \/ UpstreamReceives \/ ReceiveFromUpstream
           \/ UNCHANGED vars \/ \E u \in Remote, id \in Ids : Answer(u, id)
  BY <1>2 DEF FlushTask, TakeMessage, StopFlushing, Connect, FlushSendQueue, UpstreamReceives,
    ReceiveFromUpstream, Answer, vars
<1>3. QED
  BY <1>1, <1>2 DEF Next, Route, Link

LEMMA UnderwayStep ==
  ASSUME MapsInv, DataInv, TokenInv, TokenInv', [Next]_vars,
         NEW i \in Ids, NEW p \in Local, NEW c \in Channel,
         sent[i].from \in Remote, ~sent[i].bad, sent[i].to = {c}, IsSubscribed(map, p, c),
         Underway(i, p)
  PROVE  Underway(i, p)'
<1>1. /\ p \in Subscriber /\ p # Upstream /\ sent[i].from \notin Local
      /\ GotInv /\ OriginInv /\ PlacesInv
  BY MessageDirectorAssumption DEF TokenInv
<1>2. got[i][p] \in Nat /\ got'[i][p] >= got[i][p]
  <2>1. got \in Seq([Subscriber -> Nat]) /\ i \in 1..Len(got)
    BY <1>1 DEF GotInv, Ids
  <2>2. QED
    BY <1>1, <2>1, GotGrows
<1>3. ASSUME got[i][p] > 0 PROVE Underway(i, p)'
  <2>1. got'[i][p] > 0
    <3>1. got' \in Seq([Subscriber -> Nat]) /\ i \in 1..Len(got')
      <4>1. Ids \subseteq Ids'
        BY StepKeepsSent DEF SentKept
      <4>2. QED
        BY <4>1 DEF TokenInv, GotInv, Ids
    <3>2. got'[i][p] \in Nat
      BY <1>1, <3>1
    <3>3. QED
      BY <1>2, <1>3, <3>2
  <2>2. QED
    BY <2>1 DEF Underway
<1>4. CASE i \in Returning
  <2>1. CASE ReceiveFromUpstream
    <3>1. /\ back # <<>> /\ back' = Tail(back)
          /\ m_messages' = Append(m_messages, [from |-> Upstream, id |-> Head(back)])
      BY <2>1 DEF ReceiveFromUpstream, Enqueue
    <3>2. back \in Seq(Ids) /\ BackOnce(back)
      BY <1>1 DEF DataInv, PlacesInv
    <3>3. Returning' = Returning \ {Head(back)} /\ Head(back) \in Ids
      BY <3>1, <3>2, BackTail DEF Returning
    <3>4. Queued' = Queued \cup {Head(back)}
      <4>1. PICK msg : msg = [from |-> Upstream, id |-> Head(back)]
        OBVIOUS
      <4>2. m_messages \in Seq(Message) /\ msg \in Message /\ msg.id = Head(back)
        BY <3>3, <4>1 DEF DataInv, Message
      <4>3. QueueIds(Append(m_messages, msg)) = QueueIds(m_messages) \cup {msg.id}
        BY <4>2, QueueAppend
      <4>4. QED
        BY <3>1, <4>1, <4>2, <4>3 DEF Queued
    <3>5. i \in Returning' \/ i \in Queued'
      BY <1>4, <3>3, <3>4
    <3>6. QED
      BY <3>5 DEF Underway
  <2>2. CASE ~ReceiveFromUpstream
    <3>1. i \in Returning'
      BY <1>4, <2>2, PlacesGrow
    <3>2. QED
      BY <3>1 DEF Underway
  <2>3. QED
    BY <2>1, <2>2
<1>5. CASE i \in Queued
  <2>1. CASE TakeMessage
    <3>1. PICK msg : msg = Head(m_messages)
      OBVIOUS
    <3>2. /\ m_messages # <<>> /\ m_messages' = Tail(m_messages)
          /\ routing' = [step |-> "deliver", from |-> msg.from, id |-> msg.id,
                         to |-> Receivers(map, msg.from, sent[msg.id].to)]
      BY <2>1, <3>1 DEF TakeMessage
    <3>3. m_messages \in Seq(Honest) /\ QueueOnce(m_messages)
      BY <1>1 DEF OriginInv, PlacesInv
    <3>4. Queued' = Queued \ {msg.id} /\ msg \in Honest
      BY <3>1, <3>2, <3>3, QueueTail, HeadAndTail DEF Queued
    <3>5. ASSUME i = msg.id PROVE AtDirector(i, p)'
      <4>1. msg.from = Upstream
        BY <1>1, <3>4, <3>5 DEF Honest, Source
      <4>2. map \in Map /\ MapsAgree(map)
        BY DEF MapsInv, ConsistentMaps
      <4>3. p \in LookupChannels(map, {c})
        BY <1>1, <4>2, LookupIsExact
      <4>4. p \in Receivers(map, Upstream, {c})
        BY <1>1, <4>3 DEF Receivers
      <4>5. routing'.step = "deliver" /\ routing'.id = i
            /\ routing'.to = Receivers(map, Upstream, {c})
        BY <3>2, <3>5, <4>1
      <4>6. routing' # Idle
        BY <4>5 DEF Idle
      <4>7. QED
        BY <4>4, <4>5, <4>6 DEF AtDirector
    <3>6. CASE i = msg.id
      BY <3>5, <3>6 DEF Underway
    <3>7. CASE i # msg.id
      <4>1. i \in Queued'
        BY <1>5, <3>4, <3>7
      <4>2. QED
        BY <4>1 DEF Underway
    <3>8. QED
      BY <3>6, <3>7
  <2>2. CASE ~TakeMessage
    <3>1. i \in Queued'
      BY <1>5, <2>2, PlacesGrow
    <3>2. QED
      BY <3>1 DEF Underway
  <2>3. QED
    BY <2>1, <2>2
<1>6. CASE AtDirector(i, p)
  <2>1. routing # Idle /\ routing.id = i /\ p \in routing.to /\ routing \in Routing
    BY <1>6 DEF AtDirector, DataInv
  <2>2. CASE routing' = routing
    <3>1. AtDirector(i, p)'
      BY <2>1, <2>2 DEF AtDirector
    <3>2. QED
      BY <3>1 DEF Underway
  <2>3. ASSUME NEW q \in Local, Deliver(q) PROVE Underway(i, p)'
    <3>1. routing' = [routing EXCEPT !.to = @ \ {q}] /\ got' = [got EXCEPT ![i][q] = @ + 1]
      BY <2>1, <2>3 DEF Deliver
    <3>2. CASE p = q
      <4>1. got'[i][p] = got[i][p] + 1
        <5>1. got \in Seq([Subscriber -> Nat]) /\ i \in 1..Len(got)
          BY <1>1 DEF GotInv, Ids
        <5>2. QED
          BY <1>1, <3>1, <3>2, <5>1
      <4>2. got'[i][p] > 0
        BY <1>2, <4>1
      <4>3. QED
        BY <4>2 DEF Underway
    <3>3. CASE p # q
      <4>1. routing'.step = "deliver" /\ routing'.id = i /\ p \in routing'.to
        BY <2>1, <3>1, <3>3 DEF Routing
      <4>2. routing' # Idle
        BY <4>1 DEF Idle
      <4>3. AtDirector(i, p)'
        BY <4>1, <4>2 DEF AtDirector
      <4>4. QED
        BY <4>3 DEF Underway
    <3>4. QED
      BY <3>2, <3>3
  <2>4. ASSUME NEW q \in Local, DeliverTruncated(q) PROVE FALSE
    BY <2>1, <2>4 DEF DeliverTruncated
  <2>5. ASSUME FinishMessage PROVE FALSE
    BY <2>1, <2>5 DEF FinishMessage
  <2>6. QED
    BY <2>1, <2>2, <2>3, <2>4, <2>5, RoutingRests
<1>7. QED
  BY <1>3, <1>4, <1>5, <1>6 DEF Underway

(* An answer is sent when the upstream forwards its channel.                 *)
LEMMA AnswerIsUnderway ==
  ASSUME MapsInv, DataInv, TokenInv, DatagramsInv, SecuredInv, Apart, ~Threaded,
         NEW u \in Remote, NEW id \in Ids, Answer(u, id), sent[id].live
  PROVE  Len(sent) + 1 \in Returning'
<1>1. PICK c : c = sent[id].reply
  OBVIOUS
<1>2. c \in Channel /\ got[id][u] > 0
  BY <1>1 DEF DatagramsInv, Answer
<1>3. Secured(0, c)
  BY <1>1, <1>2 DEF SecuredInv, AnswerSecured
<1>4. IsSubscribed(upmap, Down, c)
  <2>1. \A k : k \notin 1..0
    OBVIOUS
  <2>2. QED
    BY <1>3, <2>1 DEF Secured, Wins
<1>5. Down \in Receivers(upmap, u, {c})
  <2>1. upmap \in Map /\ MapsAgree(upmap) /\ Down \in Subscriber /\ Down # u
    BY MessageDirectorAssumption DEF MapsInv, ConsistentMaps
  <2>2. Down \in LookupChannels(upmap, {c})
    BY <1>2, <1>4, <2>1, LookupIsExact
  <2>3. QED
    BY <2>1, <2>2 DEF Receivers
<1>6. back' = Append(back, Len(sent) + 1)
  BY <1>1, <1>5 DEF Answer
<1>7. PICK n : n = Len(sent) + 1
  OBVIOUS
<1>8. back \in Seq(Ids \cup {n}) /\ n \in Ids \cup {n}
  BY DEF DataInv
<1>9. BackIds(Append(back, n)) = BackIds(back) \cup {n}
  BY <1>8, BackAppend
<1>10. QED
  BY <1>6, <1>7, <1>9 DEF Returning

LEMMA NewAnswers ==
  ASSUME DataInv, [Next]_vars, NEW i \in Ids' \ Ids, sent'[i].from \in Remote
  PROVE  \E u \in Remote, id \in Ids :
           Answer(u, id) /\ i = Len(sent) + 1 /\ sent'[i].reply = id
<1>1. Len(sent) \in Nat /\ Ids = 1..Len(sent)
  BY DEF DataInv, Ids
<1>2. ASSUME NEW dg, sent' = Append(sent, dg) PROVE i = Len(sent) + 1 /\ sent'[i] = dg
  <2>1. sent \in Seq(Datagrams \cup {dg}) /\ dg \in Datagrams \cup {dg}
    BY DEF DataInv
  <2>2. Len(sent') = Len(sent) + 1 /\ sent'[Len(sent) + 1] = dg
    BY <1>2, <2>1
  <2>3. Ids' = 1..(Len(sent) + 1)
    BY <2>2 DEF Ids
  <2>4. i = Len(sent) + 1
    BY <1>1, <2>3
  <2>5. QED
    BY <2>2, <2>4
<1>3. ASSUME NEW p \in Alive, Participate(p) PROVE FALSE
  <2>1. p \notin Remote
    BY MessageDirectorAssumption DEF Alive
  <2>2. ASSUME NEW to, AddPostRemove(p, to) \/ \E main : RouteDatagram(p, to, main) PROVE FALSE
    <3>1. PICK reply, bad : NewDatagram(Datagram(p, to, reply, bad))
      BY <2>2 DEF AddPostRemove, RouteDatagram
    <3>2. PICK dg : dg = Datagram(p, to, reply, bad)
      OBVIOUS
    <3>3. dg.from = p /\ sent' = Append(sent, dg)
      BY <3>1, <3>2 DEF Datagram, NewDatagram
    <3>4. QED
      BY <1>2, <2>1, <3>3
  <2>3. CASE \/ \E c \in Channels : SubscribeTo(p, c) \/ UnsubscribeFrom(p, c)
             \/ \E R \in Ranges : SubscribeToRange(p, R) \/ UnsubscribeFromRange(p, R)
             \/ RemoveParticipant(p)
    <3>1. PICK m, msgs : Change(m, msgs)
      BY <2>3 DEF SubscribeTo, UnsubscribeFrom, SubscribeToRange, UnsubscribeFromRange,
        RemoveParticipant
    <3>2. Ids' = Ids
      BY <3>1, TrackedLive DEF Change
    <3>3. QED
      BY <3>2
  <2>4. CASE ClearPostRemoves(p)
    BY <2>4 DEF ClearPostRemoves, Ids
  <2>5. QED
    BY <1>3, <2>2, <2>3, <2>4 DEF Participate
<1>4. ASSUME Route \/ Link \/ UNCHANGED vars PROVE FALSE
  BY <1>4 DEF Route, Link, FlushTask, TakeMessage, StopFlushing, FinishMessage, Deliver,
    DeliverTruncated, Connect, FlushSendQueue, UpstreamReceives, ReceiveFromUpstream, vars, Ids
<1>5. ASSUME NEW u \in Remote, NEW id \in Ids, Answer(u, id)
      PROVE  i = Len(sent) + 1 /\ sent'[i].reply = id
  <2>1. PICK dg : dg = [Datagram(u, {sent[id].reply}, id, FALSE) EXCEPT !.live = FALSE]
    OBVIOUS
  <2>2. dg.reply = id /\ sent' = Append(sent, dg)
    BY <1>5, <2>1 DEF Answer, Datagram
  <2>3. QED
    BY <1>2, <2>2
<1>6. QED
  BY <1>3, <1>4, <1>5 DEF Next

Served(i) ==
  sent[i].from \in Remote /\ sent[sent[i].reply].live => Underway(i, sent[sent[i].reply].from)

ServedInv == (Apart /\ ~Threaded) => \A i \in Ids : Served(i)

RepliesInv == ExactnessInv /\ DatagramsInv /\ SecuredInv /\ ServedInv

LEMMA RepliesInitially == Init => RepliesInv
<1> SUFFICES ASSUME Init PROVE RepliesInv
  OBVIOUS
<1>1. Ids = {} /\ Pending = <<>> /\ \A p \in Local : post[p] = {}
  BY DEF Init, Ids, Pending
<1>2. \A k : k \notin 1..Len(Pending)
  BY <1>1
<1>3. DatagramsInv /\ SecuredInv /\ ServedInv
  BY <1>1, <1>2 DEF DatagramsInv, SecuredInv, ServedInv
<1>4. QED
  BY <1>3, ExactInitially DEF RepliesInv

LEMMA RepliesStep == RepliesInv /\ [Next]_vars => RepliesInv'
<1> SUFFICES ASSUME RepliesInv, [Next]_vars PROVE RepliesInv'
  OBVIOUS
<1>1. /\ ExactnessInv /\ DatagramsInv /\ SecuredInv
      /\ MapsInv /\ DataInv /\ TokenInv /\ UpstreamTyped /\ SentKept
  BY StepKeepsSent DEF RepliesInv, ExactnessInv, UpstreamInv, DeliveryInv, DirectorInv
<1>2. ExactnessInv' /\ DatagramsInv' /\ SecuredInv' /\ TokenInv'
  BY <1>1, ExactnessStep, DatagramsStep, SecuredStep DEF ExactnessInv, UpstreamInv, DeliveryInv
<1>3. Threaded' = Threaded /\ Apart' = Apart
  BY <1>1, LinkMessagesGrow
<1>a. ASSUME NEW i, NEW p, p = sent'[sent'[i].reply].from, Underway(i, p)' PROVE Served(i)'
  <2>1. Underway(i, sent[sent[i].reply].from)' <=> Underway(i, p)'
    BY <1>a DEF Underway, AtDirector
  <2>2. QED
    BY <1>a, <2>1 DEF Served
<1>4. ASSUME Apart, ~Threaded, NEW i \in Ids',
             sent'[i].from \in Remote, sent'[sent'[i].reply].live
      PROVE  Served(i)'
  <2>1. CASE i \in Ids
    <3>1. PICK r : r = sent[i].reply
      OBVIOUS
    <3>2. /\ sent[i].from \in Remote /\ sent'[i].reply = r
          /\ r \in Ids /\ ~sent[i].bad /\ sent[i].to = {sent[r].reply}
      BY <1>1, <1>4, <2>1, <3>1 DEF SentKept, DatagramsInv
    <3>3. sent[r].live /\ sent'[r].from = sent[r].from
      BY <1>1, <1>4, <3>2 DEF SentKept
    <3>4. PICK p, c : p = sent[r].from /\ c = sent[r].reply
      OBVIOUS
    <3>5. p \in Local /\ c \in Channel /\ IsSubscribed(map, p, c) /\ sent[i].to = {c}
      BY <1>1, <3>2, <3>3, <3>4 DEF DatagramsInv
    <3>6. Underway(i, p)
      BY <1>4, <2>1, <3>1, <3>2, <3>3, <3>4 DEF RepliesInv, ServedInv, Served
    <3>7. Underway(i, p)'
      BY <1>1, <1>2, <2>1, <3>2, <3>5, <3>6, UnderwayStep
    <3>8. QED
      BY <1>a, <3>2, <3>3, <3>4, <3>7
  <2>2. CASE i \notin Ids
    <3>1. PICK u \in Remote, id \in Ids :
            Answer(u, id) /\ i = Len(sent) + 1 /\ sent'[i].reply = id
      BY <1>1, <1>4, <2>2, NewAnswers
    <3>2. sent[id].live
      BY <1>1, <1>4, <3>1 DEF SentKept
    <3>3. i \in Returning'
      BY <1>1, <1>4, <3>1, <3>2, AnswerIsUnderway
    <3>4. Served(i)'
      BY <3>3 DEF Served, Underway
    <3>5. QED
      BY <3>4
  <2>3. QED
    BY <2>1, <2>2
<1>5. ServedInv'
  <2>1. ASSUME Apart, ~Threaded, NEW i \in Ids' PROVE Served(i)'
    <3>1. ASSUME sent'[i].from \in Remote, sent'[sent'[i].reply].live PROVE Served(i)'
      BY <1>4, <2>1, <3>1
    <3>2. QED
      BY <3>1 DEF Served
  <2>2. QED
    BY <1>3, <2>1 DEF ServedInv
<1>6. QED
  BY <1>2, <1>5 DEF RepliesInv

(* Where no range contains a channel that is subscribed by itself, and       *)
(* without the routing thread, an answer is not lost between the two         *)
(* directors as long as the participant that asked for it stays subscribed:  *)
(* the upstream subscribes before it takes the request, and no message that  *)
(* comes later takes that away.                                              *)
THEOREM RepliesArrive == Spec => []NoReplyLost
<1>1. RepliesInv => NoReplyLost
  <2> SUFFICES ASSUME RepliesInv, Apart, ~Threaded, NEW i \in Ids,
                      sent[i].from \in Remote, sent[sent[i].reply].live
               PROVE  OnItsWay(i, sent[sent[i].reply].from)
    BY DEF NoReplyLost
  <2>1. PICK p : p = sent[sent[i].reply].from
    OBVIOUS
  <2>2. Underway(i, p)
    BY <2>1 DEF RepliesInv, ServedInv, Served
  <2>3. OnItsWay(i, p)
    BY <2>2 DEF Underway, AtDirector, OnItsWay, Returning, Queued, BackIds, QueueIds
  <2>4. QED
    BY <2>1, <2>3
<1>2. QED
  BY <1>1, RepliesInitially, RepliesStep, PTL DEF Spec

-----------------------------------------------------------------------------
(* What a removed participant left behind, on its way to the upstream's.     *)
Settling(i, u) == i \in Queued \/ i \in Routed \/ i \in Rising \/ got[i][u] = 1

LEMMA ForwardRises ==
  ASSUME UpstreamTyped, NEW i, Send(<<Forward(i)>>)
  PROVE  i \in Rising'
<1>1. PICK S : S = LinkMessage \cup {Forward(i)}
  OBVIOUS
<1>2. link \in Seq(S) /\ unsent \in Seq(S) /\ <<Forward(i)>> \in Seq(S)
  <2>1. link \in Seq(S) /\ unsent \in Seq(S)
    BY <1>1, SequencesGrow DEF UpstreamTyped
  <2>2. <<Forward(i)>> \in Seq(S)
    BY <1>1
  <2>3. QED
    BY <2>1, <2>2
<1>3. LinkIds(<<Forward(i)>>) = {i}
  <2>1. PICK msg : msg = Forward(i)
    OBVIOUS
  <2>2. msg.kind = "datagram" /\ msg.id = i
    BY <2>1 DEF Forward
  <2>3. LinkIds(<<msg>>) = {msg.id}
    BY <2>2, LinkSingle
  <2>4. QED
    BY <2>1, <2>2, <2>3
<1>4. i \in LinkIds(link \o <<Forward(i)>>) /\ i \in LinkIds(unsent \o <<Forward(i)>>)
  <2>1. PICK t : t = <<Forward(i)>>
    OBVIOUS
  <2>2. t \in Seq(S) /\ LinkIds(t) = {i}
    BY <1>2, <1>3, <2>1
  <2>3. LinkIds(link \o t) = LinkIds(link) \cup {i} /\ LinkIds(unsent \o t) = LinkIds(unsent) \cup {i}
    BY <1>2, <2>2, LinkConcat
  <2>4. QED
    BY <2>1, <2>3
<1>5. QED
  BY <1>4 DEF Send, Rising

LEMMA RisingStays ==
  ASSUME MapsInv, ParticipantsInv, DataInv, TokenInv, UpstreamTyped, ~Threaded, [Next]_vars,
         ~UpstreamReceives
  PROVE  Rising \subseteq Rising'
<1>0. SentKept
  BY StepKeepsSent
<1>1. PICK S : S = LinkMessage'
  OBVIOUS
<1>2. link \in Seq(S) /\ unsent \in Seq(S)
  BY <1>0, <1>1, LinkMessagesGrow DEF UpstreamTyped
<1>3. ASSUME NEW msgs, Telling(msgs) PROVE Rising \subseteq Rising'
  <2>1. Send(msgs) /\ msgs \in Seq(S)
    BY <1>1, <1>3 DEF Telling
  <2>2. /\ LinkIds(link \o msgs) = LinkIds(link) \cup LinkIds(msgs)
        /\ LinkIds(unsent \o msgs) = LinkIds(unsent) \cup LinkIds(msgs)
    BY <1>2, <2>1, LinkConcat
  <2>3. QED
    BY <2>1, <2>2 DEF Send, Rising
<1>4. CASE Connect
  <2>1. link' = link \o unsent
    BY <1>4 DEF Connect
  <2>2. LinkIds(link \o unsent) = LinkIds(link) \cup LinkIds(unsent)
    BY <1>2, LinkConcat
  <2>3. QED
    BY <2>1, <2>2 DEF Rising
<1>5. ASSUME FlushSendQueue PROVE FALSE
  BY <1>5 DEF FlushSendQueue
<1>6. QED
  BY <1>3, <1>4, <1>5, StepTells

LEMMA SettlingStep ==
  ASSUME MapsInv, ParticipantsInv, DataInv, TokenInv, TokenInv', UpstreamTyped, ~Threaded,
         [Next]_vars, NEW i \in Ids, NEW u \in Remote,
         sent[i].from \in Local, ~sent[i].bad, Service \in sent[i].to, Settling(i, u)
  PROVE  Settling(i, u)'
<1>1. /\ u \in Subscriber /\ u # Down /\ sent[i].from # Upstream
      /\ GotInv /\ OriginInv /\ PlacesInv /\ HandedInv
      /\ i \in Ids'
  BY MessageDirectorAssumption, StepKeepsSent DEF TokenInv, SentKept
<1>2. got[i][u] \in Nat /\ got'[i][u] \in Nat /\ got'[i][u] >= got[i][u] /\ got'[i][u] <= 1
  <2>1. got \in Seq([Subscriber -> Nat]) /\ i \in 1..Len(got)
        /\ got' \in Seq([Subscriber -> Nat]) /\ i \in 1..Len(got')
    BY <1>1 DEF TokenInv, GotInv, Ids
  <2>2. got'[i][u] <= 1
    BY <1>1 DEF TokenInv, HandedInv, DeliveredOnce
  <2>3. got'[i][u] >= got[i][u]
    BY <1>1, GotGrows
  <2>4. QED
    BY <1>1, <2>1, <2>2, <2>3
<1>3. CASE got[i][u] = 1
  <2>1. got'[i][u] = 1
    BY <1>2, <1>3
  <2>2. QED
    BY <2>1 DEF Settling
<1>4. CASE i \in Queued
  <2>1. CASE TakeMessage
    <3>1. PICK msg : msg = Head(m_messages)
      OBVIOUS
    <3>2. /\ m_messages # <<>> /\ m_messages' = Tail(m_messages)
          /\ routing' = [step |-> "deliver", from |-> msg.from, id |-> msg.id,
                         to |-> Receivers(map, msg.from, sent[msg.id].to)]
      BY <2>1, <3>1 DEF TakeMessage
    <3>3. m_messages \in Seq(Honest) /\ QueueOnce(m_messages)
      BY <1>1 DEF OriginInv, PlacesInv
    <3>4. Queued' = Queued \ {msg.id}
      BY <3>1, <3>2, <3>3, QueueTail DEF Queued
    <3>5. routing'.step = "deliver" /\ routing'.id = msg.id
      BY <3>2
    <3>6. routing' # Idle
      BY <3>5 DEF Idle
    <3>7. Routed' = {msg.id}
      BY <3>5, <3>6 DEF Routed
    <3>8. i \in Queued' \/ i \in Routed'
      BY <1>4, <3>4, <3>7
    <3>9. QED
      BY <3>8 DEF Settling
  <2>2. CASE ~TakeMessage
    <3>1. i \in Queued'
      BY <1>4, <2>2, PlacesGrow
    <3>2. QED
      BY <3>1 DEF Settling
  <2>3. QED
    BY <2>1, <2>2
<1>5. CASE i \in Routed
  <2>1. routing # Idle /\ routing.id = i /\ routing \in Routing /\ routing.from = Source(i)
    BY <1>1, <1>5 DEF Routed, DataInv, OriginInv
  <2>2. CASE routing' = routing
    <3>1. i \in Routed'
      BY <2>1, <2>2 DEF Routed
    <3>2. QED
      BY <3>1 DEF Settling
  <2>3. ASSUME NEW q \in Local, Deliver(q) PROVE Settling(i, u)'
    <3>1. routing' = [routing EXCEPT !.to = @ \ {q}]
      BY <2>3 DEF Deliver
    <3>2. routing'.step = "deliver" /\ routing'.id = i
      BY <2>1, <3>1 DEF Routing
    <3>3. routing' # Idle
      BY <3>2 DEF Idle
    <3>4. i \in Routed'
      BY <3>2, <3>3 DEF Routed
    <3>5. QED
      BY <3>4 DEF Settling
  <2>4. ASSUME NEW q \in Local, DeliverTruncated(q) PROVE FALSE
    BY <2>1, <2>4 DEF DeliverTruncated
  <2>5. ASSUME FinishMessage PROVE Settling(i, u)'
    <3>1. routing.from = sent[i].from
      BY <1>1, <2>1 DEF Source
    <3>2. Send(<<Forward(i)>>)
      BY <1>1, <2>1, <2>5, <3>1 DEF FinishMessage
    <3>3. i \in Rising'
      BY <3>2, ForwardRises
    <3>4. QED
      BY <3>3 DEF Settling
  <2>6. QED
    BY <2>1, <2>2, <2>3, <2>4, <2>5, RoutingRests
<1>6. CASE i \in Rising
  <2>1. CASE UpstreamReceives
    <3>1. PICK msg : msg = Head(link)
      OBVIOUS
    <3>2. link # <<>> /\ link' = Tail(link) /\ unsent' = unsent
      BY <2>1 DEF UpstreamReceives
    <3>3. link \in Seq(LinkMessage) /\ LinkOnce(link)
      BY <1>1 DEF UpstreamTyped, PlacesInv, LinksOnce
    <3>4. LinkIds(Tail(link)) = IF msg.kind = "datagram"
                                THEN LinkIds(link) \ {msg.id} ELSE LinkIds(link)
      BY <3>1, <3>2, <3>3, LinkTail
    <3>5. CASE msg.kind = "datagram" /\ msg.id = i
      <4>1. PICK to : to = Receivers(upmap, Down, sent[i].to)
        OBVIOUS
      <4>2. got' = [got EXCEPT ![i] = [p \in Subscriber |-> IF p \in to THEN @[p] + 1 ELSE @[p]]]
        BY <2>1, <3>1, <3>5, <4>1 DEF UpstreamReceives
      <4>3. u \in to
        <5>1. upmap \in Map /\ MapsAgree(upmap) /\ sent[i].to \in SUBSET Channel
          <6>1. sent[i] \in Datagrams
            BY DEF DataInv, Ids
          <6>2. QED
            BY <6>1 DEF MapsInv, ConsistentMaps, Datagrams
        <5>2. IsSubscribed(upmap, u, Service)
          BY DEF UpstreamTyped, IsSubscribed
        <5>3. u \in LookupChannels(upmap, sent[i].to)
          BY <1>1, <5>1, <5>2, LookupIsExact
        <5>4. QED
          BY <1>1, <4>1, <5>3 DEF Receivers
      <4>4. got[i][u] = 0
        BY <1>1, <1>6 DEF HandedInv, Climbing
      <4>5. got'[i][u] = got[i][u] + 1
        <5>1. got \in Seq([Subscriber -> Nat]) /\ i \in 1..Len(got)
          BY <1>1 DEF GotInv, Ids
        <5>2. got'[i] = [p \in Subscriber |-> IF p \in to THEN got[i][p] + 1 ELSE got[i][p]]
          BY <4>2, <5>1
        <5>3. QED
          BY <1>1, <4>3, <5>2
      <4>6. got'[i][u] = 1
        BY <4>4, <4>5
      <4>7. QED
        BY <4>6 DEF Settling
    <3>6. CASE ~(msg.kind = "datagram" /\ msg.id = i)
      <4>1. i \in Rising'
        BY <1>6, <3>2, <3>4, <3>6 DEF Rising
      <4>2. QED
        BY <4>1 DEF Settling
    <3>7. QED
      BY <3>5, <3>6
  <2>2. CASE ~UpstreamReceives
    <3>1. i \in Rising'
      BY <1>6, <2>2, RisingStays
    <3>2. QED
      BY <3>1 DEF Settling
  <2>3. QED
    BY <2>1, <2>2
<1>7. QED
  BY <1>3, <1>4, <1>5, <1>6 DEF Settling

(* Only remove_participant makes a participant go.                           *)
LEMMA GoneWereRemoved ==
  ASSUME ParticipantsInv, [Next]_vars, NEW p \in Alive, p \notin Alive'
  PROVE  RemoveParticipant(p)
<1>1. ASSUME UNCHANGED <<leaving, terminated, deleted>> PROVE FALSE
  BY <1>1 DEF Alive
<1>2. ASSUME NEW q \in Alive, Participate(q) PROVE RemoveParticipant(p)
  <2>1. CASE RemoveParticipant(q)
    <3>1. \/ terminated' = terminated \cup {q} /\ UNCHANGED <<leaving, deleted>>
          \/ leaving' = leaving \cup {q} /\ UNCHANGED <<terminated, deleted>>
      BY <2>1 DEF RemoveParticipant, MarkForDeletion
    <3>2. p = q
      BY <3>1 DEF Alive
    <3>3. QED
      BY <2>1, <3>2
  <2>2. CASE ~RemoveParticipant(q)
    <3>1. UNCHANGED <<leaving, terminated, deleted>>
      BY <1>2, <2>2 DEF Participate, SubscribeTo, UnsubscribeFrom, SubscribeToRange,
        UnsubscribeFromRange, AddPostRemove, ClearPostRemoves, RouteDatagram, subscriptions
    <3>2. QED
      BY <1>1, <3>1
  <2>3. QED
    BY <2>1, <2>2
<1>3. CASE StopFlushing
  <2>1. terminated' = terminated \cup leaving /\ leaving' = {} /\ UNCHANGED deleted
    BY <1>3 DEF StopFlushing, MarkForDeletion
  <2>2. QED
    BY <2>1 DEF Alive
<1>4. CASE FinishMessage
  <2>1. deleted' = deleted \cup terminated /\ terminated' = {} /\ UNCHANGED leaving
    BY <1>4 DEF FinishMessage
  <2>2. QED
    BY <2>1 DEF Alive
<1>5. ASSUME \/ FlushTask \/ TakeMessage
             \/ \E q \in Local : Deliver(q) \/ DeliverTruncated(q)
             \/ Link \/ UNCHANGED vars \/ \E u \in Remote, id \in Ids : Answer(u, id)
      PROVE  FALSE
  <2>1. UNCHANGED <<leaving, terminated, deleted>>
    BY <1>5 DEF FlushTask, TakeMessage, Deliver, DeliverTruncated, Link, Connect, FlushSendQueue,
      UpstreamReceives, ReceiveFromUpstream, Answer, vars, subscriptions
  <2>2. QED
    BY <1>1, <2>1
<1>6. QED
  BY <1>2, <1>3, <1>4, <1>5 DEF Next, Route

(* A participant that is gone changes its post-removes no more.              *)
LEMMA GoneKeepPosts ==
  ASSUME DataInv, [Next]_vars, NEW p \in Local, p \notin Alive
  PROVE  post'[p] = post[p]
<1>1. post \in [Local -> SUBSET Ids]
  BY DEF DataInv
<1>2. ASSUME NEW q \in Alive, Participate(q) PROVE post'[p] = post[p]
  <2>1. q # p
    OBVIOUS
  <2>2. post' = post \/ \E I : post' = [post EXCEPT ![q] = I]
    <3>1. CASE \E to \in Destinations : AddPostRemove(q, to)
      <4>1. post' = [post EXCEPT ![q] = @ \cup {Len(sent) + 1}]
        BY <3>1 DEF AddPostRemove
      <4>2. PICK I : I = post[q] \cup {Len(sent) + 1}
        OBVIOUS
      <4>3. post' = [post EXCEPT ![q] = I]
        BY <1>1, <4>1, <4>2
      <4>4. QED
        BY <4>3
    <3>2. CASE ClearPostRemoves(q)
      BY <3>2 DEF ClearPostRemoves
    <3>3. CASE \/ \E c \in Channels : SubscribeTo(q, c) \/ UnsubscribeFrom(q, c)
               \/ \E R \in Ranges : SubscribeToRange(q, R) \/ UnsubscribeFromRange(q, R)
               \/ RemoveParticipant(q)
               \/ \E to \in Destinations, main \in BOOLEAN : RouteDatagram(q, to, main)
      BY <3>3 DEF SubscribeTo, UnsubscribeFrom, SubscribeToRange, UnsubscribeFromRange,
        RemoveParticipant, RouteDatagram
    <3>4. QED
      BY <1>2, <3>1, <3>2, <3>3 DEF Participate
  <2>3. QED
    BY <1>1, <2>1, <2>2
<1>3. CASE Route \/ Link \/ UNCHANGED vars \/ \E u \in Remote, id \in Ids : Answer(u, id)
  BY <1>3 DEF Route, Link, FlushTask, TakeMessage, StopFlushing, FinishMessage, Deliver,
    DeliverTruncated, Connect, FlushSendQueue, UpstreamReceives, ReceiveFromUpstream, Answer, vars
<1>4. QED
  BY <1>2, <1>3 DEF Next

SettledInv ==
  ~Threaded => \A p \in Local \ Alive : \A i \in post[p], u \in Remote :
    Service \in sent[i].to => Settling(i, u)

SettlementInv == ExactnessInv /\ DatagramsInv /\ SettledInv

LEMMA SettlementInitially == Init => SettlementInv
<1> SUFFICES ASSUME Init PROVE SettlementInv
  OBVIOUS
<1>1. Ids = {} /\ \A p \in Local : post[p] = {}
  BY DEF Init, Ids
<1>2. DatagramsInv /\ SettledInv
  BY <1>1 DEF DatagramsInv, SettledInv
<1>3. QED
  BY <1>2, ExactInitially DEF SettlementInv

LEMMA SettlementStep == SettlementInv /\ [Next]_vars => SettlementInv'
<1> SUFFICES ASSUME SettlementInv, [Next]_vars PROVE SettlementInv'
  OBVIOUS
<1>1. /\ ExactnessInv /\ DatagramsInv
      /\ MapsInv /\ ParticipantsInv /\ DataInv /\ TokenInv /\ OriginInv /\ UpstreamTyped /\ SentKept
  BY StepKeepsSent DEF SettlementInv, ExactnessInv, UpstreamInv, DeliveryInv, DirectorInv, TokenInv
<1>2. ExactnessInv' /\ DatagramsInv' /\ TokenInv' /\ Threaded' = Threaded
  BY <1>1, ExactnessStep, DatagramsStep, LinkMessagesGrow DEF ExactnessInv, UpstreamInv, DeliveryInv
<1>3. ASSUME ~Threaded, NEW p \in Local \ Alive', NEW i \in post'[p], NEW u \in Remote,
             Service \in sent'[i].to
      PROVE  Settling(i, u)'
  <2>1. CASE p \in Alive
    <3>1. RemoveParticipant(p)
      BY <1>1, <1>3, <2>1, GoneWereRemoved
    <3>2. post' = post /\ Queued' = Queued \cup post[p]
      BY <1>1, <2>1, <3>1, RemovedAreAllQueued DEF RemoveParticipant
    <3>3. i \in Queued'
      BY <1>3, <3>2
    <3>4. QED
      BY <3>3 DEF Settling
  <2>2. CASE p \notin Alive
    <3>1. i \in post[p]
      BY <1>1, <1>3, <2>2, GoneKeepPosts
    <3>2. i \in Ids /\ sent[i].from \in Local /\ ~sent[i].bad
      BY <1>1, <3>1 DEF DataInv, OriginInv, DatagramsInv
    <3>3. Service \in sent[i].to
      BY <1>1, <1>3, <3>2 DEF SentKept
    <3>4. Settling(i, u)
      BY <1>3, <2>2, <3>1, <3>3 DEF SettlementInv, SettledInv
    <3>5. QED
      BY <1>1, <1>2, <1>3, <3>2, <3>3, <3>4, SettlingStep
  <2>3. QED
    BY <2>1, <2>2
<1>4. SettledInv'
  BY <1>2, <1>3 DEF SettledInv
<1>5. QED
  BY <1>2, <1>4 DEF SettlementInv

(* Without the routing thread, once everything is delivered the upstream     *)
(* holds the post-removes of the participants that are there and nothing of  *)
(* those that were removed, and whoever listened upstream for one of theirs  *)
(* was handed it exactly once: post_remove routes each before it recalls     *)
(* them, from inside a flush or outside.                                     *)
THEOREM PostRemovesSettle == Spec => []PostRemovesSettled
<1>1. SettlementInv => PostRemovesSettled
  <2> SUFFICES ASSUME SettlementInv, ~Threaded, Quiet, NEW p \in Local
               PROVE  IF p \in Alive THEN uppost[p] = post[p]
                      ELSE /\ uppost[p] = {}
                           /\ \A i \in post[p], u \in Remote : Service \in sent[i].to => got[i][u] = 1
    BY DEF PostRemovesSettled
  <2>1. DataInv /\ UpstreamTyped /\ KeptInv /\ ParticipantsInv
    BY DEF SettlementInv, ExactnessInv, UpstreamInv, DeliveryInv, DirectorInv
  <2>2. Pending = <<>> /\ Len(Pending) = 0
    BY DEF Quiet, Pending
  <2>3. ASSUME NEW i \in Nat PROVE i \in uppost[p] <=> Keeps(p, i)
    <3>1. Wins(Len(Pending), i \in uppost[p], Posting(p, i), Recalling(p), Pending) <=> Keeps(p, i)
      BY <2>1 DEF KeptInv
    <3>2. Wins(0, i \in uppost[p], Posting(p, i), Recalling(p), Pending) <=> i \in uppost[p]
      <4>1. Pending = <<>> /\ (\A k : k \notin 1..0) /\ \A k : k \notin 1..Len(Pending)
        BY <2>2
      <4>2. ~Holds(Pending, Recalling(p))
        BY <4>1 DEF Holds
      <4>3. ASSUME Wins(0, i \in uppost[p], Posting(p, i), Recalling(p), Pending)
            PROVE  i \in uppost[p]
        BY <4>1, <4>3 DEF Wins
      <4>4. ASSUME i \in uppost[p]
            PROVE  Wins(0, i \in uppost[p], Posting(p, i), Recalling(p), Pending)
        BY <4>2, <4>4 DEF Wins
      <4>5. QED
        BY <4>3, <4>4
    <3>3. QED
      BY <2>2, <3>1, <3>2
  <2>4. uppost[p] \subseteq Nat /\ post[p] \subseteq Nat
    BY <2>1 DEF DataInv, UpstreamTyped, Ids
  <2>5. CASE p \in Alive
    <3>1. p \notin terminated \cup deleted
      BY <2>5 DEF Alive
    <3>2. uppost[p] = post[p]
      BY <2>3, <2>4, <3>1 DEF Keeps
    <3>3. QED
      BY <2>5, <3>2
  <2>6. CASE p \notin Alive
    <3>1. p \in terminated \cup deleted
      BY <2>6 DEF Alive, Quiet
    <3>2. uppost[p] = {}
      BY <2>3, <2>4, <3>1 DEF Keeps
    <3>3. ASSUME NEW i \in post[p], NEW u \in Remote, Service \in sent[i].to PROVE got[i][u] = 1
      <4>1. Settling(i, u)
        BY <2>6, <3>3 DEF SettlementInv, SettledInv
      <4>2. Queued = {} /\ Routed = {} /\ Rising = {}
        <5>1. \A k : k \notin 1..Len(<<>>)
          OBVIOUS
        <5>2. QED
          BY <5>1 DEF Quiet, Queued, QueueIds, Routed, Rising, LinkIds
      <4>3. QED
        BY <4>1, <4>2 DEF Settling
    <3>4. QED
      BY <2>6, <3>2, <3>3
  <2>7. QED
    BY <2>5, <2>6
<1>2. QED
  BY <1>1, SettlementInitially, SettlementStep, PTL DEF Spec
=============================================================================
