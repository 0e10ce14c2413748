------------------------ MODULE MessageDirector_proofs ------------------------
(***************************************************************************)
(* The message director, for any number of participants, channels, ranges  *)
(* and datagrams: its map and the upstream's stay consistent, what it hands a *)
(* datagram to has not been deleted, and nobody is handed a datagram twice, *)
(* or its own.                                                             *)
(***************************************************************************)
EXTENDS MessageDirector, FiniteSetTheorems, TLAPS

(* For any subscribers and channels: every operation of ChannelMap returns a  *)
(* map whose two copies agree, and in such a map a lookup finds exactly the   *)
(* subscribers.                                                               *)
LEMMA SubscribeChannelAgrees ==
  ASSUME NEW m \in Map, MapsAgree(m), NEW s \in Subscriber, NEW c \in Channel
  PROVE  SubscribeChannel(m, s, c) \in Map /\ MapsAgree(SubscribeChannel(m, s, c))
<1> DEFINE n == [m EXCEPT !.channels[s] = @ \cup {c}, !.channel_subs = @ \cup {<<c, s>>}]
<1>1. /\ n \in Map
      /\ n.ranges = m.ranges /\ n.range_subs = m.range_subs
      /\ n.channel_subs = m.channel_subs \cup {<<c, s>>}
      /\ n.channels = [m.channels EXCEPT ![s] = @ \cup {c}]
  <2>1. /\ m.channels[s] \cup {c} \in SUBSET Channel
        /\ m.channel_subs \cup {<<c, s>>} \in SUBSET (Channel \X Subscriber)
    BY DEF Map
  <2>2. QED
    BY <2>1 DEF Map
<1>2. ASSUME NEW q \in Subscriber, NEW d \in Channel
      PROVE  /\ <<d, q>> \in n.channel_subs <=> d \in n.channels[q]
             /\ q \in n.range_subs[d] <=> d \in n.ranges[q]
  <2>1. /\ <<d, q>> \in m.channel_subs <=> d \in m.channels[q]
        /\ q \in m.range_subs[d] <=> d \in m.ranges[q]
    BY DEF MapsAgree
  <2> HIDE DEF n
  <2>2. n.channels[q] = IF q = s THEN m.channels[q] \cup {c} ELSE m.channels[q]
    BY <1>1 DEF Map
  <2>3. QED
    BY <1>1, <2>1, <2>2
<1>3. MapsAgree(n)
  <2> HIDE DEF n
  <2> QED  BY <1>2 DEF MapsAgree
<1>4. QED
  BY <1>1, <1>3 DEF SubscribeChannel

LEMMA UnsubscribeChannelAgrees ==
  ASSUME NEW m \in Map, MapsAgree(m), NEW s \in Subscriber, NEW c
  PROVE  UnsubscribeChannel(m, s, c) \in Map /\ MapsAgree(UnsubscribeChannel(m, s, c))
<1> DEFINE n == [m EXCEPT !.channels[s] = @ \ {c}, !.channel_subs = @ \ {<<c, s>>}]
<1>1. /\ n \in Map
      /\ n.ranges = m.ranges /\ n.range_subs = m.range_subs
      /\ n.channel_subs = m.channel_subs \ {<<c, s>>}
      /\ n.channels = [m.channels EXCEPT ![s] = @ \ {c}]
  BY DEF Map
<1>2. ASSUME NEW q \in Subscriber, NEW d \in Channel
      PROVE  /\ <<d, q>> \in n.channel_subs <=> d \in n.channels[q]
             /\ q \in n.range_subs[d] <=> d \in n.ranges[q]
  <2>1. /\ <<d, q>> \in m.channel_subs <=> d \in m.channels[q]
        /\ q \in m.range_subs[d] <=> d \in m.ranges[q]
    BY DEF MapsAgree
  <2> HIDE DEF n
  <2>2. n.channels[q] = IF q = s THEN m.channels[q] \ {c} ELSE m.channels[q]
    BY <1>1 DEF Map
  <2>3. QED
    BY <1>1, <2>1, <2>2
<1>3. MapsAgree(n)
  <2> HIDE DEF n
  <2> QED  BY <1>2 DEF MapsAgree
<1>4. QED
  BY <1>1, <1>3 DEF UnsubscribeChannel

LEMMA SubscribeRangeAgrees ==
  ASSUME NEW m \in Map, MapsAgree(m), NEW s \in Subscriber, NEW R \in SUBSET Channel
  PROVE  SubscribeRange(m, s, R) \in Map /\ MapsAgree(SubscribeRange(m, s, R))
<1> DEFINE n == SubscribeRange(m, s, R)
<1>1. /\ n \in Map
      /\ n.channels = m.channels /\ n.channel_subs = m.channel_subs
      /\ n.ranges = [m.ranges EXCEPT ![s] = @ \cup R]
      /\ n.range_subs = [c \in Channel |-> IF c \in R THEN m.range_subs[c] \cup {s}
                                                      ELSE m.range_subs[c]]
  BY DEF Map, SubscribeRange
<1>2. SUFFICES ASSUME NEW q \in Subscriber, NEW d \in Channel
               PROVE  /\ <<d, q>> \in n.channel_subs <=> d \in n.channels[q]
                      /\ q \in n.range_subs[d] <=> d \in n.ranges[q]
  BY <1>1 DEF MapsAgree
<1>3. /\ <<d, q>> \in m.channel_subs <=> d \in m.channels[q]
      /\ q \in m.range_subs[d] <=> d \in m.ranges[q]
  BY DEF MapsAgree
<1> HIDE DEF n
<1>4. n.ranges[q] = IF q = s THEN m.ranges[q] \cup R ELSE m.ranges[q]
  BY <1>1 DEF Map
<1>5. n.range_subs[d] = IF d \in R THEN m.range_subs[d] \cup {s} ELSE m.range_subs[d]
  BY <1>1
<1>6. QED
  BY <1>1, <1>3, <1>4, <1>5

LEMMA UnsubscribeRangeAgrees ==
  ASSUME NEW m \in Map, MapsAgree(m), NEW s \in Subscriber, NEW R
  PROVE  UnsubscribeRange(m, s, R) \in Map /\ MapsAgree(UnsubscribeRange(m, s, R))
<1> DEFINE n == [m EXCEPT
    !.ranges[s] = @ \ R,
    !.range_subs = [c \in Channel |-> IF c \in R THEN @[c] \ {s} ELSE @[c]],
    !.channels[s] = @ \ R,
    !.channel_subs = @ \ (R \X {s})]
<1>1. /\ n \in Map
      /\ n.channels = [m.channels EXCEPT ![s] = @ \ R]
      /\ n.channel_subs = m.channel_subs \ (R \X {s})
      /\ n.ranges = [m.ranges EXCEPT ![s] = @ \ R]
      /\ n.range_subs = [c \in Channel |-> IF c \in R THEN m.range_subs[c] \ {s}
                                                      ELSE m.range_subs[c]]
  BY DEF Map
<1>2. MapsAgree(n)
  <2>1. SUFFICES ASSUME NEW q \in Subscriber, NEW d \in Channel
                 PROVE  /\ <<d, q>> \in n.channel_subs <=> d \in n.channels[q]
                        /\ q \in n.range_subs[d] <=> d \in n.ranges[q]
    BY DEF MapsAgree
  <2>2. /\ <<d, q>> \in m.channel_subs <=> d \in m.channels[q]
        /\ q \in m.range_subs[d] <=> d \in m.ranges[q]
    BY DEF MapsAgree
  <2> HIDE DEF n
  <2>3. /\ n.ranges[q] = IF q = s THEN m.ranges[q] \ R ELSE m.ranges[q]
        /\ n.channels[q] = IF q = s THEN m.channels[q] \ R ELSE m.channels[q]
    BY <1>1 DEF Map
  <2>4. n.range_subs[d] = IF d \in R THEN m.range_subs[d] \ {s} ELSE m.range_subs[d]
    BY <1>1
  <2>5. <<d, q>> \in n.channel_subs <=> /\ <<d, q>> \in m.channel_subs
                                       /\ ~(d \in R /\ q = s)
    BY <1>1
  <2>6. QED
    BY <2>2, <2>3, <2>4, <2>5
<1>3. QED
  BY <1>1, <1>2 DEF UnsubscribeRange

LEMMA UnsubscribeAllAgrees ==
  ASSUME NEW m \in Map, MapsAgree(m), NEW s \in Subscriber
  PROVE  UnsubscribeAll(m, s) \in Map /\ MapsAgree(UnsubscribeAll(m, s))
<1> DEFINE n == UnsubscribeAll(m, s)
<1>1. /\ n \in Map
      /\ n.channels = [m.channels EXCEPT ![s] = {}]
      /\ n.channel_subs = m.channel_subs \ (Channel \X {s})
      /\ n.ranges = [m.ranges EXCEPT ![s] = {}]
      /\ n.range_subs = [c \in Channel |-> m.range_subs[c] \ {s}]
  BY DEF Map, UnsubscribeAll
<1>2. QED
  BY <1>1 DEF MapsAgree, Map

(* The five operations preserve the agreement of the map's two copies.       *)
THEOREM AgreementPreserved ==
  ASSUME NEW m \in Map, MapsAgree(m), NEW s \in Subscriber,
         NEW c \in Channel, NEW R \in SUBSET Channel
  PROVE  /\ MapsAgree(EmptyMap)
         /\ MapsAgree(SubscribeChannel(m, s, c))
         /\ MapsAgree(UnsubscribeChannel(m, s, c))
         /\ MapsAgree(SubscribeRange(m, s, R))
         /\ MapsAgree(UnsubscribeRange(m, s, R))
         /\ MapsAgree(UnsubscribeAll(m, s))
<1>1. MapsAgree(EmptyMap)
  BY DEF EmptyMap, MapsAgree
<1>2. QED
  BY <1>1, SubscribeChannelAgrees, UnsubscribeChannelAgrees, SubscribeRangeAgrees,
     UnsubscribeRangeAgrees, UnsubscribeAllAgrees

(* lookup_channels finds a subscriber exactly when is_subscribed says so for *)
(* one of the channels.                                                      *)
THEOREM LookupIsExact ==
  ASSUME NEW m \in Map, MapsAgree(m), NEW C \in SUBSET Channel
  PROVE  LookupChannels(m, C) = {s \in Subscriber : \E c \in C : IsSubscribed(m, s, c)}
BY DEF LookupChannels, IsSubscribed, MapsAgree, Map

-----------------------------------------------------------------------------
(* Sequences made from sets.                                                 *)
LEMMA SetToSeqType ==
  ASSUME NEW S, IsFiniteSet(S)
  PROVE  SetToSeq(S) \in Seq(S)
<1>1. Cardinality(S) \in Nat /\ ExistsBijection(1..Cardinality(S), S)
  BY FS_CardinalityType
<1>2. \E f \in [1..Cardinality(S) -> S] : IsInjective(f)
  BY <1>1 DEF ExistsBijection, Bijection, Injection
<1>3. SetToSeq(S) \in [1..Cardinality(S) -> S]
  BY <1>2 DEF SetToSeq
<1>4. QED
  BY <1>1, <1>3

LEMMA ChannelsFinite == IsFiniteSet(Channel) /\ IsFiniteSet(Interval)
<1>1. IsFiniteSet(Channel)
  BY FS_Interval, ChannelMapAssumption DEF Channel
<1>2. IsFiniteSet(SUBSET Channel)
  BY <1>1, FS_SUBSET
<1>3. Interval \subseteq SUBSET Channel
  BY ChannelMapAssumption DEF Interval, Channel
<1>4. QED
  BY <1>1, <1>2, <1>3, FS_Subset

LEMMA IntervalsLength ==
  ASSUME NEW S
  PROVE  /\ Len(Intervals(S)) \in Nat
         /\ DOMAIN Intervals(S) = 1..Len(Intervals(S))
<1> DEFINE M == {R \in Interval : /\ R \subseteq S
                                  /\ \A T \in Interval : R \subseteq T /\ T \subseteq S => T = R}
           Below(R) == {T \in M : \A c \in T, d \in R : c < d}
           At(k) == CHOOSE R \in M : Cardinality(Below(R)) = k - 1
<1>1. Cardinality(M) \in Nat
  BY ChannelsFinite, FS_Subset, FS_CardinalityType
<1>2. Intervals(S) = [k \in 1..Cardinality(M) |-> At(k)]
  BY DEF Intervals
<1> HIDE DEF M, At
<1>3. QED
  BY <1>1, <1>2

-----------------------------------------------------------------------------
(* The messages to the upstream, as far as its map depends on them.          *)
Good(msg) ==
  /\ msg.kind = "add_channel" => \E c \in Channel : msg.span = {c}
  /\ msg.kind = "add_range" => msg.span \subseteq Channel

GoodSeq(s) == \E S : s \in Seq(S) /\ \A msg \in S : Good(msg)

LEMMA GoodFrom ==
  ASSUME NEW S, NEW s \in Seq(S), \A msg \in S : Good(msg)
  PROVE  GoodSeq(s)
BY DEF GoodSeq

LEMMA GoodEmpty == GoodSeq(<<>>)
<1> DEFINE S == {}
<1>1. <<>> \in Seq(S) /\ \A msg \in S : Good(msg)
  OBVIOUS
<1> HIDE DEF S
<1>2. QED
  BY <1>1, GoodFrom

LEMMA GoodSingle ==
  ASSUME NEW msg, Good(msg)
  PROVE  GoodSeq(<<msg>>)
<1> DEFINE S == {msg}
<1>1. <<msg>> \in Seq(S) /\ \A x \in S : Good(x)
  OBVIOUS
<1> HIDE DEF S
<1>2. QED
  BY <1>1, GoodFrom

LEMMA GoodConcat ==
  ASSUME NEW s, NEW t, GoodSeq(s), GoodSeq(t)
  PROVE  GoodSeq(s \o t)
<1>1. PICK S : s \in Seq(S) /\ \A msg \in S : Good(msg)
  BY DEF GoodSeq
<1>2. PICK T : t \in Seq(T) /\ \A msg \in T : Good(msg)
  BY DEF GoodSeq
<1>3. s \in Seq(S \cup T) /\ t \in Seq(S \cup T)
  BY <1>1, <1>2
<1>4. s \o t \in Seq(S \cup T)
  BY <1>3
<1>5. QED
  BY <1>1, <1>2, <1>4 DEF GoodSeq

LEMMA GoodRest ==
  ASSUME NEW s, GoodSeq(s), s # <<>>
  PROVE  Good(Head(s)) /\ GoodSeq(Tail(s)) /\ GoodSeq(<<Head(s)>>)
<1>1. PICK S : s \in Seq(S) /\ \A msg \in S : Good(msg)
  BY DEF GoodSeq
<1>2. Head(s) \in S /\ Tail(s) \in Seq(S) /\ <<Head(s)>> \in Seq(S)
  BY <1>1
<1>3. QED
  BY <1>1, <1>2 DEF GoodSeq

LEMMA GoodMessages ==
  /\ \A c \in Channel : Good(Control("add_channel", {c})) /\ Good(Control("remove_channel", {c}))
  /\ \A R \in SUBSET Channel : Good(Control("add_range", R))
  /\ \A span : Good(Control("remove_range", span)) /\ Good(Control("remove_channel", span))
  /\ \A p, ids : /\ Good(PostRemove("add_post_remove", p, ids))
                 /\ Good(PostRemove("clear_post_removes", p, ids))
  /\ \A id : Good(Forward(id))
BY DEF Good, Control, PostRemove, Forward

LEMMA RemoveRangesGood == ASSUME NEW S PROVE GoodSeq(RemoveRanges(S))
<1> DEFINE n == Len(Intervals(S))
           M(k) == Control("remove_range", Intervals(S)[k])
           T == {M(k) : k \in 1..n}
<1>1. n \in Nat
  BY IntervalsLength
<1>2. \A msg \in T : Good(msg)
  BY GoodMessages
<1>3. RemoveRanges(S) = [k \in 1..n |-> M(k)]
  BY DEF RemoveRanges
<1> HIDE DEF n, M
<1>4. [k \in 1..n |-> M(k)] \in Seq(T)
  BY <1>1
<1>5. QED
  BY <1>2, <1>3, <1>4 DEF GoodSeq

LEMMA RemoveChannelsGood ==
  ASSUME NEW S \in SUBSET Channel
  PROVE  GoodSeq(RemoveChannels(S))
<1> DEFINE C == SetToSeq(S)
           M(k) == Control("remove_channel", {C[k]})
           T == {M(k) : k \in 1..Len(C)}
<1>1. C \in Seq(S) /\ Len(C) \in Nat
  BY ChannelsFinite, FS_Subset, SetToSeqType
<1>2. \A msg \in T : Good(msg)
  BY GoodMessages
<1>3. RemoveChannels(S) = [k \in 1..Len(C) |-> M(k)]
  BY DEF RemoveChannels
<1> HIDE DEF C, M
<1>4. [k \in 1..Len(C) |-> M(k)] \in Seq(T)
  BY <1>1
<1>5. QED
  BY <1>2, <1>3, <1>4, GoodFrom

LEMMA RecallGood ==
  ASSUME NEW P, IsFiniteSet(P)
  PROVE  GoodSeq(Recall(P))
<1> DEFINE C == SetToSeq(P)
           M(k) == PostRemove("clear_post_removes", C[k], {})
           T == {M(k) : k \in 1..Len(C)}
<1>1. C \in Seq(P) /\ Len(C) \in Nat
  BY SetToSeqType
<1>2. \A msg \in T : Good(msg)
  BY GoodMessages
<1>3. Recall(P) = [k \in 1..Len(C) |-> M(k)]
  BY DEF Recall
<1> HIDE DEF C, M
<1>4. [k \in 1..Len(C) |-> M(k)] \in Seq(T)
  BY <1>1
<1>5. QED
  BY <1>2, <1>3, <1>4, GoodFrom

-----------------------------------------------------------------------------
(* What happens to the maps.                                                 *)
MapsInv ==
  /\ scenario \in Scenarios
  /\ map \in Map /\ upmap \in Map
  /\ ConsistentMaps
  /\ GoodSeq(link) /\ GoodSeq(unsent)

LEMMA SendGood ==
  ASSUME MapsInv, NEW msgs, GoodSeq(msgs), Send(msgs)
  PROVE  GoodSeq(link') /\ GoodSeq(unsent')
<1>1. GoodSeq(link) /\ GoodSeq(unsent)
  BY DEF MapsInv
<1>2. GoodSeq(link \o msgs) /\ GoodSeq(unsent \o msgs)
  BY <1>1, GoodConcat
<1>3. CASE m_initialized
  BY <1>1, <1>2, <1>3 DEF Send
<1>4. CASE ~m_initialized
  BY <1>1, <1>2, <1>4 DEF Send
<1>5. QED
  BY <1>3, <1>4

LEMMA SentKeepsMaps ==
  ASSUME MapsInv, NEW msgs, GoodSeq(msgs), Send(msgs), UNCHANGED <<scenario, map, upmap>>
  PROVE  MapsInv'
BY SendGood DEF MapsInv, ConsistentMaps

LEMMA ChangeKeepsMaps ==
  ASSUME MapsInv, NEW m \in Map, MapsAgree(m), NEW msgs, GoodSeq(msgs), Change(m, msgs)
  PROVE  MapsInv'
<1>1. GoodSeq(link') /\ GoodSeq(unsent')
  BY SendGood DEF Change
<1>2. map' = m /\ upmap' = upmap /\ scenario' = scenario
  BY DEF Change, upstream
<1>3. QED
  BY <1>1, <1>2 DEF MapsInv, ConsistentMaps

LEMMA ApplyControlAgrees ==
  ASSUME NEW m \in Map, MapsAgree(m), NEW msg, Good(msg)
  PROVE  ApplyControl(m, msg) \in Map /\ MapsAgree(ApplyControl(m, msg))
<1>1. Down \in Subscriber
  BY MessageDirectorAssumption
<1>2. CASE msg.kind = "add_channel"
  <2>1. (CHOOSE c \in msg.span : TRUE) \in Channel
    BY <1>2 DEF Good
  <2>2. QED
    BY <1>1, <1>2, <2>1, SubscribeChannelAgrees DEF ApplyControl
<1>3. CASE msg.kind = "remove_channel"
  BY <1>1, <1>3, UnsubscribeChannelAgrees DEF ApplyControl
<1>4. CASE msg.kind = "add_range"
  BY <1>1, <1>4, SubscribeRangeAgrees DEF ApplyControl, Good
<1>5. CASE msg.kind = "remove_range"
  BY <1>1, <1>5, UnsubscribeRangeAgrees DEF ApplyControl
<1>6. QED
  BY <1>2, <1>3, <1>4, <1>5 DEF ApplyControl

LEMMA ParticipantKeepsMaps ==
  ASSUME MapsInv, NEW p \in Alive, Participate(p)
  PROVE  MapsInv'
<1>1. p \in Subscriber /\ map \in Map /\ MapsAgree(map)
  BY MessageDirectorAssumption DEF Alive, MapsInv, ConsistentMaps
<1>2. Channels \subseteq Channel /\ Ranges \subseteq SUBSET Channel
  BY MessageDirectorAssumption, ChannelMapAssumption
     DEF MapsInv, Channels, Ranges, Interval, Channel
<1>3. GoodSeq(<<>>)
  BY GoodEmpty
<1>4. ASSUME NEW c \in Channels, SubscribeTo(p, c) PROVE MapsInv'
  <2>1. GoodSeq(<<Control("add_channel", {c})>>)
    BY <1>2, GoodMessages, GoodSingle
  <2>2. SubscribeChannel(map, p, c) \in Map /\ MapsAgree(SubscribeChannel(map, p, c))
    BY <1>1, <1>2, SubscribeChannelAgrees
  <2>3. QED
    BY <1>3, <1>4, <2>1, <2>2, ChangeKeepsMaps DEF SubscribeTo
<1>5. ASSUME NEW c \in Channels, UnsubscribeFrom(p, c) PROVE MapsInv'
  <2>1. GoodSeq(<<Control("remove_channel", {c})>>)
    BY <1>2, GoodMessages, GoodSingle
  <2>2. UnsubscribeChannel(map, p, c) \in Map /\ MapsAgree(UnsubscribeChannel(map, p, c))
    BY <1>1, <1>2, UnsubscribeChannelAgrees
  <2>3. QED
    BY <1>3, <1>5, <2>1, <2>2, ChangeKeepsMaps DEF UnsubscribeFrom
<1>6. ASSUME NEW R \in Ranges, SubscribeToRange(p, R) PROVE MapsInv'
  <2>1. GoodSeq(<<Control("add_range", R)>>)
    BY <1>2, GoodMessages, GoodSingle
  <2>2. SubscribeRange(map, p, R) \in Map /\ MapsAgree(SubscribeRange(map, p, R))
    BY <1>1, <1>2, SubscribeRangeAgrees
  <2>3. QED
    BY <1>3, <1>6, <2>1, <2>2, ChangeKeepsMaps DEF SubscribeToRange
<1>7. ASSUME NEW R \in Ranges, UnsubscribeFromRange(p, R) PROVE MapsInv'
  <2>1. PICK a, b \in {0, 1} :
          Change(UnsubscribeRange(map, p, R), RemoveRanges(SilentRanges(map, p, R, a, b)))
    BY <1>7 DEF UnsubscribeFromRange
  <2>2. GoodSeq(RemoveRanges(SilentRanges(map, p, R, a, b)))
    BY RemoveRangesGood
  <2>3. UnsubscribeRange(map, p, R) \in Map /\ MapsAgree(UnsubscribeRange(map, p, R))
    BY <1>1, UnsubscribeRangeAgrees
  <2>4. QED
    BY <2>1, <2>2, <2>3, ChangeKeepsMaps
<1>8. CASE RemoveParticipant(p)
  <2> DEFINE channels == RemoveChannels(LastChannels(map, p))
             ranges == RemoveRanges(SilentRanges(map, p, map.ranges[p], 0, 0))
             recall == IF (Threaded \/ m_main_is_routing \/ post[p] = {}) /\ post[p] # {}
                       THEN Recall({p}) ELSE <<>>
  <2>1. LastChannels(map, p) \in SUBSET Channel
    BY <1>1 DEF LastChannels, Map
  <2>2. GoodSeq(channels) /\ GoodSeq(ranges)
    BY <2>1, RemoveChannelsGood, RemoveRangesGood
  <2>3. IsFiniteSet({p})
    BY FS_Singleton
  <2>4. GoodSeq(recall)
    BY <1>3, <2>3, RecallGood
  <2>5. Change(UnsubscribeAll(map, p), (channels \o ranges) \o recall)
    BY <1>8 DEF RemoveParticipant
  <2>6. GoodSeq((channels \o ranges) \o recall)
    BY <2>2, <2>4, GoodConcat
  <2>7. UnsubscribeAll(map, p) \in Map /\ MapsAgree(UnsubscribeAll(map, p))
    BY <1>1, UnsubscribeAllAgrees
  <2>8. QED
    BY <2>5, <2>6, <2>7, ChangeKeepsMaps
<1>9. ASSUME NEW to, AddPostRemove(p, to) PROVE MapsInv'
  <2>1. GoodSeq(<<PostRemove("add_post_remove", p, {Len(sent) + 1})>>)
    BY GoodMessages, GoodSingle
  <2>2. QED
    BY <1>9, <2>1, SentKeepsMaps DEF AddPostRemove, subscriptions, upstream
<1>10. CASE ClearPostRemoves(p)
  <2>1. GoodSeq(Recall({p}))
    BY FS_Singleton, RecallGood
  <2>2. QED
    BY <1>10, <2>1, SentKeepsMaps DEF ClearPostRemoves, subscriptions, upstream
<1>11. ASSUME NEW to, NEW main, RouteDatagram(p, to, main) PROVE MapsInv'
  BY <1>11 DEF RouteDatagram, subscriptions, upstream, upstreamLink, MapsInv, ConsistentMaps
<1>12. QED
  BY <1>4, <1>5, <1>6, <1>7, <1>8, <1>9, <1>10, <1>11, Participate(p) DEF Participate

LEMMA RoutingKeepsMaps ==
  ASSUME MapsInv, IsFiniteSet(leaving),
         Route \/ Link \/ \E u \in Remote, id \in Ids : Answer(u, id)
  PROVE  MapsInv'
<1>1. CASE FlushTask \/ TakeMessage \/ ReceiveFromUpstream
           \/ (\E p \in Local : Deliver(p) \/ DeliverTruncated(p))
           \/ (\E u \in Remote, id \in Ids : Answer(u, id))
  <2>1. UNCHANGED <<scenario, map, upmap, link, unsent>>
    BY <1>1 DEF FlushTask, TakeMessage, ReceiveFromUpstream, Deliver, DeliverTruncated, Answer,
      subscriptions, upstream, upstreamLink
  <2>2. QED
    BY <2>1 DEF MapsInv, ConsistentMaps
<1>2. CASE StopFlushing
  <2>1. GoodSeq(Recall(leaving))
    BY RecallGood
  <2>2. QED
    BY <1>2, <2>1, SentKeepsMaps DEF StopFlushing, upstream
<1>3. CASE FinishMessage
  <2>1. GoodSeq(<<Forward(routing.id)>>) /\ GoodSeq(<<>>)
    BY GoodMessages, GoodSingle, GoodEmpty
  <2>2. QED
    BY <1>3, <2>1, SentKeepsMaps DEF FinishMessage, upstream
<1>4. CASE Connect
  <2>1. GoodSeq(link) /\ GoodSeq(unsent) /\ GoodSeq(link \o unsent) /\ GoodSeq(<<>>)
    BY GoodConcat, GoodEmpty DEF MapsInv
  <2>2. UNCHANGED <<scenario, map, upmap>>
    BY <1>4 DEF Connect, subscriptions, upstream
  <2>3. GoodSeq(link') /\ GoodSeq(unsent')
    BY <1>4, <2>1 DEF Connect
  <2>4. QED
    BY <2>2, <2>3 DEF MapsInv, ConsistentMaps
<1>5. CASE FlushSendQueue
  <2>1. PICK S : link \in Seq(S) /\ \A msg \in S : Good(msg)
    BY DEF MapsInv, GoodSeq
  <2>2. Good(Head(unsent)) /\ GoodSeq(Tail(unsent))
    BY <1>5, GoodRest DEF FlushSendQueue, MapsInv
  <2>3. Append(link, Head(unsent)) \in Seq(S \cup {Head(unsent)})
    BY <2>1
  <2>4. GoodSeq(Append(link, Head(unsent)))
    BY <2>1, <2>2, <2>3, GoodFrom
  <2>5. UNCHANGED <<scenario, map, upmap>>
    BY <1>5 DEF FlushSendQueue, subscriptions, upstream
  <2>6. QED
    BY <1>5, <2>2, <2>4, <2>5 DEF FlushSendQueue, MapsInv, ConsistentMaps
<1>6. CASE UpstreamReceives
  <2>1. Good(Head(link)) /\ GoodSeq(Tail(link))
    BY <1>6, GoodRest DEF UpstreamReceives, MapsInv
  <2>2. upmap' = ApplyControl(upmap, Head(link)) /\ link' = Tail(link)
    BY <1>6 DEF UpstreamReceives
  <2>3. upmap' \in Map /\ MapsAgree(upmap')
    BY <2>1, <2>2, ApplyControlAgrees DEF MapsInv, ConsistentMaps
  <2>4. UNCHANGED <<scenario, map, unsent>>
    BY <1>6 DEF UpstreamReceives, subscriptions
  <2>5. QED
    BY <2>1, <2>2, <2>3, <2>4 DEF MapsInv, ConsistentMaps
<1>7. QED
  BY <1>1, <1>2, <1>3, <1>4, <1>5, <1>6 DEF Route, Link

-----------------------------------------------------------------------------
(* Who is still there.                                                       *)
Gone(p) == map.channels[p] = {} /\ map.ranges[p] = {}

ParticipantsInv ==
  /\ leaving \subseteq Local /\ terminated \subseteq Local /\ deleted \subseteq Local
  /\ IsFiniteSet(leaving)
  /\ leaving \cap terminated = {} /\ leaving \cap deleted = {}
  /\ terminated \cap deleted = {}
  /\ \A p \in Subscriber \ Alive : Gone(p)

LEMMA OperationsAreLocal ==
  ASSUME NEW m \in Map, NEW p \in Subscriber, NEW q \in Subscriber, q # p,
         NEW c, NEW R
  PROVE  /\ SubscribeChannel(m, p, c).channels[q] = m.channels[q]
         /\ SubscribeChannel(m, p, c).ranges[q] = m.ranges[q]
         /\ UnsubscribeChannel(m, p, c).channels[q] = m.channels[q]
         /\ UnsubscribeChannel(m, p, c).ranges[q] = m.ranges[q]
         /\ SubscribeRange(m, p, R).channels[q] = m.channels[q]
         /\ SubscribeRange(m, p, R).ranges[q] = m.ranges[q]
         /\ UnsubscribeRange(m, p, R).channels[q] = m.channels[q]
         /\ UnsubscribeRange(m, p, R).ranges[q] = m.ranges[q]
         /\ UnsubscribeAll(m, p).channels[q] = m.channels[q]
         /\ UnsubscribeAll(m, p).ranges[q] = m.ranges[q]
<1>1. /\ SubscribeChannel(m, p, c).channels[q] = m.channels[q]
      /\ SubscribeChannel(m, p, c).ranges[q] = m.ranges[q]
  BY DEF Map, SubscribeChannel
<1>2. /\ UnsubscribeChannel(m, p, c).channels[q] = m.channels[q]
      /\ UnsubscribeChannel(m, p, c).ranges[q] = m.ranges[q]
  BY DEF Map, UnsubscribeChannel
<1>3. /\ SubscribeRange(m, p, R).channels[q] = m.channels[q]
      /\ SubscribeRange(m, p, R).ranges[q] = m.ranges[q]
  BY DEF Map, SubscribeRange
<1>4. /\ UnsubscribeRange(m, p, R).channels[q] = m.channels[q]
      /\ UnsubscribeRange(m, p, R).ranges[q] = m.ranges[q]
  BY DEF Map, UnsubscribeRange
<1>5. /\ UnsubscribeAll(m, p).channels[q] = m.channels[q]
      /\ UnsubscribeAll(m, p).ranges[q] = m.ranges[q]
  BY DEF Map, UnsubscribeAll
<1>6. QED
  BY <1>1, <1>2, <1>3, <1>4, <1>5

LEMMA UnsubscribeAllLeaves ==
  ASSUME NEW m \in Map, NEW p \in Subscriber
  PROVE  UnsubscribeAll(m, p).channels[p] = {} /\ UnsubscribeAll(m, p).ranges[p] = {}
BY DEF Map, UnsubscribeAll

LEMMA ParticipantsStep ==
  ASSUME MapsInv, ParticipantsInv, [Next]_vars
  PROVE  ParticipantsInv'
<1>1. map \in Map /\ Local \subseteq Subscriber
  BY MessageDirectorAssumption DEF MapsInv
<1>2. ASSUME NEW p \in Alive,
             UNCHANGED <<leaving, terminated, deleted>>,
             \A q \in Subscriber \ {p} : /\ map'.channels[q] = map.channels[q]
                                         /\ map'.ranges[q] = map.ranges[q]
      PROVE  ParticipantsInv'
  BY <1>2 DEF ParticipantsInv, Alive, Gone
<1>3. ASSUME NEW p \in Alive, Participate(p), ~RemoveParticipant(p)
      PROVE  ParticipantsInv'
  <2>1. p \in Subscriber
    BY <1>1 DEF Alive
  <2>2. UNCHANGED <<leaving, terminated, deleted>>
    BY <1>3 DEF Participate, SubscribeTo, UnsubscribeFrom, SubscribeToRange,
      UnsubscribeFromRange, AddPostRemove, ClearPostRemoves, RouteDatagram, subscriptions
  <2>3. \/ map' = map
        \/ \E c \in Channels : \/ map' = SubscribeChannel(map, p, c)
                              \/ map' = UnsubscribeChannel(map, p, c)
        \/ \E R \in Ranges : \/ map' = SubscribeRange(map, p, R)
                            \/ map' = UnsubscribeRange(map, p, R)
    BY <1>3 DEF Participate, SubscribeTo, UnsubscribeFrom, SubscribeToRange,
      UnsubscribeFromRange, AddPostRemove, ClearPostRemoves, RouteDatagram, subscriptions, Change
  <2>4. \A q \in Subscriber \ {p} : /\ map'.channels[q] = map.channels[q]
                                    /\ map'.ranges[q] = map.ranges[q]
    BY <1>1, <2>1, <2>3, OperationsAreLocal
  <2>5. QED
    BY <1>2, <2>2, <2>4
<1>4. ASSUME NEW p \in Alive, RemoveParticipant(p) PROVE ParticipantsInv'
  <2>1. p \in Subscriber /\ p \in Local /\ p \notin leaving \cup terminated \cup deleted
    BY <1>1 DEF Alive
  <2>2. map' = UnsubscribeAll(map, p)
    BY <1>4 DEF RemoveParticipant, Change
  <2>3. \/ terminated' = terminated \cup {p} /\ UNCHANGED <<leaving, deleted>>
        \/ leaving' = leaving \cup {p} /\ UNCHANGED <<terminated, deleted>>
    BY <1>4 DEF RemoveParticipant, MarkForDeletion
  <2>4. IsFiniteSet(leaving')
    BY <2>3, FS_AddElement DEF ParticipantsInv
  <2>5. Alive' = Alive \ {p}
    BY <2>3 DEF Alive
  <2>6. \A q \in Subscriber \ Alive' : Gone(q)'
    <3>1. Gone(p)'
      BY <1>1, <2>1, <2>2, UnsubscribeAllLeaves DEF Gone
    <3>2. ASSUME NEW q \in Subscriber \ Alive, q # p PROVE Gone(q)'
      BY <1>1, <2>1, <2>2, <3>2, OperationsAreLocal DEF Gone, ParticipantsInv
    <3>3. QED
      BY <2>5, <3>1, <3>2
  <2>7. QED
    BY <2>1, <2>3, <2>4, <2>6 DEF ParticipantsInv
<1>5. CASE StopFlushing
  <2>1. leaving' = {} /\ terminated' = terminated \cup leaving /\ deleted' = deleted
        /\ map' = map
    BY <1>5 DEF StopFlushing, MarkForDeletion
  <2>2. IsFiniteSet(leaving')
    BY <2>1, FS_EmptySet
  <2>3. Alive' = Alive
    BY <2>1 DEF Alive
  <2>4. QED
    BY <2>1, <2>2, <2>3 DEF ParticipantsInv, Gone
<1>6. CASE FinishMessage
  <2>1. leaving' = leaving /\ terminated' = {} /\ deleted' = deleted \cup terminated
        /\ map' = map
    BY <1>6 DEF FinishMessage
  <2>2. Alive' = Alive
    BY <2>1 DEF Alive
  <2>3. QED
    BY <2>1, <2>2 DEF ParticipantsInv, Gone
<1>7. ASSUME UNCHANGED <<leaving, terminated, deleted, map>> PROVE ParticipantsInv'
  BY <1>7 DEF ParticipantsInv, Alive, Gone
<1>8. CASE Route \/ Link \/ \E u \in Remote, id \in Ids : Answer(u, id)
  <2>1. StopFlushing \/ FinishMessage \/ UNCHANGED <<leaving, terminated, deleted, map>>
    BY <1>8 DEF Route, Link, FlushTask, TakeMessage, Deliver, DeliverTruncated, Answer,
      Connect, FlushSendQueue, UpstreamReceives, ReceiveFromUpstream, subscriptions
  <2>2. QED
    BY <1>5, <1>6, <1>7, <2>1
<1>9. CASE UNCHANGED vars
  BY <1>7, <1>9 DEF vars, subscriptions
<1>10. QED
  BY <1>3, <1>4, <1>8, <1>9 DEF Next

-----------------------------------------------------------------------------
(* The datagrams, and where they wait.                                       *)
Datagrams ==
  [from : Local \cup Remote, to : SUBSET Channel, reply : Nat,
   live : BOOLEAN, bad : BOOLEAN]

Message == [from : Local \cup {Upstream}, id : Ids]

Routing ==
  [step : {"deliver"}, from : Local \cup {Upstream}, id : Ids,
   to : SUBSET (Local \ deleted)]

DataInv ==
  /\ sent \in Seq(Datagrams)
  /\ \A i \in Ids : sent[i].from \in Local => sent[i].reply \in {NoReply} \cup Channel
  /\ post \in [Local -> SUBSET Ids]
  /\ back \in Seq(Ids)
  /\ m_messages \in Seq(Message)
  /\ routing = Idle \/ routing \in Routing

LEMMA SequencesGrow ==
  ASSUME NEW S, NEW T, S \subseteq T, NEW s \in Seq(S)
  PROVE  s \in Seq(T)
OBVIOUS

LEMMA AppendType ==
  ASSUME NEW S, NEW s \in Seq(S), NEW e \in S
  PROVE  Append(s, e) \in Seq(S)
OBVIOUS

(* Nothing but "sent" grows, and nobody is deleted.                          *)
LEMMA DataKept ==
  ASSUME DataInv, sent' \in Seq(Datagrams), Len(sent) <= Len(sent'),
         \A i \in Ids' : sent'[i].from \in Local => sent'[i].reply \in {NoReply} \cup Channel,
         deleted' = deleted
  PROVE  /\ Ids \subseteq Ids' /\ Message \subseteq Message' /\ Routing \subseteq Routing'
         /\ UNCHANGED <<post, back, m_messages, routing>> => DataInv'
<1>1. Ids \subseteq Ids'
  BY DEF DataInv, Ids
<1>2. Message \subseteq Message' /\ Routing \subseteq Routing'
  BY <1>1 DEF Message, Routing
<1>3. ASSUME UNCHANGED <<post, back, m_messages, routing>> PROVE DataInv'
  <2>1. post' \in [Local -> SUBSET Ids']
    BY <1>1, <1>3 DEF DataInv
  <2>2. back' \in Seq(Ids')
    BY <1>1, <1>3, SequencesGrow DEF DataInv
  <2>3. m_messages' \in Seq(Message')
    BY <1>2, <1>3, SequencesGrow DEF DataInv
  <2>4. routing' = Idle \/ routing' \in Routing'
    BY <1>2, <1>3 DEF DataInv
  <2>5. QED
    BY <2>1, <2>2, <2>3, <2>4 DEF DataInv
<1>4. QED
  BY <1>1, <1>2, <1>3

LEMMA SentAppended ==
  ASSUME DataInv, NEW dg \in Datagrams, sent' = Append(sent, dg),
         dg.from \in Local => dg.reply \in {NoReply} \cup Channel
  PROVE  /\ sent' \in Seq(Datagrams) /\ Len(sent') = Len(sent) + 1 /\ Len(sent) \in Nat
         /\ Len(sent) <= Len(sent') /\ Len(sent) + 1 \in Ids'
         /\ \A i \in Ids : sent'[i] = sent[i]
         /\ sent'[Len(sent) + 1] = dg
         /\ \A i \in Ids' : sent'[i].from \in Local => sent'[i].reply \in {NoReply} \cup Channel
<1>1. sent \in Seq(Datagrams) /\ Len(sent) \in Nat
  BY DEF DataInv
<1>2. /\ sent' \in Seq(Datagrams) /\ Len(sent') = Len(sent) + 1
      /\ \A i \in 1..Len(sent) : sent'[i] = sent[i]
      /\ sent'[Len(sent) + 1] = dg
  BY <1>1
<1>3. Ids' = Ids \cup {Len(sent) + 1}
  BY <1>1, <1>2 DEF Ids
<1>4. QED
  BY <1>1, <1>2, <1>3 DEF DataInv, Ids

(* TrackReplies changes only "live".                                         *)
LEMMA TrackedReplies ==
  ASSUME DataInv, NEW m, TrackReplies(m)
  PROVE  /\ sent' \in Seq(Datagrams) /\ Len(sent') = Len(sent)
         /\ \A i \in Ids : /\ sent'[i].from = sent[i].from /\ sent'[i].to = sent[i].to
                          /\ sent'[i].reply = sent[i].reply
<1>1. \A i \in Ids : sent[i] \in Datagrams
  BY DEF DataInv, Ids
<1>2. Len(sent) \in Nat /\ Ids = 1..Len(sent)
  BY DEF DataInv, Ids
<1> DEFINE dg(i) == [sent[i] EXCEPT !.live = @ /\ sent[i].from \in Local
                                          /\ IsSubscribed(m, sent[i].from, sent[i].reply)]
<1>3. \A i \in Ids : /\ dg(i) \in Datagrams
                     /\ dg(i).from = sent[i].from /\ dg(i).to = sent[i].to
                     /\ dg(i).reply = sent[i].reply
  BY <1>1 DEF Datagrams
<1>4. sent' = [i \in Ids |-> dg(i)]
  BY DEF TrackReplies
<1> HIDE DEF dg
<1>5. sent' \in Seq(Datagrams) /\ Len(sent') = Len(sent)
  BY <1>2, <1>3, <1>4
<1>6. QED
  BY <1>3, <1>4, <1>5

LEMMA ChangeKeepsData ==
  ASSUME DataInv, NEW m, TrackReplies(m), deleted' = deleted
  PROVE  /\ Ids' = Ids /\ Message' = Message /\ Routing' = Routing
         /\ UNCHANGED <<post, back, m_messages, routing>> => DataInv'
<1>1. sent' \in Seq(Datagrams) /\ Len(sent') = Len(sent) /\ Len(sent) \in Nat
  BY TrackedReplies DEF DataInv
<1>2. Ids' = Ids
  BY <1>1 DEF Ids
<1>3. \A i \in Ids' : sent'[i].from \in Local => sent'[i].reply \in {NoReply} \cup Channel
  BY <1>2, TrackedReplies DEF DataInv
<1>4. QED
  BY <1>1, <1>2, <1>3, DataKept DEF Message, Routing

(* Only those are handed a datagram who are still there.                     *)
LEMMA ReceiversAlive ==
  ASSUME MapsInv, ParticipantsInv, NEW C \in SUBSET Channel, NEW from
  PROVE  Receivers(map, from, C) \subseteq Alive \ {from}
<1>1. map \in Map /\ MapsAgree(map)
  BY DEF MapsInv, ConsistentMaps
<1>2. LookupChannels(map, C) = {s \in Subscriber : \E c \in C : IsSubscribed(map, s, c)}
  BY <1>1, LookupIsExact
<1>3. \A s \in Subscriber \ Alive : ~ \E c \in C : IsSubscribed(map, s, c)
  BY DEF ParticipantsInv, Gone, IsSubscribed
<1>4. QED
  BY <1>2, <1>3 DEF Receivers

LEMMA ParticipantKeepsData ==
  ASSUME MapsInv, DataInv, NEW p \in Alive, Participate(p)
  PROVE  DataInv'
<1>1. p \in Local /\ p \in Subscriber /\ Len(sent) \in Nat /\ 0 \in Nat
  BY MessageDirectorAssumption DEF Alive, DataInv
<1>2. \A to \in Destinations : to \subseteq Channel
  BY MessageDirectorAssumption DEF MapsInv, Destinations
<1>3. ASSUME NEW m, TrackReplies(m), UNCHANGED <<deleted, post, back, m_messages, routing>>
      PROVE  DataInv'
  BY <1>3, ChangeKeepsData
<1>4. CASE \/ \E c \in Channels : SubscribeTo(p, c) \/ UnsubscribeFrom(p, c)
           \/ \E R \in Ranges : SubscribeToRange(p, R) \/ UnsubscribeFromRange(p, R)
  <2>1. UNCHANGED <<deleted, post, back, m_messages, routing>>
    BY <1>4 DEF SubscribeTo, UnsubscribeFrom, SubscribeToRange, UnsubscribeFromRange, Change,
      upstream, queues
  <2>2. \E m : TrackReplies(m)
    BY <1>4 DEF SubscribeTo, UnsubscribeFrom, SubscribeToRange, UnsubscribeFromRange, Change
  <2>3. QED
    BY <1>3, <2>1, <2>2
<1>5. CASE RemoveParticipant(p)
  <2> DEFINE P == SetToSeq(post[p])
             routed == [k \in 1..Len(P) |-> [from |-> p, id |-> P[k]]]
  <2>1. IsFiniteSet(post[p]) /\ post[p] \subseteq Ids
    <3>1. IsFiniteSet(Ids)
      BY <1>1, FS_Interval DEF Ids
    <3>2. post[p] \subseteq Ids
      BY <1>1 DEF DataInv
    <3>3. QED
      BY <3>1, <3>2, FS_Subset
  <2>2. P \in Seq(post[p])
    BY <2>1, SetToSeqType
  <2>3. routed \in Seq(Message)
    <3>1. Len(P) \in Nat /\ \A k \in 1..Len(P) : P[k] \in Ids
      BY <2>1, <2>2
    <3>2. \A k \in 1..Len(P) : [from |-> p, id |-> P[k]] \in Message
      BY <1>1, <3>1 DEF Message
    <3> HIDE DEF P
    <3>3. QED
      BY <3>1, <3>2
  <2>4. m_messages' = m_messages \o routed
    BY <1>5 DEF RemoveParticipant
  <2>5. UNCHANGED <<deleted, post, back, routing>>
    BY <1>5 DEF RemoveParticipant, Change, MarkForDeletion, upstream
  <2>6. TrackReplies(UnsubscribeAll(map, p))
    BY <1>5 DEF RemoveParticipant, Change
  <2> HIDE DEF routed
  <2>7. /\ sent' \in Seq(Datagrams) /\ Ids' = Ids /\ Message' = Message /\ Routing' = Routing
        /\ \A i \in Ids : sent'[i].from = sent[i].from /\ sent'[i].reply = sent[i].reply
    BY <2>5, <2>6, ChangeKeepsData, TrackedReplies
  <2>8. m_messages' \in Seq(Message)
    BY <2>3, <2>4 DEF DataInv
  <2>9. QED
    BY <2>5, <2>7, <2>8 DEF DataInv
<1>6. ASSUME NEW to \in Destinations, AddPostRemove(p, to) PROVE DataInv'
  <2> DEFINE dg == Datagram(p, to, NoReply, FALSE)
  <2>1. dg \in Datagrams /\ dg.reply = NoReply
    BY <1>1, <1>2 DEF Datagram, Datagrams, NoReply
  <2>2. sent' = Append(sent, dg)
    BY <1>6 DEF AddPostRemove, NewDatagram
  <2>3. UNCHANGED <<deleted, back, m_messages, routing>>
    BY <1>6 DEF AddPostRemove, subscriptions, upstream, queues
  <2> HIDE DEF dg
  <2>4. /\ sent' \in Seq(Datagrams) /\ Len(sent) <= Len(sent') /\ Len(sent) + 1 \in Ids'
        /\ \A i \in Ids' : sent'[i].from \in Local => sent'[i].reply \in {NoReply} \cup Channel
    BY <2>1, <2>2, SentAppended
  <2>5. Ids \subseteq Ids' /\ Message \subseteq Message' /\ Routing \subseteq Routing'
    BY <2>3, <2>4, DataKept
  <2>6. post' \in [Local -> SUBSET Ids']
    BY <1>1, <1>6, <2>4, <2>5 DEF AddPostRemove, DataInv
  <2>7. back' \in Seq(Ids') /\ m_messages' \in Seq(Message')
    BY <2>3, <2>5, SequencesGrow DEF DataInv
  <2>8. routing' = Idle \/ routing' \in Routing'
    BY <2>3, <2>5 DEF DataInv
  <2>9. QED
    BY <2>4, <2>6, <2>7, <2>8 DEF DataInv
<1>7. CASE ClearPostRemoves(p)
  <2>1. UNCHANGED <<sent, deleted, back, m_messages, routing>>
    BY <1>7 DEF ClearPostRemoves, subscriptions, upstream, queues
  <2>2. Ids' = Ids /\ Message' = Message /\ Routing' = Routing
    BY <2>1 DEF Ids, Message, Routing
  <2>3. post' \in [Local -> SUBSET Ids]
    BY <1>7 DEF ClearPostRemoves, DataInv
  <2>4. QED
    BY <2>1, <2>2, <2>3 DEF DataInv
<1>8. ASSUME NEW to \in Destinations, NEW main, RouteDatagram(p, to, main) PROVE DataInv'
  <2>1. PICK reply \in {NoReply} \cup map.channels[p] \cup map.ranges[p], bad \in BOOLEAN :
          NewDatagram(Datagram(p, to, reply, bad))
    BY <1>8 DEF RouteDatagram
  <2> DEFINE dg == Datagram(p, to, reply, bad)
  <2>2. reply \in {NoReply} \cup Channel /\ reply \in Nat
    BY <1>1, <2>1 DEF MapsInv, Map, Channel, NoReply
  <2>3. dg \in Datagrams /\ dg.reply \in {NoReply} \cup Channel
    BY <1>1, <1>2, <2>1, <2>2 DEF Datagram, Datagrams
  <2>4. sent' = Append(sent, dg)
    BY <2>1 DEF NewDatagram
  <2>5. UNCHANGED <<deleted, post, back, routing>>
    BY <1>8 DEF RouteDatagram, upstream
  <2>6. m_messages' = Append(m_messages, [from |-> p, id |-> Len(sent) + 1])
    BY <1>8 DEF RouteDatagram, Enqueue
  <2> HIDE DEF dg
  <2>7. /\ sent' \in Seq(Datagrams) /\ Len(sent) <= Len(sent') /\ Len(sent) + 1 \in Ids'
        /\ \A i \in Ids' : sent'[i].from \in Local => sent'[i].reply \in {NoReply} \cup Channel
    BY <2>3, <2>4, SentAppended
  <2>8. Ids \subseteq Ids' /\ Message \subseteq Message' /\ Routing \subseteq Routing'
    BY <2>5, <2>7, DataKept
  <2>9. post' \in [Local -> SUBSET Ids']
    BY <2>5, <2>8 DEF DataInv
  <2>10. back' \in Seq(Ids') /\ m_messages \in Seq(Message')
    BY <2>5, <2>8, SequencesGrow DEF DataInv
  <2>11. [from |-> p, id |-> Len(sent) + 1] \in Message'
    BY <1>1, <2>7 DEF Message
  <2>12. m_messages' \in Seq(Message')
    BY <2>6, <2>10, <2>11
  <2>13. routing' = Idle \/ routing' \in Routing'
    BY <2>5, <2>8 DEF DataInv
  <2>14. QED
    BY <2>7, <2>9, <2>10, <2>12, <2>13 DEF DataInv
<1>9. QED
  BY <1>4, <1>5, <1>6, <1>7, <1>8, Participate(p) DEF Participate

LEMMA RoutingKeepsData ==
  ASSUME MapsInv, ParticipantsInv, DataInv,
         Route \/ Link \/ \E u \in Remote, id \in Ids : Answer(u, id)
  PROVE  DataInv'
<1>1. Len(sent) \in Nat /\ \A i \in Ids : sent[i] \in Datagrams
  BY DEF DataInv, Ids
<1>2. ASSUME UNCHANGED <<sent, post, back, m_messages, routing, deleted>> PROVE DataInv'
  BY <1>2 DEF DataInv, Ids, Message, Routing
<1>3. CASE FlushTask \/ StopFlushing \/ Connect \/ FlushSendQueue
  <2>1. UNCHANGED <<sent, post, back, m_messages, routing, deleted>>
    BY <1>3 DEF FlushTask, StopFlushing, Connect, FlushSendQueue, MarkForDeletion, upstream, queues
  <2>2. QED
    BY <1>2, <2>1
<1>4. CASE TakeMessage
  <2> DEFINE msg == Head(m_messages)
             to == Receivers(map, msg.from, sent[msg.id].to)
  <2>1. msg \in Message /\ Tail(m_messages) \in Seq(Message)
    BY <1>4 DEF TakeMessage, DataInv
  <2>2. msg.id \in Ids /\ msg.from \in Local \cup {Upstream}
    BY <2>1 DEF Message
  <2>3. sent[msg.id].to \in SUBSET Channel
    BY <1>1, <2>2 DEF Datagrams
  <2>4. to \subseteq Local \ deleted
    BY <2>3, ReceiversAlive DEF Alive
  <2>5. routing' = [step |-> "deliver", from |-> msg.from, id |-> msg.id, to |-> to]
    BY <1>4 DEF TakeMessage
  <2>6. UNCHANGED <<sent, post, back, deleted>> /\ m_messages' = Tail(m_messages)
    BY <1>4 DEF TakeMessage, upstream
  <2> HIDE DEF msg, to
  <2>7. Ids' = Ids /\ Message' = Message /\ Routing' = Routing
    BY <2>6 DEF Ids, Message, Routing
  <2>8. routing' \in Routing
    BY <2>2, <2>4, <2>5 DEF Routing
  <2>9. m_messages' \in Seq(Message)
    BY <2>1, <2>6
  <2>10. QED
    BY <2>6, <2>7, <2>8, <2>9 DEF DataInv
<1>5. ASSUME NEW p \in Local, Deliver(p) PROVE DataInv'
  <2>1. UNCHANGED <<sent, post, back, m_messages, deleted>>
    BY <1>5 DEF Deliver, queues, upstream
  <2>2. routing' \in Routing
    BY <1>5 DEF Deliver, DataInv, Routing
  <2>3. Ids' = Ids /\ Message' = Message /\ Routing' = Routing
    BY <2>1 DEF Ids, Message, Routing
  <2>4. QED
    BY <2>1, <2>2, <2>3 DEF DataInv
<1>6. ASSUME NEW p \in Local, DeliverTruncated(p) PROVE DataInv'
  <2>1. UNCHANGED <<sent, post, back, m_messages, deleted>> /\ routing' = Idle
    BY <1>6 DEF DeliverTruncated, queues, upstream
  <2>2. QED
    BY <2>1 DEF DataInv, Ids, Message
<1>7. CASE FinishMessage
  <2>1. UNCHANGED <<sent, post, back, m_messages>> /\ routing' = Idle
    BY <1>7 DEF FinishMessage, queues, upstream
  <2>2. QED
    BY <2>1 DEF DataInv, Ids, Message
<1>8. CASE UpstreamReceives
  <2>1. UNCHANGED <<sent, post, m_messages, routing, deleted>>
    BY <1>8 DEF UpstreamReceives, queues
  <2>2. back' = back
    BY <1>8 DEF UpstreamReceives, Receivers
  <2>3. QED
    BY <1>2, <2>1, <2>2
<1>9. CASE ReceiveFromUpstream
  <2>1. UNCHANGED <<sent, post, routing, deleted>> /\ back' = Tail(back)
        /\ m_messages' = Append(m_messages, [from |-> Upstream, id |-> Head(back)])
    BY <1>9 DEF ReceiveFromUpstream, Enqueue
  <2>2. Head(back) \in Ids /\ Tail(back) \in Seq(Ids)
    BY <1>9 DEF ReceiveFromUpstream, DataInv
  <2>3. [from |-> Upstream, id |-> Head(back)] \in Message
    BY <2>2 DEF Message
  <2>4. m_messages' \in Seq(Message)
    BY <2>1, <2>3 DEF DataInv
  <2>5. Ids' = Ids /\ Message' = Message /\ Routing' = Routing
    BY <2>1 DEF Ids, Message, Routing
  <2>6. QED
    BY <2>1, <2>2, <2>4, <2>5 DEF DataInv
<1>10. ASSUME NEW u \in Remote, NEW id \in Ids, Answer(u, id) PROVE DataInv'
  <2> DEFINE dg == [Datagram(u, {sent[id].reply}, id, FALSE) EXCEPT !.live = FALSE]
  <2>1. sent[id].reply \in Channel
    BY <1>10 DEF Answer, DataInv
  <2>2. id \in Nat
    BY <1>1 DEF Ids
  <2>3. Datagram(u, {sent[id].reply}, id, FALSE) \in Datagrams
        /\ Datagram(u, {sent[id].reply}, id, FALSE).from = u
    BY <2>1, <2>2 DEF Datagram, Datagrams
  <2>4. dg \in Datagrams /\ dg.from = u
    BY <2>3 DEF Datagrams
  <2>5. u \notin Local
    BY MessageDirectorAssumption
  <2>6. sent' = Append(sent, dg)
    BY <1>10 DEF Answer
  <2>7. back' = Append(back, Len(sent) + 1) \/ back' = back
    BY <1>10 DEF Answer
  <2>8. UNCHANGED <<post, m_messages, routing, deleted>>
    BY <1>10 DEF Answer, queues
  <2> HIDE DEF dg
  <2>9. /\ sent' \in Seq(Datagrams) /\ Len(sent) <= Len(sent') /\ Len(sent) + 1 \in Ids'
        /\ \A i \in Ids' : sent'[i].from \in Local => sent'[i].reply \in {NoReply} \cup Channel
    BY <2>4, <2>5, <2>6, SentAppended
  <2>10. Ids \subseteq Ids' /\ Message \subseteq Message' /\ Routing \subseteq Routing'
    BY <2>8, <2>9, DataKept
  <2>11. back \in Seq(Ids') /\ m_messages' \in Seq(Message')
    BY <2>8, <2>10, SequencesGrow DEF DataInv
  <2>12. back' \in Seq(Ids')
    <3>1. Len(sent) + 1 \in Ids'
      BY <2>9
    <3>2. back \in Seq(Ids')
      BY <2>11
    <3>3. Append(back, Len(sent) + 1) \in Seq(Ids')
      BY <3>1, <3>2, AppendType
    <3>4. QED
      BY <2>7, <3>2, <3>3
  <2>13. post' \in [Local -> SUBSET Ids'] /\ (routing' = Idle \/ routing' \in Routing')
    BY <2>8, <2>10 DEF DataInv
  <2>14. QED
    BY <2>9, <2>11, <2>12, <2>13 DEF DataInv
<1>11. QED
  BY <1>3, <1>4, <1>5, <1>6, <1>7, <1>8, <1>9, <1>10 DEF Route, Link

-----------------------------------------------------------------------------
DirectorInv == MapsInv /\ ParticipantsInv /\ DataInv

LEMMA Initially == Init => DirectorInv
<1> SUFFICES ASSUME Init PROVE DirectorInv
  OBVIOUS
<1>1. map \in Map /\ MapsAgree(map)
  BY DEF Init, EmptyMap, Map, MapsAgree
<1>2. upmap \in Map /\ MapsAgree(upmap)
  <2>1. Service \in Channel /\ Remote \subseteq Subscriber
    BY MessageDirectorAssumption
  <2>2. upmap = [channels |-> [p \in Subscriber |-> IF p \in Remote THEN {Service} ELSE {}],
                 ranges |-> [p \in Subscriber |-> {}],
                 channel_subs |-> {Service} \X Remote,
                 range_subs |-> [c \in Channel |-> {}]]
    BY DEF Init, EmptyMap
  <2>3. {Service} \X Remote \in SUBSET (Channel \X Subscriber)
    BY <2>1
  <2>4. QED
    BY <2>1, <2>2, <2>3 DEF Map, MapsAgree
<1>3. MapsInv
  BY <1>1, <1>2, GoodEmpty DEF Init, MapsInv, ConsistentMaps
<1>4. ParticipantsInv
  BY FS_EmptySet DEF Init, ParticipantsInv, EmptyMap, Gone
<1>5. DataInv
  BY DEF Init, DataInv, Ids
<1>6. QED
  BY <1>3, <1>4, <1>5 DEF DirectorInv

LEMMA DirectorStep == DirectorInv /\ [Next]_vars => DirectorInv'
<1> SUFFICES ASSUME DirectorInv, [Next]_vars PROVE DirectorInv'
  OBVIOUS
<1>1. MapsInv /\ ParticipantsInv /\ DataInv /\ IsFiniteSet(leaving)
  BY DEF DirectorInv, ParticipantsInv
<1>2. ParticipantsInv'
  BY <1>1, ParticipantsStep
<1>3. ASSUME NEW p \in Alive, Participate(p) PROVE DirectorInv'
  BY <1>1, <1>2, <1>3, ParticipantKeepsMaps, ParticipantKeepsData DEF DirectorInv
<1>4. CASE Route \/ Link \/ \E u \in Remote, id \in Ids : Answer(u, id)
  BY <1>1, <1>2, <1>4, RoutingKeepsMaps, RoutingKeepsData DEF DirectorInv
<1>5. CASE UNCHANGED vars
  <2>1. MapsInv'
    BY <1>1, <1>5 DEF vars, subscriptions, upstream, upstreamLink, MapsInv, ConsistentMaps
  <2>2. DataInv'
    BY <1>1, <1>5 DEF vars, upstream, queues, DataInv, Ids, Message, Routing
  <2>3. QED
    BY <1>2, <2>1, <2>2 DEF DirectorInv
<1>6. QED
  BY <1>3, <1>4, <1>5 DEF Next

(* Whatever participants subscribe to and drop, and however the routing      *)
(* interleaves with it, lookup_channels and is_subscribed agree in this      *)
(* director's map and in the upstream's.                                     *)
THEOREM MapsStayConsistent == Spec => []ConsistentMaps
<1>1. DirectorInv => ConsistentMaps
  BY DEF DirectorInv, MapsInv
<1>2. QED
  BY <1>1, Initially, DirectorStep, PTL DEF Spec

(* A datagram is never handed to a participant that has been deleted: one    *)
(* that is removed during the routing is deleted when the routing is over,   *)
(* and no lookup finds it again.                                             *)
THEOREM ReceiversStayLive == Spec => []ReceiversLive
<1>1. DirectorInv => ReceiversLive
  <2> SUFFICES ASSUME DirectorInv PROVE ReceiversLive
    OBVIOUS
  <2>1. routing # Idle => routing.to \cap deleted = {}
    BY DEF DirectorInv, DataInv, Routing
  <2>2. QED
    BY <2>1 DEF DirectorInv, ParticipantsInv, ReceiversLive
<1>2. QED
  BY <1>1, Initially, DirectorStep, PTL DEF Spec

-----------------------------------------------------------------------------
(* A datagram has one place at a time: a post-remove, the queue, the routing *)
(* and the link upstream, or the way back from there; it is handed out in    *)
(* two of them.                                                              *)

(* The datagrams in a queue of messages, in a sequence of ids and among the  *)
(* messages of a link, and that none is there twice.                         *)
QueueIds(s) == {s[k].id : k \in 1..Len(s)}
QueueOnce(s) == \A j, k \in 1..Len(s) : s[j].id = s[k].id => j = k

BackIds(s) == {s[k] : k \in 1..Len(s)}
BackOnce(s) == \A j, k \in 1..Len(s) : s[j] = s[k] => j = k

LinkIds(s) == {s[k].id : k \in {j \in 1..Len(s) : s[j].kind = "datagram"}}
LinkOnce(s) ==
  \A j, k \in 1..Len(s) :
    s[j].kind = "datagram" /\ s[k].kind = "datagram" /\ s[j].id = s[k].id => j = k

(* Where the elements of s \o t come from.                                  *)
Joins(u, s, t) ==
  /\ Len(u) = Len(s) + Len(t)
  /\ \A k \in 1..Len(s) : k \in 1..Len(u) /\ u[k] = s[k]
  /\ \A k \in 1..Len(t) : Len(s) + k \in 1..Len(u) /\ u[Len(s) + k] = t[k]
  /\ \A k \in 1..Len(u) : k \in 1..Len(s) \/ \E l \in 1..Len(t) : k = Len(s) + l

LEMMA ConcatParts ==
  ASSUME NEW S, NEW s \in Seq(S), NEW t \in Seq(S)
  PROVE  Joins(s \o t, s, t)
<1>1. /\ Len(s) \in Nat /\ Len(t) \in Nat /\ Len(s \o t) = Len(s) + Len(t)
      /\ \A k \in 1..Len(s) : (s \o t)[k] = s[k]
      /\ \A k \in 1..Len(t) : (s \o t)[Len(s) + k] = t[k]
  OBVIOUS
<1>2. ASSUME NEW k \in 1..(Len(s) + Len(t)), k \notin 1..Len(s)
      PROVE  k - Len(s) \in 1..Len(t) /\ k = Len(s) + (k - Len(s))
  BY <1>1, <1>2
<1>3. \A k \in 1..(Len(s) + Len(t)) :
        k \in 1..Len(s) \/ \E l \in 1..Len(t) : k = Len(s) + l
  BY <1>2
<1>4. QED
  BY <1>1, <1>3 DEF Joins

LEMMA QueueConcat ==
  ASSUME NEW S, NEW s \in Seq(S), NEW t \in Seq(S)
  PROVE  /\ QueueIds(s \o t) = QueueIds(s) \cup QueueIds(t)
         /\ QueueOnce(s) /\ QueueOnce(t) /\ QueueIds(s) \cap QueueIds(t) = {}
            => QueueOnce(s \o t)
<1> DEFINE u == s \o t
<1>0. Joins(u, s, t)
  BY ConcatParts
<1> HIDE DEF u
<1>1. /\ Len(u) = Len(s) + Len(t)
      /\ \A k \in 1..Len(s) : k \in 1..Len(u) /\ u[k] = s[k]
      /\ \A k \in 1..Len(t) : Len(s) + k \in 1..Len(u) /\ u[Len(s) + k] = t[k]
      /\ \A k \in 1..Len(u) : k \in 1..Len(s) \/ \E l \in 1..Len(t) : k = Len(s) + l
  BY <1>0 DEF Joins
<1>2. ASSUME NEW k \in 1..Len(u)
      PROVE  u[k].id \in QueueIds(s) \cup QueueIds(t)
  <2>1. CASE k \in 1..Len(s)
    BY <1>1, <1>2, <2>1 DEF QueueIds
  <2>2. ASSUME NEW l \in 1..Len(t), k = Len(s) + l PROVE u[k].id \in QueueIds(t)
    BY <1>1, <1>2, <2>2 DEF QueueIds
  <2>3. QED
    BY <1>1, <2>1, <2>2
<1>3. /\ \A k \in 1..Len(s) : s[k].id \in QueueIds(u)
      /\ \A k \in 1..Len(t) : t[k].id \in QueueIds(u)
  <2>1. ASSUME NEW k \in 1..Len(s) PROVE s[k].id \in QueueIds(u)
    BY <1>1, <2>1 DEF QueueIds
  <2>2. ASSUME NEW k \in 1..Len(t) PROVE t[k].id \in QueueIds(u)
    <3>1. Len(s) + k \in 1..Len(u) /\ u[Len(s) + k] = t[k]
      BY <1>1
    <3>2. QED
      BY <2>2, <3>1 DEF QueueIds
  <2>3. QED
    BY <2>1, <2>2
<1>4. ASSUME QueueOnce(s), QueueOnce(t), QueueIds(s) \cap QueueIds(t) = {},
             NEW j \in 1..Len(u), NEW k \in 1..Len(u),
             u[j].id = u[k].id
      PROVE  j = k
  <2>1. CASE j \in 1..Len(s) /\ k \in 1..Len(s)
    BY <1>1, <1>4, <2>1 DEF QueueOnce
  <2>2. ASSUME NEW l \in 1..Len(t), NEW m \in 1..Len(t), j = Len(s) + l, k = Len(s) + m
        PROVE  j = k
    BY <1>1, <1>4, <2>2 DEF QueueOnce
  <2>3. ASSUME NEW l \in 1..Len(s), NEW m \in 1..Len(t)
        PROVE  s[l].id # t[m].id
    BY <1>4, <2>3 DEF QueueIds
  <2>4. ASSUME NEW m \in 1..Len(t), j \in 1..Len(s), k = Len(s) + m PROVE FALSE
    BY <1>1, <1>4, <2>3, <2>4
  <2>5. ASSUME NEW m \in 1..Len(t), k \in 1..Len(s), j = Len(s) + m PROVE FALSE
    BY <1>1, <1>4, <2>3, <2>5
  <2>6. QED
    BY <1>1, <2>1, <2>2, <2>4, <2>5
<1>5. QueueIds(u) = QueueIds(s) \cup QueueIds(t)
  <2>1. QueueIds(u) \subseteq QueueIds(s) \cup QueueIds(t)
    BY <1>2 DEF QueueIds
  <2>2. QueueIds(s) \subseteq QueueIds(u) /\ QueueIds(t) \subseteq QueueIds(u)
    BY <1>3 DEF QueueIds
  <2>3. QED
    BY <2>1, <2>2
<1>6. QED
  BY <1>4, <1>5 DEF u, QueueOnce

LEMMA QueueAppend ==
  ASSUME NEW S, NEW s \in Seq(S), NEW msg \in S
  PROVE  /\ QueueIds(Append(s, msg)) = QueueIds(s) \cup {msg.id}
         /\ QueueOnce(s) /\ msg.id \notin QueueIds(s) => QueueOnce(Append(s, msg))
<1>1. /\ Len(s) \in Nat /\ Len(Append(s, msg)) = Len(s) + 1
      /\ \A k \in 1..Len(s) : Append(s, msg)[k] = s[k]
      /\ Append(s, msg)[Len(s) + 1] = msg
  OBVIOUS
<1>2. 1..(Len(s) + 1) = 1..Len(s) \cup {Len(s) + 1}
  BY <1>1
<1>3. QED
  BY <1>1, <1>2 DEF QueueIds, QueueOnce

LEMMA QueueTail ==
  ASSUME NEW S, NEW s \in Seq(S), s # <<>>, QueueOnce(s)
  PROVE  /\ QueueIds(Tail(s)) = QueueIds(s) \ {Head(s).id}
         /\ QueueOnce(Tail(s))
         /\ Head(s).id \in QueueIds(s)
<1>1. /\ Len(s) \in Nat \ {0} /\ Len(Tail(s)) = Len(s) - 1 /\ Head(s) = s[1]
      /\ \A k \in 1..(Len(s) - 1) : Tail(s)[k] = s[k + 1]
  OBVIOUS
<1>2. \A k \in 1..(Len(s) - 1) : k + 1 \in 1..Len(s) /\ k + 1 # 1
  BY <1>1
<1>3. \A k \in 1..Len(s) : k = 1 \/ (k - 1 \in 1..(Len(s) - 1) /\ k = (k - 1) + 1)
  BY <1>1
<1>4. 1 \in 1..Len(s)
  BY <1>1
<1>5. QueueIds(Tail(s)) = QueueIds(s) \ {Head(s).id}
  <2>1. ASSUME NEW k \in 1..Len(Tail(s)) PROVE Tail(s)[k].id \in QueueIds(s) \ {Head(s).id}
    BY <1>1, <1>2, <1>4, <2>1 DEF QueueIds, QueueOnce
  <2>2. ASSUME NEW k \in 1..Len(s), s[k].id # Head(s).id PROVE s[k].id \in QueueIds(Tail(s))
    BY <1>1, <1>3, <2>2 DEF QueueIds
  <2>3. QED
    BY <2>1, <2>2 DEF QueueIds
<1>6. QueueOnce(Tail(s))
  BY <1>1, <1>2 DEF QueueOnce
<1>7. QED
  BY <1>1, <1>4, <1>5, <1>6 DEF QueueIds

LEMMA BackAppend ==
  ASSUME NEW S, NEW s \in Seq(S), NEW id \in S
  PROVE  /\ BackIds(Append(s, id)) = BackIds(s) \cup {id}
         /\ BackOnce(s) /\ id \notin BackIds(s) => BackOnce(Append(s, id))
<1>1. /\ Len(s) \in Nat /\ Len(Append(s, id)) = Len(s) + 1
      /\ \A k \in 1..Len(s) : Append(s, id)[k] = s[k]
      /\ Append(s, id)[Len(s) + 1] = id
  OBVIOUS
<1>2. 1..(Len(s) + 1) = 1..Len(s) \cup {Len(s) + 1}
  BY <1>1
<1>3. QED
  BY <1>1, <1>2 DEF BackIds, BackOnce

LEMMA BackTail ==
  ASSUME NEW S, NEW s \in Seq(S), s # <<>>, BackOnce(s)
  PROVE  /\ BackIds(Tail(s)) = BackIds(s) \ {Head(s)}
         /\ BackOnce(Tail(s))
         /\ Head(s) \in BackIds(s)
<1>1. /\ Len(s) \in Nat \ {0} /\ Len(Tail(s)) = Len(s) - 1 /\ Head(s) = s[1]
      /\ \A k \in 1..(Len(s) - 1) : Tail(s)[k] = s[k + 1]
  OBVIOUS
<1>2. \A k \in 1..(Len(s) - 1) : k + 1 \in 1..Len(s) /\ k + 1 # 1
  BY <1>1
<1>3. \A k \in 1..Len(s) : k = 1 \/ (k - 1 \in 1..(Len(s) - 1) /\ k = (k - 1) + 1)
  BY <1>1
<1>4. 1 \in 1..Len(s)
  BY <1>1
<1>5. BackIds(Tail(s)) = BackIds(s) \ {Head(s)}
  <2>1. ASSUME NEW k \in 1..Len(Tail(s)) PROVE Tail(s)[k] \in BackIds(s) \ {Head(s)}
    BY <1>1, <1>2, <1>4, <2>1 DEF BackIds, BackOnce
  <2>2. ASSUME NEW k \in 1..Len(s), s[k] # Head(s) PROVE s[k] \in BackIds(Tail(s))
    BY <1>1, <1>3, <2>2 DEF BackIds
  <2>3. QED
    BY <2>1, <2>2 DEF BackIds
<1>6. BackOnce(Tail(s))
  BY <1>1, <1>2 DEF BackOnce
<1>7. QED
  BY <1>1, <1>4, <1>5, <1>6 DEF BackIds

LEMMA LinkConcat ==
  ASSUME NEW S, NEW s \in Seq(S), NEW t \in Seq(S)
  PROVE  /\ LinkIds(s \o t) = LinkIds(s) \cup LinkIds(t)
         /\ LinkOnce(s) /\ LinkOnce(t) /\ LinkIds(s) \cap LinkIds(t) = {}
            => LinkOnce(s \o t)
<1> DEFINE u == s \o t
<1>0. Joins(u, s, t)
  BY ConcatParts
<1> HIDE DEF u
<1>1. /\ Len(u) = Len(s) + Len(t)
      /\ \A k \in 1..Len(s) : k \in 1..Len(u) /\ u[k] = s[k]
      /\ \A k \in 1..Len(t) : Len(s) + k \in 1..Len(u) /\ u[Len(s) + k] = t[k]
      /\ \A k \in 1..Len(u) : k \in 1..Len(s) \/ \E l \in 1..Len(t) : k = Len(s) + l
  BY <1>0 DEF Joins
<1>2. ASSUME NEW k \in 1..Len(u), u[k].kind = "datagram"
      PROVE  u[k].id \in LinkIds(s) \cup LinkIds(t)
  <2>1. CASE k \in 1..Len(s)
    BY <1>1, <1>2, <2>1 DEF LinkIds
  <2>2. ASSUME NEW l \in 1..Len(t), k = Len(s) + l PROVE u[k].id \in LinkIds(t)
    BY <1>1, <1>2, <2>2 DEF LinkIds
  <2>3. QED
    BY <1>1, <2>1, <2>2
<1>3. /\ \A k \in 1..Len(s) : s[k].kind = "datagram" => s[k].id \in LinkIds(u)
      /\ \A k \in 1..Len(t) : t[k].kind = "datagram" => t[k].id \in LinkIds(u)
  <2>1. ASSUME NEW k \in 1..Len(s), s[k].kind = "datagram" PROVE s[k].id \in LinkIds(u)
    BY <1>1, <2>1 DEF LinkIds
  <2>2. ASSUME NEW k \in 1..Len(t), t[k].kind = "datagram" PROVE t[k].id \in LinkIds(u)
    <3>1. Len(s) + k \in 1..Len(u) /\ u[Len(s) + k] = t[k]
      BY <1>1
    <3>2. QED
      BY <2>2, <3>1 DEF LinkIds
  <2>3. QED
    BY <2>1, <2>2
<1>4. ASSUME LinkOnce(s), LinkOnce(t), LinkIds(s) \cap LinkIds(t) = {},
             NEW j \in 1..Len(u), NEW k \in 1..Len(u),
             u[j].kind = "datagram", u[k].kind = "datagram", u[j].id = u[k].id
      PROVE  j = k
  <2>1. CASE j \in 1..Len(s) /\ k \in 1..Len(s)
    BY <1>1, <1>4, <2>1 DEF LinkOnce
  <2>2. ASSUME NEW l \in 1..Len(t), NEW m \in 1..Len(t), j = Len(s) + l, k = Len(s) + m
        PROVE  j = k
    BY <1>1, <1>4, <2>2 DEF LinkOnce
  <2>3. ASSUME NEW l \in 1..Len(s), NEW m \in 1..Len(t),
               s[l].kind = "datagram", t[m].kind = "datagram"
        PROVE  s[l].id # t[m].id
    BY <1>4, <2>3 DEF LinkIds
  <2>4. ASSUME NEW m \in 1..Len(t), j \in 1..Len(s), k = Len(s) + m PROVE FALSE
    <3>1. u[j] = s[j] /\ u[k] = t[m]
      BY <1>1, <2>4
    <3>2. QED
      BY <1>4, <2>3, <2>4, <3>1
  <2>5. ASSUME NEW m \in 1..Len(t), k \in 1..Len(s), j = Len(s) + m PROVE FALSE
    <3>1. u[k] = s[k] /\ u[j] = t[m]
      BY <1>1, <2>5
    <3>2. QED
      BY <1>4, <2>3, <2>5, <3>1
  <2>6. QED
    BY <1>1, <2>1, <2>2, <2>4, <2>5
<1>5. LinkIds(u) = LinkIds(s) \cup LinkIds(t)
  <2>1. LinkIds(u) \subseteq LinkIds(s) \cup LinkIds(t)
    BY <1>2 DEF LinkIds
  <2>2. LinkIds(s) \subseteq LinkIds(u) /\ LinkIds(t) \subseteq LinkIds(u)
    BY <1>3 DEF LinkIds
  <2>3. QED
    BY <2>1, <2>2
<1>6. QED
  BY <1>4, <1>5 DEF u, LinkOnce

LEMMA LinkTail ==
  ASSUME NEW S, NEW s \in Seq(S), s # <<>>, LinkOnce(s)
  PROVE  /\ LinkIds(Tail(s)) = IF Head(s).kind = "datagram"
                               THEN LinkIds(s) \ {Head(s).id} ELSE LinkIds(s)
         /\ LinkOnce(Tail(s))
         /\ Head(s).kind = "datagram" => Head(s).id \in LinkIds(s)
<1>1. /\ Len(s) \in Nat \ {0} /\ Len(Tail(s)) = Len(s) - 1 /\ Head(s) = s[1]
      /\ \A k \in 1..(Len(s) - 1) : Tail(s)[k] = s[k + 1]
  OBVIOUS
<1>2. \A k \in 1..(Len(s) - 1) : k + 1 \in 1..Len(s) /\ k + 1 # 1
  BY <1>1
<1>3. \A k \in 1..Len(s) : k = 1 \/ (k - 1 \in 1..(Len(s) - 1) /\ k = (k - 1) + 1)
  BY <1>1
<1>4. 1 \in 1..Len(s)
  BY <1>1
<1> DEFINE t == Tail(s)
           h == Head(s)
<1> HIDE DEF t, h
<1>5. LinkIds(t) = IF h.kind = "datagram" THEN LinkIds(s) \ {h.id} ELSE LinkIds(s)
  <2>1. /\ Len(t) = Len(s) - 1 /\ h = s[1]
        /\ \A k \in 1..Len(t) : t[k] = s[k + 1] /\ k + 1 \in 1..Len(s) /\ k + 1 # 1
    BY <1>1, <1>2 DEF t, h
  <2>2. ASSUME NEW k \in 1..Len(t), t[k].kind = "datagram"
        PROVE  t[k].id \in LinkIds(s) /\ (h.kind = "datagram" => t[k].id # h.id)
    BY <1>4, <2>1, <2>2 DEF LinkIds, LinkOnce
  <2>3. ASSUME NEW k \in 1..Len(s), s[k].kind = "datagram", k # 1
        PROVE  s[k].id \in LinkIds(t)
    <3>1. k - 1 \in 1..Len(t) /\ t[k - 1] = s[k]
      BY <1>3, <2>1, <2>3
    <3>2. QED
      BY <2>3, <3>1 DEF LinkIds
  <2>4. ASSUME NEW i \in LinkIds(s)
        PROVE  i \in LinkIds(t) \/ (h.kind = "datagram" /\ i = h.id)
    <3>1. PICK k \in 1..Len(s) : s[k].kind = "datagram" /\ i = s[k].id
      BY <2>4 DEF LinkIds
    <3>2. QED
      BY <2>1, <2>3, <3>1
  <2>5. ASSUME NEW i \in LinkIds(t)
        PROVE  i \in LinkIds(s) /\ (h.kind = "datagram" => i # h.id)
    <3>1. PICK k \in 1..Len(t) : t[k].kind = "datagram" /\ i = t[k].id
      BY <2>5 DEF LinkIds
    <3>2. QED
      BY <2>2, <3>1
  <2>6. QED
    BY <2>4, <2>5
<1>6. LinkOnce(Tail(s))
  BY <1>1, <1>2 DEF LinkOnce
<1>7. QED
  BY <1>1, <1>4, <1>5, <1>6 DEF LinkIds, t, h

LEMMA LinkSingle ==
  ASSUME NEW msg
  PROVE  /\ LinkIds(<<msg>>) = IF msg.kind = "datagram" THEN {msg.id} ELSE {}
         /\ LinkOnce(<<msg>>)
<1>1. Len(<<msg>>) = 1 /\ <<msg>>[1] = msg /\ 1..1 = {1}
  OBVIOUS
<1>2. QED
  BY <1>1 DEF LinkIds, LinkOnce

-----------------------------------------------------------------------------
(* Where datagrams are: in a post-remove of somebody who is there, in the    *)
(* queue, at process_datagram, on the link to the upstream, on the way back. *)
Held == UNION {post[p] : p \in Alive}
Queued == QueueIds(m_messages)
Routed == IF routing = Idle THEN {} ELSE {routing.id}
Rising == LinkIds(link) \cup LinkIds(unsent)
Returning == BackIds(back)

\* Nobody here had these, and nobody upstream had those.
Waiting == Held \cup Queued \cup Returning
Climbing == Held \cup Queued \cup Routed \cup Rising

LinksOnce ==
  /\ LinkOnce(link) /\ LinkOnce(unsent)
  /\ LinkIds(link) \cap LinkIds(unsent) = {}

PlacesInv ==
  /\ QueueOnce(m_messages) /\ BackOnce(back) /\ LinksOnce
  /\ Queued \cap Returning = {}
  /\ Routed \cap (Queued \cup Returning) = {}
  /\ Held \cap (Queued \cup Returning \cup Routed) = {}
  /\ Rising \cap (Held \cup Queued \cup Routed) = {}

\* The queue knows where a datagram of this director's participants is from.
Source(i) == IF sent[i].from \in Local THEN sent[i].from ELSE Upstream
Honest == {msg \in Message : msg.from = Source(msg.id)}

OriginInv ==
  /\ m_messages \in Seq(Honest)
  /\ routing # Idle => routing.from = Source(routing.id)
  /\ \A p \in Local : \A i \in post[p] : sent[i].from = p
  /\ \A i \in Returning : sent[i].from \in Remote
  /\ \A i \in Rising : i \in Ids /\ sent[i].from \in Local

HandedInv ==
  /\ \A i \in Waiting, p \in Local : got[i][p] = 0
  /\ routing # Idle =>
       \A p \in routing.to : got[routing.id][p] = 0 /\ p # sent[routing.id].from
  /\ \A i \in Climbing, u \in Remote : sent[i].from \in Local => got[i][u] = 0
  /\ DeliveredOnce

\* No participant of this director subscribes at the upstream itself.
UpmapInv == \A p \in Local : upmap.channels[p] = {} /\ upmap.ranges[p] = {}

GotInv == got \in Seq([Subscriber -> Nat]) /\ Len(got) = Len(sent)

TokenInv == PlacesInv /\ OriginInv /\ HandedInv /\ UpmapInv /\ GotInv

LEMMA PlacesTyped ==
  ASSUME DataInv, OriginInv
  PROVE  /\ Waiting \subseteq Ids /\ Climbing \subseteq Ids
         /\ \A i \in Held : sent[i].from \in Local
         /\ \A i \in Ids : sent[i].from \in Local \cup Remote
         /\ Local \subseteq Subscriber /\ Remote \subseteq Subscriber /\ Down \in Subscriber
         /\ Local \cap Remote = {} /\ Down \notin Local \cup Remote
         /\ Subscriber = Local \cup Remote \cup {Down}
<1>1. Alive \subseteq Local
  BY DEF Alive
<1>2. Held \subseteq Ids /\ \A i \in Held : sent[i].from \in Local
  BY <1>1 DEF Held, DataInv, OriginInv
<1>3. Queued \subseteq Ids
  <2>1. \A k \in 1..Len(m_messages) : m_messages[k] \in Message
    BY DEF DataInv
  <2>2. QED
    BY <2>1 DEF Queued, QueueIds, Message
<1>4. Returning \subseteq Ids
  BY DEF Returning, BackIds, DataInv
<1>5. Routed \subseteq Ids
  BY DEF Routed, DataInv, Routing
<1>6. Rising \subseteq Ids
  BY DEF OriginInv
<1>7. \A i \in Ids : sent[i].from \in Local \cup Remote
  <2>1. \A i \in Ids : sent[i] \in Datagrams
    BY DEF DataInv, Ids
  <2>2. QED
    BY <2>1 DEF Datagrams
<1>8. QED
  BY <1>2, <1>3, <1>4, <1>5, <1>6, <1>7, MessageDirectorAssumption DEF Waiting, Climbing

-----------------------------------------------------------------------------
(* What a step must keep.                                                    *)
OriginsKept ==
  /\ Ids \subseteq Ids'
  /\ \A i \in Ids : sent'[i].from = sent[i].from

LEMMA HonestKept ==
  ASSUME OriginsKept
  PROVE  /\ \A i \in Ids : Source(i)' = Source(i)
         /\ Honest \subseteq Honest'
<1>1. \A i \in Ids : Source(i)' = Source(i)
  BY DEF OriginsKept, Source
<1>2. QED
  BY <1>1 DEF OriginsKept, Honest, Message

LEMMA HandedKept ==
  ASSUME DataInv, OriginInv, HandedInv, OriginsKept,
         \A i \in Ids : got'[i] = got[i],
         \A i \in Ids' \ Ids :
           /\ \A p \in Local : got'[i][p] = 0
           /\ sent'[i].from \in Local => \A u \in Remote : got'[i][u] = 0
           /\ \A p \in Subscriber : /\ got'[i][p] <= 1
                                    /\ sent'[i].from = p => got'[i][p] = 0,
         Waiting' \subseteq Waiting \cup (Ids' \ Ids),
         Climbing' \subseteq Ids',
         \A i \in Climbing' \cap Ids : sent[i].from \in Local => i \in Climbing,
         routing' # Idle =>
           /\ routing'.id \in Ids
           /\ \A p \in routing'.to : got[routing'.id][p] = 0 /\ p # sent[routing'.id].from
  PROVE  HandedInv'
<1>1. Waiting \subseteq Ids /\ Climbing \subseteq Ids
  BY PlacesTyped
<1>2. \A i \in Ids : sent'[i].from = sent[i].from
  BY DEF OriginsKept
<1>3. ASSUME NEW i \in Waiting', NEW p \in Local PROVE got'[i][p] = 0
  BY <1>1, <1>3 DEF HandedInv
<1>4. ASSUME routing' # Idle, NEW p \in routing'.to
      PROVE  got'[routing'.id][p] = 0 /\ p # sent'[routing'.id].from
  BY <1>2, <1>4
<1>5. ASSUME NEW i \in Climbing', NEW u \in Remote, sent'[i].from \in Local
      PROVE  got'[i][u] = 0
  BY <1>2, <1>5 DEF HandedInv
<1>6. ASSUME NEW i \in Ids', NEW p \in Subscriber
      PROVE  got'[i][p] <= 1 /\ (sent'[i].from = p => got'[i][p] = 0)
  BY <1>2, <1>6 DEF HandedInv, DeliveredOnce
<1>7. QED
  BY <1>3, <1>4, <1>5, <1>6 DEF HandedInv, DeliveredOnce

(* Steps that leave every datagram in its place or drop post-removes.        *)
LEMMA NothingMoves ==
  ASSUME DataInv, TokenInv, Ids' = Ids, OriginsKept,
         UNCHANGED <<got, m_messages, routing, back, upmap>>, Len(sent') = Len(sent),
         \A p \in Local : post'[p] \subseteq post[p], Alive' \subseteq Alive,
         LinksOnce', Rising' = Rising
  PROVE  TokenInv'
<1>1. Held' \subseteq Held
  BY DEF Held, Alive
<1>2. Queued' = Queued /\ Routed' = Routed /\ Returning' = Returning
  BY DEF Queued, Routed, Returning
<1>3. Alive \subseteq Local
  BY DEF Alive
<1>4. PlacesInv'
  BY <1>1, <1>2 DEF TokenInv, PlacesInv
<1>5. OriginInv'
  <2>1. m_messages' \in Seq(Honest')
    BY HonestKept, SequencesGrow DEF TokenInv, OriginInv
  <2>2. routing' # Idle => routing'.from = Source(routing.id)'
    <3>1. routing # Idle => routing.id \in Ids
      BY DEF DataInv, Routing
    <3>2. \A i \in Ids : routing.id = i => Source(routing.id)' = Source(i)
      BY DEF Source, OriginsKept
    <3>3. QED
      BY <3>1, <3>2 DEF TokenInv, OriginInv
  <2>3. \A p \in Local : \A i \in post'[p] : sent'[i].from = p
    BY DEF TokenInv, OriginInv, DataInv, OriginsKept
  <2>4. \A i \in Returning \cup Rising : i \in Ids /\ sent'[i].from = sent[i].from
    BY PlacesTyped DEF TokenInv, Waiting, Climbing, OriginsKept
  <2>5. QED
    BY <1>2, <2>1, <2>2, <2>3, <2>4 DEF TokenInv, OriginInv
<1>6. HandedInv'
  <2>1. Waiting' \subseteq Waiting /\ Climbing' \subseteq Climbing
    BY <1>1, <1>2 DEF Waiting, Climbing
  <2>2. Waiting \subseteq Ids /\ Climbing \subseteq Ids
    BY PlacesTyped DEF TokenInv
  <2>3. routing' # Idle => routing'.id \in Ids
    BY DEF DataInv, Routing
  <2>4. QED
    BY <2>1, <2>2, <2>3, HandedKept DEF TokenInv, HandedInv
<1>7. UpmapInv' /\ GotInv'
  BY DEF TokenInv, UpmapInv, GotInv
<1>8. QED
  BY <1>4, <1>5, <1>6, <1>7 DEF TokenInv

-----------------------------------------------------------------------------
(* Everything but FinishMessage sends the upstream no datagrams.             *)
NoDatagrams(s) == \A k \in 1..Len(s) : s[k].kind # "datagram"

LEMMA NoDatagramsConcat ==
  ASSUME NEW s, NEW t, GoodSeq(s), GoodSeq(t), NoDatagrams(s), NoDatagrams(t)
  PROVE  NoDatagrams(s \o t)
<1>1. PICK S : s \in Seq(S)
  BY DEF GoodSeq
<1>2. PICK T : t \in Seq(T)
  BY DEF GoodSeq
<1>3. s \in Seq(S \cup T) /\ t \in Seq(S \cup T)
  BY <1>1, <1>2
<1> DEFINE u == s \o t
<1>4. Joins(u, s, t)
  BY <1>3, ConcatParts
<1> HIDE DEF u
<1>5. ASSUME NEW k \in 1..Len(u) PROVE u[k].kind # "datagram"
  <2>1. CASE k \in 1..Len(s)
    <3>1. u[k] = s[k]
      BY <1>4, <2>1 DEF Joins
    <3>2. QED
      BY <2>1, <3>1 DEF NoDatagrams
  <2>2. ASSUME NEW l \in 1..Len(t), k = Len(s) + l PROVE u[k].kind # "datagram"
    <3>1. u[k] = t[l]
      BY <1>4, <2>2 DEF Joins
    <3>2. QED
      BY <3>1 DEF NoDatagrams
  <2>3. QED
    BY <1>4, <2>1, <2>2 DEF Joins
<1>6. QED
  BY <1>5 DEF u, NoDatagrams

LEMMA ControlsOnly ==
  /\ NoDatagrams(<<>>)
  /\ \A kind \in {"add_channel", "remove_channel", "add_range"} : \A span :
       NoDatagrams(<<Control(kind, span)>>)
  /\ \A p, ids : NoDatagrams(<<PostRemove("add_post_remove", p, ids)>>)
  /\ \A S : NoDatagrams(RemoveRanges(S))
  /\ \A S : IsFiniteSet(S) => NoDatagrams(RemoveChannels(S)) /\ NoDatagrams(Recall(S))
<1>1. NoDatagrams(<<>>)
  BY DEF NoDatagrams
<1>2. ASSUME NEW msg, msg.kind # "datagram" PROVE NoDatagrams(<<msg>>)
  <2>1. Len(<<msg>>) = 1 /\ <<msg>>[1] = msg /\ 1..1 = {1}
    OBVIOUS
  <2>2. QED
    BY <1>2, <2>1 DEF NoDatagrams
<1>3. ASSUME NEW S PROVE NoDatagrams(RemoveRanges(S))
  <2> DEFINE n == Len(Intervals(S))
             M(k) == Control("remove_range", Intervals(S)[k])
  <2>1. n \in Nat
    BY IntervalsLength
  <2>2. RemoveRanges(S) = [k \in 1..n |-> M(k)] /\ \A k : M(k).kind = "remove_range"
    BY DEF RemoveRanges, Control
  <2> HIDE DEF n, M
  <2>3. Len(RemoveRanges(S)) = n
    BY <2>1, <2>2
  <2>4. QED
    BY <2>2, <2>3 DEF NoDatagrams
<1>4. ASSUME NEW S, IsFiniteSet(S) PROVE NoDatagrams(RemoveChannels(S))
  <2> DEFINE n == Len(SetToSeq(S))
             M(k) == Control("remove_channel", {SetToSeq(S)[k]})
  <2>1. n \in Nat
    BY <1>4, SetToSeqType
  <2>2. RemoveChannels(S) = [k \in 1..n |-> M(k)] /\ \A k : M(k).kind = "remove_channel"
    BY DEF RemoveChannels, Control
  <2> HIDE DEF n, M
  <2>3. Len(RemoveChannels(S)) = n
    BY <2>1, <2>2
  <2>4. QED
    BY <2>2, <2>3 DEF NoDatagrams
<1>5. ASSUME NEW S, IsFiniteSet(S) PROVE NoDatagrams(Recall(S))
  <2> DEFINE n == Len(SetToSeq(S))
             M(k) == PostRemove("clear_post_removes", SetToSeq(S)[k], {})
  <2>1. n \in Nat
    BY <1>5, SetToSeqType
  <2>2. Recall(S) = [k \in 1..n |-> M(k)] /\ \A k : M(k).kind = "clear_post_removes"
    BY DEF Recall, PostRemove
  <2> HIDE DEF n, M
  <2>3. Len(Recall(S)) = n
    BY <2>1, <2>2
  <2>4. QED
    BY <2>2, <2>3 DEF NoDatagrams
<1>6. \A kind \in {"add_channel", "remove_channel", "add_range"} : \A span :
        NoDatagrams(<<Control(kind, span)>>)
  BY <1>2 DEF Control
<1>7. \A p, ids : NoDatagrams(<<PostRemove("add_post_remove", p, ids)>>)
  BY <1>2 DEF PostRemove
<1>8. QED
  BY <1>1, <1>3, <1>4, <1>5, <1>6, <1>7

LEMMA GoodLinkConcat ==
  ASSUME NEW s, NEW t, GoodSeq(s), GoodSeq(t)
  PROVE  /\ LinkIds(s \o t) = LinkIds(s) \cup LinkIds(t)
         /\ LinkOnce(s) /\ LinkOnce(t) /\ LinkIds(s) \cap LinkIds(t) = {}
            => LinkOnce(s \o t)
<1>1. PICK S : s \in Seq(S)
  BY DEF GoodSeq
<1>2. PICK T : t \in Seq(T)
  BY DEF GoodSeq
<1>3. s \in Seq(S \cup T) /\ t \in Seq(S \cup T)
  BY <1>1, <1>2
<1>4. QED
  BY <1>3, LinkConcat

LEMMA ControlsSent ==
  ASSUME MapsInv, LinksOnce, NEW msgs, GoodSeq(msgs), NoDatagrams(msgs), Send(msgs)
  PROVE  LinksOnce' /\ Rising' = Rising
<1>1. LinkIds(msgs) = {} /\ LinkOnce(msgs)
  BY DEF NoDatagrams, LinkIds, LinkOnce
<1>2. /\ LinkIds(link \o msgs) = LinkIds(link)
      /\ LinkOnce(link \o msgs)
      /\ LinkIds(unsent \o msgs) = LinkIds(unsent)
      /\ LinkOnce(unsent \o msgs)
  BY <1>1, GoodLinkConcat DEF MapsInv, LinksOnce
<1>3. CASE m_initialized
  BY <1>2, <1>3 DEF Send, LinksOnce, Rising
<1>4. CASE ~m_initialized
  BY <1>2, <1>4 DEF Send, LinksOnce, Rising
<1>5. QED
  BY <1>3, <1>4

LEMMA AliveIsLocal ==
  ASSUME NEW p \in Alive
  PROVE  p \in Local /\ p \in Subscriber
BY MessageDirectorAssumption DEF Alive

(* Subscription changes, without what they do to other participants.         *)
LEMMA ChangeMovesNothing ==
  ASSUME MapsInv, DataInv, TokenInv, NEW m, NEW msgs, Change(m, msgs),
         GoodSeq(msgs), NoDatagrams(msgs),
         UNCHANGED <<terminated, deleted, post, leaving, queues>>
  PROVE  TokenInv'
<1>1. LinksOnce' /\ Rising' = Rising
  BY ControlsSent DEF Change, TokenInv, PlacesInv
<1>2. /\ Ids' = Ids /\ Len(sent') = Len(sent)
      /\ \A i \in Ids : sent'[i].from = sent[i].from
  BY ChangeKeepsData, TrackedReplies DEF Change
<1>3. UNCHANGED <<got, routing, back, upmap, m_messages, post>>
  BY DEF Change, upstream, queues
<1>4. Alive' = Alive
  BY DEF Alive
<1>5. QED
  BY <1>1, <1>2, <1>3, <1>4, NothingMoves DEF OriginsKept

LEMMA SubscriptionsMoveNothing ==
  ASSUME MapsInv, DataInv, TokenInv, NEW p \in Alive,
         \/ \E c \in Channels : SubscribeTo(p, c) \/ UnsubscribeFrom(p, c)
         \/ \E R \in Ranges : SubscribeToRange(p, R) \/ UnsubscribeFromRange(p, R)
  PROVE  TokenInv'
<1>1. Channels \subseteq Channel /\ Ranges \subseteq SUBSET Channel
  BY MessageDirectorAssumption, ChannelMapAssumption
     DEF MapsInv, Channels, Ranges, Interval, Channel
<1>2. GoodSeq(<<>>) /\ NoDatagrams(<<>>)
  BY GoodEmpty, ControlsOnly
<1>3. \A c \in Channel, kind \in {"add_channel", "remove_channel"} :
        GoodSeq(<<Control(kind, {c})>>) /\ NoDatagrams(<<Control(kind, {c})>>)
  BY GoodMessages, GoodSingle, ControlsOnly
<1>4. \A R \in SUBSET Channel :
        GoodSeq(<<Control("add_range", R)>>) /\ NoDatagrams(<<Control("add_range", R)>>)
  BY GoodMessages, GoodSingle, ControlsOnly
<1>5. ASSUME NEW c \in Channels, SubscribeTo(p, c) PROVE TokenInv'
  <2>1. c \in Channel
    BY <1>1
  <2>2. QED
    BY <1>2, <1>3, <1>5, <2>1, ChangeMovesNothing DEF SubscribeTo
<1>6. ASSUME NEW c \in Channels, UnsubscribeFrom(p, c) PROVE TokenInv'
  <2>1. c \in Channel
    BY <1>1
  <2>2. QED
    BY <1>2, <1>3, <1>6, <2>1, ChangeMovesNothing DEF UnsubscribeFrom
<1>7. ASSUME NEW R \in Ranges, SubscribeToRange(p, R) PROVE TokenInv'
  <2>1. R \in SUBSET Channel
    BY <1>1
  <2>2. QED
    BY <1>2, <1>4, <1>7, <2>1, ChangeMovesNothing DEF SubscribeToRange
<1>8. ASSUME NEW R \in Ranges, UnsubscribeFromRange(p, R) PROVE TokenInv'
  <2>1. PICK a, b \in {0, 1} :
          Change(UnsubscribeRange(map, p, R), RemoveRanges(SilentRanges(map, p, R, a, b)))
    BY <1>8 DEF UnsubscribeFromRange
  <2>2. UNCHANGED <<terminated, deleted, post, leaving, queues>>
    BY <1>8 DEF UnsubscribeFromRange
  <2>3. QED
    BY <2>1, <2>2, RemoveRangesGood, ControlsOnly, ChangeMovesNothing
<1>9. QED
  BY <1>5, <1>6, <1>7, <1>8

LEMMA ClearedMovesNothing ==
  ASSUME MapsInv, DataInv, TokenInv, NEW p \in Alive, ClearPostRemoves(p)
  PROVE  TokenInv'
<1>1. p \in Local
  BY AliveIsLocal
<1>2. GoodSeq(Recall({p})) /\ NoDatagrams(Recall({p}))
  BY FS_Singleton, RecallGood, ControlsOnly
<1>3. LinksOnce' /\ Rising' = Rising
  BY <1>2, ControlsSent DEF ClearPostRemoves, TokenInv, PlacesInv
<1>4. UNCHANGED <<sent, got, m_messages, routing, back, upmap, leaving, terminated, deleted>>
  BY DEF ClearPostRemoves, subscriptions, queues, upstream
<1>5. Ids' = Ids /\ OriginsKept /\ Alive' = Alive
  BY <1>4 DEF Ids, OriginsKept, Alive
<1>6. \A q \in Local : post'[q] \subseteq post[q]
  BY DEF ClearPostRemoves, DataInv
<1>7. QED
  BY <1>3, <1>4, <1>5, <1>6, NothingMoves

(* The queue of the link moves to the link, and other steps of the loop.     *)
LEMMA LoopMovesNothing ==
  ASSUME MapsInv, DataInv, ParticipantsInv, TokenInv,
         FlushTask \/ StopFlushing \/ Connect \/ FlushSendQueue \/ UNCHANGED vars
  PROVE  TokenInv'
<1>1. UNCHANGED <<sent, got, m_messages, routing, back, upmap, post>>
  BY DEF FlushTask, StopFlushing, Connect, FlushSendQueue, vars, subscriptions, queues, upstream,
    MarkForDeletion
<1>2. Ids' = Ids /\ OriginsKept /\ \A p \in Local : post'[p] \subseteq post[p]
  BY <1>1 DEF Ids, OriginsKept
<1>3. Alive' \subseteq Alive
  <2>1. \/ UNCHANGED <<leaving, terminated, deleted>>
        \/ terminated' = terminated \cup leaving /\ deleted' = deleted
    BY DEF FlushTask, StopFlushing, Connect, FlushSendQueue, vars, subscriptions, MarkForDeletion
  <2>2. QED
    BY <2>1 DEF Alive
<1>4. LinksOnce
  BY DEF TokenInv, PlacesInv
<1>5. GoodSeq(link) /\ GoodSeq(unsent)
  BY DEF MapsInv
<1>6. LinksOnce' /\ Rising' = Rising
  <2>1. CASE FlushTask \/ UNCHANGED vars \/ UNCHANGED <<unsent, link>>
    <3>1. UNCHANGED <<unsent, link>>
      BY <2>1 DEF FlushTask, vars, upstreamLink
    <3>2. QED
      BY <1>4, <3>1 DEF LinksOnce, Rising
  <2>2. CASE StopFlushing
    <3>1. GoodSeq(Recall(leaving)) /\ NoDatagrams(Recall(leaving))
      BY RecallGood, ControlsOnly DEF ParticipantsInv
    <3>2. QED
      BY <1>4, <2>2, <3>1, ControlsSent DEF StopFlushing
  <2>3. CASE link' = link \o unsent /\ unsent' = <<>>
    <3>1. LinkIds(<<>>) = {} /\ LinkOnce(<<>>)
      BY DEF LinkIds, LinkOnce
    <3>2. LinkOnce(link \o unsent) /\ LinkIds(link \o unsent) = LinkIds(link) \cup LinkIds(unsent)
      BY <1>4, <1>5, GoodLinkConcat DEF LinksOnce
    <3>3. QED
      BY <2>3, <3>1, <3>2 DEF LinksOnce, Rising
  <2>4. CASE FlushSendQueue
    <3>1. PICK S : link \in Seq(S)
      BY <1>5 DEF GoodSeq
    <3>2. PICK T : unsent \in Seq(T)
      BY <1>5 DEF GoodSeq
    <3>3. unsent # <<>> /\ link' = Append(link, Head(unsent)) /\ unsent' = Tail(unsent)
      BY <2>4 DEF FlushSendQueue
    <3> DEFINE h == Head(unsent)
    <3>4. GoodSeq(<<h>>)
      BY <1>5, <3>3, GoodRest
    <3>5. h \in T
      BY <3>2, <3>3
    <3>6. link' = link \o <<h>>
      BY <3>1, <3>3
    <3>7. /\ LinkIds(unsent') = IF h.kind = "datagram" THEN LinkIds(unsent) \ {h.id}
                                ELSE LinkIds(unsent)
          /\ LinkOnce(unsent')
          /\ h.kind = "datagram" => h.id \in LinkIds(unsent)
      BY <1>4, <3>2, <3>3, LinkTail DEF LinksOnce
    <3> HIDE DEF h
    <3>8. LinkIds(<<h>>) = (IF h.kind = "datagram" THEN {h.id} ELSE {}) /\ LinkOnce(<<h>>)
      BY LinkSingle
    <3>9. LinkIds(link) \cap LinkIds(<<h>>) = {}
      BY <1>4, <3>7, <3>8 DEF LinksOnce
    <3>10. LinkIds(link') = LinkIds(link) \cup LinkIds(<<h>>) /\ LinkOnce(link')
      BY <1>4, <1>5, <3>4, <3>6, <3>8, <3>9, GoodLinkConcat DEF LinksOnce
    <3>11. QED
      BY <1>4, <3>7, <3>8, <3>10 DEF LinksOnce, Rising
  <2>5. QED
    BY <2>1, <2>2, <2>3, <2>4 DEF Connect
<1>7. QED
  BY <1>1, <1>2, <1>3, <1>6, NothingMoves

-----------------------------------------------------------------------------
(* A new datagram.                                                           *)
LEMMA DatagramAdded ==
  ASSUME DataInv, GotInv, NEW dg \in Datagrams, NEW g \in [Subscriber -> Nat],
         sent' = Append(sent, dg), got' = Append(got, g)
  PROVE  /\ Ids' = Ids \cup {Len(sent) + 1} /\ Len(sent) + 1 \notin Ids
         /\ OriginsKept /\ GotInv'
         /\ sent'[Len(sent) + 1] = dg
         /\ \A i \in Ids : got'[i] = got[i]
         /\ got'[Len(sent) + 1] = g
<1>1. sent \in Seq(Datagrams) /\ Len(sent) \in Nat
  BY DEF DataInv
<1>2. /\ Len(sent') = Len(sent) + 1
      /\ \A i \in 1..Len(sent) : sent'[i] = sent[i]
      /\ sent'[Len(sent) + 1] = dg
  BY <1>1
<1>3. got \in Seq([Subscriber -> Nat]) /\ Len(got) = Len(sent)
  BY DEF GotInv
<1>4. /\ got' \in Seq([Subscriber -> Nat]) /\ Len(got') = Len(got) + 1
      /\ \A i \in 1..Len(got) : got'[i] = got[i]
      /\ got'[Len(got) + 1] = g
  BY <1>3
<1>5. Ids' = Ids \cup {Len(sent) + 1} /\ Len(sent) + 1 \notin Ids
  BY <1>1, <1>2 DEF Ids
<1>6. OriginsKept
  BY <1>2, <1>5 DEF OriginsKept, Ids
<1>7. QED
  BY <1>2, <1>3, <1>4, <1>5, <1>6 DEF GotInv, Ids

(* Origins where only the queue and the post-removes gain something.         *)
LEMMA OriginGrows ==
  ASSUME DataInv, OriginInv, OriginsKept,
         m_messages' \in Seq(Honest'),
         \A p \in Local : \A i \in post'[p] : i \in post[p] \/ sent'[i].from = p,
         UNCHANGED <<routing, back>>, Rising' = Rising
  PROVE  OriginInv'
<1>1. \A i \in Returning \cup Rising : i \in Ids /\ sent'[i].from = sent[i].from
  BY PlacesTyped DEF OriginsKept, Waiting, Climbing, OriginInv
<1>2. Returning' = Returning
  BY DEF Returning
<1>3. \A p \in Local : \A i \in post'[p] : sent'[i].from = p
  BY DEF OriginInv, DataInv, OriginsKept
<1>4. routing' # Idle => routing'.from = Source(routing.id)'
  <2>1. routing # Idle => routing.id \in Ids
    BY DEF DataInv, Routing
  <2>2. \A i \in Ids : routing.id = i => Source(routing.id)' = Source(i)
    BY DEF Source, OriginsKept
  <2>3. QED
    BY <2>1, <2>2 DEF OriginInv
<1>5. QED
  BY <1>1, <1>2, <1>3, <1>4, OriginsKept DEF OriginInv, OriginsKept

LEMMA PostRemoveHeld ==
  ASSUME MapsInv, DataInv, TokenInv, NEW p \in Alive, NEW to \in Destinations,
         AddPostRemove(p, to)
  PROVE  TokenInv'
<1> DEFINE n == Len(sent) + 1
           dg == Datagram(p, to, NoReply, FALSE)
           none == [q \in Subscriber |-> 0]
<1>1. p \in Local /\ p \in Subscriber /\ to \subseteq Channel /\ 0 \in Nat
  BY AliveIsLocal, MessageDirectorAssumption DEF MapsInv, Destinations
<1>2. dg \in Datagrams /\ dg.from = p /\ none \in [Subscriber -> Nat]
  BY <1>1 DEF Datagram, Datagrams, NoReply
<1>3. sent' = Append(sent, dg) /\ got' = Append(got, none)
  BY DEF AddPostRemove, NewDatagram
<1>4. /\ UNCHANGED <<m_messages, routing, back, upmap, leaving, terminated, deleted>>
      /\ post' = [post EXCEPT ![p] = @ \cup {n}]
  BY DEF AddPostRemove, subscriptions, queues, upstream
<1>5. LinksOnce' /\ Rising' = Rising
  <2>1. GoodSeq(<<PostRemove("add_post_remove", p, {n})>>)
    BY GoodMessages, GoodSingle
  <2>2. NoDatagrams(<<PostRemove("add_post_remove", p, {n})>>)
    BY ControlsOnly
  <2>3. QED
    BY <2>1, <2>2, ControlsSent DEF AddPostRemove, TokenInv, PlacesInv
<1> HIDE DEF n, dg, none
<1>6. /\ Ids' = Ids \cup {n} /\ n \notin Ids /\ OriginsKept /\ GotInv'
      /\ sent'[n] = dg /\ got'[n] = none /\ \A i \in Ids : got'[i] = got[i]
  BY <1>2, <1>3, DatagramAdded DEF n, TokenInv
<1>7. Alive' = Alive
  BY <1>4 DEF Alive
<1>8. Held' = Held \cup {n}
  <2>1. \A q \in Local : post'[q] = IF q = p THEN post[q] \cup {n} ELSE post[q]
    BY <1>4 DEF DataInv
  <2>2. QED
    BY <1>7, <2>1, AliveIsLocal DEF Held
<1>9. Queued' = Queued /\ Routed' = Routed /\ Returning' = Returning
  BY <1>4 DEF Queued, Routed, Returning
<1>10. Waiting \subseteq Ids /\ Climbing \subseteq Ids
  BY PlacesTyped DEF TokenInv
<1>11. PlacesInv'
  BY <1>4, <1>5, <1>6, <1>8, <1>9, <1>10 DEF TokenInv, PlacesInv, Waiting, Climbing
<1>12. OriginInv'
  <2>1. m_messages' \in Seq(Honest')
    BY <1>4, <1>6, HonestKept, SequencesGrow DEF TokenInv, OriginInv
  <2>2. \A q \in Local : \A i \in post'[q] : i \in post[q] \/ sent'[i].from = q
    BY <1>2, <1>4, <1>6 DEF DataInv
  <2>3. QED
    BY <1>4, <1>5, <1>6, <2>1, <2>2, OriginGrows DEF TokenInv
<1>13. HandedInv'
  <2>1. Waiting' \subseteq Waiting \cup {n} /\ Climbing' \subseteq Climbing \cup {n}
    BY <1>5, <1>8, <1>9 DEF Waiting, Climbing
  <2>2. /\ \A q \in Subscriber : got'[n][q] = 0 
        /\ Local \subseteq Subscriber /\ Remote \subseteq Subscriber
    BY <1>6, MessageDirectorAssumption DEF none
  <2>3. routing' # Idle => routing'.id \in Ids /\
          \A q \in routing'.to : got[routing'.id][q] = 0 /\ q # sent[routing'.id].from
    BY <1>4 DEF TokenInv, HandedInv, DataInv, Routing
  <2>4. QED
    BY <1>6, <1>10, <2>1, <2>2, <2>3, HandedKept DEF TokenInv
<1>14. UpmapInv'
  BY <1>4 DEF TokenInv, UpmapInv
<1>15. QED
  BY <1>6, <1>11, <1>12, <1>13, <1>14 DEF TokenInv

LEMMA RoutedIsQueued ==
  ASSUME MapsInv, DataInv, TokenInv, NEW p \in Alive, NEW to \in Destinations, NEW main,
         RouteDatagram(p, to, main)
  PROVE  TokenInv'
<1>1. PICK reply \in {NoReply} \cup map.channels[p] \cup map.ranges[p], bad \in BOOLEAN :
        NewDatagram(Datagram(p, to, reply, bad))
  BY DEF RouteDatagram
<1> DEFINE n == Len(sent) + 1
           dg == Datagram(p, to, reply, bad)
           none == [q \in Subscriber |-> 0]
           msg == [from |-> p, id |-> n]
<1>2. p \in Local /\ p \in Subscriber /\ to \subseteq Channel /\ 0 \in Nat
  BY AliveIsLocal, MessageDirectorAssumption DEF MapsInv, Destinations
<1>3. reply \in Nat
  BY <1>1, <1>2 DEF MapsInv, Map, Channel, NoReply
<1>4. dg \in Datagrams /\ dg.from = p /\ none \in [Subscriber -> Nat]
  BY <1>1, <1>2, <1>3 DEF Datagram, Datagrams
<1>5. sent' = Append(sent, dg) /\ got' = Append(got, none)
  BY <1>1 DEF NewDatagram
<1>6. /\ UNCHANGED <<routing, back, upmap, leaving, terminated, deleted, post, link, unsent>>
      /\ m_messages' = Append(m_messages, msg)
  BY DEF RouteDatagram, Enqueue, subscriptions, upstreamLink, upstream
<1> HIDE DEF n, dg, none
<1>7. /\ Ids' = Ids \cup {n} /\ n \notin Ids /\ OriginsKept /\ GotInv'
      /\ sent'[n] = dg /\ got'[n] = none /\ \A i \in Ids : got'[i] = got[i]
  BY <1>4, <1>5, DatagramAdded DEF n, TokenInv
<1>8. Held' = Held /\ Routed' = Routed /\ Returning' = Returning /\ Rising' = Rising
  BY <1>6 DEF Held, Alive, Routed, Returning, Rising
<1>9. Waiting \subseteq Ids /\ Climbing \subseteq Ids
  BY PlacesTyped DEF TokenInv
<1>10. msg \in Honest'
  BY <1>2, <1>4, <1>7 DEF Honest, Message, Source
<1>11. m_messages \in Seq(Honest')
  BY <1>7, HonestKept, SequencesGrow DEF TokenInv, OriginInv
<1>12. Queued' = Queued \cup {n} /\ QueueOnce(m_messages')
  <2>1. n \notin Queued /\ QueueOnce(m_messages) /\ msg.id = n
    BY <1>7, <1>9 DEF TokenInv, PlacesInv, Waiting
  <2>2. QED
    BY <1>6, <1>10, <1>11, <2>1, QueueAppend DEF Queued
<1>13. PlacesInv'
  BY <1>6, <1>7, <1>8, <1>9, <1>12 DEF TokenInv, PlacesInv, Waiting, Climbing, LinksOnce
<1>14. OriginInv'
  <2>1. m_messages' \in Seq(Honest')
    BY <1>6, <1>10, <1>11, AppendType
  <2>2. QED
    BY <1>6, <1>7, <1>8, <2>1, OriginGrows DEF TokenInv
<1>15. HandedInv'
  <2>1. Waiting' \subseteq Waiting \cup {n} /\ Climbing' \subseteq Climbing \cup {n}
    BY <1>8, <1>12 DEF Waiting, Climbing
  <2>2. /\ \A q \in Subscriber : got'[n][q] = 0
        /\ Local \subseteq Subscriber /\ Remote \subseteq Subscriber
    BY <1>7, MessageDirectorAssumption DEF none
  <2>3. routing' # Idle => routing'.id \in Ids /\
          \A q \in routing'.to : got[routing'.id][q] = 0 /\ q # sent[routing'.id].from
    BY <1>6 DEF TokenInv, HandedInv, DataInv, Routing
  <2>4. QED
    BY <1>7, <1>9, <2>1, <2>2, <2>3, HandedKept DEF TokenInv
<1>16. UpmapInv'
  BY <1>6 DEF TokenInv, UpmapInv
<1>17. QED
  BY <1>7, <1>13, <1>14, <1>15, <1>16 DEF TokenInv

-----------------------------------------------------------------------------
(* A participant goes: its post-removes are routed.                          *)
LEMMA SetToSeqOnce ==
  ASSUME NEW S, IsFiniteSet(S)
  PROVE  /\ SetToSeq(S) \in Seq(S)
         /\ \A j, k \in 1..Len(SetToSeq(S)) : SetToSeq(S)[j] = SetToSeq(S)[k] => j = k
<1>1. Cardinality(S) \in Nat /\ ExistsBijection(1..Cardinality(S), S)
  BY FS_CardinalityType
<1>2. \E f \in [1..Cardinality(S) -> S] : IsInjective(f)
  BY <1>1 DEF ExistsBijection, Bijection, Injection
<1> DEFINE f == SetToSeq(S)
<1>3. f \in [1..Cardinality(S) -> S] /\ IsInjective(f)
  BY <1>2 DEF SetToSeq
<1> HIDE DEF f
<1>4. f \in Seq(S) /\ Len(f) = Cardinality(S) /\ DOMAIN f = 1..Cardinality(S)
  BY <1>1, <1>3
<1>5. \A j, k \in 1..Len(f) : f[j] = f[k] => j = k
  BY <1>3, <1>4 DEF IsInjective
<1>6. QED
  BY <1>4, <1>5 DEF f

LEMMA RemovedAreQueued ==
  ASSUME MapsInv, DataInv, TokenInv, NEW p \in Alive, RemoveParticipant(p)
  PROVE  TokenInv'
<1> DEFINE P == SetToSeq(post[p])
           routed == [k \in 1..Len(P) |-> [from |-> p, id |-> P[k]]]
           channels == RemoveChannels(LastChannels(map, p))
           ranges == RemoveRanges(SilentRanges(map, p, map.ranges[p], 0, 0))
           recall == IF (Threaded \/ m_main_is_routing \/ post[p] = {}) /\ post[p] # {}
                     THEN Recall({p}) ELSE <<>>
<1>1. p \in Local /\ p \in Subscriber
  BY AliveIsLocal
<1>2. post[p] \subseteq Ids /\ IsFiniteSet(post[p])
  <2>1. IsFiniteSet(Ids)
    BY FS_Interval DEF Ids, DataInv
  <2>2. post[p] \subseteq Ids
    BY <1>1 DEF DataInv
  <2>3. QED
    BY <2>1, <2>2, FS_Subset
<1>3. P \in Seq(post[p]) /\ \A j, k \in 1..Len(P) : P[j] = P[k] => j = k
  BY <1>2, SetToSeqOnce
<1>4. LinksOnce' /\ Rising' = Rising
  <2>1. Change(UnsubscribeAll(map, p), (channels \o ranges) \o recall)
    BY DEF RemoveParticipant
  <2>2. LastChannels(map, p) \in SUBSET Channel
    BY <1>1 DEF LastChannels, MapsInv, Map
  <2>3. IsFiniteSet(LastChannels(map, p)) /\ IsFiniteSet({p})
    BY <2>2, ChannelsFinite, FS_Subset, FS_Singleton
  <2>4. GoodSeq(channels) /\ GoodSeq(ranges) /\ GoodSeq(recall)
    BY <2>2, <2>3, RemoveChannelsGood, RemoveRangesGood, RecallGood, GoodEmpty
  <2>5. NoDatagrams(channels) /\ NoDatagrams(ranges) /\ NoDatagrams(recall)
    BY <2>3, ControlsOnly
  <2> HIDE DEF channels, ranges, recall
  <2>6. GoodSeq(channels \o ranges) /\ NoDatagrams(channels \o ranges)
    BY <2>4, <2>5, GoodConcat, NoDatagramsConcat
  <2>7. GoodSeq((channels \o ranges) \o recall) /\ NoDatagrams((channels \o ranges) \o recall)
    BY <2>4, <2>5, <2>6, GoodConcat, NoDatagramsConcat
  <2>8. QED
    BY <2>1, <2>7, ControlsSent DEF Change, TokenInv, PlacesInv
<1>5. /\ UNCHANGED <<post, got, routing, back, upmap>>
      /\ m_messages' = m_messages \o routed
      /\ TrackReplies(UnsubscribeAll(map, p))
  BY DEF RemoveParticipant, Change, upstream
<1>6. \/ terminated' = terminated \cup {p} /\ UNCHANGED <<leaving, deleted>>
      \/ leaving' = leaving \cup {p} /\ UNCHANGED <<terminated, deleted>>
  BY DEF RemoveParticipant, MarkForDeletion
<1>7. Alive' = Alive \ {p}
  BY <1>6 DEF Alive
<1>8. /\ Ids' = Ids /\ Len(sent') = Len(sent)
      /\ \A i \in Ids : sent'[i].from = sent[i].from
  <2>1. Len(sent') = Len(sent) /\ \A i \in Ids : sent'[i].from = sent[i].from
    BY <1>5, TrackedReplies
  <2>2. QED
    BY <2>1 DEF Ids
<1>9. OriginsKept
  BY <1>8 DEF OriginsKept
<1> HIDE DEF P
<1>10. /\ routed \in Seq(Honest) /\ QueueOnce(routed) /\ QueueIds(routed) \subseteq post[p]
  <2>1. Len(P) \in Nat /\ \A k \in 1..Len(P) : P[k] \in post[p]
    BY <1>3
  <2>2. \A k \in 1..Len(P) : [from |-> p, id |-> P[k]] \in Honest
    BY <1>1, <1>2, <2>1 DEF Honest, Message, Source, TokenInv, OriginInv
  <2>3. Len(routed) = Len(P) /\ \A k \in 1..Len(P) : routed[k].id = P[k]
    BY <2>1
  <2>4. routed \in Seq(Honest)
    BY <2>1, <2>2
  <2> HIDE DEF routed
  <2>5. QED
    BY <1>3, <2>1, <2>3, <2>4 DEF QueueOnce, QueueIds
<1> HIDE DEF routed
<1>11. m_messages \in Seq(Honest) /\ QueueOnce(m_messages)
  BY DEF TokenInv, OriginInv, PlacesInv
<1>12. post[p] \subseteq Held
  BY DEF Held
<1>13. Held' \subseteq Held /\ Held' \cap post[p] = {}
  <2>1. Held' = UNION {post[q] : q \in Alive \ {p}}
    BY <1>5, <1>7 DEF Held
  <2>2. \A q \in Alive \ {p} : post[q] \cap post[p] = {}
    BY <1>1, AliveIsLocal DEF TokenInv, OriginInv
  <2>3. QED
    BY <2>1, <2>2 DEF Held
<1>14. Queued' = Queued \cup QueueIds(routed) /\ QueueOnce(m_messages')
  <2>1. Queued \cap QueueIds(routed) = {}
    BY <1>10, <1>12 DEF TokenInv, PlacesInv
  <2>2. QED
    BY <1>5, <1>10, <1>11, <2>1, QueueConcat DEF Queued
<1>15. Routed' = Routed /\ Returning' = Returning
  BY <1>5 DEF Routed, Returning
<1>16. PlacesInv'
  <2>1. BackOnce(back')
    BY <1>5 DEF TokenInv, PlacesInv
  <2>2. Queued' \subseteq Queued \cup post[p]
    BY <1>10, <1>14
  <2>3. QED
    BY <1>4, <1>12, <1>13, <1>14, <1>15, <2>1, <2>2 DEF TokenInv, PlacesInv
<1>17. OriginInv'
  <2>1. m_messages \o routed \in Seq(Honest)
    BY <1>10, <1>11
  <2>2. m_messages' \in Seq(Honest')
    BY <1>5, <1>9, <2>1, HonestKept, SequencesGrow
  <2>3. QED
    BY <1>4, <1>5, <1>9, <2>2, OriginGrows DEF TokenInv
<1>18. HandedInv'
  <2>1. Waiting' \subseteq Waiting /\ Climbing' \subseteq Climbing
    BY <1>4, <1>10, <1>12, <1>13, <1>14, <1>15 DEF Waiting, Climbing
  <2>2. Waiting \subseteq Ids /\ Climbing \subseteq Ids
    BY PlacesTyped DEF TokenInv
  <2>3. routing' # Idle => routing'.id \in Ids /\
          \A q \in routing'.to : got[routing'.id][q] = 0 /\ q # sent[routing'.id].from
    BY <1>5 DEF TokenInv, HandedInv, DataInv, Routing
  <2>4. QED
    BY <1>5, <1>8, <1>9, <2>1, <2>2, <2>3, HandedKept DEF TokenInv
<1>19. UpmapInv' /\ GotInv'
  BY <1>5, <1>8 DEF TokenInv, UpmapInv, GotInv
<1>20. QED
  BY <1>16, <1>17, <1>18, <1>19 DEF TokenInv

-----------------------------------------------------------------------------
(* Routing.                                                                  *)
LEMMA TakenIsRouted ==
  ASSUME MapsInv, ParticipantsInv, DataInv, TokenInv, TakeMessage
  PROVE  TokenInv'
<1> DEFINE msg == Head(m_messages)
           to == Receivers(map, msg.from, sent[msg.id].to)
<1>1. /\ UNCHANGED <<post, back, upmap, leaving, terminated, deleted, link, unsent, sent, got>>
      /\ routing = Idle /\ m_messages # <<>> /\ m_messages' = Tail(m_messages)
      /\ routing' = [step |-> "deliver", from |-> msg.from, id |-> msg.id, to |-> to]
  BY DEF TakeMessage, subscriptions, upstreamLink, upstream
<1>2. m_messages \in Seq(Honest) /\ QueueOnce(m_messages)
  BY DEF TokenInv, OriginInv, PlacesInv
<1>3. msg \in Honest /\ Tail(m_messages) \in Seq(Honest)
  BY <1>1, <1>2
<1>4. msg.id \in Ids /\ msg.from = Source(msg.id)
  BY <1>3 DEF Honest, Message
<1>5. to \subseteq Alive \ {msg.from}
  <2>1. sent[msg.id] \in Datagrams
    BY <1>4 DEF DataInv, Ids
  <2>2. sent[msg.id].to \in SUBSET Channel
    BY <2>1 DEF Datagrams
  <2>3. QED
    BY <2>2, ReceiversAlive
<1>6. /\ QueueIds(Tail(m_messages)) = Queued \ {msg.id} /\ QueueOnce(Tail(m_messages))
      /\ msg.id \in Queued
  BY <1>1, <1>2, QueueTail DEF Queued
<1> HIDE DEF msg, to
<1>7. Queued' = Queued \ {msg.id} /\ QueueOnce(m_messages')
  BY <1>1, <1>6 DEF Queued
<1>8. Held' = Held /\ Returning' = Returning /\ Rising' = Rising
  BY <1>1 DEF Held, Alive, Returning, Rising
<1>9. routing' # Idle /\ Routed = {} /\ Routed' = {msg.id}
  BY <1>1 DEF Routed, Idle
<1>10. Ids' = Ids /\ OriginsKept
  BY <1>1 DEF Ids, OriginsKept
<1>11. PlacesInv'
  BY <1>1, <1>6, <1>7, <1>8, <1>9 DEF TokenInv, PlacesInv, LinksOnce
<1>12. OriginInv'
  <2>1. m_messages' \in Seq(Honest')
    BY <1>1, <1>3, <1>10, HonestKept, SequencesGrow
  <2>2. routing'.from = Source(routing.id)'
    BY <1>1, <1>4 DEF Source
  <2>3. QED
    BY <1>1, <1>8, <1>10, <2>1, <2>2 DEF TokenInv, OriginInv
<1>13. HandedInv'
  <2>1. Waiting' \subseteq Waiting /\ Climbing' \subseteq Climbing
    BY <1>6, <1>7, <1>8, <1>9 DEF Waiting, Climbing
  <2>2. Waiting \subseteq Ids /\ Climbing \subseteq Ids
    BY PlacesTyped DEF TokenInv
  <2>3. ASSUME NEW q \in to PROVE got[msg.id][q] = 0 /\ q # sent[msg.id].from
    <3>1. q \in Local /\ q # msg.from
      BY <1>5, AliveIsLocal
    <3>2. got[msg.id][q] = 0
      BY <1>6, <3>1 DEF TokenInv, HandedInv, Waiting
    <3>3. QED
      BY <1>4, <3>1, <3>2 DEF Source
  <2>4. QED
    BY <1>1, <1>4, <1>10, <2>1, <2>2, <2>3, HandedKept DEF TokenInv
<1>14. UpmapInv' /\ GotInv'
  BY <1>1 DEF TokenInv, UpmapInv, GotInv
<1>15. QED
  BY <1>11, <1>12, <1>13, <1>14 DEF TokenInv

LEMMA DeliveredIsHanded ==
  ASSUME DataInv, TokenInv, NEW p \in Local, Deliver(p) \/ DeliverTruncated(p)
  PROVE  TokenInv'
<1> DEFINE i == routing.id
<1>1. /\ UNCHANGED <<post, back, upmap, m_messages, leaving, terminated, deleted, link,
                     unsent, sent>>
      /\ routing # Idle /\ p \in routing.to
      /\ got' = [got EXCEPT ![i][p] = @ + 1]
      /\ routing' = Idle \/ routing' = [routing EXCEPT !.to = @ \ {p}]
  BY DEF Deliver, DeliverTruncated, subscriptions, upstreamLink, queues, upstream
<1>2. i \in Ids /\ routing \in Routing /\ p \in Subscriber
  BY <1>1, MessageDirectorAssumption DEF DataInv, Routing
<1>3. routing' = Idle \/ (routing'.id = i /\ routing'.from = routing.from
                          /\ routing'.to = routing.to \ {p})
  BY <1>1, <1>2 DEF Routing
<1>4. got \in Seq([Subscriber -> Nat]) /\ Len(got) = Len(sent) /\ i \in 1..Len(got)
  BY <1>2 DEF TokenInv, GotInv, Ids
<1> HIDE DEF i
<1>5. /\ got' \in Seq([Subscriber -> Nat]) /\ Len(got') = Len(got)
      /\ \A j \in Ids, q \in Subscriber :
           got'[j][q] = IF j = i /\ q = p THEN got[j][q] + 1 ELSE got[j][q]
  <2>1. got[i] \in [Subscriber -> Nat] /\ got[i][p] + 1 \in Nat
    BY <1>2, <1>4
  <2> DEFINE g == [got[i] EXCEPT ![p] = got[i][p] + 1]
  <2>2. g \in [Subscriber -> Nat]
    BY <2>1
  <2>3. \A q \in Subscriber : g[q] = IF q = p THEN got[i][q] + 1 ELSE got[i][q]
    BY <2>1
  <2>4. got' = [got EXCEPT ![i] = g]
    BY <1>1
  <2> HIDE DEF g
  <2>5. /\ got' \in Seq([Subscriber -> Nat]) /\ Len(got') = Len(got)
        /\ \A j \in 1..Len(got) : got'[j] = IF j = i THEN g ELSE got[j]
    BY <1>4, <2>2, <2>4
  <2>6. QED
    BY <1>4, <2>3, <2>5 DEF Ids
<1>6. Held' = Held /\ Returning' = Returning /\ Rising' = Rising /\ Queued' = Queued
  BY <1>1 DEF Held, Alive, Returning, Rising, Queued
<1>7. Routed = {i} /\ Routed' \subseteq {i}
  BY <1>1, <1>3 DEF Routed, i
<1>8. Ids' = Ids /\ OriginsKept
  BY <1>1 DEF Ids, OriginsKept
<1>9. PlacesInv'
  BY <1>1, <1>6, <1>7 DEF TokenInv, PlacesInv, LinksOnce
<1>10. OriginInv'
  <2>1. m_messages' \in Seq(Honest')
    BY <1>1, <1>8, HonestKept, SequencesGrow DEF TokenInv, OriginInv
  <2>2. routing' # Idle => routing'.from = Source(routing.id)'
    BY <1>1, <1>3 DEF Source, TokenInv, OriginInv, i
  <2>3. QED
    BY <1>1, <1>6, <1>8, <2>1, <2>2 DEF TokenInv, OriginInv
<1>11. HandedInv'
  <2>1. Waiting' = Waiting /\ Climbing' \subseteq Climbing
    BY <1>6, <1>7 DEF Waiting, Climbing
  <2>2. Waiting \subseteq Ids /\ Climbing \subseteq Ids /\ i \notin Waiting
        /\ Local \subseteq Subscriber /\ Remote \subseteq Subscriber /\ Local \cap Remote = {}
    BY <1>7, PlacesTyped DEF TokenInv, PlacesInv, Waiting
  <2>3. \A j \in Waiting', q \in Local : got'[j][q] = 0
    BY <1>5, <2>1, <2>2 DEF TokenInv, HandedInv
  <2>4. \A j \in Climbing', u \in Remote : sent'[j].from \in Local => got'[j][u] = 0
    BY <1>1, <1>5, <2>1, <2>2 DEF TokenInv, HandedInv
  <2>5. \A q \in routing.to : q \in Subscriber /\ got[i][q] = 0 /\ q # sent[i].from
    BY <1>1, <1>2, <2>2 DEF TokenInv, HandedInv, Routing, i
  <2>6. routing' # Idle =>
          \A q \in routing'.to : got'[routing'.id][q] = 0 /\ q # sent'[routing'.id].from
    BY <1>1, <1>2, <1>3, <1>5, <2>5
  <2>7. \A j \in Ids, q \in Subscriber :
          got'[j][q] <= 1 /\ (sent[j].from = q => got'[j][q] = 0)
    BY <1>1, <1>2, <1>5, <2>5 DEF TokenInv, HandedInv, DeliveredOnce
  <2>8. QED
    BY <1>1, <1>8, <2>3, <2>4, <2>6, <2>7 DEF HandedInv, DeliveredOnce
<1>12. UpmapInv' /\ GotInv'
  BY <1>1, <1>4, <1>5 DEF TokenInv, UpmapInv, GotInv
<1>13. QED
  BY <1>9, <1>10, <1>11, <1>12 DEF TokenInv

LEMMA FinishedRises ==
  ASSUME MapsInv, DataInv, TokenInv, FinishMessage
  PROVE  TokenInv'
<1> DEFINE i == routing.id
           msgs == IF routing.from # Upstream THEN <<Forward(i)>> ELSE <<>>
<1>1. /\ UNCHANGED <<post, back, upmap, m_messages, leaving, sent, got>>
      /\ routing # Idle /\ routing' = Idle /\ Send(msgs)
      /\ deleted' = deleted \cup terminated /\ terminated' = {}
  BY DEF FinishMessage, queues, upstream
<1>2. i \in Ids /\ routing.from = Source(i) /\ i \in Routed
  BY <1>1 DEF TokenInv, OriginInv, DataInv, Routing, Routed
<1>3. GoodSeq(msgs) /\ LinkOnce(msgs) /\ LinkIds(msgs) \subseteq {i}
      /\ (LinkIds(msgs) # {} => sent[i].from \in Local)
  <2>1. CASE routing.from # Upstream
    <3>1. msgs = <<Forward(i)>> /\ Forward(i).id = i /\ sent[i].from \in Local
      BY <1>2, <2>1 DEF Source, Forward
    <3>2. QED
      BY <3>1, GoodMessages, GoodSingle, LinkSingle
  <2>2. CASE routing.from = Upstream
    <3>1. msgs = <<>> /\ LinkIds(<<>>) = {} /\ LinkOnce(<<>>)
      BY <2>2 DEF LinkIds, LinkOnce
    <3>2. QED
      BY <3>1, GoodEmpty
  <2>3. QED
    BY <2>1, <2>2
<1> HIDE DEF i, msgs
<1>4. LinksOnce' /\ Rising' = Rising \cup LinkIds(msgs)
  <2>1. GoodSeq(link) /\ GoodSeq(unsent)
    BY DEF MapsInv
  <2>2. LinksOnce /\ i \notin Rising
    BY <1>2 DEF TokenInv, PlacesInv
  <2>3. LinkIds(link) \cap LinkIds(msgs) = {} /\ LinkIds(unsent) \cap LinkIds(msgs) = {}
    BY <1>3, <2>2 DEF Rising
  <2>4. /\ LinkIds(link \o msgs) = LinkIds(link) \cup LinkIds(msgs) /\ LinkOnce(link \o msgs)
        /\ LinkIds(unsent \o msgs) = LinkIds(unsent) \cup LinkIds(msgs)
        /\ LinkOnce(unsent \o msgs)
    BY <1>3, <2>1, <2>2, <2>3, GoodLinkConcat DEF LinksOnce
  <2>5. CASE m_initialized
    BY <1>1, <2>2, <2>3, <2>4, <2>5 DEF Send, LinksOnce, Rising
  <2>6. CASE ~m_initialized
    BY <1>1, <2>2, <2>3, <2>4, <2>6 DEF Send, LinksOnce, Rising
  <2>7. QED
    BY <2>5, <2>6
<1>5. Held' = Held /\ Returning' = Returning /\ Queued' = Queued /\ Routed' = {}
  BY <1>1 DEF Held, Alive, Returning, Queued, Routed
<1>6. Ids' = Ids /\ OriginsKept
  BY <1>1 DEF Ids, OriginsKept
<1>7. PlacesInv'
  BY <1>1, <1>2, <1>3, <1>4, <1>5 DEF TokenInv, PlacesInv
<1>8. OriginInv'
  <2>1. m_messages' \in Seq(Honest')
    BY <1>1, <1>6, HonestKept, SequencesGrow DEF TokenInv, OriginInv
  <2>2. \A j \in Rising' : j \in Ids /\ sent[j].from \in Local
    BY <1>2, <1>3, <1>4 DEF TokenInv, OriginInv
  <2>3. QED
    BY <1>1, <1>5, <1>6, <2>1, <2>2 DEF TokenInv, OriginInv
<1>9. HandedInv'
  <2>1. Waiting' = Waiting /\ Climbing' \subseteq Climbing
    BY <1>2, <1>3, <1>4, <1>5 DEF Waiting, Climbing
  <2>2. Waiting \subseteq Ids /\ Climbing \subseteq Ids
    BY PlacesTyped DEF TokenInv
  <2>3. QED
    BY <1>1, <1>6, <2>1, <2>2, HandedKept DEF TokenInv
<1>10. UpmapInv' /\ GotInv'
  BY <1>1 DEF TokenInv, UpmapInv, GotInv
<1>11. QED
  BY <1>7, <1>8, <1>9, <1>10 DEF TokenInv

LEMMA ReturnedIsQueued ==
  ASSUME DataInv, TokenInv, ReceiveFromUpstream
  PROVE  TokenInv'
<1> DEFINE i == Head(back)
           msg == [from |-> Upstream, id |-> i]
<1>1. /\ UNCHANGED <<post, upmap, routing, leaving, terminated, deleted, link, unsent, sent, got>>
      /\ back # <<>> /\ back' = Tail(back) /\ m_messages' = Append(m_messages, msg)
  BY DEF ReceiveFromUpstream, Enqueue, subscriptions, upstreamLink
<1>2. back \in Seq(Ids) /\ BackOnce(back) /\ m_messages \in Seq(Honest) /\ QueueOnce(m_messages)
  BY DEF DataInv, TokenInv, PlacesInv, OriginInv
<1>3. BackIds(Tail(back)) = Returning \ {i} /\ BackOnce(Tail(back)) /\ i \in Returning
  BY <1>1, <1>2, BackTail DEF Returning
<1>4. i \in Ids /\ sent[i].from \notin Local /\ i \notin Queued
  BY <1>3, PlacesTyped DEF TokenInv, PlacesInv, OriginInv, Waiting
<1>5. msg \in Honest /\ msg.id = i
  BY <1>4 DEF Honest, Message, Source
<1>6. m_messages' \in Seq(Honest)
  BY <1>1, <1>2, <1>5, AppendType
<1>7. QueueIds(m_messages') = Queued \cup {i} /\ QueueOnce(m_messages')
  BY <1>1, <1>2, <1>4, <1>5, QueueAppend DEF Queued
<1> HIDE DEF i, msg
<1>8. Queued' = Queued \cup {i} /\ Returning' = Returning \ {i} /\ BackOnce(back')
  BY <1>1, <1>3, <1>7 DEF Queued, Returning
<1>9. Held' = Held /\ Routed' = Routed /\ Rising' = Rising
  BY <1>1 DEF Held, Alive, Routed, Rising
<1>10. Ids' = Ids /\ OriginsKept
  BY <1>1 DEF Ids, OriginsKept
<1>11. i \notin Rising
  BY <1>4 DEF TokenInv, OriginInv
<1>12. PlacesInv'
  BY <1>1, <1>3, <1>7, <1>8, <1>9, <1>11 DEF TokenInv, PlacesInv, LinksOnce
<1>13. OriginInv'
  <2>1. m_messages' \in Seq(Honest')
    BY <1>6, <1>10, HonestKept, SequencesGrow
  <2>2. routing' # Idle => routing'.from = Source(routing.id)'
    BY <1>1 DEF Source, TokenInv, OriginInv
  <2>3. QED
    BY <1>1, <1>8, <1>9, <1>10, <2>1, <2>2 DEF TokenInv, OriginInv
<1>14. HandedInv'
  <2>1. Waiting' \subseteq Waiting /\ Climbing' \subseteq Climbing \cup {i}
    BY <1>3, <1>8, <1>9 DEF Waiting, Climbing
  <2>2. Waiting \subseteq Ids /\ Climbing \subseteq Ids
    BY PlacesTyped DEF TokenInv
  <2>3. routing' # Idle => routing'.id \in Ids /\
          \A q \in routing'.to : got[routing'.id][q] = 0 /\ q # sent[routing'.id].from
    BY <1>1 DEF TokenInv, HandedInv, DataInv, Routing
  <2>4. QED
    BY <1>1, <1>4, <1>10, <2>1, <2>2, <2>3, HandedKept DEF TokenInv
<1>15. UpmapInv' /\ GotInv'
  BY <1>1 DEF TokenInv, UpmapInv, GotInv
<1>16. QED
  BY <1>12, <1>13, <1>14, <1>15 DEF TokenInv

-----------------------------------------------------------------------------
(* The upstream director hands datagrams to its own participants and Down.   *)
LEMMA UpstreamReceivers ==
  ASSUME MapsInv, UpmapInv, NEW C \in SUBSET Channel, NEW from
  PROVE  Receivers(upmap, from, C) \subseteq (Remote \cup {Down}) \ {from}
<1>1. upmap \in Map /\ MapsAgree(upmap)
  BY DEF MapsInv, ConsistentMaps
<1>2. LookupChannels(upmap, C) = {s \in Subscriber : \E c \in C : IsSubscribed(upmap, s, c)}
  BY <1>1, LookupIsExact
<1>3. \A s \in Local : ~ \E c \in C : IsSubscribed(upmap, s, c)
  BY DEF UpmapInv, IsSubscribed
<1>4. QED
  BY <1>2, <1>3, MessageDirectorAssumption DEF Receivers

LEMMA ControlsAreOfDown ==
  ASSUME NEW m \in Map, NEW msg, NEW p \in Local
  PROVE  /\ ApplyControl(m, msg).channels[p] = m.channels[p]
         /\ ApplyControl(m, msg).ranges[p] = m.ranges[p]
<1>1. p \in Subscriber /\ Down \in Subscriber /\ p # Down
  BY MessageDirectorAssumption
<1>2. QED
  BY <1>1, OperationsAreLocal DEF ApplyControl

LEMMA RisenIsHanded ==
  ASSUME MapsInv, DataInv, TokenInv, UpstreamReceives
  PROVE  TokenInv'
<1> DEFINE msg == Head(link)
           i == msg.id
           to == Receivers(upmap, Down, sent[i].to)
<1>1. /\ UNCHANGED <<unsent, post, m_messages, routing, leaving, terminated, deleted, sent>>
      /\ link # <<>> /\ link' = Tail(link) /\ upmap' = ApplyControl(upmap, msg)
      /\ IF msg.kind = "datagram"
         THEN /\ got' = [got EXCEPT ![i] =
                           [p \in Subscriber |-> IF p \in to THEN @[p] + 1 ELSE @[p]]]
              /\ back' = IF Down \in to THEN Append(back, i) ELSE back
         ELSE UNCHANGED <<got, back>>
  BY DEF UpstreamReceives, subscriptions, queues
<1>2. PICK S : link \in Seq(S)
  BY DEF MapsInv, GoodSeq
<1>3. /\ LinkIds(link') = IF msg.kind = "datagram" THEN LinkIds(link) \ {i} ELSE LinkIds(link)
      /\ LinkOnce(link')
      /\ msg.kind = "datagram" => i \in LinkIds(link)
  BY <1>1, <1>2, LinkTail DEF TokenInv, PlacesInv, LinksOnce
<1>4. msg.kind = "datagram" =>
        /\ i \in Ids /\ sent[i].from \in Local /\ i \in Rising
        /\ to \subseteq Remote
  <2> SUFFICES ASSUME msg.kind = "datagram"
               PROVE  /\ i \in Ids /\ sent[i].from \in Local /\ i \in Rising
                      /\ to \subseteq Remote
    OBVIOUS
  <2>1. i \in Ids /\ sent[i].from \in Local /\ i \in Rising
    BY <1>3 DEF TokenInv, OriginInv, Rising
  <2>2. sent[i] \in Datagrams
    BY <2>1 DEF DataInv, Ids
  <2>3. sent[i].to \in SUBSET Channel
    BY <2>2 DEF Datagrams
  <2>4. to \subseteq Remote
    BY <2>3, UpstreamReceivers DEF TokenInv
  <2>5. QED
    BY <2>1, <2>4
<1> HIDE DEF msg, i, to
<1>5. back' = back
  BY <1>1, <1>4, MessageDirectorAssumption
<1>6. Rising' = IF msg.kind = "datagram" THEN Rising \ {i} ELSE Rising
  <2>1. LinkIds(link) \cap LinkIds(unsent) = {}
    BY DEF TokenInv, PlacesInv, LinksOnce
  <2>2. QED
    BY <1>1, <1>3, <2>1 DEF Rising
<1>7. LinksOnce'
  BY <1>1, <1>3 DEF TokenInv, PlacesInv, LinksOnce
<1>8. Held' = Held /\ Returning' = Returning /\ Queued' = Queued /\ Routed' = Routed
  BY <1>1, <1>5 DEF Held, Alive, Returning, Queued, Routed
<1>9. Ids' = Ids /\ OriginsKept
  BY <1>1 DEF Ids, OriginsKept
<1>10. PlacesInv'
  BY <1>1, <1>5, <1>6, <1>7, <1>8 DEF TokenInv, PlacesInv
<1>11. OriginInv'
  <2>1. m_messages' \in Seq(Honest')
    BY <1>1, <1>9, HonestKept, SequencesGrow DEF TokenInv, OriginInv
  <2>2. routing' # Idle => routing'.from = Source(routing.id)'
    BY <1>1 DEF Source, TokenInv, OriginInv
  <2>3. QED
    BY <1>1, <1>6, <1>8, <1>9, <2>1, <2>2 DEF TokenInv, OriginInv
<1>12. UpmapInv'
  BY <1>1, ControlsAreOfDown DEF MapsInv, TokenInv, UpmapInv
<1>13. CASE msg.kind # "datagram"
  <2>1. Waiting' = Waiting /\ Climbing' = Climbing /\ got' = got
    BY <1>1, <1>6, <1>8, <1>13 DEF Waiting, Climbing
  <2>2. Waiting \subseteq Ids /\ Climbing \subseteq Ids
    BY PlacesTyped DEF TokenInv
  <2>3. routing' # Idle => routing'.id \in Ids /\
          \A q \in routing'.to : got[routing'.id][q] = 0 /\ q # sent[routing'.id].from
    BY <1>1 DEF TokenInv, HandedInv, DataInv, Routing
  <2>4. HandedInv'
    BY <1>9, <2>1, <2>2, <2>3, HandedKept DEF TokenInv
  <2>5. GotInv'
    BY <1>1, <2>1 DEF TokenInv, GotInv
  <2>6. QED
    BY <1>10, <1>11, <1>12, <2>4, <2>5 DEF TokenInv
<1>14. CASE msg.kind = "datagram"
  <2>1. i \in Ids /\ sent[i].from \in Local /\ i \in Rising /\ to \subseteq Remote
    BY <1>4, <1>14
  <2>2. got \in Seq([Subscriber -> Nat]) /\ Len(got) = Len(sent) /\ i \in 1..Len(got)
    BY <2>1 DEF TokenInv, GotInv, Ids
  <2> DEFINE g == [p \in Subscriber |-> IF p \in to THEN got[i][p] + 1 ELSE got[i][p]]
  <2>3. g \in [Subscriber -> Nat]
    BY <2>2
  <2>4. got' = [got EXCEPT ![i] = g]
    BY <1>1, <1>14
  <2>5. \A p \in Subscriber : g[p] = IF p \in to THEN got[i][p] + 1 ELSE got[i][p]
    OBVIOUS
  <2> HIDE DEF g
  <2>6. /\ got' \in Seq([Subscriber -> Nat]) /\ Len(got') = Len(got)
        /\ \A j \in Ids : got'[j] = IF j = i THEN g ELSE got[j]
    BY <2>2, <2>3, <2>4 DEF Ids
  <2>7. /\ Local \subseteq Subscriber /\ Remote \subseteq Subscriber /\ Local \cap Remote = {}
        /\ Waiting \subseteq Ids /\ Climbing \subseteq Ids
    BY PlacesTyped DEF TokenInv
  <2>8. \A j \in Ids, p \in Local : got'[j][p] = got[j][p]
    BY <2>1, <2>5, <2>6, <2>7
  <2>9. Waiting' = Waiting /\ Climbing' \subseteq Climbing \ {i}
    BY <1>6, <1>8, <1>14, <2>1 DEF Waiting, Climbing, TokenInv, PlacesInv
  <2>10. \A j \in Waiting', p \in Local : got'[j][p] = 0
    BY <2>7, <2>8, <2>9 DEF TokenInv, HandedInv
  <2>11. \A j \in Climbing', u \in Remote : sent'[j].from \in Local => got'[j][u] = 0
    BY <1>1, <2>6, <2>7, <2>9 DEF TokenInv, HandedInv
  <2>12. routing' # Idle =>
           \A q \in routing'.to : got'[routing'.id][q] = 0 /\ q # sent'[routing'.id].from
    <3>1. routing # Idle => routing.id \in Ids /\ routing.to \subseteq Local
      BY DEF DataInv, Routing
    <3>2. QED
      BY <1>1, <2>8, <3>1 DEF TokenInv, HandedInv
  <2>13. ASSUME NEW j \in Ids, NEW p \in Subscriber
         PROVE  got'[j][p] <= 1 /\ (sent[j].from = p => got'[j][p] = 0)
    <3>1. got[j][p] <= 1 /\ (sent[j].from = p => got[j][p] = 0)
      BY <2>13 DEF TokenInv, HandedInv, DeliveredOnce
    <3>2. CASE j = i /\ p \in to
      <4>1. got[i][p] = 0 /\ sent[i].from # p
        BY <2>1, <2>7, <3>2 DEF Climbing, TokenInv, HandedInv
      <4>2. QED
        BY <2>5, <2>6, <2>13, <3>2, <4>1
    <3>3. CASE ~(j = i /\ p \in to)
      BY <2>5, <2>6, <2>13, <3>1, <3>3
    <3>4. QED
      BY <3>2, <3>3
  <2>14. HandedInv'
    BY <1>1, <1>9, <2>10, <2>11, <2>12, <2>13 DEF HandedInv, DeliveredOnce
  <2>15. GotInv'
    BY <1>1, <2>2, <2>6 DEF GotInv
  <2>16. QED
    BY <1>10, <1>11, <1>12, <2>14, <2>15 DEF TokenInv
<1>15. QED
  BY <1>13, <1>14

LEMMA AnswerReturns ==
  ASSUME MapsInv, DataInv, TokenInv, NEW u \in Remote, NEW id \in Ids, Answer(u, id)
  PROVE  TokenInv'
<1> DEFINE n == Len(sent) + 1
           reply == sent[id].reply
           dg == [Datagram(u, {reply}, id, FALSE) EXCEPT !.live = FALSE]
           to == Receivers(upmap, u, {reply})
           g == [p \in Subscriber |-> IF p \in to \ {Down} THEN 1 ELSE 0]
<1>1. reply \in Channel /\ id \in Nat
  BY DEF Answer, DataInv, Ids
<1>2. dg \in Datagrams /\ dg.from = u
  <2>1. Datagram(u, {reply}, id, FALSE) \in Datagrams
        /\ Datagram(u, {reply}, id, FALSE).from = u
    BY <1>1 DEF Datagram, Datagrams
  <2>2. QED
    BY <2>1 DEF Datagrams
<1>3. to \subseteq (Remote \cup {Down}) \ {u}
  BY <1>1, UpstreamReceivers DEF TokenInv
<1>4. g \in [Subscriber -> Nat]
  OBVIOUS
<1>5. /\ Local \subseteq Subscriber /\ Remote \subseteq Subscriber /\ Local \cap Remote = {}
      /\ Down \notin Local /\ u \notin Local
      /\ Waiting \subseteq Ids /\ Climbing \subseteq Ids
  BY PlacesTyped DEF TokenInv
<1>6. /\ \A p \in Local : g[p] = 0
      /\ \A p \in Subscriber : g[p] <= 1 /\ (u = p => g[p] = 0)
  BY <1>3, <1>5
<1>7. /\ UNCHANGED <<post, upmap, m_messages, routing, leaving, terminated, deleted,
                     link, unsent>>
      /\ sent' = Append(sent, dg) /\ got' = Append(got, g)
      /\ back' = Append(back, n) \/ back' = back
  BY DEF Answer, subscriptions, upstreamLink, queues
<1> HIDE DEF n, reply, dg, to, g
<1>8. /\ Ids' = Ids \cup {n} /\ n \notin Ids /\ OriginsKept /\ GotInv'
      /\ sent'[n] = dg /\ got'[n] = g /\ \A i \in Ids : got'[i] = got[i]
  BY <1>2, <1>4, <1>7, DatagramAdded DEF n, TokenInv
<1>9. Returning' \subseteq Returning \cup {n} /\ BackOnce(back')
  <2>1. back \in Seq(Ids') /\ BackOnce(back) /\ n \in Ids'
    BY <1>8, SequencesGrow DEF DataInv, TokenInv, PlacesInv
  <2>2. n \notin Returning
    BY <1>5, <1>8 DEF Waiting
  <2>3. BackIds(Append(back, n)) = Returning \cup {n} /\ BackOnce(Append(back, n))
    BY <2>1, <2>2, BackAppend DEF Returning
  <2>4. QED
    BY <1>7, <2>1, <2>3 DEF Returning
<1>10. Held' = Held /\ Queued' = Queued /\ Routed' = Routed /\ Rising' = Rising
  BY <1>7 DEF Held, Alive, Queued, Routed, Rising
<1>11. PlacesInv'
  <2>1. n \notin Held \cup Queued \cup Routed
    BY <1>5, <1>8 DEF Climbing
  <2>2. QED
    BY <1>7, <1>9, <1>10, <2>1 DEF TokenInv, PlacesInv, LinksOnce
<1>12. OriginInv'
  <2>1. m_messages' \in Seq(Honest')
    BY <1>7, <1>8, HonestKept, SequencesGrow DEF TokenInv, OriginInv
  <2>2. routing' # Idle => routing'.from = Source(routing.id)'
    <3>1. routing # Idle => routing.id \in Ids
      BY DEF DataInv, Routing
    <3>2. \A i \in Ids : routing.id = i => Source(routing.id)' = Source(i)
      BY <1>7, <1>8 DEF Source, OriginsKept
    <3>3. QED
      BY <1>7, <3>1, <3>2 DEF TokenInv, OriginInv
  <2>3. \A p \in Local : \A i \in post'[p] : sent'[i].from = p
    BY <1>7, <1>8 DEF TokenInv, OriginInv, DataInv, OriginsKept
  <2>4. \A i \in Returning : i \in Ids /\ sent'[i].from \in Remote
    BY <1>5, <1>8 DEF TokenInv, OriginInv, OriginsKept, Waiting
  <2>5. \A i \in Rising : i \in Ids' /\ sent'[i].from \in Local
    BY <1>5, <1>8 DEF TokenInv, OriginInv, OriginsKept, Climbing
  <2>6. \A i \in Returning' : sent'[i].from \in Remote
    BY <1>2, <1>8, <1>9, <2>4
  <2>7. QED
    BY <1>10, <2>1, <2>2, <2>3, <2>5, <2>6 DEF OriginInv
<1>13. HandedInv'
  <2>1. Waiting' \subseteq Waiting \cup {n} /\ Climbing' = Climbing
    BY <1>9, <1>10 DEF Waiting, Climbing
  <2>2. routing' # Idle => routing'.id \in Ids /\
          \A q \in routing'.to : got[routing'.id][q] = 0 /\ q # sent[routing'.id].from
    BY <1>7 DEF TokenInv, HandedInv, DataInv, Routing
  <2>3. QED
    BY <1>2, <1>5, <1>6, <1>8, <2>1, <2>2, HandedKept DEF TokenInv
<1>14. UpmapInv'
  BY <1>7 DEF TokenInv, UpmapInv
<1>15. QED
  BY <1>8, <1>11, <1>12, <1>13, <1>14 DEF TokenInv

-----------------------------------------------------------------------------
DeliveryInv == DirectorInv /\ TokenInv

LEMMA DeliveryInitially == Init => DeliveryInv
<1> SUFFICES ASSUME Init PROVE DeliveryInv
  OBVIOUS
<1>1. Queued = {} /\ Returning = {} /\ Rising = {} /\ Routed = {} /\ Held = {}
  <2>1. Held = {}
    BY DEF Init, Held, Alive
  <2>2. QED
    BY <2>1 DEF Init, Queued, Returning, Rising, Routed, QueueIds, BackIds, LinkIds
<1>2. PlacesInv
  <2>1. m_messages = <<>> /\ back = <<>> /\ link = <<>> /\ unsent = <<>>
    BY DEF Init
  <2>2. QueueOnce(<<>>) /\ BackOnce(<<>>) /\ LinkOnce(<<>>) /\ LinkIds(<<>>) = {}
    BY DEF QueueOnce, BackOnce, LinkOnce, LinkIds
  <2>3. QED
    BY <1>1, <2>1, <2>2 DEF PlacesInv, LinksOnce
<1>3. OriginInv
  BY <1>1 DEF Init, OriginInv
<1>4. HandedInv
  BY <1>1 DEF Init, HandedInv, Waiting, Climbing, DeliveredOnce, Ids
<1>5. UpmapInv
  BY MessageDirectorAssumption DEF Init, UpmapInv, EmptyMap
<1>6. GotInv
  BY DEF Init, GotInv
<1>7. QED
  BY <1>2, <1>3, <1>4, <1>5, <1>6, Initially DEF DeliveryInv, TokenInv

LEMMA DeliveryStep == DeliveryInv /\ [Next]_vars => DeliveryInv'
<1> SUFFICES ASSUME DeliveryInv, [Next]_vars PROVE DeliveryInv'
  OBVIOUS
<1>1. MapsInv /\ ParticipantsInv /\ DataInv /\ TokenInv /\ DirectorInv
  BY DEF DeliveryInv, DirectorInv
<1>2. DirectorInv'
  BY <1>1, DirectorStep
<1>3. ASSUME NEW p \in Alive, Participate(p) PROVE TokenInv'
  <2>1. ASSUME NEW to \in Destinations, AddPostRemove(p, to) PROVE TokenInv'
    BY <1>1, <2>1, PostRemoveHeld
  <2>2. ASSUME NEW to \in Destinations, NEW main, RouteDatagram(p, to, main) PROVE TokenInv'
    BY <1>1, <2>2, RoutedIsQueued
  <2>3. QED
    BY <1>1, <1>3, <2>1, <2>2, SubscriptionsMoveNothing, RemovedAreQueued, ClearedMovesNothing
       DEF Participate
<1>4. ASSUME FlushTask \/ StopFlushing \/ Connect \/ FlushSendQueue \/ UNCHANGED vars
      PROVE  TokenInv'
  BY <1>1, <1>4, LoopMovesNothing
<1>5. ASSUME TakeMessage \/ FinishMessage \/ \E p \in Local : Deliver(p) \/ DeliverTruncated(p)
      PROVE  TokenInv'
  BY <1>1, <1>5, TakenIsRouted, FinishedRises, DeliveredIsHanded
<1>6. ASSUME UpstreamReceives \/ ReceiveFromUpstream
      PROVE  TokenInv'
  BY <1>1, <1>6, RisenIsHanded, ReturnedIsQueued
<1>7. ASSUME NEW u \in Remote, NEW id \in Ids, Answer(u, id) PROVE TokenInv'
  BY <1>1, <1>7, AnswerReturns
<1>8. TokenInv'
  BY <1>3, <1>4, <1>5, <1>6, <1>7 DEF Next, Route, Link
<1>9. QED
  BY <1>2, <1>8 DEF DeliveryInv

(* process_datagram never hands a participant its own datagram, and nobody   *)
(* gets one twice, though it is routed here and upstream, and post-removes   *)
(* are routed by whoever finds their participant gone.                       *)
THEOREM NothingDeliveredTwice == Spec => []DeliveredOnce
<1>1. DeliveryInv => DeliveredOnce
  BY DEF DeliveryInv, TokenInv, HandedInv
<1>2. QED
  BY <1>1, DeliveryInitially, DeliveryStep, PTL DEF Spec

=============================================================================
