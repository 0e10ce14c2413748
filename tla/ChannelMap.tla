----------------------------- MODULE ChannelMap -----------------------------
(***************************************************************************)
(* ChannelMap (src/src/messagedirector/ChannelMap.{h,cpp}): who subscribes *)
(* to what, kept twice: by subscriber, and by channel for lookups.  Each   *)
(* operation holds m_lock throughout, so it is a function from map to map; *)
(* beside it stand the calls of on_add_channel, on_remove_channel,         *)
(* on_add_range and on_remove_range it makes.                              *)
(***************************************************************************)
EXTENDS Naturals, FiniteSets

CONSTANTS
  Subscriber,
  MaxChannel

ASSUME ChannelMapAssumption == MaxChannel \in Nat

Channel == 1..MaxChannel

\* A closed interval of channels, as the set of them.
Interval == {lo..hi : lo, hi \in Channel} \ {{}}

\* channels and ranges are the subscribers' own sets, channel_subs is
\* m_channel_subscriptions and range_subs is m_range_subscriptions.
Map ==
  [channels : [Subscriber -> SUBSET Channel],
   ranges : [Subscriber -> SUBSET Channel],
   channel_subs : SUBSET (Channel \X Subscriber),
   range_subs : [Channel -> SUBSET Subscriber]]

EmptyMap ==
  [channels |-> [p \in Subscriber |-> {}],
   ranges |-> [p \in Subscriber |-> {}],
   channel_subs |-> {},
   range_subs |-> [c \in Channel |-> {}]]

IsSubscribed(m, p, c) == c \in m.channels[p] \cup m.ranges[p]

LookupChannels(m, C) ==
  {p \in Subscriber : \E c \in C : <<c, p>> \in m.channel_subs \/ p \in m.range_subs[c]}

ChannelSubscribers(m, c) == {p \in Subscriber : <<c, p>> \in m.channel_subs}

-----------------------------------------------------------------------------
SubscribeChannel(m, p, c) ==
  IF IsSubscribed(m, p, c) THEN m
  ELSE [m EXCEPT !.channels[p] = @ \cup {c}, !.channel_subs = @ \cup {<<c, p>>}]

\* on_add_channel(c) is called.
AddsChannel(m, p, c) == ~IsSubscribed(m, p, c) /\ ChannelSubscribers(m, c) = {}

UnsubscribeChannel(m, p, c) ==
  IF ~IsSubscribed(m, p, c) THEN m
  ELSE [m EXCEPT !.channels[p] = @ \ {c}, !.channel_subs = @ \ {<<c, p>>}]

\* on_remove_channel(c) is called: p was the last one there.
RemovesChannel(m, p, c) == IsSubscribed(m, p, c) /\ ChannelSubscribers(m, c) = {p}

SubscribeRange(m, p, R) ==
  [m EXCEPT !.ranges[p] = @ \cup R,
            !.range_subs = [c \in Channel |-> IF c \in R THEN @[c] \cup {p} ELSE @[c]]]

\* on_add_range(R) is called, for the whole of R: some of it is only p's.
AddsRange(m, p, R) == \E c \in R : m.range_subs[c] \subseteq {p}

\* The channels some range covers.  icl keeps only these; the bounds of its
\* first and last segment may be open, so lower() and upper() are off by one
\* outwards at times: a and b are 0 or 1.
Ranged(m) == {c \in Channel : m.range_subs[c] # {}}

Bounded(m, R, a, b) ==
  {c \in R : /\ \E r \in Ranged(m) : r <= c + a
             /\ \E r \in Ranged(m) : c <= r + b}

UnsubscribeRange_KeepingIndex(m, p, R) ==
  IF Ranged(m) = {} THEN m
  ELSE [m EXCEPT
    !.ranges[p] = @ \ R,
    !.range_subs = [c \in Channel |-> IF c \in R THEN @[c] \ {p} ELSE @[c]],
    !.channels[p] = @ \ R]

\* The early return is for the case that nobody has a range at all.
UnsubscribeRange(m, p, R) ==
  IF Ranged(m) = {} THEN m
  ELSE [m EXCEPT
    !.ranges[p] = @ \ R,
    !.range_subs = [c \in Channel |-> IF c \in R THEN @[c] \ {p} ELSE @[c]],
    !.channels[p] = @ \ R,
    !.channel_subs = @ \ (R \X {p})]

SilentRanges_AllOrNothing(m, p, R, a, b) ==
  IF \A c \in R : m.range_subs[c] \subseteq {p} THEN R ELSE {}

\* What on_remove_range is called for, one maximal interval at a time: no one
\* else has a range there.
SilentRanges(m, p, R, a, b) == {c \in Bounded(m, R, a, b) : m.range_subs[c] \subseteq {p}}

\* unsubscribe_all and the channels it calls on_remove_channel for.
UnsubscribeAll(m, p) ==
  [m EXCEPT
    !.channels[p] = {},
    !.ranges[p] = {},
    !.channel_subs = @ \ (Channel \X {p}),
    !.range_subs = [c \in Channel |-> @[c] \ {p}]]

LastChannels(m, p) == {c \in m.channels[p] : ChannelSubscribers(m, c) = {p}}

-----------------------------------------------------------------------------
(* The two copies agree: a lookup finds exactly the subscribers, and no      *)
(* subscriber is left behind in the index when it is gone.                   *)
MapsAgree(m) ==
  \A p \in Subscriber, c \in Channel :
    /\ <<c, p>> \in m.channel_subs <=> c \in m.channels[p]
    /\ p \in m.range_subs[c] <=> c \in m.ranges[p]
=============================================================================
