----------------------------- MODULE VolumeProofs -----------------------------
(***************************************************************************)
(* Theorems about Volume, for any formats, limits and presets, any number  *)
(* of keys and of changes by other clients.                                *)
(***************************************************************************)
EXTENDS Volume, SequenceTheorems, TLAPS

\* The volumes a node can have: some channels, fewer than ALL_CHANNELS says.
Formats == {s \in Seq(Nat) : s # <<>> /\ Len(s) < UIntMax}

EventKinds == {"channels", "volume"}

\* The types, and what keeps the unsigned arithmetic in its range.
Types ==
  /\ actual \in Formats
  /\ requests \in Seq(Seq(Nat))
  /\ reports \in Seq(Formats)
  /\ reported \in Formats \union {<<>>}
  /\ events \in Seq(EventKinds)
  /\ shown \in Seq(Nat \union {Unset}) /\ Len(shown) < UIntMax
  /\ focused \in 0..UIntMax
  /\ listening \in BOOLEAN /\ dispatching \in BOOLEAN
  /\ unlocked \in BOOLEAN /\ overrun \in BOOLEAN
  /\ keys \in 0..MaxKeys /\ others \in 0..MaxOthers

\* The last report under way, or else the node's copy, is what the server has.
ReportsCatchUp ==
  /\ reports # <<>> => reports[Len(reports)] = actual
  /\ reports = <<>> => reported = actual

\* Events are only for an item, about volumes that are known, and end with the
\* one that fills the channels.
EventsFill ==
  /\ ~listening => events = <<>> /\ shown = <<>>
  /\ events # <<>> => reported # <<>> /\ events[Len(events)] = "volume"

\* What the item lacks is on its way.
ItemWaits ==
  listening /\ ~overrun =>
    /\ Len(shown) # Len(reported) => \E i \in DOMAIN events : events[i] = "channels"
    /\ shown # reported => events # <<>>

Inv == Types /\ ReportsCatchUp /\ EventsFill /\ ItemWaits /\ FocusOnChannel

-----------------------------------------------------------------------------
(* Sequences.                                                              *)

\* What is appended comes last.
LEMMA AppendIs ==
  ASSUME NEW S, NEW s \in Seq(S), NEW x \in S
  PROVE  /\ Append(s, x) \in Seq(S) /\ Len(Append(s, x)) = Len(s) + 1
         /\ Append(s, x)[Len(s) + 1] = x
         /\ \A i \in 1..Len(s) : Append(s, x)[i] = s[i]
OBVIOUS

LEMMA ConcatIs ==
  ASSUME NEW S, NEW s \in Seq(S), NEW t \in Seq(S)
  PROVE  /\ s \o t \in Seq(S) /\ Len(s \o t) = Len(s) + Len(t)
         /\ \A i \in 1..Len(s) : (s \o t)[i] = s[i]
         /\ \A i \in 1..Len(t) : (s \o t)[Len(s) + i] = t[i]
OBVIOUS

LEMMA ConcatOne ==
  ASSUME NEW S, NEW s \in Seq(S), NEW x \in S
  PROVE  /\ s \o <<x>> \in Seq(S) /\ Len(s \o <<x>>) = Len(s) + 1
         /\ \A i \in 1..Len(s) : (s \o <<x>>)[i] = s[i]
         /\ (s \o <<x>>)[Len(s) + 1] = x
OBVIOUS

\* The tail has the elements but the first.
LEMMA TailIs ==
  ASSUME NEW S, NEW s \in Seq(S), s # <<>>
  PROVE  /\ Tail(s) \in Seq(S) /\ Len(Tail(s)) = Len(s) - 1
         /\ Head(s) \in S /\ Head(s) = s[1] /\ Len(s) \in Nat \ {0}
         /\ \A i \in 1..Len(s) - 1 : Tail(s)[i] = s[i + 1]
OBVIOUS

LEMMA TailEmpty ==
  ASSUME NEW S, NEW s \in Seq(S), s # <<>>, Tail(s) = <<>>
  PROVE  Len(s) = 1
<1>1. Len(Tail(s)) = Len(s) - 1 /\ Len(s) \in Nat
  BY TailIs
<1>2. Len(Tail(s)) = 0
  <2>1. Tail(s) = <<>>
    OBVIOUS
  <2>2. \A t : t = <<>> => Len(t) = 0
    OBVIOUS
  <2>. QED  BY <2>1, <2>2, Zenon
<1>. QED  BY <1>1, <1>2

\* A tail that is not empty ends as the sequence does.
LEMMA TailLast ==
  ASSUME NEW S, NEW s \in Seq(S), s # <<>>, Tail(s) # <<>>
  PROVE  Tail(s)[Len(Tail(s))] = s[Len(s)]
<1>1. Len(Tail(s)) = Len(s) - 1 /\ Len(Tail(s)) \in Nat /\ Len(s) \in Nat
  BY TailIs
<1>2. Len(Tail(s)) # 0
  BY TailIs, EmptySeq
<1>. QED  BY <1>1, <1>2, TailIs

\* A function on the channels of a sequence is a sequence of the same length.
LEMMA ChannelWise ==
  ASSUME NEW S, NEW T, NEW s \in Seq(T), NEW f, f = [i \in DOMAIN s |-> f[i]],
         \A i \in 1..Len(s) : f[i] \in S
  PROVE  f \in Seq(S) /\ Len(f) = Len(s)
<1>1. DOMAIN s = 1..Len(s) /\ Len(s) \in Nat
  BY LenProperties
<1>2. f \in [1..Len(s) -> S]
  BY <1>1
<1>. QED  BY <1>1, <1>2, SeqDef, LenProperties

LEMMA SameSequence ==
  ASSUME NEW S, NEW T, NEW s \in Seq(S), NEW t \in Seq(T), Len(s) = Len(t),
         \A i \in 1..Len(s) : s[i] = t[i]
  PROVE  s = t
<1>1. s = [i \in 1..Len(s) |-> s[i]] /\ t = [i \in 1..Len(t) |-> t[i]]
  BY LenProperties
<1>. QED  BY <1>1

\* Volumes that are known have some channel.
LEMMA FormatSize ==
  ASSUME NEW s \in Formats
  PROVE  s \in Seq(Nat) /\ Len(s) \in 1..UIntMax - 1 /\ DOMAIN s = 1..Len(s)
<1>1. s \in Seq(Nat) /\ s # <<>> /\ Len(s) < UIntMax
  BY DEF Formats
<1>. QED  BY <1>1, EmptySeq, LenProperties, VolumeAssumption

LEMMA ReportedSize ==
  ASSUME NEW s \in Formats \union {<<>>}
  PROVE  s \in Seq(Nat) /\ Len(s) \in 0..UIntMax - 1 /\ DOMAIN s = 1..Len(s)
         /\ (s = <<>> <=> Len(s) = 0)
<1>1. CASE s = <<>>
  <2>1. s \in Seq(Nat) /\ Len(s) = 0 /\ DOMAIN s = 1..Len(s)
    BY <1>1, EmptySeq, LenProperties
  <2>2. 0 <= UIntMax - 1
    BY VolumeAssumption, LenProperties
  <2>. QED  BY <1>1, <2>1, <2>2
<1>2. CASE s \in Formats
  BY <1>2, FormatSize DEF Formats
<1>. QED  BY <1>1, <1>2

-----------------------------------------------------------------------------
(* The beginning.                                                          *)

THEOREM InitInv == Init => Inv
<1>. SUFFICES ASSUME Init PROVE Inv
  OBVIOUS
<1>1. actual \in Formats
  BY VolumeAssumption DEF Init, Formats
<1>2. reports \in Seq(Formats) /\ Len(reports) = 1 /\ reports[1] = actual
  BY <1>1 DEF Init
<1>3. 0 < UIntMax
  BY <1>1, FormatSize, VolumeAssumption
<1>4. Types
  <2>1. requests \in Seq(Seq(Nat)) /\ events \in Seq(EventKinds)
        /\ shown \in Seq(Nat \union {Unset}) /\ Len(shown) = 0
    BY EmptySeq DEF Init
  <2>2. focused \in 0..UIntMax /\ keys \in 0..MaxKeys /\ others \in 0..MaxOthers
    BY VolumeAssumption DEF Init
  <2>3. reported \in Formats \union {<<>>} /\ listening \in BOOLEAN /\ dispatching \in BOOLEAN
        /\ unlocked \in BOOLEAN /\ overrun \in BOOLEAN
    BY DEF Init
  <2>. QED  BY <1>1, <1>2, <1>3, <2>1, <2>2, <2>3 DEF Types
<1>5. ReportsCatchUp
  BY <1>2, EmptySeq DEF ReportsCatchUp
<1>6. EventsFill /\ ItemWaits /\ FocusOnChannel
  BY DEF Init, EventsFill, ItemWaits, FocusOnChannel
<1>. QED  BY <1>4, <1>5, <1>6 DEF Inv

-----------------------------------------------------------------------------
(* The server.                                                             *)

\* A change of the server's volumes comes with the report of it.
LEMMA ReportInv ==
  ASSUME Inv, NEW volumes \in Formats, Report(volumes), others' \in 0..MaxOthers,
         requests' \in Seq(Seq(Nat)),
         UNCHANGED <<reported, listening, events, dispatching, item, overrun, keys>>
  PROVE  Inv'
<1>. USE DEF Inv, item
<1>1. reports' \in Seq(Formats) /\ Len(reports') = Len(reports) + 1
      /\ reports'[Len(reports) + 1] = actual' /\ actual' = volumes
  BY AppendIs DEF Report, Types
<1>2. ReportsCatchUp'
  BY <1>1, EmptySeq, LenProperties DEF ReportsCatchUp, Types
<1>3. Types'
  BY <1>1 DEF Types
<1>4. EventsFill' /\ ItemWaits' /\ FocusOnChannel'
  BY DEF EventsFill, ItemWaits, FocusOnChannel
<1>. QED  BY <1>2, <1>3, <1>4

LEMMA ServerAppliesInv == ASSUME Inv, ServerApplies  PROVE Inv'
<1>. DEFINE volumes == IF Len(Head(requests)) = Len(actual) THEN Head(requests) ELSE actual
<1>1. Head(requests) \in Seq(Nat) /\ Tail(requests) \in Seq(Seq(Nat))
  BY TailIs DEF Inv, Types, ServerApplies
<1>2. actual \in Formats
  BY DEF Inv, Types
<1>3. volumes \in Formats
  <2>1. CASE Len(Head(requests)) = Len(actual)
    <3>1. Head(requests) # <<>>
      BY <1>1, <1>2, <2>1, FormatSize, EmptySeq
    <3>2. Len(Head(requests)) < UIntMax
      BY <1>2, <2>1 DEF Formats
    <3>. QED  BY <1>1, <2>1, <3>1, <3>2 DEF Formats
  <2>. QED  BY <1>2, <2>1
<1>4. Report(volumes) /\ requests' = Tail(requests) /\ others' = others
  BY DEF ServerApplies
<1>. HIDE DEF volumes
<1>5. others' \in 0..MaxOthers /\ requests' \in Seq(Seq(Nat))
  BY <1>1, <1>4 DEF Inv, Types
<1>6. UNCHANGED <<reported, listening, events, dispatching, item, overrun, keys>>
  BY DEF ServerApplies
<1>. QED  BY <1>3, <1>4, <1>5, <1>6, ReportInv

LEMMA OtherClientInv == ASSUME Inv, OtherClient  PROVE Inv'
<1>1. PICK volumes \in Settings : Report(volumes)
  BY DEF OtherClient
<1>2. volumes \in Formats
  BY VolumeAssumption DEF Formats
<1>3. others' \in 0..MaxOthers /\ requests' \in Seq(Seq(Nat))
  BY VolumeAssumption DEF Inv, Types, OtherClient
<1>4. UNCHANGED <<reported, listening, events, dispatching, item, overrun, keys>>
  BY DEF OtherClient
<1>. QED  BY <1>1, <1>2, <1>3, <1>4, ReportInv

-----------------------------------------------------------------------------
(* The node and the item.                                                  *)

\* What a report emits ends with "volume", and begins with "channels" if their
\* number changes.
LEMMA Emitted ==
  ASSUME NEW q \in Seq(EventKinds), NEW changed \in BOOLEAN, NEW r,
         r = q \o (IF changed THEN <<"channels">> ELSE <<>>) \o <<"volume">>
  PROVE  /\ r \in Seq(EventKinds) /\ r # <<>> /\ r[Len(r)] = "volume"
         /\ (changed \/ \E i \in DOMAIN q : q[i] = "channels")
              => \E i \in DOMAIN r : r[i] = "channels"
<1>. DEFINE m == IF changed THEN <<"channels">> ELSE <<>>
<1>. DEFINE p == q \o m
<1>1. m \in Seq(EventKinds) /\ Len(m) = (IF changed THEN 1 ELSE 0)
      /\ (changed => m[1] = "channels")
  <2>1. CASE changed
    <3>1. m = <<"channels">>
      BY <2>1
    <3>. HIDE DEF m
    <3>. QED  BY <2>1, <3>1 DEF EventKinds
  <2>2. CASE ~changed
    <3>1. m = <<>>
      BY <2>2
    <3>. HIDE DEF m
    <3>. QED  BY <2>2, <3>1, EmptySeq
  <2>. QED  BY <2>1, <2>2
<1>. HIDE DEF m
<1>2. p \in Seq(EventKinds) /\ Len(p) = Len(q) + Len(m)
      /\ (\A i \in 1..Len(q) : p[i] = q[i])
      /\ (\A i \in 1..Len(m) : p[Len(q) + i] = m[i])
  BY <1>1, ConcatIs, SMTT(30)
<1>3. r = p \o <<"volume">>
  BY DEF m
<1>. HIDE DEF p
<1>4. "volume" \in EventKinds
  BY DEF EventKinds
<1>5. r \in Seq(EventKinds) /\ Len(r) = Len(p) + 1
      /\ (\A i \in 1..Len(p) : r[i] = p[i]) /\ r[Len(p) + 1] = "volume"
  <2>1. p \in Seq(EventKinds)
    BY <1>2
  <2>2. /\ p \o <<"volume">> \in Seq(EventKinds) /\ Len(p \o <<"volume">>) = Len(p) + 1
        /\ \A i \in 1..Len(p) : (p \o <<"volume">>)[i] = p[i]
        /\ (p \o <<"volume">>)[Len(p) + 1] = "volume"
    BY <1>4, <2>1, ConcatOne
  <2>. QED  BY <1>3, <2>2
<1>6. Len(q) \in Nat /\ DOMAIN q = 1..Len(q) /\ Len(p) \in Nat /\ DOMAIN r = 1..Len(r)
  BY <1>2, <1>5, LenProperties
<1>7. ASSUME changed  PROVE \E i \in DOMAIN r : r[i] = "channels"
  <2>1. Len(q) + 1 \in 1..Len(p) /\ p[Len(q) + 1] = "channels"
    BY <1>1, <1>2, <1>6, <1>7
  <2>. QED  BY <2>1, <1>5, <1>6
<1>8. ASSUME NEW i \in DOMAIN q, q[i] = "channels"
      PROVE  \E k \in DOMAIN r : r[k] = "channels"
  <2>1. i \in 1..Len(p) /\ p[i] = "channels"
    BY <1>1, <1>2, <1>6, <1>8
  <2>. QED  BY <2>1, <1>5, <1>6
<1>. QED  BY <1>5, <1>6, <1>7, <1>8, EmptySeq

LEMMA OnNodeParamInv == ASSUME Inv, OnNodeParam  PROVE Inv'
<1>. USE DEF Inv
<1>1. reports # <<>> /\ reported' = Head(reports) /\ reports' = Tail(reports)
      /\ UNCHANGED <<actual, requests, others, listening, dispatching, item, overrun, keys>>
  BY DEF OnNodeParam
<1>2. reports \in Seq(Formats)
  BY DEF Types
<1>3. reported' \in Formats /\ reports' \in Seq(Formats)
  BY <1>1, <1>2, TailIs
<1>4. ReportsCatchUp'
  <2>1. CASE Tail(reports) = <<>>
    <3>1. Len(reports) = 1 /\ Head(reports) = reports[1]
      BY <1>1, <1>2, <2>1, TailIs, TailEmpty
    <3>. QED  BY <1>1, <1>2, <2>1, <3>1 DEF ReportsCatchUp
  <2>2. CASE Tail(reports) # <<>>
    BY <1>1, <1>2, <2>2, TailLast DEF ReportsCatchUp
  <2>. QED  BY <2>1, <2>2
<1>5. CASE ~listening
  <2>1. events' = events /\ events = <<>> /\ shown = <<>>
    BY <1>5 DEF OnNodeParam, EventsFill
  <2>2. Types'
    BY <1>1, <1>3, <2>1 DEF Types, item
  <2>3. EventsFill' /\ ItemWaits' /\ FocusOnChannel'
    BY <1>1, <1>5, <2>1 DEF EventsFill, ItemWaits, FocusOnChannel, item
  <2>. QED  BY <1>4, <2>2, <2>3
<1>6. CASE listening
  <2>. DEFINE changed == Len(reported) # Len(reported')
  <2>1. events' = events \o (IF changed THEN <<"channels">> ELSE <<>>) \o <<"volume">>
    BY <1>1, <1>6 DEF OnNodeParam
  <2>2. events \in Seq(EventKinds) /\ changed \in BOOLEAN
    BY DEF Types
  <2>3. /\ events' \in Seq(EventKinds) /\ events' # <<>> /\ events'[Len(events')] = "volume"
        /\ (changed \/ \E i \in DOMAIN events : events[i] = "channels")
             => \E i \in DOMAIN events' : events'[i] = "channels"
    <3>. HIDE DEF changed
    <3>. QED  BY <2>1, <2>2, Emitted
  <2>4. Types'
    BY <1>1, <1>3, <2>3 DEF Types, item
  <2>5. EventsFill'
    BY <1>1, <1>3, <1>6, <2>3 DEF EventsFill, item, Formats
  <2>6. ItemWaits'
    <3>. SUFFICES ASSUME ~overrun, Len(shown) # Len(reported')
                  PROVE  changed \/ \E i \in DOMAIN events : events[i] = "channels"
      BY <1>1, <2>3 DEF ItemWaits, item
    <3>. QED  BY <1>6 DEF ItemWaits
  <2>. QED  BY <1>1, <1>4, <2>4, <2>5, <2>6 DEF FocusOnChannel, item
<1>. QED  BY <1>5, <1>6 DEF Types

LEMMA ShowItemInv == ASSUME Inv, ShowItem  PROVE Inv'
<1>. USE DEF Inv, server, item
<1>1. ~listening /\ listening' = TRUE /\ events = <<>> /\ shown = <<>> /\ shown' = shown
      /\ UNCHANGED <<server, reported, dispatching, item, overrun, keys>>
  BY DEF ShowItem, EventsFill
<1>2. events' \in Seq(EventKinds) /\ (reported = <<>> => events' = <<>>)
      /\ (reported # <<>> => /\ events' # <<>> /\ events'[Len(events')] = "volume"
                             /\ 1 \in DOMAIN events' /\ events'[1] = "channels")
  <2>1. CASE reported = <<>>
    BY <2>1 DEF ShowItem
  <2>2. CASE reported # <<>>
    <3>1. events' = <<"channels", "volume">>
      BY <2>2 DEF ShowItem
    <3>. QED  BY <2>2, <3>1 DEF EventKinds
  <2>. QED  BY <2>1, <2>2
<1>3. Types' /\ ReportsCatchUp' /\ EventsFill' /\ FocusOnChannel'
  BY <1>1, <1>2 DEF Types, ReportsCatchUp, EventsFill, FocusOnChannel
<1>4. ItemWaits'
  BY <1>1, <1>2 DEF ItemWaits
<1>. QED  BY <1>3, <1>4

\* A delivery leaves the server and the node alone; what is queued after the
\* delivered event stays, and still ends as it did.
LEMMA DeliveredKeeps ==
  ASSUME Inv, Delivered
  PROVE  /\ reported # <<>> /\ listening /\ events[Len(events)] = "volume"
         /\ events' \in Seq(EventKinds) /\ EventsFill'
         /\ ReportsCatchUp' /\ dispatching' \in BOOLEAN
<1>. USE DEF Inv, Delivered, server
<1>1. events # <<>> /\ events \in Seq(EventKinds) /\ events' = Tail(events)
  BY DEF Types
<1>2. reported # <<>> /\ events[Len(events)] = "volume" /\ listening
  BY <1>1 DEF EventsFill, Types
<1>3. events' \in Seq(EventKinds)
  BY <1>1, TailIs
<1>4. EventsFill'
  BY <1>1, <1>2, TailLast DEF EventsFill
<1>. QED  BY <1>2, <1>3, <1>4 DEF ReportsCatchUp

LEMMA DeliverChannelsInv == ASSUME Inv, DeliverChannels  PROVE Inv'
<1>. USE DEF Inv
<1>0. Delivered /\ events \in Seq(EventKinds) /\ ~overrun /\ overrun' = overrun
      /\ Head(events) = "channels" /\ events # <<>> /\ events' = Tail(events)
  BY DEF DeliverChannels, Delivered, Types
<1>1. /\ reported # <<>> /\ events[Len(events)] = "volume"
      /\ events' \in Seq(EventKinds) /\ EventsFill'
      /\ ReportsCatchUp' /\ dispatching' \in BOOLEAN
  BY <1>0, DeliveredKeeps
<1>2. reported \in Formats /\ reported' = reported
  BY <1>0, <1>1 DEF Types, Delivered
<1>3. shown' \in Seq(Nat \union {Unset}) /\ Len(shown') = Len(reported)
  <2>. DEFINE f == [i \in DOMAIN reported |-> IF i \in DOMAIN shown THEN shown[i] ELSE Unset]
  <2>1. f = [i \in DOMAIN reported |-> f[i]] /\ reported \in Seq(Nat)
    BY <1>2, FormatSize
  <2>2. \A i \in 1..Len(reported) : f[i] \in Nat \union {Unset}
    <3>1. shown \in Seq(Nat \union {Unset}) /\ DOMAIN reported = 1..Len(reported)
      BY <1>2, FormatSize DEF Types
    <3>2. \A i \in DOMAIN shown : shown[i] \in Nat \union {Unset}
      BY <3>1, ElementOfSeq, LenProperties
    <3>. QED  BY <3>1, <3>2
  <2>3. shown' = f
    BY DEF DeliverChannels
  <2>. HIDE DEF f
  <2>. QED  BY <2>1, <2>2, <2>3, ChannelWise
<1>4. Len(reported) \in 1..UIntMax - 1
  BY <1>2, FormatSize
<1>5. focused' \in 0..UIntMax /\ focused' < Len(reported)
  <2>1. focused \in 0..UIntMax
    BY DEF Types
  <2>2. focused' = IF focused >= Len(reported) THEN Len(reported) - 1 ELSE focused
    BY DEF DeliverChannels
  <2>. QED  BY <1>4, <2>1, <2>2, VolumeAssumption
<1>6. Types'
  BY <1>0, <1>1, <1>2, <1>3, <1>4, <1>5, VolumeAssumption DEF Types, Delivered, server
<1>7. Tail(events) # <<>>
  <2>1. events[1] = "channels" /\ Len(events) \in Nat \ {0}
    BY <1>0, TailIs
  <2>2. Len(events) # 1
    BY <1>1, <2>1
  <2>. QED  BY <1>0, <2>1, <2>2, TailEmpty
<1>8. ItemWaits'
  BY <1>0, <1>2, <1>3, <1>7 DEF ItemWaits
<1>. QED  BY <1>1, <1>3, <1>5, <1>6, <1>8 DEF FocusOnChannel

LEMMA DeliverVolumeInv == ASSUME Inv, DeliverVolume  PROVE Inv'
<1>. USE DEF Inv
<1>0. Delivered /\ events \in Seq(EventKinds) /\ Head(events) = "volume" /\ focused' = focused
      /\ events # <<>> /\ events' = Tail(events) /\ ~overrun
  BY DEF DeliverVolume, Delivered, Types
<1>1. /\ reported # <<>> /\ listening
      /\ events' \in Seq(EventKinds) /\ EventsFill'
      /\ ReportsCatchUp' /\ dispatching' \in BOOLEAN
  BY <1>0, DeliveredKeeps
<1>2. reported \in Formats /\ reported' = reported /\ shown \in Seq(Nat \union {Unset})
  BY <1>0, <1>1 DEF Types, Delivered
<1>3. DOMAIN reported = 1..Len(reported) /\ Len(reported) \in Nat /\ reported \in Seq(Nat)
      /\ DOMAIN shown = 1..Len(shown) /\ Len(shown) \in Nat
  BY <1>2, FormatSize, LenProperties
<1>4. CASE Len(reported) > Len(shown)
  <2>1. overrun' = TRUE /\ shown' = shown
    BY <1>3, <1>4 DEF DeliverVolume
  <2>2. Types'
    BY <1>0, <1>1, <1>2, <2>1 DEF Types, Delivered, server
  <2>. QED  BY <1>0, <1>1, <2>1, <2>2 DEF ItemWaits, FocusOnChannel
<1>5. CASE Len(reported) <= Len(shown)
  <2>. DEFINE f == [i \in DOMAIN shown |-> IF i \in DOMAIN reported THEN reported[i] ELSE shown[i]]
  <2>1. shown' = f /\ overrun' = overrun
    BY <1>3, <1>5 DEF DeliverVolume
  <2>2. \A i \in DOMAIN shown : shown[i] \in Nat \union {Unset}
    BY <1>2, <1>3, ElementOfSeq
  <2>3. \A i \in DOMAIN reported : reported[i] \in Nat
    BY <1>2, <1>3, ElementOfSeq
  <2>4. f \in Seq(Nat \union {Unset}) /\ Len(f) = Len(shown)
    <3>1. f = [i \in DOMAIN shown |-> f[i]]
      OBVIOUS
    <3>2. \A i \in 1..Len(shown) : f[i] \in Nat \union {Unset}
      BY <1>3, <2>2, <2>3
    <3>. HIDE DEF f
    <3>. QED  BY <1>2, <3>1, <3>2, ChannelWise
  <2>5. Types'
    BY <1>0, <1>1, <1>2, <2>1, <2>4 DEF Types, Delivered, server
  <2>6. Len(reported) = Len(shown) => f = reported
    <3>1. ASSUME Len(reported) = Len(shown)
          PROVE  \A i \in 1..Len(reported) : f[i] = reported[i]
      BY <1>3, <3>1
    <3>. HIDE DEF f
    <3>. QED  BY <1>3, <2>4, <3>1, SameSequence
  <2>. HIDE DEF f
  <2>7. ItemWaits'
    <3>1. CASE Len(reported) = Len(shown)
      BY <1>2, <2>1, <2>6, <3>1 DEF ItemWaits
    <3>2. CASE Len(reported) # Len(shown)
      <4>1. PICK i \in DOMAIN events : events[i] = "channels"
        BY <1>0, <1>1, <3>2 DEF ItemWaits
      <4>2. i # 1 /\ i \in 1..Len(events) /\ Len(events) \in Nat
        BY <1>0, <4>1, TailIs, LenProperties
      <4>3. i - 1 \in 1..Len(events) - 1 /\ Tail(events)[i - 1] = "channels"
        BY <1>0, <4>1, <4>2, TailIs
      <4>4. i - 1 \in DOMAIN events' /\ events'[i - 1] = "channels"
        BY <1>0, <4>3, TailIs, LenProperties
      <4>5. events' # <<>>
        BY <1>1, <4>4, EmptySeq
      <4>. QED  BY <4>4, <4>5 DEF ItemWaits
    <3>. QED  BY <3>1, <3>2
  <2>8. FocusOnChannel'
    <3>1. shown' # <<>> => shown # <<>>
      BY <1>2, <2>1, <2>4, EmptySeq
    <3>. QED  BY <1>0, <2>1, <2>4, <3>1 DEF FocusOnChannel
  <2>. QED  BY <1>1, <2>5, <2>7, <2>8
<1>. QED  BY <1>3, <1>4, <1>5

-----------------------------------------------------------------------------
(* Keys.                                                                   *)

\* A relative change stays within what a volume can be.
LEMMA SteppedIsVolume ==
  ASSUME NEW old \in Nat, NEW delta \in {VolumeStep, -VolumeStep}
  PROVE  Stepped(old, delta) \in Nat
BY VolumeAssumption DEF Stepped

\* A request names a volume for each channel the node knows, and that of the
\* others is the node's (node.c:203-222).
LEMMA RequestIs ==
  ASSUME Inv, NEW absolute \in BOOLEAN, NEW volume, Request(absolute, volume),
         IF absolute THEN volume \in Nat ELSE volume \in {VolumeStep, -VolumeStep}
  PROVE  \E r \in Seq(Nat) :
           /\ requests' = Append(requests, r) /\ Len(r) = Len(reported)
           /\ \A i \in DOMAIN reported : Channel \notin {UIntMax, i - 1} => r[i] = reported[i]
<1>. DEFINE r == [i \in DOMAIN reported |->
                   IF Channel \notin {UIntMax, i - 1} THEN reported[i]
                   ELSE IF absolute THEN volume ELSE Stepped(reported[i], volume)]
<1>1. requests' = Append(requests, r)
  BY DEF Request
<1>2. reported \in Seq(Nat) /\ DOMAIN reported = 1..Len(reported)
  BY ReportedSize DEF Inv, Types
<1>3. \A i \in 1..Len(reported) : r[i] \in Nat
  <2>. SUFFICES ASSUME NEW i \in 1..Len(reported) PROVE r[i] \in Nat
    OBVIOUS
  <2>1. reported[i] \in Nat
    BY <1>2, ElementOfSeq
  <2>2. ~absolute => Stepped(reported[i], volume) \in Nat
    BY <2>1, SteppedIsVolume
  <2>. QED  BY <1>2, <2>1, <2>2
<1>4. r = [i \in DOMAIN reported |-> r[i]]
  OBVIOUS
<1>5. \A i \in DOMAIN reported : Channel \notin {UIntMax, i - 1} => r[i] = reported[i]
  OBVIOUS
<1>. HIDE DEF r
<1>6. r \in Seq(Nat) /\ Len(r) = Len(reported)
  BY <1>2, <1>3, <1>4, ChannelWise
<1>. QED  BY <1>1, <1>5, <1>6

\* The volume keys.
VolumeKeys == \/ \E delta \in {VolumeStep, -VolumeStep} : ChangeVolume(delta)
              \/ \E volume \in Presets : SetVolume(volume)

LEMMA VolumeKeysRequest ==
  ASSUME Inv, VolumeKeys
  PROVE  /\ \E r \in Seq(Nat) :
              /\ requests' = Append(requests, r) /\ Len(r) = Len(reported)
              /\ \A i \in DOMAIN reported :
                   Channel \notin {UIntMax, i - 1} => r[i] = reported[i]
         /\ VolumeKey
         /\ UNCHANGED <<actual, reports, others, reported, listening, events, dispatching,
                        item, overrun>>
<1>1. ASSUME NEW delta \in {VolumeStep, -VolumeStep}, ChangeVolume(delta)
      PROVE  \E r \in Seq(Nat) :
              /\ requests' = Append(requests, r) /\ Len(r) = Len(reported)
              /\ \A i \in DOMAIN reported :
                   Channel \notin {UIntMax, i - 1} => r[i] = reported[i]
  <2>1. Request(FALSE, delta)
    BY <1>1 DEF ChangeVolume
  <2>. QED  BY <2>1, RequestIs
<1>2. ASSUME NEW volume \in Presets, SetVolume(volume)
      PROVE  \E r \in Seq(Nat) :
              /\ requests' = Append(requests, r) /\ Len(r) = Len(reported)
              /\ \A i \in DOMAIN reported :
                   Channel \notin {UIntMax, i - 1} => r[i] = reported[i]
  <2>1. Request(TRUE, volume) /\ volume \in Nat
    BY <1>2, VolumeAssumption DEF SetVolume
  <2>. QED  BY <2>1, RequestIs
<1>. QED  BY <1>1, <1>2 DEF VolumeKeys, ChangeVolume, SetVolume

LEMMA VolumeKeysInv == ASSUME Inv, VolumeKeys  PROVE Inv'
<1>1. PICK r \in Seq(Nat) : requests' = Append(requests, r)
  BY VolumeKeysRequest
<1>2. VolumeKey /\ UNCHANGED <<actual, reports, others, reported, listening, events,
                               dispatching, item, overrun>>
  BY VolumeKeysRequest
<1>3. requests' \in Seq(Seq(Nat)) /\ keys' \in 0..MaxKeys
  BY <1>1, <1>2, VolumeAssumption DEF Inv, Types, VolumeKey
<1>4. Types'
  BY <1>2, <1>3 DEF Inv, Types, item
<1>. QED  BY <1>2, <1>4 DEF Inv, item, ReportsCatchUp, EventsFill, ItemWaits, FocusOnChannel

\* The last channel, by unsigned arithmetic.
LEMMA LastChannel ==
  ASSUME NEW n \in Nat, n < UIntMax
  PROVE  IF n = 0 THEN (n - 1) % (UIntMax + 1) = UIntMax
                  ELSE (n - 1) % (UIntMax + 1) = n - 1
BY VolumeAssumption, SMTT(30)

\* Keys that move the focus and the lock of the channels.
LEMMA FocusKeysInv == ASSUME Inv, ChannelLock \/ FocusDown \/ FocusUp  PROVE Inv'
<1>. USE DEF Inv
<1>1. UNCHANGED <<server, reported, listening, events, dispatching, shown, overrun, keys>>
  BY DEF ChannelLock, FocusDown, FocusUp
<1>2. Len(shown) \in Nat /\ Len(shown) < UIntMax /\ (shown = <<>> <=> Len(shown) = 0)
  BY LenProperties, EmptySeq DEF Types
<1>. DEFINE last == (Len(shown) - 1) % (UIntMax + 1)
<1>3. IF Len(shown) = 0 THEN last = UIntMax ELSE last = Len(shown) - 1
  BY <1>2, LastChannel
<1>4. focused' \in {focused, 0, last} \/ (focused < last /\ focused' = focused + 1)
      \/ (focused > 0 /\ focused' = focused - 1)
  BY DEF ChannelLock, FocusDown, FocusUp, item
<1>. HIDE DEF last
<1>5. focused' \in 0..UIntMax /\ FocusOnChannel'
  <2>1. focused \in 0..UIntMax /\ (Len(shown) # 0 => focused < Len(shown)) /\ shown' = shown
    BY <1>1, <1>2 DEF Types, FocusOnChannel
  <2>2. focused' \in 0..UIntMax /\ (Len(shown) # 0 => focused' < Len(shown))
    BY <1>2, <1>3, <1>4, <2>1, VolumeAssumption
  <2>. QED  BY <1>2, <2>1, <2>2 DEF FocusOnChannel
<1>6. unlocked' \in BOOLEAN
  BY DEF ChannelLock, FocusDown, FocusUp, Types
<1>7. Types'
  BY <1>1, <1>5, <1>6 DEF Types, server
<1>. QED  BY <1>1, <1>5, <1>7 DEF server, ReportsCatchUp, EventsFill, ItemWaits

-----------------------------------------------------------------------------
(* The theorems.                                                           *)

LEMMA StutterInv == ASSUME Inv, UNCHANGED vars  PROVE Inv'
BY DEF Inv, vars, Types, ReportsCatchUp, EventsFill, ItemWaits, FocusOnChannel

\* Every step keeps the invariant.
THEOREM NextInv == Inv /\ [Next]_vars => Inv'
<1>. SUFFICES ASSUME Inv, [Next]_vars PROVE Inv'
  OBVIOUS
<1>1. ASSUME Next PROVE Inv'
  <2>1. CASE ServerApplies \/ OtherClient
    BY <2>1, ServerAppliesInv, OtherClientInv
  <2>2. CASE OnNodeParam \/ ShowItem
    BY <2>2, OnNodeParamInv, ShowItemInv
  <2>3. CASE Deliver
    BY <2>3, DeliverChannelsInv, DeliverVolumeInv DEF Deliver
  <2>4. CASE Keys
    BY <2>4, VolumeKeysInv, FocusKeysInv DEF Keys, VolumeKeys
  <2>. QED  BY <1>1, <2>1, <2>2, <2>3, <2>4 DEF Next
<1>. QED  BY <1>1, StutterInv

THEOREM InvHolds == Spec => []Inv
BY InitInv, NextInv, PTL DEF Spec

\* Types, for any number of keys and changes.
THEOREM TypesCorrect == Spec => []TypeOK
<1>1. ASSUME Inv PROVE TypeOK
  <2>1. \A s \in {actual, reported} : \A i \in DOMAIN s : s[i] \in Nat
    <3>1. actual \in Seq(Nat) /\ reported \in Seq(Nat)
      BY <1>1, FormatSize, ReportedSize DEF Inv, Types
    <3>. QED  BY <3>1, ElementOfSeq, LenProperties
  <2>2. \A i \in DOMAIN requests : \A j \in DOMAIN requests[i] : requests[i][j] \in Nat
    BY <1>1, ElementOfSeq, LenProperties DEF Inv, Types
  <2>3. \A i \in DOMAIN events : events[i] \in {"channels", "volume"}
    BY <1>1, ElementOfSeq, LenProperties DEF Inv, Types, EventKinds
  <2>4. \A i \in DOMAIN shown : shown[i] \in Nat \union {Unset}
    BY <1>1, ElementOfSeq, LenProperties DEF Inv, Types
  <2>. QED  BY <1>1, <2>1, <2>2, <2>3, <2>4 DEF Inv, Types, TypeOK
<1>. QED  BY <1>1, InvHolds, PTL

\* The focus is on a channel the item has, whatever happens to their number
\* while the focus moves (tui.c:527, 556, 1162).
THEOREM FocusStaysOnChannel == Spec => []FocusOnChannel
<1>1. Inv => FocusOnChannel
  BY DEF Inv
<1>. QED  BY <1>1, InvHolds, PTL

\* With nothing queued the item shows the node's volumes, unless it has been
\* written past its end (node.c:500-519, tui.c:1139-1175).
THEOREM ItemFollowsNode == Spec => []ItemShowsNode
<1>1. Inv => ItemShowsNode
  BY DEF Inv, ItemWaits, ItemShowsNode
<1>. QED  BY <1>1, InvHolds, PTL

\* What a key may do to the channels that it is not meant for.
Spares == Len(requests') > Len(requests) /\ requests = <<>> /\ reports = <<>> =>
            /\ Len(requests'[1]) = Len(actual)
            /\ \A i \in DOMAIN actual :
                 unlocked /\ focused # i - 1 /\ focused # UIntMax =>
                   requests'[1][i] = actual[i]

LEMMA StepSpares == ASSUME Inv, [Next]_vars  PROVE Spares
<1>. SUFFICES ASSUME Len(requests') > Len(requests), requests = <<>>, reports = <<>>
              PROVE  /\ Len(requests'[1]) = Len(actual)
                     /\ \A i \in DOMAIN actual :
                          unlocked /\ focused # i - 1 /\ focused # UIntMax =>
                            requests'[1][i] = actual[i]
  BY DEF Spares
<1>1. requests' # requests
  <2>1. Len(requests) = 0
    BY EmptySeq
  <2>. QED  BY <2>1
<1>2. ~ServerApplies
  BY DEF ServerApplies
<1>3. VolumeKeys
  BY <1>1, <1>2 DEF Next, Keys, VolumeKeys, vars, server, item, OtherClient, OnNodeParam,
     ShowItem, Deliver, DeliverChannels, DeliverVolume, Delivered, ChannelLock, FocusDown,
     FocusUp
<1>4. PICK r \in Seq(Nat) :
        /\ requests' = Append(requests, r) /\ Len(r) = Len(reported)
        /\ \A i \in DOMAIN reported :
             Channel \notin {UIntMax, i - 1} => r[i] = reported[i]
  BY <1>3, VolumeKeysRequest
<1>5. requests'[1] = r
  BY <1>4
<1>6. reported = actual
  BY DEF Inv, ReportsCatchUp
<1>. QED  BY <1>4, <1>5, <1>6 DEF Channel

\* When nothing is under way, a key on one channel asks for the others as the
\* server has them (node.c:203-222).
THEOREM KeysSpareOthers == Spec => QuietKeysSpareOthers
<1>1. Inv /\ [Next]_vars => [Spares]_vars
  BY StepSpares
<1>2. Spec => [][Spares]_vars
  BY <1>1, InvHolds, PTL DEF Spec
<1>. QED  BY <1>2 DEF QuietKeysSpareOthers, Spares
=============================================================================
