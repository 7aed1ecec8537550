---------------------------- MODULE ParamsProofs ----------------------------
(***************************************************************************)
(* Theorems about the copies of what the server has.  Of module Params,    *)
(* for any device, any listeners and any number of changes: what is        *)
(* published is whole, and the copies follow.  Of module Marks, for any    *)
(* sinks: items show the marks their nodes have, and nodes the server's.   *)
(***************************************************************************)
EXTENDS Params, Marks, FiniteSetTheorems, SequenceTheorems, TLAPS

-----------------------------------------------------------------------------
(* The types.                                                              *)

\* The steps of a round trip, in their order, which begins anew.
Steps == {"EnumProfile", "Profile", "EnumRoute", "Route", "sync"}

After(step) ==
  CASE step = "EnumProfile" -> "Profile"
    [] step = "Profile"     -> "EnumRoute"
    [] step = "EnumRoute"   -> "Route"
    [] step = "Route"       -> "sync"
    [] OTHER                -> "EnumProfile"

Indexes   == Nat \union DOMAIN RouteProfiles
Requests  == [ask : Steps \union {"SetProfile", "SetRoute"}, index : Indexes]
Messages  == [kind : Steps \union {"info"}, list : Seq(Indexes)]
Listed    == Seq([index : Indexes, active : BOOLEAN])
Listeners == {"node", "device item", "node item"}
Events    == [kind : {"profiles", "routes", "node routes"}, to : SUBSET Listeners]

\* What a filtered list is made of is left open: no property depends on it.
Types ==
  /\ actual \in ServerStates
  /\ requests \in Seq(Requests) /\ messages \in Seq(Messages)
  /\ staging \in [profiles : Listed, routes : Listed]
  /\ device \in [profiles : Listed, routes : Listed, known : BOOLEAN]
  /\ node = [profile |-> node.profile, routes |-> node.routes, known |-> node.known]
  /\ node.known \in BOOLEAN
  /\ listening \in SUBSET Listeners
  /\ events \in Seq(Events)
  /\ shown = [profiles |-> shown.profiles, routes |-> shown.routes]

-----------------------------------------------------------------------------
(* Facts about sequences.                                                  *)

LEMMA AppendIs ==
  ASSUME NEW S, NEW s \in Seq(S), NEW e \in S
  PROVE  /\ Append(s, e) \in Seq(S) /\ Len(Append(s, e)) = Len(s) + 1
         /\ \A i \in 1..Len(s) + 1 :
              Append(s, e)[i] = IF i = Len(s) + 1 THEN e ELSE s[i]
  OBVIOUS

LEMMA ConcatIs ==
  ASSUME NEW S, NEW s \in Seq(S), NEW t \in Seq(S)
  PROVE  /\ s \o t \in Seq(S) /\ Len(s \o t) = Len(s) + Len(t)
         /\ \A i \in 1..Len(s) + Len(t) :
              (s \o t)[i] = IF i <= Len(s) THEN s[i] ELSE t[i - Len(s)]
  OBVIOUS

LEMMA TailIs ==
  ASSUME NEW S, NEW s \in Seq(S), s # <<>>
  PROVE  /\ Tail(s) \in Seq(S) /\ Len(Tail(s)) = Len(s) - 1 /\ Len(s) \in Nat \ {0}
         /\ \A i \in 1..Len(s) - 1 : Tail(s)[i] = s[i + 1]
         /\ Head(s) = s[1] /\ Head(s) \in S
  OBVIOUS

LEMMA SmallRanges == (\A i : i \notin 1..0) /\ (\A i : i \in 1..1 <=> i = 1)
  OBVIOUS

LEMMA OneIs ==
  ASSUME NEW S, NEW e \in S
  PROVE  <<e>> \in Seq(S) /\ Len(<<e>>) = 1 /\ <<e>>[1] = e
  OBVIOUS

LEMMA EmptyIs == \A s : s = <<>> => Len(s) = 0 /\ DOMAIN s = {}
  OBVIOUS

LEMMA DomainIs ==
  ASSUME NEW S, NEW s \in Seq(S)
  PROVE  Len(s) \in Nat /\ DOMAIN s = 1..Len(s) /\ \A i \in 1..Len(s) : s[i] \in S
  BY LenProperties, ElementOfSeq

LEMMA SeqIs ==
  ASSUME NEW S, NEW n \in Nat, NEW f \in [1..n -> S]
  PROVE  f \in Seq(S) /\ Len(f) = n /\ DOMAIN f = 1..n
  BY SeqDef, LenProperties

-----------------------------------------------------------------------------
(* The types are kept.                                                     *)

LEMMA StateIs ==
  ASSUME NEW s \in ServerStates
  PROVE  /\ s.profiles \in Seq(Indexes) /\ s.profile \in Indexes
         /\ s.routes \in Seq(Indexes)
         /\ IsFiniteSet(s.selected) /\ s.selected \subseteq Indexes
<1>1. /\ s.profiles \in Seq(Nat) /\ s.profile \in ToSet(s.profiles)
      /\ s.routes \in Seq(DOMAIN RouteProfiles) /\ s.selected \subseteq ToSet(s.routes)
  BY ParamsAssumption
<1>2. /\ Len(s.profiles) \in Nat /\ DOMAIN s.profiles = 1..Len(s.profiles)
      /\ \A i \in 1..Len(s.profiles) : s.profiles[i] \in Nat
      /\ Len(s.routes) \in Nat /\ DOMAIN s.routes = 1..Len(s.routes)
      /\ \A i \in 1..Len(s.routes) : s.routes[i] \in DOMAIN RouteProfiles
  BY <1>1, LenProperties, ElementOfSeq
<1>3. s.profiles \in [1..Len(s.profiles) -> Indexes] /\ s.routes \in [1..Len(s.routes) -> Indexes]
  BY <1>1, <1>2, LenProperties DEF Indexes
<1>4. s.profiles \in Seq(Indexes) /\ s.routes \in Seq(Indexes)
  BY <1>2, <1>3, SeqDef
<1>5. s.profile \in Indexes
  BY <1>1, <1>2 DEF ToSet, Indexes
<1>6. ToSet(s.routes) = {s.routes[i] : i \in 1..Len(s.routes)}
  BY <1>2 DEF ToSet
<1>7. IsFiniteSet({s.routes[i] : i \in 1..Len(s.routes)})
  <2>. DEFINE T == {s.routes[i] : i \in 1..Len(s.routes)}
  <2>1. s.routes \in Surjection(1..Len(s.routes), T)
    BY <1>1, <1>2, LenProperties DEF Surjection
  <2>2. IsFiniteSet(1..Len(s.routes))
    BY <1>2, FS_Interval
  <2>. QED  BY <2>1, <2>2, FS_Surjection
<1>8. IsFiniteSet(s.selected)
  <2>1. IsFiniteSet(ToSet(s.routes))
    BY <1>6, <1>7
  <2>. QED  BY <1>1, <2>1, FS_Subset
<1>9. s.selected \subseteq Indexes
  BY <1>1, <1>2, <1>6 DEF Indexes
<1>. QED  BY <1>4, <1>5, <1>8, <1>9

\* The elements of a finite set have an order.
LEMMA SetToSeqIs ==
  ASSUME NEW S, IsFiniteSet(S)
  PROVE  SetToSeq(S) \in Seq(S)
<1>1. Cardinality(S) \in Nat /\ \E f : f \in Bijection(1..Cardinality(S), S)
  BY FS_CardinalityType DEF ExistsBijection
<1>2. \E f \in [1..Cardinality(S) -> S] : IsInjective(f)
  BY <1>1 DEF Bijection, Injection, IsInjective
<1>3. SetToSeq(S) \in [1..Cardinality(S) -> S]
  BY <1>2 DEF SetToSeq
<1>. QED  BY <1>1, <1>3, SeqIs

LEMMA AnswerIs ==
  ASSUME actual \in ServerStates, NEW ask
  PROVE  Answer(ask) \in Seq(Indexes)
<1>1. actual.profiles \in Seq(Indexes) /\ actual.routes \in Seq(Indexes)
  BY StateIs
<1>2. <<actual.profile>> \in Seq(Indexes)
  BY StateIs
<1>3. SetToSeq(actual.selected) \in Seq(Indexes)
  <2>1. SetToSeq(actual.selected) \in Seq(actual.selected) /\ actual.selected \subseteq Indexes
    BY StateIs, SetToSeqIs
  <2>. QED  BY <2>1, SeqDef
<1>4. <<>> \in Seq(Indexes)
  BY EmptySeq
<1>. QED  BY <1>1, <1>2, <1>3, <1>4 DEF Answer

LEMMA RoundTripIs ==
  /\ RoundTrip \in Seq(Requests) /\ Len(RoundTrip) = 5
  /\ RoundTrip[1].ask = "EnumProfile" /\ RoundTrip[2].ask = "Profile"
  /\ RoundTrip[3].ask = "EnumRoute"   /\ RoundTrip[4].ask = "Route"
  /\ RoundTrip[5].ask = "sync"
<1>1. \A ask \in Steps : Request(ask, 0) \in Requests /\ Request(ask, 0).ask = ask
  BY DEF Request, Requests, Indexes
<1>. QED  BY <1>1 DEF RoundTrip, Steps

LEMMA InactiveIs ==
  ASSUME NEW list \in Seq(Indexes)
  PROVE  /\ Inactive(list) \in Listed /\ Len(Inactive(list)) = Len(list)
         /\ \A i \in 1..Len(list) : Inactive(list)[i] = [index |-> list[i], active |-> FALSE]
<1>1. Len(list) \in Nat /\ DOMAIN list = 1..Len(list) /\ \A i \in 1..Len(list) : list[i] \in Indexes
  BY DomainIs
<1>2. Inactive(list) \in [1..Len(list) -> [index : Indexes, active : BOOLEAN]]
  BY <1>1 DEF Inactive
<1>. QED  BY <1>1, <1>2, SeqIs DEF Inactive, Listed

\* An event goes to somebody.
LEMMA EmitIs ==
  ASSUME NEW kind \in {"profiles", "routes", "node routes"}, NEW to \in SUBSET Listeners
  PROVE  /\ Emit(kind, to) \in Seq(Events)
         /\ to = {} => Len(Emit(kind, to)) = 0
         /\ to # {} => Len(Emit(kind, to)) = 1 /\ Emit(kind, to)[1] = [kind |-> kind, to |-> to]
<1>1. CASE to = {}
  BY <1>1, EmptySeq DEF Emit
<1>2. CASE to # {}
  <2>1. [kind |-> kind, to |-> to] \in Events
    BY DEF Events
  <2>2. Emit(kind, to) = <<[kind |-> kind, to |-> to]>>
    BY <1>2 DEF Emit
  <2>3. /\ Emit(kind, to) \in Seq(Events) /\ Len(Emit(kind, to)) = 1
        /\ Emit(kind, to)[1] = [kind |-> kind, to |-> to]
    <3>. DEFINE e == [kind |-> kind, to |-> to]
    <3>1. e \in Events
      BY <2>1
    <3>2. <<e>> \in Seq(Events) /\ Len(<<e>>) = 1 /\ <<e>>[1] = e
      <4>. HIDE DEF e
      <4>. QED  BY <3>1, OneIs
    <3>. QED  BY <2>2, <3>2
  <2>. QED  BY <1>2, <2>3
<1>. QED  BY <1>1, <1>2

LEMMA DeviceEventsAre ==
  ASSUME NEW to \in SUBSET Listeners
  PROVE  DeviceEvents(to) \in Seq(Events)
<1>1. Emit("profiles", to \ {"node item"}) \in Seq(Events)
  BY EmitIs
<1>2. Emit("routes", to \intersect {"node"}) \in Seq(Events)
  BY EmitIs
<1>. QED  BY <1>1, <1>2, ConcatIs DEF DeviceEvents

\* Reading a message, and asking.
LEMMA ReceiveTypes ==
  ASSUME messages \in Seq(Messages), NEW kind, Receive(kind)
  PROVE  /\ messages' \in Seq(Messages) /\ Received \in Seq(Indexes)
         /\ messages # <<>> /\ Head(messages).kind = kind /\ messages' = Tail(messages)
<1>1. messages # <<>> /\ Head(messages).kind = kind /\ messages' = Tail(messages)
  BY DEF Receive
<1>2. Tail(messages) \in Seq(Messages) /\ Head(messages) \in Messages
  BY <1>1, TailIs
<1>. QED  BY <1>1, <1>2 DEF Messages, Received

LEMMA TellTypes ==
  ASSUME messages \in Seq(Messages), NEW kind \in Steps \union {"info"}, NEW list \in Seq(Indexes)
  PROVE  /\ Tell(kind, list) \in Seq(Messages)
         /\ [kind |-> kind, list |-> list] \in Messages
<1>1. [kind |-> kind, list |-> list] \in Messages
  BY DEF Messages
<1>. QED  BY <1>1, AppendIs DEF Tell

LEMMA MarkFirstIs ==
  ASSUME NEW list \in Listed, NEW indices
  PROVE  /\ MarkFirst(list, indices) \in Listed
         /\ Indices(MarkFirst(list, indices)) = Indices(list)
<1>. DEFINE hit(i) == \/ list[i].active
                      \/ /\ list[i].index \in indices
                         /\ \A j \in 1..i - 1 : list[j].index # list[i].index
            marked == [i \in DOMAIN list |-> [index |-> list[i].index, active |-> hit(i)]]
<1>1. MarkFirst(list, indices) = marked
  BY Zenon DEF MarkFirst
<1>2. \A i : hit(i) \in BOOLEAN
  BY Zenon
<1>. HIDE DEF hit
<1>3. DOMAIN list = 1..Len(list) /\ Len(list) \in Nat
      /\ \A i \in 1..Len(list) : list[i] \in [index : Indexes, active : BOOLEAN]
  BY DomainIs DEF Listed
<1>4. marked \in [1..Len(list) -> [index : Indexes, active : BOOLEAN]]
  BY <1>2, <1>3
<1>5. marked \in Listed /\ DOMAIN marked = DOMAIN list
  <2>. HIDE DEF marked
  <2>. QED  BY <1>3, <1>4, SeqIs DEF Listed
<1>6. \A i \in DOMAIN list : marked[i].index = list[i].index
  OBVIOUS
<1>7. Indices(marked) = Indices(list)
  <2>. HIDE DEF marked
  <2>. QED  BY <1>5, <1>6 DEF Indices
<1>. HIDE DEF marked
<1>. QED  BY <1>1, <1>5, <1>7

LEMMA StageTypes ==
  ASSUME staging \in [profiles : Listed, routes : Listed], messages \in Seq(Messages),
         OnEnumProfile \/ OnProfile \/ OnEnumRoute \/ OnRoute
  PROVE  staging' \in [profiles : Listed, routes : Listed]
<1>1. /\ Len(staging.profiles) \in Nat /\ DOMAIN staging.profiles = 1..Len(staging.profiles)
      /\ Len(staging.routes) \in Nat /\ DOMAIN staging.routes = 1..Len(staging.routes)
      /\ \A i \in 1..Len(staging.profiles) :
           staging.profiles[i] \in [index : Indexes, active : BOOLEAN]
      /\ \A i \in 1..Len(staging.routes) :
           staging.routes[i] \in [index : Indexes, active : BOOLEAN]
  BY DomainIs DEF Listed
<1>2. CASE OnEnumProfile
  <2>1. Inactive(Received) \in Listed
    BY <1>2, ReceiveTypes, InactiveIs DEF OnEnumProfile
  <2>2. staging.profiles \o Inactive(Received) \in Listed
    BY <2>1, ConcatIs DEF Listed
  <2>. QED  BY <1>2, <2>2 DEF OnEnumProfile, Stage
<1>3. CASE OnEnumRoute
  <2>1. Inactive(Received) \in Listed
    BY <1>3, ReceiveTypes, InactiveIs DEF OnEnumRoute
  <2>2. staging.routes \o Inactive(Received) \in Listed
    BY <2>1, ConcatIs DEF Listed
  <2>. QED  BY <1>3, <2>2 DEF OnEnumRoute, Stage
<1>4. CASE OnProfile
  <2>1. \/ staging' = staging
        \/ \E k : staging' = [staging EXCEPT !.profiles[k].active = TRUE]
    BY <1>4 DEF OnProfile, Stage
  <2>2. ASSUME NEW k, staging' = [staging EXCEPT !.profiles[k].active = TRUE]
        PROVE  staging' \in [profiles : Listed, routes : Listed]
    <3>1. [staging.profiles EXCEPT ![k].active = TRUE]
            \in [1..Len(staging.profiles) -> [index : Indexes, active : BOOLEAN]]
      BY <1>1
    <3>2. [staging.profiles EXCEPT ![k].active = TRUE] \in Listed
      BY <1>1, <3>1, SeqDef DEF Listed
    <3>. QED  BY <2>2, <3>2
  <2>. QED  BY <2>1, <2>2
<1>5. CASE OnRoute
  <2>1. staging' = [staging EXCEPT !.routes = MarkFirst(staging.routes, ToSet(Received))]
    BY <1>5 DEF OnRoute, Stage
  <2>2. MarkFirst(staging.routes, ToSet(Received)) \in Listed
    BY MarkFirstIs
  <2>. QED  BY <2>1, <2>2
<1>. QED  BY <1>2, <1>3, <1>4, <1>5

LEMMA InitTypes == Init => Types
<1>. SUFFICES ASSUME Init PROVE Types
  OBVIOUS
<1>1. <<>> \in Seq(Requests) /\ <<>> \in Seq(Events) /\ <<>> \in Listed /\ <<>> \in Seq(Indexes)
  BY EmptySeq DEF Listed
<1>2. messages \in Seq(Messages)
  <2>1. [kind |-> "info", list |-> <<>>] \in Messages
    BY <1>1 DEF Messages
  <2>. QED  BY <2>1, OneIs DEF Init
<1>. QED  BY <1>1, <1>2 DEF Init, Types, NoLists

\* The server and the keys.
LEMMA ServerTypes ==
  ASSUME Types, ServerChanges \/ Server \/ SelectProfile \/ SelectRoute
  PROVE  Types'
<1>. USE DEF Types
<1>1. \A s \in ServerStates : Change(s) => actual' \in ServerStates /\ messages' \in Seq(Messages)
  <2>1. Tell("info", <<>>) \in Seq(Messages)
    BY TellTypes, EmptySeq
  <2>. QED  BY <2>1 DEF Change
<1>2. requests # <<>> => Tail(requests) \in Seq(Requests) /\ Head(requests) \in Requests
  BY TailIs
<1>3. CASE ServerChanges
  BY <1>1, <1>3 DEF ServerChanges
<1>4. CASE ServerAnswers
  <2>1. Head(requests).ask \in Steps
    BY <1>2, <1>4 DEF ServerAnswers, Requests
  <2>2. Answer(Head(requests).ask) \in Seq(Indexes)
    BY AnswerIs
  <2>3. Tell(Head(requests).ask, Answer(Head(requests).ask)) \in Seq(Messages)
    BY <2>1, <2>2, TellTypes
  <2>. QED  BY <1>2, <1>4, <2>3 DEF ServerAnswers
<1>5. CASE ServerSets
  <2>1. actual' \in ServerStates /\ messages' \in Seq(Messages)
    BY <1>1, <1>5 DEF ServerSets, Satisfying
  <2>. QED  BY <1>2, <1>5, <2>1 DEF ServerSets
<1>6. ASSUME NEW ask \in {"SetProfile", "SetRoute"}, NEW index \in Indexes, Ask(ask, index)
      PROVE  Types'
  <2>1. Request(ask, index) \in Requests
    BY DEF Request, Requests
  <2>2. Append(requests, Request(ask, index)) \in Seq(Requests)
    BY <2>1, AppendIs
  <2>. QED  BY <1>6, <2>2 DEF Ask
<1>7. CASE SelectProfile
  <2>1. \A s \in ServerStates : ToSet(s.profiles) \subseteq Indexes
    <3>1. \A s \in ServerStates : s.profiles \in Seq(Indexes)
      BY StateIs
    <3>. QED  BY <3>1, DomainIs DEF ToSet
  <2>2. \E p \in Indexes : Ask("SetProfile", p)
    BY <1>7, <2>1 DEF SelectProfile
  <2>. QED  BY <1>6, <2>2
<1>8. CASE SelectRoute
  <2>1. \E r \in Indexes : Ask("SetRoute", r)
    BY <1>8, ParamsAssumption DEF SelectRoute, Indexes
  <2>. QED  BY <1>6, <2>1
<1>. QED  BY <1>3, <1>4, <1>5, <1>7, <1>8 DEF Server

LEMMA HandleTypes ==
  ASSUME Types, Handle
  PROVE  Types'
<1>. USE DEF Types
<1>1. CASE OnDeviceInfo
  <2>1. messages' \in Seq(Messages)
    BY <1>1, ReceiveTypes DEF OnDeviceInfo
  <2>2. requests \o RoundTrip \in Seq(Requests)
    BY RoundTripIs, ConcatIs
  <2>. QED  BY <1>1, <2>1, <2>2 DEF OnDeviceInfo
<1>2. CASE OnEnumProfile \/ OnProfile \/ OnEnumRoute \/ OnRoute
  <2>1. messages' \in Seq(Messages)
    BY <1>2, ReceiveTypes DEF OnEnumProfile, OnProfile, OnEnumRoute, OnRoute
  <2>2. staging' \in [profiles : Listed, routes : Listed]
    BY <1>2, StageTypes
  <2>3. UNCHANGED <<server, device, node, listening, events, dispatching, shown>>
    BY <1>2 DEF OnEnumProfile, OnProfile, OnEnumRoute, OnRoute, Stage
  <2>. QED  BY <2>1, <2>2, <2>3 DEF server
<1>3. CASE OnDone
  <2>1. messages' \in Seq(Messages)
    BY <1>3, ReceiveTypes DEF OnDone, Publish
  <2>2. NoLists \in [profiles : Listed, routes : Listed]
    BY EmptySeq DEF NoLists, Listed
  <2>3. events \o DeviceEvents(listening) \in Seq(Events)
    BY DeviceEventsAre, ConcatIs
  <2>4. device' \in [profiles : Listed, routes : Listed, known : BOOLEAN]
    BY <1>3 DEF OnDone, Publish
  <2>. QED  BY <1>3, <2>1, <2>2, <2>3, <2>4 DEF OnDone, Publish, server
<1>. QED  BY <1>1, <1>2, <1>3 DEF Handle

LEMMA ListenTypes ==
  ASSUME Types, LinkNode \/ ShowDevice \/ ShowNode
  PROVE  Types'
<1>. USE DEF Types
<1>1. \A to \in SUBSET Listeners :
        /\ events \o DeviceEvents(to) \in Seq(Events)
        /\ events \o Emit("node routes", to) \in Seq(Events)
  BY DeviceEventsAre, EmitIs, ConcatIs
<1>2. listening' \in SUBSET Listeners /\ events' \in Seq(Events)
  BY <1>1 DEF LinkNode, ShowDevice, ShowNode, Listeners
<1>3. UNCHANGED <<server, messages, staging, device, node, dispatching, shown>>
  BY DEF LinkNode, ShowDevice, ShowNode
<1>. QED  BY <1>2, <1>3 DEF server

LEMMA DispatchTypes ==
  ASSUME Types, Dispatch
  PROVE  Types'
<1>. USE DEF Types
<1>1. ASSUME NEW kind, NEW more \in Seq(Events), Deliver(kind, more)
      PROVE  /\ events' \in Seq(Events)
             /\ UNCHANGED <<server, messages, staging, device, listening>>
  <2>1. Tail(events) \in Seq(Events)
    BY <1>1, TailIs DEF Deliver
  <2>2. Tail(events) \o more \in Seq(Events)
    BY <2>1, ConcatIs
  <2>. QED  BY <1>1, <2>2 DEF Deliver
<1>2. /\ events' \in Seq(Events)
      /\ UNCHANGED <<server, messages, staging, device, listening>>
  <2>1. <<>> \in Seq(Events) /\ Emit("node routes", listening \intersect {"node item"}) \in Seq(Events)
    BY EmptySeq, EmitIs
  <2>. QED  BY <1>1, <2>1 DEF Dispatch, DeliverProfiles, DeliverRoutes, DeliverNodeRoutes
<1>3. /\ node' = [profile |-> node'.profile, routes |-> node'.routes, known |-> node'.known]
      /\ node'.known \in BOOLEAN
  <2>. HIDE DEF Types
  <2>1. \/ node' = node
        \/ \E x : node' = [node EXCEPT !.profile = x]
        \/ \E x : node' = [node EXCEPT !.routes = x, !.known = TRUE]
    BY DEF Dispatch, DeliverProfiles, DeliverRoutes, DeliverNodeRoutes
  <2>. QED  BY <2>1 DEF Types
<1>4. shown' = [profiles |-> shown'.profiles, routes |-> shown'.routes]
  <2>. HIDE DEF Types
  <2>1. \/ shown' = shown
        \/ \E x : shown' = [shown EXCEPT !.profiles = x]
        \/ \E x : shown' = [shown EXCEPT !.routes = x]
    BY DEF Dispatch, DeliverProfiles, DeliverRoutes, DeliverNodeRoutes
  <2>. QED  BY <2>1 DEF Types
<1>. QED  BY <1>2, <1>3, <1>4 DEF server

LEMMA NextTypes == Types /\ [Next]_vars => Types'
<1>. SUFFICES ASSUME Types, [Next]_vars PROVE Types'
  OBVIOUS
<1>1. CASE UNCHANGED vars
  BY <1>1 DEF Types, vars
<1>. QED  BY <1>1, ServerTypes, HandleTypes, ListenTypes, DispatchTypes DEF Next

-----------------------------------------------------------------------------
(* The copies follow.                                                      *)

\* The places of some events in a queue.
Among(queue, some) == {i \in 1..Len(queue) : queue[i] \in some}

ProfilesFor(who) == {e \in Events : e.kind = "profiles" /\ who \in e.to}
RoutesForNode    == {e \in Events : e.kind = "routes" /\ "node" \in e.to}
NodeRoutes       == {e \in Events : e.kind = "node routes"}

\* The node has the routes of the profile it has, or it is to hear of both, of the
\* profile first.
NodeFollows ==
  /\ \A i \in Among(events, ProfilesFor("node")) :
       \E j \in Among(events, RoutesForNode) : i < j
  /\ device.known /\ "node" \in listening =>
       /\ Among(events, ProfilesFor("node")) = {} => node.profile = ProfileOf(device.profiles)
       /\ Among(events, RoutesForNode) = {} =>
            node.routes = RoutesFor(ProfileOf(device.profiles), device.routes)

DeviceItemFollows ==
  device.known /\ "device item" \in listening =>
    \/ Among(events, ProfilesFor("device item")) # {}
    \/ shown.profiles = device.profiles

NodeItemFollows ==
  /\ ~node.known => node.routes = <<>>
  /\ "node item" \notin listening => shown.routes = <<>> /\ Among(events, NodeRoutes) = {}
  /\ "node item" \in listening =>
       shown.routes = node.routes \/ Among(events, NodeRoutes) # {}

CopiesInv == Types /\ NodeFollows /\ DeviceItemFollows /\ NodeItemFollows

LEMMA InitCopies == Init => CopiesInv
<1>. SUFFICES ASSUME Init PROVE CopiesInv
  OBVIOUS
<1>1. Types
  BY InitTypes
<1>2. \A some : Among(events, some) = {}
  <2>1. Len(events) = 0
    BY EmptyIs DEF Init
  <2>2. \A i : i \notin 1..Len(events)
    BY <2>1, SmallRanges
  <2>. QED  BY <2>2, Zenon DEF Among
<1>. QED  BY <1>1, <1>2
     DEF Init, CopiesInv, NodeFollows, DeviceItemFollows, NodeItemFollows, NoLists

\* The places in a queue that has grown, and in one that has lost its first.
LEMMA AmongConcat ==
  ASSUME NEW queue \in Seq(Events), NEW more \in Seq(Events), NEW some
  PROVE  /\ \A i \in Among(queue, some) : i \in Among(queue \o more, some) /\ i <= Len(queue)
         /\ \A i \in Among(more, some) : Len(queue) + i \in Among(queue \o more, some)
         /\ \A i \in Among(queue \o more, some) :
              \/ i \in Among(queue, some)
              \/ \E k \in Among(more, some) : i = Len(queue) + k
<1>1. /\ Len(queue) \in Nat /\ Len(more) \in Nat
      /\ Len(queue \o more) = Len(queue) + Len(more)
      /\ \A i \in 1..Len(queue) + Len(more) :
           (queue \o more)[i] = IF i <= Len(queue) THEN queue[i] ELSE more[i - Len(queue)]
  BY ConcatIs, DomainIs
<1>. DEFINE whole == queue \o more
<1>2. \A i \in 1..Len(queue) : i \in 1..Len(whole) /\ whole[i] = queue[i] /\ i <= Len(queue)
  BY <1>1
<1>3. \A i \in 1..Len(more) : Len(queue) + i \in 1..Len(whole) /\ whole[Len(queue) + i] = more[i]
  BY <1>1
<1>4. \A i \in 1..Len(whole) :
        i \in 1..Len(queue) \/ \E k \in 1..Len(more) : i = Len(queue) + k
  <2>. TAKE i \in 1..Len(whole)
  <2>1. i \notin 1..Len(queue) => i - Len(queue) \in 1..Len(more) /\ i = Len(queue) + (i - Len(queue))
    BY <1>1
  <2>. QED  BY <2>1
<1>. HIDE DEF whole
<1>5. \A i \in Among(whole, some) :
        \/ i \in Among(queue, some)
        \/ \E k \in Among(more, some) : i = Len(queue) + k
  <2>. TAKE i \in Among(whole, some)
  <2>1. i \in 1..Len(whole) /\ whole[i] \in some
    BY DEF Among
  <2>2. CASE i \in 1..Len(queue)
    BY <1>2, <2>1, <2>2 DEF Among
  <2>3. ASSUME NEW k \in 1..Len(more), i = Len(queue) + k
        PROVE  k \in Among(more, some)
    BY <1>3, <2>1, <2>3 DEF Among
  <2>. QED  BY <1>4, <2>1, <2>2, <2>3
<1>6. \A i \in Among(queue, some) : i \in Among(whole, some) /\ i <= Len(queue)
  BY <1>2 DEF Among
<1>7. \A i \in Among(more, some) : Len(queue) + i \in Among(whole, some)
  BY <1>3 DEF Among
<1>. QED  BY <1>5, <1>6, <1>7 DEF whole

LEMMA AmongTail ==
  ASSUME NEW queue \in Seq(Events), queue # <<>>, NEW some
  PROVE  /\ \A i \in Among(queue, some) : i = 1 \/ i - 1 \in Among(Tail(queue), some)
         /\ \A i \in Among(Tail(queue), some) : i \in Nat /\ i + 1 \in Among(queue, some)
         /\ 1 \in Among(queue, some) <=> Head(queue) \in some
<1>1. /\ Len(Tail(queue)) = Len(queue) - 1 /\ Len(queue) \in Nat \ {0}
      /\ \A i \in 1..Len(queue) - 1 : Tail(queue)[i] = queue[i + 1]
      /\ Head(queue) = queue[1]
  BY TailIs
<1>2. \A i \in 1..Len(queue) : i = 1 \/ (i - 1 \in 1..Len(queue) - 1 /\ Tail(queue)[i - 1] = queue[i])
  BY <1>1
<1>3. \A i \in 1..Len(queue) - 1 : i \in Nat /\ i + 1 \in 1..Len(queue) /\ Tail(queue)[i] = queue[i + 1]
  BY <1>1
<1>4. 1 \in 1..Len(queue)
  BY <1>1
<1>. QED  BY <1>1, <1>2, <1>3, <1>4 DEF Among

LEMMA AmongNumbers ==
  ASSUME NEW queue \in Seq(Events), NEW some
  PROVE  Among(queue, some) \subseteq 1..Len(queue) /\ Len(queue) \in Nat
BY DomainIs DEF Among

LEMMA AmongEmit ==
  ASSUME NEW kind \in {"profiles", "routes", "node routes"}, NEW to \in SUBSET Listeners,
         NEW some
  PROVE  \A i : i \in Among(Emit(kind, to), some) <=>
                   i = 1 /\ to # {} /\ [kind |-> kind, to |-> to] \in some
<1>1. CASE to = {}
  <2>1. Len(Emit(kind, to)) = 0
    BY <1>1, EmitIs
  <2>2. \A i : i \notin 1..Len(Emit(kind, to))
    BY <2>1, SmallRanges
  <2>. QED  BY <1>1, <2>2, Zenon DEF Among
<1>2. CASE to # {}
  <2>1. Len(Emit(kind, to)) = 1 /\ Emit(kind, to)[1] = [kind |-> kind, to |-> to]
    BY <1>2, EmitIs
  <2>2. \A i : i \in 1..Len(Emit(kind, to)) <=> i = 1
    BY <2>1, SmallRanges
  <2>. QED  BY <1>2, <2>1, <2>2, Zenon DEF Among
<1>. QED  BY <1>1, <1>2

LEMMA EventIs ==
  ASSUME NEW kind \in {"profiles", "routes", "node routes"}, NEW to \in SUBSET Listeners
  PROVE  LET e == [kind |-> kind, to |-> to]
         IN  /\ \A who : e \in ProfilesFor(who) <=> kind = "profiles" /\ who \in to
             /\ e \in RoutesForNode <=> kind = "routes" /\ "node" \in to
             /\ e \in NodeRoutes <=> kind = "node routes"
BY DEF ProfilesFor, RoutesForNode, NodeRoutes, Events

\* A device's events, to a node: of the profiles, then of the routes.
LEMMA AmongDevice ==
  ASSUME NEW to \in SUBSET Listeners
  PROVE  /\ \A who \in to \ {"node item"} : Among(DeviceEvents(to), ProfilesFor(who)) # {}
         /\ \A i \in Among(DeviceEvents(to), ProfilesFor("node")) :
              \E j \in Among(DeviceEvents(to), RoutesForNode) : i < j
         /\ "node" \in to => Among(DeviceEvents(to), RoutesForNode) # {}
         /\ Among(DeviceEvents(to), NodeRoutes) = {}
<1>. DEFINE first  == Emit("profiles", to \ {"node item"})
            second == Emit("routes", to \intersect {"node"})
<1>1. first \in Seq(Events) /\ second \in Seq(Events) /\ DeviceEvents(to) = first \o second
  BY EmitIs DEF DeviceEvents
<1>2. /\ \A who, i : i \in Among(first, ProfilesFor(who)) <=>
                       i = 1 /\ who \in to \ {"node item"}
      /\ Among(first, RoutesForNode) = {} /\ Among(first, NodeRoutes) = {}
  <2>. DEFINE those == to \ {"node item"}
              e     == [kind |-> "profiles", to |-> those]
  <2>1. those \in SUBSET Listeners
    OBVIOUS
  <2>. HIDE DEF those
  <2>2. \A some, i : i \in Among(Emit("profiles", those), some) <=> i = 1 /\ those # {} /\ e \in some
    BY <2>1, AmongEmit
  <2>3. /\ \A who : e \in ProfilesFor(who) <=> who \in those
        /\ e \notin RoutesForNode /\ e \notin NodeRoutes
    BY <2>1, EventIs
  <2>4. first = Emit("profiles", those)
    BY DEF those
  <2>5. /\ \A who, i : i \in Among(first, ProfilesFor(who)) <=> i = 1 /\ who \in those
        /\ Among(first, RoutesForNode) = {} /\ Among(first, NodeRoutes) = {}
    <3>. HIDE DEF e, first
    <3>1. \A who, i : i \in Among(first, ProfilesFor(who)) <=> i = 1 /\ who \in those
      <4>1. \A who : who \in those => those # {}
        OBVIOUS
      <4>. QED  BY <2>2, <2>3, <2>4, <4>1
    <3>2. \A i : i \notin Among(first, RoutesForNode) /\ i \notin Among(first, NodeRoutes)
      BY <2>2, <2>3, <2>4, Zenon
    <3>. QED  BY <3>1, <3>2, Zenon
  <2>. QED  BY <2>5, Zenon DEF those
<1>3. /\ \A who : Among(second, ProfilesFor(who)) = {}
      /\ \A i : i \in Among(second, RoutesForNode) <=> i = 1 /\ "node" \in to
      /\ Among(second, NodeRoutes) = {}
  <2>. DEFINE those == to \intersect {"node"}
              e     == [kind |-> "routes", to |-> those]
  <2>1. those \in SUBSET Listeners /\ ("node" \in those <=> "node" \in to)
    OBVIOUS
  <2>. HIDE DEF those
  <2>2. \A some, i : i \in Among(Emit("routes", those), some) <=> i = 1 /\ those # {} /\ e \in some
    BY <2>1, AmongEmit
  <2>3. /\ \A who : e \notin ProfilesFor(who)
        /\ e \in RoutesForNode <=> "node" \in those
        /\ e \notin NodeRoutes
    BY <2>1, EventIs
  <2>4. second = Emit("routes", those)
    BY DEF those
  <2>. HIDE DEF e, second
  <2>5. \A who, i : i \notin Among(second, ProfilesFor(who)) /\ i \notin Among(second, NodeRoutes)
    BY <2>2, <2>3, <2>4, Zenon
  <2>6. \A i : i \in Among(second, RoutesForNode) <=> i = 1 /\ "node" \in to
    <3>1. "node" \in those => those # {}
      OBVIOUS
    <3>. QED  BY <2>1, <2>2, <2>3, <2>4, <3>1
  <2>. QED  BY <2>5, <2>6, Zenon
<1>. HIDE DEF first, second
<1>4. \A some :
      /\ \A i \in Among(first, some) : i \in Among(DeviceEvents(to), some) /\ i <= Len(first)
      /\ \A i \in Among(second, some) : Len(first) + i \in Among(DeviceEvents(to), some)
      /\ \A i \in Among(DeviceEvents(to), some) :
           \/ i \in Among(first, some)
           \/ \E k \in Among(second, some) : i = Len(first) + k
  BY <1>1, AmongConcat
<1>5. Len(first) \in Nat
  BY <1>1, DomainIs
<1>6. \A who \in to \ {"node item"} : 1 \in Among(DeviceEvents(to), ProfilesFor(who))
  BY <1>2, <1>4
<1>7. "node" \in to => Len(first) + 1 \in Among(DeviceEvents(to), RoutesForNode)
  BY <1>3, <1>4
<1>8. \A i \in Among(DeviceEvents(to), ProfilesFor("node")) : "node" \in to /\ i < Len(first) + 1
  <2>. TAKE i \in Among(DeviceEvents(to), ProfilesFor("node"))
  <2>1. i \in Among(first, ProfilesFor("node"))
    BY <1>3, <1>4
  <2>2. i = 1 /\ "node" \in to \ {"node item"}
    BY <1>2, <2>1, Zenon
  <2>3. i <= Len(first)
    BY <1>4, <2>1, Zenon
  <2>. QED  BY <1>5, <2>2, <2>3
<1>9. Among(DeviceEvents(to), NodeRoutes) = {}
  BY <1>2, <1>3, <1>4
<1>. QED  BY <1>6, <1>7, <1>8, <1>9

\* A device that is known announces what it has to those who listen by then: all
\* of them, or one that has just begun to.
Announced(to) ==
  /\ to \in SUBSET Listeners
  /\ listening' = listening \union to
  /\ "node item" \in to => "node item" \in listening
  /\ events' = events \o DeviceEvents(to)
  /\ device' = device \/ to = listening
  /\ UNCHANGED <<node, shown>>

LEMMA AnnounceCopies ==
  ASSUME CopiesInv, NEW to, Announced(to)
  PROVE  NodeFollows' /\ DeviceItemFollows' /\ NodeItemFollows'
<1>. DEFINE more == DeviceEvents(to)
<1>1. events \in Seq(Events) /\ more \in Seq(Events) /\ Len(events) \in Nat
  BY DeviceEventsAre, DomainIs DEF CopiesInv, Types, Announced
<1>2. \A some :
      /\ \A i \in Among(events, some) : i \in Among(events', some) /\ i <= Len(events)
      /\ \A i \in Among(more, some) : Len(events) + i \in Among(events', some)
      /\ \A i \in Among(events', some) :
           \/ i \in Among(events, some)
           \/ \E k \in Among(more, some) : i = Len(events) + k
  BY <1>1, AmongConcat DEF Announced
<1>3. /\ \A who \in to \ {"node item"} : Among(more, ProfilesFor(who)) # {}
      /\ \A i \in Among(more, ProfilesFor("node")) :
           \E j \in Among(more, RoutesForNode) : i < j
      /\ "node" \in to => Among(more, RoutesForNode) # {}
      /\ Among(more, NodeRoutes) = {}
  BY AmongDevice DEF Announced
<1>. HIDE DEF more
<1>4. \A some : \A i \in Among(more, some) : i \in Nat
  <2>1. Len(more) \in Nat /\ \A some : Among(more, some) \subseteq 1..Len(more)
    BY <1>1, AmongNumbers
  <2>2. \A i \in 1..Len(more) : i \in Nat
    BY <2>1
  <2>. QED  BY <2>1, <2>2, Zenon
<1>5. NodeFollows'
  <2>1. \A i \in Among(events', ProfilesFor("node")) :
          \E j \in Among(events', RoutesForNode) : i < j
    <3>. TAKE i \in Among(events', ProfilesFor("node"))
    <3>1. CASE i \in Among(events, ProfilesFor("node"))
      BY <1>2, <3>1 DEF CopiesInv, NodeFollows
    <3>2. CASE i \notin Among(events, ProfilesFor("node"))
      <4>1. PICK k \in Among(more, ProfilesFor("node")) : i = Len(events) + k
        BY <1>2, <3>2
      <4>2. PICK j \in Among(more, RoutesForNode) : k < j
        BY <1>3, <4>1
      <4>3. Len(events) + j \in Among(events', RoutesForNode)
        BY <1>2, <4>2
      <4>4. j \in Nat /\ k \in Nat
        BY <1>4, <4>1, <4>2
      <4>5. i < Len(events) + j
        <5>1. Len(events) \in Nat /\ k < j /\ i = Len(events) + k
          BY <1>1, <4>1, <4>2
        <5>. QED  BY <4>4, <5>1
      <4>. QED  BY <4>3, <4>5
    <3>. QED  BY <3>1, <3>2
  <2>2. "node" \in to =>
          Among(events', ProfilesFor("node")) # {} /\ Among(events', RoutesForNode) # {}
    <3>1. "node" \in to => "node" \in to \ {"node item"}
      OBVIOUS
    <3>. QED  BY <1>2, <1>3, <3>1
  <2>3. /\ Among(events', ProfilesFor("node")) = {} => Among(events, ProfilesFor("node")) = {}
        /\ Among(events', RoutesForNode) = {} => Among(events, RoutesForNode) = {}
    BY <1>2
  <2>4. device'.known /\ "node" \in listening' /\ "node" \notin to =>
          device' = device /\ device.known /\ "node" \in listening
    BY DEF Announced
  <2>. QED  BY <2>1, <2>2, <2>3, <2>4 DEF CopiesInv, NodeFollows, Announced
<1>6. DeviceItemFollows'
  <2>1. "device item" \in to => Among(events', ProfilesFor("device item")) # {}
    <3>1. "device item" \in to => "device item" \in to \ {"node item"}
      OBVIOUS
    <3>. QED  BY <1>2, <1>3, <3>1
  <2>2. Among(events', ProfilesFor("device item")) = {} =>
          Among(events, ProfilesFor("device item")) = {}
    BY <1>2
  <2>3. device'.known /\ "device item" \in listening' /\ "device item" \notin to =>
          device' = device /\ device.known /\ "device item" \in listening
    BY DEF Announced
  <2>. QED  BY <2>1, <2>2, <2>3 DEF CopiesInv, DeviceItemFollows, Announced
<1>7. NodeItemFollows'
  <2>1. "node item" \in listening' <=> "node item" \in listening
    BY DEF Announced
  <2>2. Among(events', NodeRoutes) = {} <=> Among(events, NodeRoutes) = {}
    BY <1>2, <1>3
  <2>. QED  BY <2>1, <2>2 DEF CopiesInv, NodeItemFollows, Announced
<1>. QED  BY <1>5, <1>6, <1>7

LEMMA ListenCopies ==
  ASSUME CopiesInv, LinkNode \/ ShowDevice \/ ShowNode \/ OnDone
  PROVE  NodeFollows' /\ DeviceItemFollows' /\ NodeItemFollows'
<1>. USE DEF CopiesInv
<1>1. listening \in SUBSET Listeners
  BY DEF Types
<1>2. CASE OnDone
  BY <1>1, <1>2, AnnounceCopies DEF Announced, OnDone, Publish
<1>3. ASSUME ~device.known, \E who \in {"node", "device item"} : listening' = listening \union {who},
             UNCHANGED <<events, device, node, shown>>
      PROVE  NodeFollows' /\ DeviceItemFollows' /\ NodeItemFollows'
  <2>1. ("node item" \in listening' <=> "node item" \in listening) /\ ~device'.known
    BY <1>3
  <2>. QED  BY <1>3, <2>1 DEF NodeFollows, DeviceItemFollows, NodeItemFollows
<1>4. CASE LinkNode
  <2>1. CASE device.known
    BY <1>1, <1>4, <2>1, AnnounceCopies DEF Announced, LinkNode, Listeners
  <2>2. CASE ~device.known
    BY <1>3, <1>4, <2>2 DEF LinkNode
  <2>. QED  BY <2>1, <2>2
<1>5. CASE ShowDevice
  <2>1. CASE device.known
    BY <1>1, <1>5, <2>1, AnnounceCopies DEF Announced, ShowDevice, Listeners
  <2>2. CASE ~device.known
    BY <1>3, <1>5, <2>2 DEF ShowDevice
  <2>. QED  BY <2>1, <2>2
<1>6. CASE ShowNode
  <2>. DEFINE those == {"node item"}
              more  == Emit("node routes", those)
              e     == [kind |-> "node routes", to |-> those]
  <2>1. those \in SUBSET Listeners /\ those # {}
    BY DEF Listeners
  <2>. HIDE DEF those
  <2>2. /\ \A who : e \notin ProfilesFor(who)
        /\ e \notin RoutesForNode /\ e \in NodeRoutes
    BY <2>1, EventIs
  <2>3. \A some, i : i \in Among(more, some) <=> i = 1 /\ e \in some
    <3>1. \A some, i : i \in Among(more, some) <=> i = 1 /\ those # {} /\ e \in some
      BY <2>1, AmongEmit
    <3>2. those # {}
      BY <2>1
    <3>. TAKE some, i
    <3>3. i \in Among(more, some) <=> i = 1 /\ those # {} /\ e \in some
      BY <3>1, Zenon
    <3>. QED  BY <3>2, <3>3
  <2>4. events \in Seq(Events) /\ more \in Seq(Events)
    BY <2>1, EmitIs DEF Types
  <2>. HIDE DEF more, e
  <2>5. \A some :
          /\ e \notin some => Among(events \o more, some) = Among(events, some)
          /\ e \in some => Among(events \o more, some) # {}
    <3>1. \A some :
          /\ \A i \in Among(events, some) : i \in Among(events \o more, some)
          /\ \A i \in Among(more, some) : Len(events) + i \in Among(events \o more, some)
          /\ \A i \in Among(events \o more, some) :
               \/ i \in Among(events, some)
               \/ \E k \in Among(more, some) : i = Len(events) + k
      BY <2>4, AmongConcat
    <3>2. \A some : e \notin some => \A i : i \notin Among(more, some)
      BY <2>3, Zenon
    <3>3. \A some : e \in some => 1 \in Among(more, some)
      BY <2>3, Zenon
    <3>4. \A some : e \notin some =>
            \A i : i \in Among(events \o more, some) <=> i \in Among(events, some)
      BY <3>1, <3>2, Zenon
    <3>5. \A some : e \notin some => Among(events \o more, some) = Among(events, some)
      BY <3>4
    <3>6. \A some : e \in some => Len(events) + 1 \in Among(events \o more, some)
      BY <3>1, <3>3, Zenon
    <3>. QED  BY <3>5, <3>6
  <2>6. events' = IF node.known THEN events \o more ELSE events
    BY <1>6 DEF ShowNode, more, those
  <2>7. /\ UNCHANGED <<device, node, shown>>
        /\ \A who : who # "node item" => (who \in listening' <=> who \in listening)
        /\ "node item" \notin listening /\ "node item" \in listening'
    BY <1>6 DEF ShowNode
  <2>8. /\ \A who : Among(events', ProfilesFor(who)) = Among(events, ProfilesFor(who))
        /\ Among(events', RoutesForNode) = Among(events, RoutesForNode)
        /\ node.known => Among(events', NodeRoutes) # {}
    BY <2>2, <2>5, <2>6
  <2>9. NodeFollows'
    BY <2>7, <2>8 DEF NodeFollows
  <2>10. DeviceItemFollows'
    BY <2>7, <2>8 DEF DeviceItemFollows
  <2>11. NodeItemFollows'
    BY <2>7, <2>8 DEF NodeItemFollows
  <2>. QED  BY <2>9, <2>10, <2>11
<1>. QED  BY <1>2, <1>4, <1>5, <1>6

\* The node's event about its routes goes to its item, if there is one.
LEMMA AmongNodeRoutes ==
  ASSUME NEW to \in SUBSET {"node item"}
  PROVE  LET more == Emit("node routes", to)
         IN  /\ more \in Seq(Events)
             /\ \A who : Among(more, ProfilesFor(who)) = {}
             /\ Among(more, RoutesForNode) = {}
             /\ Among(more, NodeRoutes) = {} <=> to = {}
<1>. DEFINE more == Emit("node routes", to)
            e    == [kind |-> "node routes", to |-> to]
<1>1. to \in SUBSET Listeners
  BY DEF Listeners
<1>2. /\ \A who : e \notin ProfilesFor(who)
      /\ e \notin RoutesForNode /\ e \in NodeRoutes
  BY <1>1, EventIs
<1>3. \A some, i : i \in Among(more, some) <=> i = 1 /\ to # {} /\ e \in some
  BY <1>1, AmongEmit
<1>4. more \in Seq(Events)
  BY <1>1, EmitIs
<1>. HIDE DEF more, e
<1>5. \A who, i : i \notin Among(more, ProfilesFor(who)) /\ i \notin Among(more, RoutesForNode)
  BY <1>2, <1>3, Zenon
<1>6. \A i : i \in Among(more, NodeRoutes) <=> i = 1 /\ to # {}
  <2>. TAKE i
  <2>1. i \in Among(more, NodeRoutes) <=> i = 1 /\ to # {} /\ e \in NodeRoutes
    BY <1>3, Zenon
  <2>2. e \in NodeRoutes
    BY <1>2, Zenon
  <2>. QED  BY <2>1, <2>2
<1>7. Among(more, NodeRoutes) = {} <=> to = {}
  BY <1>6
<1>8. more \in Seq(Events) /\ (\A who : Among(more, ProfilesFor(who)) = {})
      /\ Among(more, RoutesForNode) = {} /\ (Among(more, NodeRoutes) = {} <=> to = {})
  BY <1>4, <1>5, <1>7, Zenon
<1>. QED  BY <1>8 DEF more

\* What is left of the queue when its first event is delivered.
Delivered(more) ==
  /\ events # <<>> /\ more \in Seq(Events)
  /\ events' = Tail(events) \o more

LEMMA AmongDelivered ==
  ASSUME events \in Seq(Events), NEW more, Delivered(more), NEW some, Among(more, some) = {}
  PROVE  /\ \A i \in Among(events, some) : i = 1 \/ i - 1 \in Among(events', some)
         /\ \A i \in Among(events', some) : i \in Nat /\ i + 1 \in Among(events, some)
         /\ 1 \in Among(events, some) <=> Head(events) \in some
<1>1. events # <<>> /\ more \in Seq(Events) /\ events' = Tail(events) \o more
  BY DEF Delivered
<1>2. Tail(events) \in Seq(Events)
  BY <1>1, TailIs
<1>3. \A i : i \in Among(events', some) <=> i \in Among(Tail(events), some)
  <2>1. /\ \A i \in Among(Tail(events), some) : i \in Among(Tail(events) \o more, some)
        /\ \A i \in Among(Tail(events) \o more, some) :
             \/ i \in Among(Tail(events), some)
             \/ \E k \in Among(more, some) : i = Len(Tail(events)) + k
    BY <1>1, <1>2, AmongConcat
  <2>. QED  BY <1>1, <2>1, Zenon
<1>4. /\ \A i \in Among(events, some) : i = 1 \/ i - 1 \in Among(Tail(events), some)
      /\ \A i \in Among(Tail(events), some) : i \in Nat /\ i + 1 \in Among(events, some)
      /\ 1 \in Among(events, some) <=> Head(events) \in some
  BY <1>1, AmongTail
<1>. QED  BY <1>3, <1>4, Zenon

\* What a delivery leaves of the events that its callbacks emit none of.
Shifted(some) ==
  /\ \A i \in Among(events, some) : i = 1 \/ i - 1 \in Among(events', some)
  /\ \A i \in Among(events', some) : i \in Nat /\ i + 1 \in Among(events, some)
  /\ 1 \in Among(events, some) <=> Head(events) \in some

LEMMA ShiftedIs ==
  ASSUME events \in Seq(Events), NEW some, Shifted(some)
  PROVE  /\ Among(events', some) # {} => Among(events, some) # {}
         /\ Among(events, some) # {} /\ Head(events) \notin some => Among(events', some) # {}
BY DEF Shifted

LEMMA ShiftedOrder ==
  ASSUME events \in Seq(Events), NEW some, NEW other, Shifted(some), Shifted(other),
         \A i \in Among(events, some) : \E j \in Among(events, other) : i < j
  PROVE  /\ \A i \in Among(events', some) : \E j \in Among(events', other) : i < j
         /\ Among(events, some) # {} => Among(events', other) # {}
<1>1. \A i \in Among(events, some) \union Among(events, other) : i \in Nat \ {0}
  <2>1. /\ Among(events, some) \subseteq 1..Len(events) /\ Len(events) \in Nat
        /\ Among(events, other) \subseteq 1..Len(events)
    BY AmongNumbers
  <2>2. \A i \in 1..Len(events) : i \in Nat \ {0}
    BY <2>1
  <2>. QED  BY <2>1, <2>2, Zenon
<1>2. ASSUME NEW i \in Among(events, some)
      PROVE  \E j \in Among(events', other) : i - 1 < j
  <2>1. PICK j \in Among(events, other) : i < j
    OBVIOUS
  <2>2. i \in Nat \ {0} /\ j \in Nat \ {0}
    BY <1>1
  <2>3. j # 1 /\ i - 1 < j - 1
    BY <2>1, <2>2
  <2>4. j - 1 \in Among(events', other)
    BY <2>3 DEF Shifted
  <2>. QED  BY <2>3, <2>4
<1>3. ASSUME NEW i \in Among(events', some)
      PROVE  \E j \in Among(events', other) : i < j
  <2>1. i \in Nat /\ i + 1 \in Among(events, some)
    BY DEF Shifted
  <2>2. PICK j \in Among(events', other) : (i + 1) - 1 < j
    BY <1>2, <2>1
  <2>3. (i + 1) - 1 = i
    BY <2>1
  <2>. QED  BY <2>2, <2>3
<1>. QED  BY <1>2, <1>3

LEMMA DispatchCopies ==
  ASSUME CopiesInv, Dispatch
  PROVE  NodeFollows' /\ DeviceItemFollows' /\ NodeItemFollows'
<1>. USE DEF CopiesInv
<1>1. events \in Seq(Events)
  BY DEF Types
<1>2. /\ node = [profile |-> node.profile, routes |-> node.routes, known |-> node.known]
      /\ shown = [profiles |-> shown.profiles, routes |-> shown.routes]
  BY DEF Types
<1>3. Seq(Events) # {} /\ <<>> \in Seq(Events) /\ \A some : Among(<<>>, some) = {}
  <2>1. <<>> \in Seq(Events) /\ Len(<<>>) = 0
    BY EmptySeq, EmptyIs
  <2>2. \A some, i : i \notin Among(<<>>, some)
    BY <2>1, SmallRanges, Zenon DEF Among
  <2>. QED  BY <2>1, <2>2
<1>4. events # <<>> => Head(events) \in Events
  BY <1>1, TailIs
<1>5. \A some : Delivered(<<>>) => Shifted(some)
  BY <1>1, <1>3, AmongDelivered DEF Shifted
<1>6. CASE DeliverProfiles
  <2>1. Delivered(<<>>) /\ Head(events).kind = "profiles" /\ UNCHANGED <<device, listening>>
    BY <1>3, <1>6 DEF DeliverProfiles, Deliver, Delivered
  <2>2. /\ \A who : Head(events) \in ProfilesFor(who) <=> who \in Head(events).to
        /\ Head(events) \notin RoutesForNode /\ Head(events) \notin NodeRoutes
    BY <1>4, <2>1 DEF Delivered, ProfilesFor, RoutesForNode, NodeRoutes
  <2>3. \A some : Shifted(some)
    BY <1>5, <2>1
  <2>4. \A some : (Among(events', some) # {} => Among(events, some) # {})
                /\ (Among(events, some) # {} /\ Head(events) \notin some => Among(events', some) # {})
    BY <1>1, <2>3, ShiftedIs
  <2>5. /\ node'.routes = node.routes /\ node'.known = node.known
        /\ "node" \in Head(events).to => node'.profile = ProfileOf(device.profiles)
        /\ "node" \notin Head(events).to => node'.profile = node.profile
    BY <1>2, <1>6 DEF DeliverProfiles
  <2>6. /\ shown'.routes = shown.routes
        /\ "device item" \in Head(events).to => shown'.profiles = device.profiles
        /\ "device item" \notin Head(events).to => shown'.profiles = shown.profiles
    BY <1>2, <1>6 DEF DeliverProfiles
  <2>7. NodeFollows'
    <3>1. \A i \in Among(events', ProfilesFor("node")) :
            \E j \in Among(events', RoutesForNode) : i < j
      BY <1>1, <2>3, ShiftedOrder DEF NodeFollows
    <3>2. Among(events', RoutesForNode) = {} => Among(events, RoutesForNode) = {}
      BY <2>2, <2>4
    <3>3. Among(events', ProfilesFor("node")) = {} =>
            Among(events, ProfilesFor("node")) = {} \/ "node" \in Head(events).to
      BY <2>2, <2>4
    <3>. QED  BY <2>1, <2>5, <3>1, <3>2, <3>3 DEF NodeFollows
  <2>8. DeviceItemFollows'
    <3>1. Among(events', ProfilesFor("device item")) = {} =>
            Among(events, ProfilesFor("device item")) = {} \/ "device item" \in Head(events).to
      BY <2>2, <2>4
    <3>. QED  BY <2>1, <2>6, <3>1 DEF DeviceItemFollows
  <2>9. NodeItemFollows'
    <3>1. Among(events', NodeRoutes) = {} <=> Among(events, NodeRoutes) = {}
      BY <2>2, <2>4
    <3>. QED  BY <2>1, <2>5, <2>6, <3>1 DEF NodeItemFollows
  <2>. QED  BY <2>7, <2>8, <2>9
<1>7. CASE DeliverRoutes
  <2>. DEFINE those == listening \intersect {"node item"}
              more  == Emit("node routes", those)
  <2>1. Head(events).kind = "routes" /\ UNCHANGED <<device, listening, shown>> /\ events # <<>>
        /\ events' = Tail(events) \o more
    BY <1>7 DEF DeliverRoutes, Deliver
  <2>2. /\ more \in Seq(Events)
        /\ \A who : Among(more, ProfilesFor(who)) = {}
        /\ Among(more, RoutesForNode) = {}
        /\ Among(more, NodeRoutes) = {} <=> those = {}
    <3>1. those \in SUBSET {"node item"}
      OBVIOUS
    <3>. HIDE DEF those
    <3>. QED  BY <3>1, AmongNodeRoutes
  <2>3. those = {} <=> "node item" \notin listening
    OBVIOUS
  <2>. HIDE DEF those, more
  <2>4. Delivered(more)
    BY <2>1, <2>2 DEF Delivered
  <2>5. /\ \A who : Head(events) \notin ProfilesFor(who)
        /\ Head(events) \notin NodeRoutes
    BY <1>4, <2>1 DEF ProfilesFor, NodeRoutes
  <2>6. (\A who : Shifted(ProfilesFor(who))) /\ Shifted(RoutesForNode)
        /\ ("node item" \notin listening => Shifted(NodeRoutes))
    BY <1>1, <2>2, <2>3, <2>4, AmongDelivered DEF Shifted
  <2>7. node' = [node EXCEPT !.routes = RoutesFor(node.profile, device.routes), !.known = TRUE]
    BY <1>7 DEF DeliverRoutes
  <2>8. /\ node'.profile = node.profile /\ node'.known
        /\ node'.routes = RoutesFor(node.profile, device.routes)
    BY <1>2, <2>7
  <2>9. NodeFollows'
    <3>1. /\ \A i \in Among(events', ProfilesFor("node")) :
               \E j \in Among(events', RoutesForNode) : i < j
          /\ Among(events, ProfilesFor("node")) # {} => Among(events', RoutesForNode) # {}
      BY <1>1, <2>6, ShiftedOrder DEF NodeFollows
    <3>2. Among(events', ProfilesFor("node")) = {} => Among(events, ProfilesFor("node")) = {}
      BY <1>1, <2>5, <2>6, ShiftedIs
    <3>. QED  BY <2>1, <2>8, <3>1, <3>2 DEF NodeFollows
  <2>10. DeviceItemFollows'
    <3>1. Among(events', ProfilesFor("device item")) = {} =>
            Among(events, ProfilesFor("device item")) = {}
      BY <1>1, <2>5, <2>6, ShiftedIs
    <3>. QED  BY <2>1, <3>1 DEF DeviceItemFollows
  <2>11. NodeItemFollows'
    <3>1. "node item" \notin listening => Among(events', NodeRoutes) = {}
      <4>1. "node item" \notin listening => Among(events, NodeRoutes) = {}
        BY DEF NodeItemFollows
      <4>. QED  BY <1>1, <2>6, <4>1, ShiftedIs
    <3>2. "node item" \in listening => Among(events', NodeRoutes) # {}
      <4>1. Tail(events) \in Seq(Events)
        BY <1>1, <2>1, TailIs
      <4>2. \A i \in Among(more, NodeRoutes) :
              Len(Tail(events)) + i \in Among(Tail(events) \o more, NodeRoutes)
        BY <2>2, <4>1, AmongConcat
      <4>. QED  BY <2>1, <2>2, <2>3, <4>2
    <3>. QED  BY <2>1, <2>8, <3>1, <3>2 DEF NodeItemFollows
  <2>. QED  BY <2>9, <2>10, <2>11
<1>8. CASE DeliverNodeRoutes
  <2>1. Delivered(<<>>) /\ Head(events).kind = "node routes" /\ UNCHANGED <<device, listening, node>>
    BY <1>3, <1>8 DEF DeliverNodeRoutes, Deliver, Delivered
  <2>2. /\ \A who : Head(events) \notin ProfilesFor(who)
        /\ Head(events) \notin RoutesForNode /\ Head(events) \in NodeRoutes
    BY <1>4, <2>1 DEF Delivered, ProfilesFor, RoutesForNode, NodeRoutes
  <2>3. \A some : Shifted(some)
    BY <1>5, <2>1
  <2>4. \A some : (Among(events', some) # {} => Among(events, some) # {})
                /\ (Among(events, some) # {} /\ Head(events) \notin some => Among(events', some) # {})
    BY <1>1, <2>3, ShiftedIs
  <2>5. shown'.profiles = shown.profiles /\ shown'.routes = node.routes
    BY <1>2, <1>8 DEF DeliverNodeRoutes
  <2>6. NodeFollows'
    <3>1. \A i \in Among(events', ProfilesFor("node")) :
            \E j \in Among(events', RoutesForNode) : i < j
      BY <1>1, <2>3, ShiftedOrder DEF NodeFollows
    <3>2. /\ Among(events', RoutesForNode) = {} => Among(events, RoutesForNode) = {}
          /\ Among(events', ProfilesFor("node")) = {} => Among(events, ProfilesFor("node")) = {}
      BY <2>2, <2>4
    <3>. QED  BY <2>1, <3>1, <3>2 DEF NodeFollows
  <2>7. DeviceItemFollows'
    <3>1. Among(events', ProfilesFor("device item")) = {} =>
            Among(events, ProfilesFor("device item")) = {}
      BY <2>2, <2>4
    <3>. QED  BY <2>1, <2>5, <3>1 DEF DeviceItemFollows
  <2>8. NodeItemFollows'
    <3>1. Among(events, NodeRoutes) # {}
      BY <2>2, <2>3 DEF Shifted
    <3>. QED  BY <2>1, <2>5, <3>1 DEF NodeItemFollows
  <2>. QED  BY <2>6, <2>7, <2>8
<1>. QED  BY <1>6, <1>7, <1>8 DEF Dispatch

LEMMA NextCopies == CopiesInv /\ [Next]_vars => CopiesInv'
<1>. SUFFICES ASSUME CopiesInv, [Next]_vars
              PROVE  CopiesInv'
  OBVIOUS
<1>1. Types'
  BY NextTypes DEF CopiesInv
<1>2. CASE LinkNode \/ ShowDevice \/ ShowNode \/ OnDone
  BY <1>1, <1>2, ListenCopies DEF CopiesInv
<1>3. CASE Dispatch
  BY <1>1, <1>3, DispatchCopies DEF CopiesInv
<1>4. CASE UNCHANGED <<device, node, listening, events, shown>>
  BY <1>1, <1>4 DEF CopiesInv, NodeFollows, DeviceItemFollows, NodeItemFollows
<1>5. CASE ServerChanges \/ Server \/ SelectProfile \/ SelectRoute \/ UNCHANGED vars
  BY <1>4, <1>5 DEF ServerChanges, Server, ServerAnswers, ServerSets, SelectProfile,
     SelectRoute, Ask, vars
<1>6. CASE OnDeviceInfo \/ OnEnumProfile \/ OnProfile \/ OnEnumRoute \/ OnRoute
  BY <1>4, <1>6 DEF OnDeviceInfo, OnEnumProfile, OnProfile, OnEnumRoute, OnRoute, Stage
<1>. QED  BY <1>2, <1>3, <1>5, <1>6 DEF Next, Handle

\* The copies are right or an event is queued that will make them so.
THEOREM CopiesHold == Spec => []CopiesInv
<1>. QED  BY InitCopies, NextCopies, PTL DEF Spec

\* Whatever order round trips, announcements and keys come in, with an empty queue
\* every copy is derived from the lists of the device (node.c:300-403, tui.c:985,
\* 1092).
THEOREM ListenersAlwaysFollow == Spec => []ListenersFollow
<1>1. CopiesInv => ListenersFollow
  <2>. SUFFICES ASSUME CopiesInv, events = <<>>, device.known
                PROVE  /\ "node" \in listening =>
                            /\ node.profile = ProfileOf(device.profiles)
                            /\ node.routes = RoutesFor(node.profile, device.routes)
                       /\ "device item" \in listening => shown.profiles = device.profiles
                       /\ "node item" \in listening => shown.routes = node.routes
    BY DEF ListenersFollow
  <2>1. \A some : Among(events, some) = {}
    <3>1. Len(events) = 0
      BY EmptyIs
    <3>2. \A some, i : i \notin Among(events, some)
      BY <3>1, SmallRanges, Zenon DEF Among
    <3>. QED  BY <3>2
  <2>. QED  BY <2>1 DEF CopiesInv, NodeFollows, DeviceItemFollows, NodeItemFollows
<1>. QED  BY <1>1, CopiesHold, PTL

-----------------------------------------------------------------------------
(* What is published is whole.                                             *)

\* A word of requests or messages goes from one step of a round trip to another;
\* what is not part of a round trip changes nothing.
Passes(what, a, b) == IF what \in Steps THEN what = a /\ b = After(a) ELSE b = a

Runs(word, a, b) ==
  \E at \in [0..Len(word) -> Steps] :
    /\ at[0] = a /\ at[Len(word)] = b
    /\ \A i \in 1..Len(word) : Passes(word[i], at[i - 1], at[i])

KindsOf(queue) == [i \in 1..Len(queue) |-> queue[i].kind]
AsksOf(queue)  == [i \in 1..Len(queue) |-> queue[i].ask]

WholeProfiles(list) == \E s \in ServerStates : Indices(list) = s.profiles
WholeRoutes(list)   == \E s \in ServerStates : Indices(list) = s.routes
OneActive(list)     == \A i, j \in ActiveIn(list) : i = j

\* What the staging lists hold before a step of a round trip.
StagedFor(step) ==
  /\ step = "EnumProfile" => staging = NoLists
  /\ step # "EnumProfile" => WholeProfiles(staging.profiles) /\ OneActive(staging.profiles)
  /\ step = "Profile" => ActiveIn(staging.profiles) = {}
  /\ step \in {"Profile", "EnumRoute"} => staging.routes = <<>>
  /\ step \in {"Route", "sync"} => WholeRoutes(staging.routes)

\* Messages, and after them requests, are round trips in order, of which the first
\* may have begun.
TripsInOrder ==
  \E a, b \in Steps : /\ StagedFor(a)
                     /\ Runs(KindsOf(messages), a, b)
                     /\ Runs(AsksOf(requests), b, "EnumProfile")

AnswersWhole ==
  \A i \in 1..Len(messages) :
    /\ messages[i].kind = "EnumProfile" => \E s \in ServerStates : messages[i].list = s.profiles
    /\ messages[i].kind = "EnumRoute" => \E s \in ServerStates : messages[i].list = s.routes

TripsInv == Types /\ TripsInOrder /\ AnswersWhole /\ SnapshotsWhole

LEMMA RunsNone ==
  ASSUME NEW a \in Steps, NEW word, Len(word) = 0
  PROVE  Runs(word, a, a)
<1>. DEFINE at == [i \in 0..0 |-> a]
<1>1. at \in [0..0 -> Steps] /\ at[0] = a
  OBVIOUS
<1>2. \A i : i \notin 1..0
  BY SmallRanges
<1>. HIDE DEF at
<1>. QED  BY <1>1, <1>2, Zenon DEF Runs

LEMMA RunsMore ==
  ASSUME NEW word, Len(word) \in Nat, NEW more, Len(more) = Len(word) + 1,
         \A i \in 1..Len(word) : more[i] = word[i],
         NEW a, NEW b \in Steps, NEW c \in Steps,
         Runs(word, a, b), Passes(more[Len(word) + 1], b, c)
  PROVE  Runs(more, a, c)
<1>1. PICK at \in [0..Len(word) -> Steps] :
        /\ at[0] = a /\ at[Len(word)] = b
        /\ \A i \in 1..Len(word) : Passes(word[i], at[i - 1], at[i])
  BY DEF Runs
<1>. DEFINE next == [i \in 0..Len(more) |-> IF i = Len(more) THEN c ELSE at[i]]
<1>2. next \in [0..Len(more) -> Steps] /\ next[0] = a /\ next[Len(more)] = c
      /\ next[Len(word)] = b
  BY <1>1
<1>3. \A i \in 1..Len(word) : next[i - 1] = at[i - 1] /\ next[i] = at[i]
  BY <1>1
<1>4. \A i \in 1..Len(more) : i \in 1..Len(word) \/ i = Len(word) + 1
  OBVIOUS
<1>5. (Len(word) + 1) - 1 = Len(word)
  OBVIOUS
<1>. HIDE DEF next
<1>6. \A i \in 1..Len(more) : Passes(more[i], next[i - 1], next[i])
  <2>. TAKE i \in 1..Len(more)
  <2>1. CASE i \in 1..Len(word)
    BY <1>1, <1>3, <2>1
  <2>2. CASE i = Len(word) + 1
    BY <1>2, <1>5, <2>2
  <2>. QED  BY <1>4, <2>1, <2>2
<1>. QED  BY <1>2, <1>6 DEF Runs

LEMMA RunsLess ==
  ASSUME NEW word, Len(word) \in Nat \ {0}, NEW rest, Len(rest) = Len(word) - 1,
         \A i \in 1..Len(rest) : rest[i] = word[i + 1],
         NEW a, NEW b, Runs(word, a, b)
  PROVE  \E c \in Steps : Passes(word[1], a, c) /\ Runs(rest, c, b)
<1>1. PICK at \in [0..Len(word) -> Steps] :
        /\ at[0] = a /\ at[Len(word)] = b
        /\ \A i \in 1..Len(word) : Passes(word[i], at[i - 1], at[i])
  BY DEF Runs
<1>. DEFINE next == [i \in 0..Len(rest) |-> at[i + 1]]
<1>2. next \in [0..Len(rest) -> Steps] /\ next[0] = at[1] /\ next[Len(rest)] = b
  BY <1>1
<1>3. \A i \in 1..Len(rest) : /\ i + 1 \in 1..Len(word) /\ (i + 1) - 1 = i
                               /\ next[i - 1] = at[i] /\ next[i] = at[i + 1]
  BY <1>1
<1>4. 1 \in 1..Len(word) /\ 1 - 1 = 0 /\ at[1] \in Steps
  BY <1>1
<1>. HIDE DEF next
<1>5. \A i \in 1..Len(rest) : Passes(rest[i], next[i - 1], next[i])
  BY <1>1, <1>3
<1>6. Runs(rest, at[1], b)
  BY <1>2, <1>5 DEF Runs
<1>7. Passes(word[1], a, at[1])
  BY <1>1, <1>4
<1>. QED  BY <1>4, <1>6, <1>7

LEMMA RunsTrip ==
  ASSUME NEW word, Len(word) \in Nat, NEW more, Len(more) = Len(word) + 5,
         \A i \in 1..Len(word) : more[i] = word[i],
         more[Len(word) + 1] = "EnumProfile", more[Len(word) + 2] = "Profile",
         more[Len(word) + 3] = "EnumRoute", more[Len(word) + 4] = "Route",
         more[Len(word) + 5] = "sync",
         NEW a, Runs(word, a, "EnumProfile")
  PROVE  Runs(more, a, "EnumProfile")
<1>. DEFINE n == Len(word)
<1>1. PICK at \in [0..n -> Steps] :
        /\ at[0] = a /\ at[n] = "EnumProfile"
        /\ \A i \in 1..n : Passes(word[i], at[i - 1], at[i])
  BY DEF Runs
<1>. DEFINE next == [i \in 0..n + 5 |->
                       IF i <= n THEN at[i]
                       ELSE IF i = n + 1 THEN "Profile"
                       ELSE IF i = n + 2 THEN "EnumRoute"
                       ELSE IF i = n + 3 THEN "Route"
                       ELSE IF i = n + 4 THEN "sync"
                       ELSE "EnumProfile"]
<1>2. /\ next[n + 1] = "Profile" /\ next[n + 2] = "EnumRoute" /\ next[n + 3] = "Route"
      /\ next[n + 4] = "sync" /\ next[n + 5] = "EnumProfile"
  OBVIOUS
<1>3. \A i \in 0..n : next[i] = at[i]
  OBVIOUS
<1>4. next \in [0..n + 5 -> Steps]
  BY <1>1 DEF Steps
<1>5. next[0] = a /\ next[n] = "EnumProfile"
  BY <1>1, <1>3
<1>. HIDE DEF next
<1>6. \A i \in 1..n : Passes(more[i], next[i - 1], next[i])
  <2>1. \A i \in 1..n : i - 1 \in 0..n /\ i \in 0..n
    OBVIOUS
  <2>. QED  BY <1>1, <1>3, <2>1
<1>7. /\ (n + 1) - 1 = n /\ (n + 2) - 1 = n + 1 /\ (n + 3) - 1 = n + 2
      /\ (n + 4) - 1 = n + 3 /\ (n + 5) - 1 = n + 4
  OBVIOUS
<1>8. /\ Passes("EnumProfile", "EnumProfile", "Profile") /\ Passes("Profile", "Profile", "EnumRoute")
      /\ Passes("EnumRoute", "EnumRoute", "Route") /\ Passes("Route", "Route", "sync")
      /\ Passes("sync", "sync", "EnumProfile")
  BY DEF Passes, Steps, After
<1>9. \A i \in n + 1..n + 5 : Passes(more[i], next[i - 1], next[i])
  <2>. TAKE i \in n + 1..n + 5
  <2>1. i = n + 1 \/ i = n + 2 \/ i = n + 3 \/ i = n + 4 \/ i = n + 5
    OBVIOUS
  <2>2. CASE i = n + 1  BY <1>2, <1>5, <1>7, <1>8, <2>2
  <2>3. CASE i = n + 2  BY <1>2, <1>5, <1>7, <1>8, <2>3
  <2>4. CASE i = n + 3  BY <1>2, <1>5, <1>7, <1>8, <2>4
  <2>5. CASE i = n + 4  BY <1>2, <1>5, <1>7, <1>8, <2>5
  <2>6. CASE i = n + 5  BY <1>2, <1>5, <1>7, <1>8, <2>6
  <2>. QED  BY <2>1, <2>2, <2>3, <2>4, <2>5, <2>6
<1>10. \A i \in 1..Len(more) : i \in 1..n \/ i \in n + 1..n + 5
  OBVIOUS
<1>11. \A i \in 1..Len(more) : Passes(more[i], next[i - 1], next[i])
  BY <1>6, <1>9, <1>10
<1>. QED  BY <1>2, <1>4, <1>5, <1>11 DEF Runs

LEMMA KindsAre ==
  ASSUME NEW queue \in Seq(Messages)
  PROVE  /\ Len(queue) \in Nat /\ Len(KindsOf(queue)) = Len(queue)
         /\ \A i \in 1..Len(queue) : KindsOf(queue)[i] = queue[i].kind
<1>1. Len(queue) \in Nat /\ \A i \in 1..Len(queue) : queue[i] \in Messages
  BY DomainIs
<1>2. KindsOf(queue) \in [1..Len(queue) -> Steps \union {"info"}]
  BY <1>1 DEF KindsOf, Messages
<1>. QED  BY <1>1, <1>2, SeqIs DEF KindsOf

LEMMA AsksAre ==
  ASSUME NEW queue \in Seq(Requests)
  PROVE  /\ Len(queue) \in Nat /\ Len(AsksOf(queue)) = Len(queue)
         /\ \A i \in 1..Len(queue) : AsksOf(queue)[i] = queue[i].ask
<1>1. Len(queue) \in Nat /\ \A i \in 1..Len(queue) : queue[i] \in Requests
  BY DomainIs
<1>2. AsksOf(queue) \in [1..Len(queue) -> Steps \union {"SetProfile", "SetRoute"}]
  BY <1>1 DEF AsksOf, Requests
<1>. QED  BY <1>1, <1>2, SeqIs DEF AsksOf

LEMMA MessagesGain ==
  ASSUME NEW queue \in Seq(Messages), NEW m \in Messages, NEW a, NEW b \in Steps, NEW c \in Steps,
         Runs(KindsOf(queue), a, b), Passes(m.kind, b, c)
  PROVE  Runs(KindsOf(Append(queue, m)), a, c)
<1>. DEFINE word == KindsOf(queue)
            more == KindsOf(Append(queue, m))
<1>1. /\ Append(queue, m) \in Seq(Messages) /\ Len(Append(queue, m)) = Len(queue) + 1
      /\ \A i \in 1..Len(queue) + 1 :
           Append(queue, m)[i] = IF i = Len(queue) + 1 THEN m ELSE queue[i]
  BY AppendIs
<1>2. /\ Len(queue) \in Nat /\ Len(word) = Len(queue)
      /\ \A i \in 1..Len(queue) : word[i] = queue[i].kind
  BY KindsAre
<1>3. /\ Len(more) = Len(queue) + 1
      /\ \A i \in 1..Len(queue) + 1 : more[i] = Append(queue, m)[i].kind
  BY <1>1, KindsAre
<1>. HIDE DEF word, more
<1>4. \A i \in 1..Len(word) : more[i] = word[i]
  BY <1>1, <1>2, <1>3
<1>5. more[Len(word) + 1] = m.kind
  BY <1>1, <1>2, <1>3
<1>6. Runs(word, a, b) /\ Passes(more[Len(word) + 1], b, c)
  BY <1>5 DEF word
<1>7. Runs(more, a, c)
  BY <1>2, <1>3, <1>4, <1>6, RunsMore
<1>. QED  BY <1>7 DEF more

LEMMA RequestsGain ==
  ASSUME NEW queue \in Seq(Requests), NEW r \in Requests, NEW a, NEW b \in Steps, NEW c \in Steps,
         Runs(AsksOf(queue), a, b), Passes(r.ask, b, c)
  PROVE  Runs(AsksOf(Append(queue, r)), a, c)
<1>. DEFINE word == AsksOf(queue)
            more == AsksOf(Append(queue, r))
<1>1. /\ Append(queue, r) \in Seq(Requests) /\ Len(Append(queue, r)) = Len(queue) + 1
      /\ \A i \in 1..Len(queue) + 1 :
           Append(queue, r)[i] = IF i = Len(queue) + 1 THEN r ELSE queue[i]
  BY AppendIs
<1>2. /\ Len(queue) \in Nat /\ Len(word) = Len(queue)
      /\ \A i \in 1..Len(queue) : word[i] = queue[i].ask
  BY AsksAre
<1>3. /\ Len(more) = Len(queue) + 1
      /\ \A i \in 1..Len(queue) + 1 : more[i] = Append(queue, r)[i].ask
  BY <1>1, AsksAre
<1>. HIDE DEF word, more
<1>4. \A i \in 1..Len(word) : more[i] = word[i]
  BY <1>1, <1>2, <1>3
<1>5. more[Len(word) + 1] = r.ask
  BY <1>1, <1>2, <1>3
<1>6. Runs(word, a, b) /\ Passes(more[Len(word) + 1], b, c)
  BY <1>5 DEF word
<1>7. Runs(more, a, c)
  BY <1>2, <1>3, <1>4, <1>6, RunsMore
<1>. QED  BY <1>7 DEF more

LEMMA RequestsTrip ==
  ASSUME NEW queue \in Seq(Requests), NEW a, Runs(AsksOf(queue), a, "EnumProfile")
  PROVE  Runs(AsksOf(queue \o RoundTrip), a, "EnumProfile")
<1>. DEFINE word == AsksOf(queue)
            more == AsksOf(queue \o RoundTrip)
<1>1. /\ queue \o RoundTrip \in Seq(Requests) /\ Len(queue \o RoundTrip) = Len(queue) + 5
      /\ \A i \in 1..Len(queue) + 5 :
           (queue \o RoundTrip)[i] = IF i <= Len(queue) THEN queue[i] ELSE RoundTrip[i - Len(queue)]
  <2>1. RoundTrip \in Seq(Requests) /\ Len(RoundTrip) = 5
    BY RoundTripIs
  <2>2. /\ queue \o RoundTrip \in Seq(Requests)
        /\ Len(queue \o RoundTrip) = Len(queue) + Len(RoundTrip)
        /\ \A i \in 1..Len(queue) + Len(RoundTrip) :
             (queue \o RoundTrip)[i] = IF i <= Len(queue) THEN queue[i] ELSE RoundTrip[i - Len(queue)]
    BY <2>1, ConcatIs
  <2>. HIDE DEF RoundTrip
  <2>. QED  BY <2>1, <2>2
<1>2. /\ Len(queue) \in Nat /\ Len(word) = Len(queue)
      /\ \A i \in 1..Len(queue) : word[i] = queue[i].ask
  BY AsksAre
<1>3. /\ Len(more) = Len(queue) + 5
      /\ \A i \in 1..Len(queue) + 5 : more[i] = (queue \o RoundTrip)[i].ask
  BY <1>1, AsksAre
<1>. HIDE DEF word, more
<1>4. \A i \in 1..Len(word) : more[i] = word[i]
  BY <1>1, <1>2, <1>3
<1>5. \A k \in 1..5 : more[Len(word) + k] = RoundTrip[k].ask
  <2>. TAKE k \in 1..5
  <2>1. Len(queue) + k \in 1..Len(queue) + 5 /\ ~(Len(queue) + k <= Len(queue))
        /\ (Len(queue) + k) - Len(queue) = k
    BY <1>2
  <2>2. (queue \o RoundTrip)[Len(queue) + k] = RoundTrip[k]
    BY <1>1, <2>1
  <2>. QED  BY <1>2, <1>3, <2>1, <2>2
<1>6. /\ more[Len(word) + 1] = "EnumProfile" /\ more[Len(word) + 2] = "Profile"
      /\ more[Len(word) + 3] = "EnumRoute" /\ more[Len(word) + 4] = "Route"
      /\ more[Len(word) + 5] = "sync"
  <2>1. 1 \in 1..5 /\ 2 \in 1..5 /\ 3 \in 1..5 /\ 4 \in 1..5 /\ 5 \in 1..5
    OBVIOUS
  <2>. QED  BY <1>5, <2>1, RoundTripIs
<1>7. Runs(word, a, "EnumProfile")
  BY DEF word
<1>8. Runs(more, a, "EnumProfile")
  BY <1>2, <1>3, <1>4, <1>6, <1>7, RunsTrip
<1>. QED  BY <1>8 DEF more

LEMMA MessagesTake ==
  ASSUME NEW queue \in Seq(Messages), queue # <<>>, NEW a, NEW b, Runs(KindsOf(queue), a, b)
  PROVE  \E c \in Steps : Passes(Head(queue).kind, a, c) /\ Runs(KindsOf(Tail(queue)), c, b)
<1>. DEFINE word == KindsOf(queue)
            rest == KindsOf(Tail(queue))
<1>1. /\ Tail(queue) \in Seq(Messages) /\ Len(Tail(queue)) = Len(queue) - 1
      /\ Len(queue) \in Nat \ {0} /\ Head(queue) = queue[1]
      /\ \A i \in 1..Len(queue) - 1 : Tail(queue)[i] = queue[i + 1]
  BY TailIs
<1>2. Len(word) = Len(queue) /\ \A i \in 1..Len(queue) : word[i] = queue[i].kind
  BY KindsAre
<1>3. Len(rest) = Len(queue) - 1 /\ \A i \in 1..Len(queue) - 1 : rest[i] = Tail(queue)[i].kind
  BY <1>1, KindsAre
<1>. HIDE DEF word, rest
<1>4. \A i \in 1..Len(rest) : rest[i] = word[i + 1]
  <2>1. \A i \in 1..Len(queue) - 1 : i + 1 \in 1..Len(queue)
    BY <1>1
  <2>. QED  BY <1>1, <1>2, <1>3, <2>1
<1>5. word[1] = Head(queue).kind
  <2>1. 1 \in 1..Len(queue)
    BY <1>1
  <2>. QED  BY <1>1, <1>2, <2>1
<1>6. Runs(word, a, b)
  BY DEF word
<1>7. \E c \in Steps : Passes(word[1], a, c) /\ Runs(rest, c, b)
  BY <1>1, <1>2, <1>3, <1>4, <1>6, RunsLess
<1>. QED  BY <1>5, <1>7 DEF rest

LEMMA RequestsTake ==
  ASSUME NEW queue \in Seq(Requests), queue # <<>>, NEW a, NEW b, Runs(AsksOf(queue), a, b)
  PROVE  \E c \in Steps : Passes(Head(queue).ask, a, c) /\ Runs(AsksOf(Tail(queue)), c, b)
<1>. DEFINE word == AsksOf(queue)
            rest == AsksOf(Tail(queue))
<1>1. /\ Tail(queue) \in Seq(Requests) /\ Len(Tail(queue)) = Len(queue) - 1
      /\ Len(queue) \in Nat \ {0} /\ Head(queue) = queue[1]
      /\ \A i \in 1..Len(queue) - 1 : Tail(queue)[i] = queue[i + 1]
  BY TailIs
<1>2. Len(word) = Len(queue) /\ \A i \in 1..Len(queue) : word[i] = queue[i].ask
  BY AsksAre
<1>3. Len(rest) = Len(queue) - 1 /\ \A i \in 1..Len(queue) - 1 : rest[i] = Tail(queue)[i].ask
  BY <1>1, AsksAre
<1>. HIDE DEF word, rest
<1>4. \A i \in 1..Len(rest) : rest[i] = word[i + 1]
  <2>1. \A i \in 1..Len(queue) - 1 : i + 1 \in 1..Len(queue)
    BY <1>1
  <2>. QED  BY <1>1, <1>2, <1>3, <2>1
<1>5. word[1] = Head(queue).ask
  <2>1. 1 \in 1..Len(queue)
    BY <1>1
  <2>. QED  BY <1>1, <1>2, <2>1
<1>6. Runs(word, a, b)
  BY DEF word
<1>7. \E c \in Steps : Passes(word[1], a, c) /\ Runs(rest, c, b)
  BY <1>1, <1>2, <1>3, <1>4, <1>6, RunsLess
<1>. QED  BY <1>5, <1>7 DEF rest

LEMMA InitTrips == Init => TripsInv
<1>. SUFFICES ASSUME Init PROVE TripsInv
  OBVIOUS
<1>1. Types
  BY InitTypes
<1>2. requests = <<>> /\ messages = <<[kind |-> "info", list |-> <<>>]>>
      /\ staging = NoLists /\ ~device.known
  BY DEF Init
<1>3. [kind |-> "info", list |-> <<>>] \in Messages
  BY EmptySeq DEF Messages
<1>4. Len(messages) = 1 /\ messages[1] = [kind |-> "info", list |-> <<>>]
      /\ messages = Append(<<>>, [kind |-> "info", list |-> <<>>])
  BY <1>2, <1>3, OneIs
<1>5. "EnumProfile" \in Steps /\ Passes("info", "EnumProfile", "EnumProfile")
  BY DEF Steps, Passes
<1>6. <<>> \in Seq(Messages) /\ <<>> \in Seq(Requests) /\ Len(<<>>) = 0
  BY EmptySeq, EmptyIs
<1>7. Runs(AsksOf(requests), "EnumProfile", "EnumProfile")
  <2>1. Len(AsksOf(<<>>)) = 0
    BY <1>6, AsksAre
  <2>. QED  BY <1>2, <1>5, <2>1, RunsNone
<1>8. Runs(KindsOf(messages), "EnumProfile", "EnumProfile")
  <2>1. Len(KindsOf(<<>>)) = 0
    BY <1>6, KindsAre
  <2>2. Runs(KindsOf(<<>>), "EnumProfile", "EnumProfile")
    BY <1>5, <2>1, RunsNone
  <2>3. [kind |-> "info", list |-> <<>>].kind = "info"
    OBVIOUS
  <2>4. Runs(KindsOf(Append(<<>>, [kind |-> "info", list |-> <<>>])), "EnumProfile", "EnumProfile")
    BY <1>3, <1>5, <1>6, <2>2, <2>3, MessagesGain
  <2>. QED  BY <1>4, <2>4
<1>9. StagedFor("EnumProfile")
  BY <1>2 DEF StagedFor
<1>10. AnswersWhole
  <2>1. \A i \in 1..Len(messages) : messages[i].kind = "info"
    BY <1>4, SmallRanges
  <2>. QED  BY <2>1 DEF AnswersWhole
<1>. QED  BY <1>1, <1>2, <1>5, <1>7, <1>8, <1>9, <1>10 DEF TripsInv, TripsInOrder, SnapshotsWhole

\* The server.
LEMMA ServerTrips ==
  ASSUME TripsInv, ServerChanges \/ Server
  PROVE  TripsInOrder' /\ AnswersWhole'
<1>. USE DEF TripsInv
<1>1. messages \in Seq(Messages) /\ requests \in Seq(Requests) /\ actual \in ServerStates
  BY DEF Types
<1>2. UNCHANGED staging
  BY DEF ServerChanges, Server, ServerAnswers, ServerSets
<1>3. \A a \in Steps : StagedFor(a) => StagedFor(a)'
  BY <1>2 DEF StagedFor
<1>4. PICK a \in Steps, b \in Steps :
        /\ StagedFor(a) /\ Runs(KindsOf(messages), a, b) /\ Runs(AsksOf(requests), b, "EnumProfile")
  BY DEF TripsInOrder
\* A message that is added, and a request that is taken.
<1>5. ASSUME NEW m \in Messages, messages' = Append(messages, m), NEW c \in Steps,
             Passes(m.kind, b, c), Runs(AsksOf(requests'), c, "EnumProfile"),
             /\ m.kind = "EnumProfile" => \E s \in ServerStates : m.list = s.profiles
             /\ m.kind = "EnumRoute" => \E s \in ServerStates : m.list = s.routes
      PROVE  TripsInOrder' /\ AnswersWhole'
  <2>1. Runs(KindsOf(messages'), a, c)
    BY <1>1, <1>4, <1>5, MessagesGain
  <2>2. TripsInOrder'
    BY <1>3, <1>4, <1>5, <2>1 DEF TripsInOrder
  <2>3. /\ Len(messages') = Len(messages) + 1 /\ Len(messages) \in Nat
        /\ \A i \in 1..Len(messages) + 1 :
             messages'[i] = IF i = Len(messages) + 1 THEN m ELSE messages[i]
    BY <1>1, <1>5, AppendIs, DomainIs
  <2>4. \A i \in 1..Len(messages') : i = Len(messages) + 1 \/ i \in 1..Len(messages)
    BY <2>3
  <2>5. \A i \in 1..Len(messages') : messages'[i] = m \/ \E j \in 1..Len(messages) : messages'[i] = messages[j]
    BY <2>3, <2>4
  <2>6. AnswersWhole'
    BY <1>5, <2>5 DEF AnswersWhole
  <2>. QED  BY <2>2, <2>6
<1>6. DEFINE info == [kind |-> "info", list |-> <<>>]
<1>7. /\ info \in Messages /\ info.kind = "info" /\ \A s : Change(s) => messages' = Append(messages, info)
      /\ info.kind # "EnumProfile" /\ info.kind # "EnumRoute"
  BY EmptySeq DEF Messages, Change, Tell
<1>8. \A c \in Steps : Passes(info.kind, c, c)
  BY <1>7 DEF Passes, Steps
<1>. HIDE DEF info
<1>9. CASE ServerChanges
  <2>1. UNCHANGED requests /\ messages' = Append(messages, info)
    BY <1>7, <1>9 DEF ServerChanges
  <2>. QED  BY <1>4, <1>5, <1>7, <1>8, <2>1
<1>10. ASSUME requests # <<>>, requests' = Tail(requests)
       PROVE  \E c \in Steps : Passes(Head(requests).ask, b, c) /\ Runs(AsksOf(requests'), c, "EnumProfile")
  BY <1>1, <1>4, <1>10, RequestsTake
<1>11. CASE ServerAnswers
  <2>1. requests # <<>> /\ requests' = Tail(requests)
        /\ messages' = Tell(Head(requests).ask, Answer(Head(requests).ask))
        /\ Head(requests).ask \notin {"SetProfile", "SetRoute"}
    BY <1>11 DEF ServerAnswers
  <2>2. PICK c \in Steps : Passes(Head(requests).ask, b, c) /\ Runs(AsksOf(requests'), c, "EnumProfile")
    BY <1>10, <2>1
  <2>. DEFINE ask == Head(requests).ask
              m   == [kind |-> ask, list |-> Answer(ask)]
  <2>3. ask \in Steps
    <3>1. Head(requests) \in Requests
      BY <1>1, <2>1, TailIs
    <3>. QED  BY <2>1, <3>1 DEF Requests
  <2>. HIDE DEF ask
  <2>4. m \in Messages /\ m.kind = ask /\ m.list = Answer(ask)
    BY <1>1, <2>3, AnswerIs DEF Messages
  <2>5. messages' = Append(messages, m)
    BY <2>1 DEF Tell, ask
  <2>6. /\ ask = "EnumProfile" => Answer(ask) = actual.profiles
        /\ ask = "EnumRoute" => Answer(ask) = actual.routes
    BY DEF Answer
  <2>7. Passes(ask, b, c)
    BY <2>2 DEF ask
  <2>. HIDE DEF m
  <2>. QED  BY <1>1, <1>5, <2>2, <2>4, <2>5, <2>6, <2>7
<1>12. CASE ServerSets
  <2>1. requests # <<>> /\ requests' = Tail(requests) /\ Head(requests).ask \in {"SetProfile", "SetRoute"}
        /\ (messages' = Append(messages, info) \/ messages' = messages)
    BY <1>7, <1>12 DEF ServerSets
  <2>2. Runs(AsksOf(requests'), b, "EnumProfile")
    <3>1. PICK c \in Steps : Passes(Head(requests).ask, b, c) /\ Runs(AsksOf(requests'), c, "EnumProfile")
      BY <1>10, <2>1
    <3>2. Head(requests).ask \notin Steps
      BY <2>1 DEF Steps
    <3>3. c = b
      BY <3>1, <3>2 DEF Passes
    <3>. QED  BY <3>1, <3>3
  <2>3. CASE messages' = Append(messages, info)
    BY <1>4, <1>5, <1>7, <1>8, <2>2, <2>3
  <2>4. CASE messages' = messages
    BY <1>3, <1>4, <2>2, <2>4 DEF TripsInOrder, AnswersWhole
  <2>. QED  BY <2>1, <2>3, <2>4
<1>. QED  BY <1>9, <1>11, <1>12 DEF Server

\* Another set of lists in staging, for the step that a message asks for.
LEMMA ReceiveTrips ==
  ASSUME TripsInv, NEW kind, Receive(kind)
  PROVE  /\ AnswersWhole'
         /\ kind = "EnumProfile" => \E s \in ServerStates : Received = s.profiles
         /\ kind = "EnumRoute" => \E s \in ServerStates : Received = s.routes
         /\ \A a, b \in Steps : Runs(KindsOf(messages), a, b) =>
              \E c \in Steps : Passes(kind, a, c) /\ Runs(KindsOf(messages'), c, b)
<1>1. /\ messages \in Seq(Messages) /\ messages # <<>> /\ messages' = Tail(messages)
      /\ Head(messages).kind = kind
  BY DEF TripsInv, Types, Receive
<1>2. /\ Len(Tail(messages)) = Len(messages) - 1 /\ Len(messages) \in Nat \ {0}
      /\ \A i \in 1..Len(messages) - 1 : Tail(messages)[i] = messages[i + 1]
      /\ Head(messages) = messages[1]
  BY <1>1, TailIs
<1>3. 1 \in 1..Len(messages) /\ \A i \in 1..Len(messages') : i + 1 \in 1..Len(messages)
  BY <1>1, <1>2
<1>4. \A i \in 1..Len(messages') : messages'[i] = messages[i + 1]
  BY <1>1, <1>2
<1>5. AnswersWhole'
  BY <1>3, <1>4 DEF TripsInv, AnswersWhole
<1>6. messages[1].kind = kind /\ Received = messages[1].list
  BY <1>1, <1>2 DEF Received
<1>7. /\ kind = "EnumProfile" => \E s \in ServerStates : Received = s.profiles
      /\ kind = "EnumRoute" => \E s \in ServerStates : Received = s.routes
  BY <1>3, <1>6 DEF TripsInv, AnswersWhole
<1>8. \A a, b \in Steps : Runs(KindsOf(messages), a, b) =>
        \E c \in Steps : Passes(kind, a, c) /\ Runs(KindsOf(messages'), c, b)
  <2>. TAKE a, b \in Steps
  <2>. HAVE Runs(KindsOf(messages), a, b)
  <2>1. \E c \in Steps : Passes(Head(messages).kind, a, c) /\ Runs(KindsOf(Tail(messages)), c, b)
    BY <1>1, MessagesTake
  <2>. QED  BY <1>1, <2>1
<1>. QED  BY <1>5, <1>7, <1>8

\* A message comes when staging is ready for it.
LEMMA StepTrips ==
  ASSUME TripsInv, NEW kind \in Steps, Receive(kind), UNCHANGED requests
  PROVE  /\ StagedFor(kind)
         /\ StagedFor(After(kind))' => TripsInOrder'
<1>1. PICK a \in Steps, b \in Steps :
        /\ StagedFor(a) /\ Runs(KindsOf(messages), a, b) /\ Runs(AsksOf(requests), b, "EnumProfile")
  BY DEF TripsInv, TripsInOrder
<1>2. PICK c \in Steps : Passes(kind, a, c) /\ Runs(KindsOf(messages'), c, b)
  BY <1>1, ReceiveTrips
<1>3. kind = a /\ c = After(a)
  BY <1>2 DEF Passes
<1>4. After(kind)' = After(kind)
  BY DEF After
<1>. QED  BY <1>1, <1>2, <1>3 DEF TripsInOrder

LEMMA InactiveWhole ==
  ASSUME NEW list \in Seq(Indexes)
  PROVE  /\ <<>> \o Inactive(list) = Inactive(list)
         /\ Indices(Inactive(list)) = list
         /\ ActiveIn(Inactive(list)) = {}
<1>1. /\ Inactive(list) \in Listed /\ Len(Inactive(list)) = Len(list)
      /\ \A i \in 1..Len(list) : Inactive(list)[i] = [index |-> list[i], active |-> FALSE]
  BY InactiveIs
<1>2. DOMAIN Inactive(list) = 1..Len(list) /\ Len(list) \in Nat
  BY <1>1, DomainIs DEF Listed
<1>3. list = [i \in 1..Len(list) |-> list[i]]
  BY LenProperties
<1>4. \A i \in 1..Len(list) : Inactive(list)[i].index = list[i] /\ ~Inactive(list)[i].active
  <2>. TAKE i \in 1..Len(list)
  <2>. DEFINE e == [index |-> list[i], active |-> FALSE]
  <2>1. Inactive(list)[i] = e
    BY <1>1
  <2>2. e.index = list[i] /\ e.active = FALSE
    OBVIOUS
  <2>. HIDE DEF e
  <2>. QED  BY <2>1, <2>2
<1>5. Indices(Inactive(list)) = [i \in 1..Len(list) |-> list[i]]
  BY <1>2, <1>4 DEF Indices
<1>6. ActiveIn(Inactive(list)) = {}
  BY <1>2, <1>4 DEF ActiveIn
<1>7. <<>> \o Inactive(list) = Inactive(list)
  BY <1>1 DEF Listed
<1>. QED  BY <1>3, <1>5, <1>6, <1>7

LEMMA HandleTrips ==
  ASSUME TripsInv, Handle
  PROVE  TripsInOrder' /\ AnswersWhole' /\ SnapshotsWhole'
<1>1. staging \in [profiles : Listed, routes : Listed] /\ messages \in Seq(Messages)
      /\ requests \in Seq(Requests)
      /\ DOMAIN staging.profiles = 1..Len(staging.profiles)
      /\ \A i \in DOMAIN staging.profiles :
           staging.profiles[i] \in [index : Indexes, active : BOOLEAN]
  <2>1. /\ staging \in [profiles : Listed, routes : Listed] /\ messages \in Seq(Messages)
        /\ requests \in Seq(Requests)
    BY DEF TripsInv, Types
  <2>2. staging.profiles \in Seq([index : Indexes, active : BOOLEAN])
    BY <2>1 DEF Listed
  <2>3. /\ DOMAIN staging.profiles = 1..Len(staging.profiles)
        /\ \A i \in 1..Len(staging.profiles) :
             staging.profiles[i] \in [index : Indexes, active : BOOLEAN]
    BY <2>2, DomainIs
  <2>. QED  BY <2>1, <2>3
<1>2. /\ "EnumProfile" \in Steps /\ "Profile" \in Steps /\ "EnumRoute" \in Steps
      /\ "Route" \in Steps /\ "sync" \in Steps
      /\ After("EnumProfile") = "Profile" /\ After("Profile") = "EnumRoute"
      /\ After("EnumRoute") = "Route" /\ After("Route") = "sync" /\ After("sync") = "EnumProfile"
  BY DEF Steps, After
<1>3. ASSUME UNCHANGED device PROVE SnapshotsWhole'
  BY <1>3 DEF TripsInv, SnapshotsWhole
<1>4. CASE OnDeviceInfo
  <2>1. Receive("info") /\ requests' = requests \o RoundTrip /\ UNCHANGED <<staging, device>>
    BY <1>4 DEF OnDeviceInfo
  <2>2. PICK a \in Steps, b \in Steps :
          StagedFor(a) /\ Runs(KindsOf(messages), a, b) /\ Runs(AsksOf(requests), b, "EnumProfile")
    BY DEF TripsInv, TripsInOrder
  <2>3. PICK c \in Steps : Passes("info", a, c) /\ Runs(KindsOf(messages'), c, b)
    BY <2>1, <2>2, ReceiveTrips
  <2>4. c = a
    BY <2>3 DEF Passes, Steps
  <2>5. StagedFor(a)'
    BY <2>1, <2>2 DEF StagedFor
  <2>6. Runs(AsksOf(requests'), b, "EnumProfile")
    BY <1>1, <2>1, <2>2, RequestsTrip
  <2>7. TripsInOrder'
    BY <2>2, <2>3, <2>4, <2>5, <2>6 DEF TripsInOrder
  <2>8. AnswersWhole'
    BY <2>1, ReceiveTrips
  <2>. QED  BY <1>3, <2>1, <2>7, <2>8
<1>5. CASE OnEnumProfile
  <2>1. Receive("EnumProfile") /\ UNCHANGED <<requests, device>>
        /\ staging' = [staging EXCEPT !.profiles = staging.profiles \o Inactive(Received)]
    BY <1>5 DEF OnEnumProfile, Stage, server
  <2>2. staging = NoLists
    BY <1>2, <2>1, StepTrips DEF StagedFor
  <2>3. Received \in Seq(Indexes) /\ \E s \in ServerStates : Received = s.profiles
    BY <1>1, <2>1, ReceiveTrips, ReceiveTypes
  <2>4. staging'.profiles = Inactive(Received) /\ staging'.routes = <<>>
    BY <2>1, <2>2, <2>3, InactiveWhole DEF NoLists
  <2>5. WholeProfiles(staging'.profiles) /\ ActiveIn(staging'.profiles) = {}
    BY <2>3, <2>4, InactiveWhole DEF WholeProfiles
  <2>6. StagedFor("Profile")'
    BY <2>4, <2>5 DEF StagedFor, OneActive
  <2>. QED  BY <1>2, <1>3, <2>1, <2>6, StepTrips, ReceiveTrips
<1>6. CASE OnProfile
  <2>1. Receive("Profile") /\ UNCHANGED <<requests, device>>
        /\ \/ staging' = staging
           \/ \E k : staging' = [staging EXCEPT !.profiles[k].active = TRUE]
    BY <1>6 DEF OnProfile, Stage, server
  <2>2. StagedFor("Profile")
    BY <1>2, <2>1, StepTrips
  <2>3. WholeProfiles(staging.profiles) /\ ActiveIn(staging.profiles) = {} /\ staging.routes = <<>>
    BY <2>2 DEF StagedFor
  <2>4. ASSUME NEW k, staging' = [staging EXCEPT !.profiles[k].active = TRUE]
        PROVE  /\ Indices(staging'.profiles) = Indices(staging.profiles)
               /\ ActiveIn(staging'.profiles) \subseteq {k}
               /\ staging'.routes = staging.routes
    <3>1. /\ staging'.profiles = [staging.profiles EXCEPT ![k].active = TRUE]
          /\ staging'.routes = staging.routes
      BY <1>1, <2>4
    <3>2. /\ DOMAIN staging'.profiles = DOMAIN staging.profiles
          /\ \A i \in DOMAIN staging.profiles :
               /\ staging'.profiles[i].index = staging.profiles[i].index
               /\ i # k => staging'.profiles[i] = staging.profiles[i]
      BY <1>1, <3>1
    <3>3. \A i \in DOMAIN staging.profiles : ~staging.profiles[i].active
      BY <2>3 DEF ActiveIn
    <3>. QED  BY <3>1, <3>2, <3>3 DEF Indices, ActiveIn
  <2>5. WholeProfiles(staging'.profiles) /\ OneActive(staging'.profiles) /\ staging'.routes = <<>>
    BY <2>1, <2>3, <2>4 DEF WholeProfiles, OneActive
  <2>6. StagedFor("EnumRoute")'
    BY <2>5 DEF StagedFor
  <2>. QED  BY <1>2, <1>3, <2>1, <2>6, StepTrips, ReceiveTrips
<1>7. CASE OnEnumRoute
  <2>1. Receive("EnumRoute") /\ UNCHANGED <<requests, device>>
        /\ staging' = [staging EXCEPT !.routes = staging.routes \o Inactive(Received)]
    BY <1>7 DEF OnEnumRoute, Stage, server
  <2>2. StagedFor("EnumRoute")
    BY <1>2, <2>1, StepTrips
  <2>3. Received \in Seq(Indexes) /\ \E s \in ServerStates : Received = s.routes
    BY <1>1, <2>1, ReceiveTrips, ReceiveTypes
  <2>4. staging'.routes = staging.routes \o Inactive(Received) /\ staging'.profiles = staging.profiles
    BY <1>1, <2>1
  <2>5. staging'.routes = Inactive(Received)
    BY <2>2, <2>3, <2>4, InactiveWhole DEF StagedFor
  <2>6. WholeRoutes(staging'.routes)
    BY <2>3, <2>5, InactiveWhole DEF WholeRoutes
  <2>7. StagedFor("Route")'
    BY <2>2, <2>4, <2>6 DEF StagedFor
  <2>. QED  BY <1>2, <1>3, <2>1, <2>7, StepTrips, ReceiveTrips
<1>8. CASE OnRoute
  <2>1. Receive("Route") /\ UNCHANGED <<requests, device>>
        /\ staging' = [staging EXCEPT !.routes = MarkFirst(staging.routes, ToSet(Received))]
    BY <1>8 DEF OnRoute, Stage, server
  <2>2. StagedFor("Route")
    BY <1>2, <2>1, StepTrips
  <2>3. /\ staging'.routes = MarkFirst(staging.routes, ToSet(Received))
        /\ staging'.profiles = staging.profiles
    BY <1>1, <2>1
  <2>4. Indices(staging'.routes) = Indices(staging.routes)
    BY <1>1, <2>3, MarkFirstIs
  <2>5. WholeRoutes(staging'.routes)
    BY <2>2, <2>4 DEF StagedFor, WholeRoutes
  <2>6. StagedFor("sync")'
    BY <2>2, <2>3, <2>5 DEF StagedFor
  <2>. QED  BY <1>2, <1>3, <2>1, <2>6, StepTrips, ReceiveTrips
<1>9. CASE OnDone
  <2>1. Receive("sync") /\ UNCHANGED requests /\ staging' = NoLists
        /\ device' = [profiles |-> staging.profiles, routes |-> staging.routes, known |-> TRUE]
    BY <1>9 DEF OnDone, Publish, server
  <2>2. StagedFor("sync")
    BY <1>2, <2>1, StepTrips
  <2>3. WholeProfiles(staging.profiles) /\ OneActive(staging.profiles) /\ WholeRoutes(staging.routes)
    BY <2>2 DEF StagedFor
  <2>4. SnapshotsWhole'
    BY <2>1, <2>3 DEF SnapshotsWhole, WholeProfiles, WholeRoutes, OneActive
  <2>5. StagedFor("EnumProfile")'
    BY <2>1 DEF StagedFor
  <2>. QED  BY <1>2, <2>1, <2>4, <2>5, StepTrips, ReceiveTrips
<1>. QED  BY <1>4, <1>5, <1>6, <1>7, <1>8, <1>9 DEF Handle

LEMMA NextTrips == TripsInv /\ [Next]_vars => TripsInv'
<1>. SUFFICES ASSUME TripsInv, [Next]_vars
              PROVE  TripsInv'
  OBVIOUS
<1>1. Types'
  BY NextTypes DEF TripsInv
<1>2. ASSUME UNCHANGED device PROVE SnapshotsWhole'
  BY <1>2 DEF TripsInv, SnapshotsWhole
<1>3. CASE ServerChanges \/ Server
  <2>1. UNCHANGED device
    BY <1>3 DEF ServerChanges, Server, ServerAnswers, ServerSets
  <2>. QED  BY <1>1, <1>2, <1>3, <2>1, ServerTrips DEF TripsInv
<1>4. CASE Handle
  BY <1>1, <1>4, HandleTrips DEF TripsInv
<1>5. CASE UNCHANGED <<requests, messages, staging, device>>
  BY <1>1, <1>2, <1>5 DEF TripsInv, TripsInOrder, StagedFor, AnswersWhole
<1>6. CASE Dispatch \/ LinkNode \/ ShowDevice \/ ShowNode \/ UNCHANGED vars
  <2>1. UNCHANGED <<requests, messages, staging, device>>
    BY <1>6 DEF Dispatch, DeliverProfiles, DeliverRoutes, DeliverNodeRoutes, Deliver,
       LinkNode, ShowDevice, ShowNode, vars, server
  <2>. QED  BY <1>5, <2>1
<1>7. CASE SelectProfile \/ SelectRoute
  <2>1. PICK ask \in {"SetProfile", "SetRoute"}, index \in Indexes : Ask(ask, index)
    <3>1. \A s \in ServerStates : ToSet(s.profiles) \subseteq Indexes
      <4>1. \A s \in ServerStates : s.profiles \in Seq(Indexes)
        BY StateIs
      <4>. QED  BY <4>1, DomainIs DEF ToSet
    <3>. QED  BY <1>7, <3>1, ParamsAssumption DEF SelectProfile, SelectRoute, Indexes
  <2>2. requests' = Append(requests, Request(ask, index)) /\ UNCHANGED <<messages, staging, device>>
    BY <2>1 DEF Ask
  <2>3. Request(ask, index) \in Requests /\ Request(ask, index).ask = ask
    BY DEF Request, Requests
  <2>4. "EnumProfile" \in Steps /\ Passes(ask, "EnumProfile", "EnumProfile")
    BY DEF Passes, Steps
  <2>5. \A b \in Steps : Runs(AsksOf(requests), b, "EnumProfile") => Runs(AsksOf(requests'), b, "EnumProfile")
    <3>1. requests \in Seq(Requests)
      BY DEF TripsInv, Types
    <3>. QED  BY <2>2, <2>3, <2>4, <3>1, RequestsGain
  <2>6. TripsInOrder'
    BY <2>2, <2>5 DEF TripsInv, TripsInOrder, StagedFor
  <2>7. AnswersWhole'
    BY <2>2 DEF TripsInv, AnswersWhole
  <2>. QED  BY <1>1, <1>2, <2>2, <2>6, <2>7 DEF TripsInv
<1>. QED  BY <1>3, <1>4, <1>6, <1>7 DEF Next

\* Requests and messages under way make up whole round trips, and staging holds what
\* has come of the first.
THEOREM TripsHold == Spec => []TripsInv
<1>. QED  BY InitTrips, NextTrips, PTL DEF Spec

\* However many round trips overlap and whatever changes between two requests, the
\* lists of a device are one answer each and have one active profile at most
\* (device.c:26, 356-388, 397-418).
THEOREM SnapshotsAreWhole == Spec => []SnapshotsWhole
<1>1. TripsInv => SnapshotsWhole
  BY DEF TripsInv
<1>. QED  BY <1>1, TripsHold, PTL

(***************************************************************************)
(* Marks: items show what their nodes have, and nodes what the server has. *)
(***************************************************************************)

Posts ==
  [what : {"global"}, of : Sinks \union {Metadata}, val : {Nobody}]
  \union [what : {"info"}, of : Sinks, val : {Nobody}]
  \union [what : {"param"}, of : Sinks, val : BOOLEAN]
  \union [what : {"property"}, of : {Metadata}, val : Sinks]

Orders ==
  [what : {"bind"}, of : Sinks \union {Metadata}, val : {Nobody}]
  \union [what : {"subscribe"}, of : Sinks, val : {Nobody}]
  \union [what : {"set default"}, of : {Metadata}, val : Sinks]
  \union [what : {"mute"}, of : Sinks, val : BOOLEAN]

Notices == [what : {"node", "muted", "marked"}, of : Sinks]
           \union [what : {"default"}, of : SUBSET Sinks]

StructNodes == [mute : BOOLEAN, has_param_props : BOOLEAN, is_default : BOOLEAN,
                has_default : BOOLEAN, default_hook : BOOLEAN]

MarksTypes ==
  /\ default_sink \in Sinks \union {Nobody} /\ muted \in [Sinks -> BOOLEAN]
  /\ calls \in Seq(Orders) /\ inbox \in Seq(Posts) /\ emitted \in Seq(Notices)
  /\ default_metadata \in [bound : BOOLEAN, property : Sinks \union {Nobody}]
  /\ struct_node \in [Sinks -> StructNodes]
  /\ tui_item \in [Sinks -> [shown : BOOLEAN, muted : BOOLEAN, is_default : BOOLEAN]]

\* Events and messages by what they are about.
MutedOf(n)   == {e \in Notices : e.what = "muted" /\ e.of = n}
MarkedOf(n)  == {e \in Notices : e.what = "marked" /\ e.of = n}
DefaultTo(n) == {e \in Notices : e.what = "default" /\ n \in e.of}
ParamOf(n)   == {m \in Posts : m.what = "param" /\ m.of = n}
Properties   == {m \in Posts : m.what = "property"}
MetadataBind == {c \in Orders : c.what = "bind" /\ c.of = Metadata}

Waits(queue, some) == \E i \in 1..Len(queue) : queue[i] \in some

\* With val the last of these messages will have been read.
EndsWith(queue, some, old, val) ==
  \/ ~Waits(queue, some) /\ old = val
  \/ \E i \in 1..Len(queue) :
       /\ queue[i] \in some /\ queue[i].val = val
       /\ \A j \in 1..Len(queue) : queue[j] \in some => j <= i

\* An item that does not show what its node has is about to be told.
ItemsAreTold ==
  \A n \in Sinks :
    /\ tui_item[n].shown =>
         /\ tui_item[n].muted = struct_node[n].mute \/ Waits(emitted, MutedOf(n))
         /\ tui_item[n].is_default = struct_node[n].is_default \/ Waits(emitted, MarkedOf(n))
    /\ ~tui_item[n].shown =>
         /\ ~tui_item[n].muted /\ ~tui_item[n].is_default
         /\ ~Waits(emitted, MutedOf(n)) /\ ~Waits(emitted, MarkedOf(n))
    /\ struct_node[n].mute => struct_node[n].has_param_props
    /\ struct_node[n].is_default => struct_node[n].has_default

\* A node whose mark is not that of the metadata is about to be told.
NodesAreTold ==
  \A n \in Sinks : struct_node[n].default_hook =>
    \/ struct_node[n].is_default <=> default_metadata.property = n
    \/ Waits(emitted, DefaultTo(n))

\* Nothing comes from a metadata that is not bound.
BoundFirst ==
  /\ ~default_metadata.bound =>
       /\ default_metadata.property = Nobody
       /\ \A n \in Sinks : ~struct_node[n].is_default
  /\ \/ Metadata \in subscribed
     \/ Waits(inbox, Properties)
     \/ Waits(calls, MetadataBind)
     => default_metadata.bound

\* What is on its way ends with what the server has.
ServerIsFollowed ==
  /\ \A n \in Sinks : n \in subscribed =>
       EndsWith(inbox, ParamOf(n), struct_node[n].mute, muted[n])
  /\ Metadata \in subscribed /\ default_sink # Nobody =>
       EndsWith(inbox, Properties, default_metadata.property, default_sink)

MarksInv == MarksTypes /\ ItemsAreTold /\ NodesAreTold /\ BoundFirst /\ ServerIsFollowed

-----------------------------------------------------------------------------
(* Facts about queues.                                                     *)

LEMMA WaitsConcat ==
  ASSUME NEW S, NEW q \in Seq(S), NEW r \in Seq(S), NEW some
  PROVE  Waits(q \o r, some) <=> Waits(q, some) \/ Waits(r, some)
<1>1. /\ Len(q) \in Nat /\ Len(r) \in Nat /\ Len(q \o r) = Len(q) + Len(r)
      /\ \A i \in 1..Len(q) + Len(r) : (q \o r)[i] = IF i <= Len(q) THEN q[i] ELSE r[i - Len(q)]
  BY ConcatIs, DomainIs
<1>2. ASSUME NEW i \in 1..Len(q), q[i] \in some PROVE Waits(q \o r, some)
  <2>1. i \in 1..Len(q \o r) /\ (q \o r)[i] = q[i]
    BY <1>1
  <2>. QED  BY <1>2, <2>1 DEF Waits
<1>3. ASSUME NEW i \in 1..Len(r), r[i] \in some PROVE Waits(q \o r, some)
  <2>1. Len(q) + i \in 1..Len(q \o r) /\ (q \o r)[Len(q) + i] = r[i]
    BY <1>1
  <2>. QED  BY <1>3, <2>1 DEF Waits
<1>4. ASSUME NEW i \in 1..Len(q \o r), (q \o r)[i] \in some
      PROVE  Waits(q, some) \/ Waits(r, some)
  <2>1. CASE i <= Len(q)
    <3>1. i \in 1..Len(q) /\ q[i] \in some
      BY <1>1, <1>4, <2>1
    <3>. QED  BY <3>1 DEF Waits
  <2>2. CASE ~(i <= Len(q))
    <3>1. i - Len(q) \in 1..Len(r) /\ r[i - Len(q)] \in some
      BY <1>1, <1>4, <2>2
    <3>. QED  BY <3>1 DEF Waits
  <2>. QED  BY <2>1, <2>2
<1>. QED  BY <1>2, <1>3, <1>4 DEF Waits

LEMMA WaitsOne ==
  ASSUME NEW m, NEW some
  PROVE  Waits(<<m>>, some) <=> m \in some
<1>1. Len(<<m>>) = 1 /\ <<m>>[1] = m
  OBVIOUS
<1>. QED  BY <1>1, SmallRanges DEF Waits

LEMMA WaitsNone ==
  ASSUME NEW some
  PROVE  ~Waits(<<>>, some)
<1>1. Len(<<>>) = 0
  OBVIOUS
<1>. QED  BY <1>1, SmallRanges DEF Waits

LEMMA WaitsTail ==
  ASSUME NEW S, NEW q \in Seq(S), q # <<>>, NEW some
  PROVE  Waits(q, some) <=> Head(q) \in some \/ Waits(Tail(q), some)
<1>1. /\ Len(q) \in Nat \ {0} /\ Len(Tail(q)) = Len(q) - 1 /\ Head(q) = q[1]
      /\ \A i \in 1..Len(q) - 1 : Tail(q)[i] = q[i + 1]
  BY TailIs
<1>2. ASSUME Head(q) \in some PROVE Waits(q, some)
  <2>1. 1 \in 1..Len(q)
    BY <1>1
  <2>. QED  BY <1>1, <1>2, <2>1 DEF Waits
<1>3. ASSUME NEW i \in 1..Len(Tail(q)), Tail(q)[i] \in some PROVE Waits(q, some)
  <2>1. i + 1 \in 1..Len(q) /\ q[i + 1] = Tail(q)[i]
    BY <1>1
  <2>. QED  BY <1>3, <2>1 DEF Waits
<1>4. ASSUME NEW i \in 1..Len(q), q[i] \in some PROVE Head(q) \in some \/ Waits(Tail(q), some)
  <2>1. CASE i = 1
    BY <1>1, <1>4, <2>1
  <2>2. CASE i # 1
    <3>1. i - 1 \in 1..Len(q) - 1 /\ i - 1 + 1 = i
      BY <1>1, <2>2
    <3>2. i - 1 \in 1..Len(Tail(q)) /\ Tail(q)[i - 1] = q[i]
      BY <1>1, <3>1
    <3>. QED  BY <1>4, <3>2 DEF Waits
  <2>. QED  BY <2>1, <2>2
<1>. QED  BY <1>2, <1>3, <1>4 DEF Waits

LEMMA EndsWithOthers ==
  ASSUME NEW S, NEW q \in Seq(S), NEW r \in Seq(S), NEW some, NEW old, NEW val,
         EndsWith(q, some, old, val), ~Waits(r, some)
  PROVE  EndsWith(q \o r, some, old, val)
<1>1. /\ Len(q) \in Nat /\ Len(r) \in Nat /\ Len(q \o r) = Len(q) + Len(r)
      /\ \A i \in 1..Len(q) + Len(r) : (q \o r)[i] = IF i <= Len(q) THEN q[i] ELSE r[i - Len(q)]
  BY ConcatIs, DomainIs
<1>2. CASE ~Waits(q, some) /\ old = val
  BY <1>2, WaitsConcat DEF EndsWith
<1>3. ASSUME NEW i \in 1..Len(q), q[i] \in some, q[i].val = val,
             \A j \in 1..Len(q) : q[j] \in some => j <= i
      PROVE  EndsWith(q \o r, some, old, val)
  <2>1. i \in 1..Len(q \o r) /\ (q \o r)[i] = q[i]
    BY <1>1
  <2>2. ASSUME NEW j \in 1..Len(q \o r), (q \o r)[j] \in some PROVE j <= i
    <3>1. CASE j <= Len(q)
      <4>1. j \in 1..Len(q) /\ q[j] \in some
        BY <1>1, <2>2, <3>1
      <4>. QED  BY <1>3, <4>1
    <3>2. CASE ~(j <= Len(q))
      <4>1. j - Len(q) \in 1..Len(r) /\ r[j - Len(q)] \in some
        BY <1>1, <2>2, <3>2
      <4>. QED  BY <4>1 DEF Waits
    <3>. QED  BY <3>1, <3>2
  <2>. QED  BY <1>3, <2>1, <2>2 DEF EndsWith
<1>. QED  BY <1>2, <1>3 DEF EndsWith

LEMMA EndsWithNewest ==
  ASSUME NEW S, NEW q \in Seq(S), NEW m \in S, NEW some, m \in some, NEW old
  PROVE  EndsWith(q \o <<m>>, some, old, m.val)
<1>1. <<m>> \in Seq(S) /\ Len(<<m>>) = 1 /\ <<m>>[1] = m
  BY OneIs
<1>2. /\ Len(q) \in Nat /\ Len(q \o <<m>>) = Len(q) + 1
      /\ \A i \in 1..Len(q) + 1 : (q \o <<m>>)[i] = IF i <= Len(q) THEN q[i] ELSE <<m>>[i - Len(q)]
  BY <1>1, ConcatIs, DomainIs
<1>3. Len(q) + 1 \in 1..Len(q \o <<m>>) /\ (q \o <<m>>)[Len(q) + 1] = m
  <2>1. Len(q) + 1 \in 1..Len(q) + 1 /\ ~(Len(q) + 1 <= Len(q)) /\ Len(q) + 1 - Len(q) = 1
    BY <1>2
  <2>. QED  BY <1>1, <1>2, <2>1
<1>4. \A j \in 1..Len(q \o <<m>>) : j <= Len(q) + 1
  BY <1>2
<1>. QED  BY <1>3, <1>4 DEF EndsWith

LEMMA EndsWithTail ==
  ASSUME NEW S, NEW q \in Seq(S), q # <<>>, NEW some, NEW old, NEW val,
         EndsWith(q, some, old, val)
  PROVE  /\ Head(q) \in some => EndsWith(Tail(q), some, Head(q).val, val)
         /\ Head(q) \notin some => EndsWith(Tail(q), some, old, val)
<1>1. /\ Len(q) \in Nat \ {0} /\ Len(Tail(q)) = Len(q) - 1 /\ Head(q) = q[1]
      /\ \A i \in 1..Len(q) - 1 : Tail(q)[i] = q[i + 1]
  BY TailIs
<1>2. CASE ~Waits(q, some) /\ old = val
  BY <1>2, WaitsTail DEF EndsWith
<1>3. ASSUME NEW i \in 1..Len(q), q[i] \in some, q[i].val = val,
             \A j \in 1..Len(q) : q[j] \in some => j <= i
      PROVE  /\ Head(q) \in some => EndsWith(Tail(q), some, Head(q).val, val)
             /\ Head(q) \notin some => EndsWith(Tail(q), some, old, val)
  <2>1. ASSUME NEW j \in 1..Len(Tail(q)), Tail(q)[j] \in some PROVE j <= i - 1
    <3>1. j + 1 \in 1..Len(q) /\ q[j + 1] \in some
      BY <1>1, <2>1
    <3>2. j + 1 <= i
      BY <1>3, <3>1
    <3>. QED  BY <3>2
  <2>2. CASE i = 1
    <3>1. ~Waits(Tail(q), some)
      <4>. SUFFICES ASSUME NEW j \in 1..Len(Tail(q)), Tail(q)[j] \in some PROVE FALSE
        BY DEF Waits
      <4>. QED  BY <1>1, <2>1, <2>2
    <3>. QED  BY <1>1, <1>3, <2>2, <3>1 DEF EndsWith
  <2>3. CASE i # 1
    <3>1. i - 1 \in 1..Len(q) - 1 /\ i - 1 + 1 = i
      BY <1>1, <2>3
    <3>2. i - 1 \in 1..Len(Tail(q)) /\ Tail(q)[i - 1] = q[i]
      BY <1>1, <3>1
    <3>. QED  BY <1>3, <2>1, <3>2 DEF EndsWith
  <2>. QED  BY <2>2, <2>3
<1>. QED  BY <1>2, <1>3 DEF EndsWith

-----------------------------------------------------------------------------
(* Facts about messages.                                                   *)

Msg(what, n, val) == [what |-> what, of |-> n, val |-> val]

LEMMA SentIs ==
  ASSUME NEW what, NEW n, NEW val
  PROVE  /\ Sent(what, n, val) = <<Msg(what, n, val)>>
         /\ Msg(what, n, val).what = what /\ Msg(what, n, val).of = n /\ Msg(what, n, val).val = val
  BY DEF Sent, Msg

LEMMA GlobalIs ==
  ASSUME NEW x \in Sinks \union {Metadata}
  PROVE  /\ Msg("global", x, Nobody) \in Posts
         /\ \A n : Msg("global", x, Nobody) \notin ParamOf(n)
         /\ Msg("global", x, Nobody) \notin Properties
<1>1. Msg("global", x, Nobody) \in Posts
  BY DEF Msg, Posts
<1>. QED  BY <1>1 DEF Msg, ParamOf, Properties

LEMMA InfoIs ==
  ASSUME NEW n \in Sinks
  PROVE  /\ Msg("info", n, Nobody) \in Posts
         /\ \A k : Msg("info", n, Nobody) \notin ParamOf(k)
         /\ Msg("info", n, Nobody) \notin Properties
<1>1. Msg("info", n, Nobody) \in Posts
  BY DEF Msg, Posts
<1>. QED  BY <1>1 DEF Msg, ParamOf, Properties

LEMMA ParamIs ==
  ASSUME NEW n \in Sinks, NEW b \in BOOLEAN
  PROVE  /\ Msg("param", n, b) \in Posts
         /\ \A k : Msg("param", n, b) \in ParamOf(k) <=> k = n
         /\ Msg("param", n, b) \notin Properties
<1>1. Msg("param", n, b) \in Posts
  BY DEF Msg, Posts
<1>. QED  BY <1>1 DEF Msg, ParamOf, Properties

LEMMA PropertyIs ==
  ASSUME NEW n \in Sinks
  PROVE  /\ Msg("property", Metadata, n) \in Posts
         /\ \A k : Msg("property", Metadata, n) \notin ParamOf(k)
         /\ Msg("property", Metadata, n) \in Properties
<1>1. Msg("property", Metadata, n) \in Posts
  BY DEF Msg, Posts
<1>. QED  BY <1>1 DEF Msg, ParamOf, Properties

\* What comes, by its kind.
LEMMA PostIs ==
  ASSUME NEW m \in Posts
  PROVE  /\ m.what = "global" => m.of \in Sinks \union {Metadata}
         /\ m.what = "info" => m.of \in Sinks
         /\ m.what = "param" => m.of \in Sinks /\ m.val \in BOOLEAN
         /\ m.what = "property" => m.val \in Sinks
         /\ \A k : m \in ParamOf(k) <=> m.what = "param" /\ m.of = k
         /\ m \in Properties <=> m.what = "property"
<1>1. \A k : m \in ParamOf(k) <=> m.what = "param" /\ m.of = k
  BY DEF ParamOf
<1>2. m \in Properties <=> m.what = "property"
  BY DEF Properties
<1>. QED  BY <1>1, <1>2 DEF Posts

LEMMA OrderIs ==
  ASSUME NEW c \in Orders
  PROVE  /\ c.what = "bind" => c.of \in Sinks \union {Metadata}
         /\ c.what = "subscribe" => c.of \in Sinks
         /\ c.what = "set default" => c.val \in Sinks
         /\ c.what = "mute" => c.of \in Sinks /\ c.val \in BOOLEAN
         /\ c.what \in {"bind", "subscribe", "set default", "mute"}
         /\ c \in MetadataBind <=> c.what = "bind" /\ c.of = Metadata
<1>1. c \in MetadataBind <=> c.what = "bind" /\ c.of = Metadata
  BY DEF MetadataBind
<1>. QED  BY <1>1 DEF Orders

LEMMA OrdersAre ==
  /\ \A x \in Sinks \union {Metadata} : Msg("bind", x, Nobody) \in Orders
  /\ \A n \in Sinks : /\ Msg("bind", n, Nobody) \notin MetadataBind
                      /\ Msg("subscribe", n, Nobody) \in Orders
                      /\ Msg("subscribe", n, Nobody) \notin MetadataBind
                      /\ Msg("set default", Metadata, n) \in Orders
                      /\ Msg("set default", Metadata, n) \notin MetadataBind
                      /\ \A b \in BOOLEAN : /\ Msg("mute", n, b) \in Orders
                                           /\ Msg("mute", n, b) \notin MetadataBind
<1>1. ASSUME NEW x \in Sinks \union {Metadata} PROVE Msg("bind", x, Nobody) \in Orders
  BY DEF Msg, Orders
<1>2. ASSUME NEW n \in Sinks
      PROVE  /\ Msg("subscribe", n, Nobody) \in Orders
             /\ Msg("set default", Metadata, n) \in Orders
             /\ \A b \in BOOLEAN : Msg("mute", n, b) \in Orders
  BY DEF Msg, Orders
<1>3. ASSUME NEW n \in Sinks, NEW b
      PROVE  /\ Msg("bind", n, Nobody) \notin MetadataBind
             /\ Msg("subscribe", n, Nobody) \notin MetadataBind
             /\ Msg("set default", Metadata, n) \notin MetadataBind
             /\ Msg("mute", n, b) \notin MetadataBind
  <2>1. n # Metadata
    BY MarksAssumption
  <2>. QED  BY <2>1 DEF Msg, MetadataBind
<1>. QED  BY <1>1, <1>2, <1>3

-----------------------------------------------------------------------------
(* The server.                                                             *)

\* What the server sends leaves the rest of the invariant alone.
LEMMA ServerStep ==
  ASSUME MarksInv, UNCHANGED <<default_metadata, struct_node, tui_item, emitted>>,
         default_sink' \in Sinks \union {Nobody}, muted' \in [Sinks -> BOOLEAN],
         inbox' \in Seq(Posts), calls' \in Seq(Orders),
         \/ Metadata \in subscribed'
         \/ Waits(inbox', Properties)
         \/ Waits(calls', MetadataBind)
         => default_metadata.bound,
         ServerIsFollowed'
  PROVE  MarksInv'
<1>1. MarksTypes'
  BY DEF MarksInv, MarksTypes
<1>2. ItemsAreTold' /\ NodesAreTold'
  BY DEF MarksInv, ItemsAreTold, NodesAreTold, MutedOf, MarkedOf, DefaultTo
<1>3. BoundFirst'
  BY DEF MarksInv, BoundFirst, Properties, MetadataBind
<1>. QED  BY <1>1, <1>2, <1>3 DEF MarksInv

LEMMA ExportMarks ==
  ASSUME MarksInv, NEW x \in Sinks \union {Metadata}, Export(x)
  PROVE  MarksInv'
<1>. DEFINE m == Msg("global", x, Nobody)
<1>1. /\ inbox' = inbox \o <<m>>
      /\ UNCHANGED <<default_sink, muted, subscribed, calls, default_metadata,
                     struct_node, tui_item, emitted>>
  BY SentIs DEF Export
<1>2. m \in Posts /\ m \notin Properties /\ \A n : m \notin ParamOf(n)
  BY GlobalIs
<1>. HIDE DEF m
<1>3. inbox \in Seq(Posts) /\ <<m>> \in Seq(Posts) /\ inbox' \in Seq(Posts)
  BY <1>1, <1>2, OneIs, ConcatIs DEF MarksInv, MarksTypes
<1>4. ~Waits(<<m>>, Properties) /\ \A n : ~Waits(<<m>>, ParamOf(n))
  BY <1>2, WaitsOne
<1>5. Waits(inbox', Properties) <=> Waits(inbox, Properties)
  BY <1>1, <1>3, <1>4, WaitsConcat
<1>6. ServerIsFollowed'
  <2>1. ASSUME NEW n \in Sinks, n \in subscribed
        PROVE  EndsWith(inbox', ParamOf(n), struct_node[n].mute, muted[n])
    <3>1. EndsWith(inbox, ParamOf(n), struct_node[n].mute, muted[n])
      BY <2>1 DEF MarksInv, ServerIsFollowed
    <3>. QED  BY <1>1, <1>3, <1>4, <3>1, EndsWithOthers
  <2>2. ASSUME Metadata \in subscribed, default_sink # Nobody
        PROVE  EndsWith(inbox', Properties, default_metadata.property, default_sink)
    <3>1. EndsWith(inbox, Properties, default_metadata.property, default_sink)
      BY <2>2 DEF MarksInv, ServerIsFollowed
    <3>. QED  BY <1>1, <1>3, <1>4, <3>1, EndsWithOthers
  <2>. QED  BY <1>1, <2>1, <2>2 DEF ServerIsFollowed, ParamOf, Properties
<1>. QED  BY <1>1, <1>3, <1>5, <1>6, ServerStep DEF MarksInv, MarksTypes, BoundFirst

\* The server's default or a mute changes.
LEMMA DefaultBecomesMarks ==
  ASSUME MarksInv, NEW n \in Sinks \union {Nobody}, DefaultBecomes(n),
         UNCHANGED <<muted, subscribed, default_metadata, struct_node>>
  PROVE  /\ default_sink' \in Sinks \union {Nobody} /\ inbox' \in Seq(Posts)
         /\ Waits(inbox', Properties) => default_metadata.bound
         /\ ServerIsFollowed'
<1>1. default_sink' = n /\ inbox \in Seq(Posts)
  BY DEF DefaultBecomes, MarksInv, MarksTypes
<1>2. CASE Metadata \in subscribed /\ n # default_sink /\ n # Nobody
  <2>. DEFINE m == Msg("property", Metadata, n)
  <2>1. inbox' = inbox \o <<m>> /\ n \in Sinks
    BY <1>2, SentIs, SMTT(30) DEF DefaultBecomes
  <2>2. m \in Posts /\ m \in Properties /\ m.val = n /\ \A k : m \notin ParamOf(k)
    BY <2>1, PropertyIs, SentIs
  <2>. HIDE DEF m
  <2>3. <<m>> \in Seq(Posts) /\ inbox' \in Seq(Posts)
    BY <1>1, <2>1, <2>2, OneIs, ConcatIs
  <2>4. default_metadata.bound
    BY <1>2 DEF MarksInv, BoundFirst
  <2>5. EndsWith(inbox', Properties, default_metadata.property, default_sink')
    BY <1>1, <2>1, <2>2, EndsWithNewest
  <2>6. ASSUME NEW k \in Sinks, k \in subscribed
        PROVE  EndsWith(inbox', ParamOf(k), struct_node[k].mute, muted[k])
    <3>1. EndsWith(inbox, ParamOf(k), struct_node[k].mute, muted[k])
      BY <2>6 DEF MarksInv, ServerIsFollowed
    <3>2. ~Waits(<<m>>, ParamOf(k))
      BY <2>2, WaitsOne
    <3>. QED  BY <1>1, <2>1, <2>3, <3>1, <3>2, EndsWithOthers
  <2>. QED  BY <1>1, <2>3, <2>4, <2>5, <2>6 DEF ServerIsFollowed, ParamOf, Properties
<1>3. CASE ~(Metadata \in subscribed /\ n # default_sink /\ n # Nobody)
  <2>1. inbox' = inbox
    <3>1. inbox' = inbox \o <<>>
      BY <1>3 DEF DefaultBecomes
    <3>. QED  BY <1>1, <3>1, ConcatEmptySeq
  <2>2. Metadata \in subscribed /\ n # Nobody => default_sink' = default_sink
    BY <1>1, <1>3
  <2>3. ServerIsFollowed'
    BY <1>1, <2>1, <2>2 DEF MarksInv, ServerIsFollowed, ParamOf, Properties
  <2>. QED  BY <1>1, <2>1, <2>3 DEF MarksInv, BoundFirst
<1>. QED  BY <1>2, <1>3

LEMMA MutedBecomesMarks ==
  ASSUME MarksInv, NEW n \in Sinks, NEW b \in BOOLEAN, MutedBecomes(n, b),
         UNCHANGED <<default_sink, subscribed, default_metadata, struct_node>>
  PROVE  /\ muted' \in [Sinks -> BOOLEAN] /\ inbox' \in Seq(Posts)
         /\ Waits(inbox', Properties) => default_metadata.bound
         /\ ServerIsFollowed'
<1>1. /\ muted' = [muted EXCEPT ![n] = b] /\ inbox \in Seq(Posts)
      /\ muted \in [Sinks -> BOOLEAN] /\ muted' \in [Sinks -> BOOLEAN]
  BY DEF MutedBecomes, MarksInv, MarksTypes
<1>2. CASE n \in subscribed /\ b # muted[n]
  <2>. DEFINE m == Msg("param", n, b)
  <2>1. inbox' = inbox \o <<m>>
    <3>1. Sent("param", n, b) = <<m>>
      BY SentIs
    <3>2. inbox' = inbox \o Sent("param", n, b)
      BY <1>2, Zenon DEF MutedBecomes
    <3>. QED  BY <3>1, <3>2
  <2>2. m \in Posts /\ m \notin Properties /\ m.val = b /\ \A k : m \in ParamOf(k) <=> k = n
    BY ParamIs, SentIs
  <2>. HIDE DEF m
  <2>3. <<m>> \in Seq(Posts) /\ inbox' \in Seq(Posts)
    BY <1>1, <2>1, <2>2, OneIs, ConcatIs
  <2>4. ~Waits(<<m>>, Properties)
    BY <2>2, WaitsOne
  <2>5. Waits(inbox', Properties) => default_metadata.bound
    BY <1>1, <2>1, <2>3, <2>4, WaitsConcat DEF MarksInv, BoundFirst
  <2>6. ASSUME NEW k \in Sinks, k \in subscribed
        PROVE  EndsWith(inbox', ParamOf(k), struct_node[k].mute, muted'[k])
    <3>1. EndsWith(inbox, ParamOf(k), struct_node[k].mute, muted[k])
      BY <2>6 DEF MarksInv, ServerIsFollowed
    <3>2. CASE k = n
      <4>1. m \in ParamOf(k) /\ muted'[k] = m.val
        BY <1>1, <2>2, <3>2
      <4>. QED  BY <1>1, <2>1, <2>2, <4>1, EndsWithNewest
    <3>3. CASE k # n
      <4>1. ~Waits(<<m>>, ParamOf(k)) /\ muted'[k] = muted[k]
        BY <1>1, <2>2, <3>3, WaitsOne
      <4>. QED  BY <1>1, <2>1, <2>3, <3>1, <4>1, EndsWithOthers
    <3>. QED  BY <3>2, <3>3
  <2>7. ASSUME Metadata \in subscribed, default_sink # Nobody
        PROVE  EndsWith(inbox', Properties, default_metadata.property, default_sink)
    <3>1. EndsWith(inbox, Properties, default_metadata.property, default_sink)
      BY <2>7 DEF MarksInv, ServerIsFollowed
    <3>. QED  BY <1>1, <2>1, <2>3, <2>4, <3>1, EndsWithOthers
  <2>. QED  BY <1>1, <2>3, <2>5, <2>6, <2>7 DEF ServerIsFollowed, ParamOf, Properties
<1>3. CASE ~(n \in subscribed /\ b # muted[n])
  <2>1. inbox' = inbox
    <3>1. inbox' = inbox \o <<>>
      BY <1>3 DEF MutedBecomes
    <3>. QED  BY <1>1, <3>1, ConcatEmptySeq
  <2>2. \A k \in Sinks : k \in subscribed => muted'[k] = muted[k]
    BY <1>1, <1>3
  <2>3. ServerIsFollowed'
    BY <1>1, <2>1, <2>2 DEF MarksInv, ServerIsFollowed, ParamOf, Properties
  <2>. QED  BY <1>1, <2>1, <2>3 DEF MarksInv, BoundFirst
<1>. QED  BY <1>2, <1>3

LEMMA ServerHandlesMarks ==
  ASSUME MarksInv, ServerHandles
  PROVE  MarksInv'
<1>. DEFINE call == Head(calls)
<1>1. /\ calls # <<>> /\ calls' = Tail(calls)
      /\ UNCHANGED <<exported, foreign, default_metadata, struct_node, tui_item, emitted>>
  BY DEF ServerHandles
<1>2. /\ calls \in Seq(Orders) /\ inbox \in Seq(Posts)
      /\ default_sink \in Sinks \union {Nobody} /\ muted \in [Sinks -> BOOLEAN]
  BY DEF MarksInv, MarksTypes
<1>3. call \in Orders /\ calls' \in Seq(Orders)
  BY <1>1, <1>2, TailIs
<1>4. Waits(calls, MetadataBind) <=> call \in MetadataBind \/ Waits(calls', MetadataBind)
  BY <1>1, <1>2, WaitsTail
<1>5. /\ Metadata \in subscribed \/ Waits(inbox, Properties) \/ Waits(calls', MetadataBind)
           => default_metadata.bound
      /\ call \in MetadataBind => default_metadata.bound
  BY <1>4 DEF MarksInv, BoundFirst
<1>6. /\ \A n \in Sinks : n \in subscribed =>
           EndsWith(inbox, ParamOf(n), struct_node[n].mute, muted[n])
      /\ Metadata \in subscribed /\ default_sink # Nobody =>
           EndsWith(inbox, Properties, default_metadata.property, default_sink)
  BY DEF MarksInv, ServerIsFollowed
<1>7. CASE call.what = "bind" /\ call.of = Metadata
  <2>1. /\ subscribed' = subscribed \union {Metadata} /\ UNCHANGED <<default_sink, muted>>
        /\ inbox' = inbox \o IF default_sink = Nobody THEN <<>>
                             ELSE Sent("property", Metadata, default_sink)
    BY <1>7 DEF ServerHandles
  <2>2. default_metadata.bound
    BY <1>3, <1>5, <1>7, OrderIs
  <2>3. \A n \in Sinks : n \in subscribed' => n \in subscribed
    BY <2>1, MarksAssumption
  <2>4. CASE default_sink = Nobody
    <3>1. inbox' = inbox
      BY <1>2, <2>1, <2>4, ConcatEmptySeq
    <3>2. ServerIsFollowed'
      BY <1>1, <1>6, <2>1, <2>3, <2>4, <3>1 DEF ServerIsFollowed, ParamOf, Properties
    <3>. QED  BY <1>1, <1>2, <1>3, <2>1, <2>2, <3>1, <3>2, ServerStep
  <2>5. CASE default_sink # Nobody
    <3>. DEFINE m == Msg("property", Metadata, default_sink)
    <3>1. inbox' = inbox \o <<m>> /\ default_sink \in Sinks
      <4>1. Sent("property", Metadata, default_sink) = <<m>>
        BY SentIs
      <4>2. inbox' = inbox \o Sent("property", Metadata, default_sink)
        BY <2>1, <2>5, Zenon
      <4>3. default_sink \in Sinks
        BY <1>2, <2>5, Zenon
      <4>. QED  BY <4>1, <4>2, <4>3, Zenon
    <3>2. m \in Posts /\ m \in Properties /\ m.val = default_sink /\ \A k : m \notin ParamOf(k)
      BY <3>1, PropertyIs, SentIs
    <3>. HIDE DEF m
    <3>3. <<m>> \in Seq(Posts) /\ inbox' \in Seq(Posts)
      BY <1>2, <3>1, <3>2, OneIs, ConcatIs
    <3>4. EndsWith(inbox', Properties, default_metadata.property, default_sink)
      BY <1>2, <3>1, <3>2, EndsWithNewest
    <3>5. ASSUME NEW k \in Sinks, k \in subscribed'
          PROVE  EndsWith(inbox', ParamOf(k), struct_node[k].mute, muted[k])
      <4>1. ~Waits(<<m>>, ParamOf(k))
        BY <3>2, WaitsOne
      <4>2. EndsWith(inbox, ParamOf(k), struct_node[k].mute, muted[k])
        BY <1>6, <2>3, <3>5
      <4>. QED  BY <1>2, <3>1, <3>3, <4>1, <4>2, EndsWithOthers
    <3>6. ServerIsFollowed'
      BY <1>1, <2>1, <3>4, <3>5 DEF ServerIsFollowed, ParamOf, Properties
    <3>. QED  BY <1>1, <1>2, <1>3, <2>1, <2>2, <3>3, <3>6, ServerStep
  <2>. QED  BY <2>4, <2>5
<1>8. CASE call.what = "bind" /\ call.of # Metadata
  <2>. DEFINE m == Msg("info", call.of, Nobody)
  <2>1. /\ inbox' = inbox \o <<m>> /\ UNCHANGED <<default_sink, muted, subscribed>>
    <3>1. Sent("info", call.of, Nobody) = <<m>>
      BY SentIs
    <3>2. /\ inbox' = inbox \o Sent("info", call.of, Nobody)
          /\ UNCHANGED <<default_sink, muted, subscribed>>
      BY <1>8 DEF ServerHandles
    <3>. QED  BY <3>1, <3>2, Zenon
  <2>2. call.of \in Sinks
    BY <1>3, <1>8, OrderIs
  <2>3. m \in Posts /\ m \notin Properties /\ \A k : m \notin ParamOf(k)
    BY <2>2, InfoIs
  <2>. HIDE DEF m
  <2>4. <<m>> \in Seq(Posts) /\ inbox' \in Seq(Posts)
    BY <1>2, <2>1, <2>3, OneIs, ConcatIs
  <2>5. ~Waits(<<m>>, Properties) /\ \A n : ~Waits(<<m>>, ParamOf(n))
    BY <2>3, WaitsOne
  <2>6. Waits(inbox', Properties) <=> Waits(inbox, Properties)
    BY <1>2, <2>1, <2>4, <2>5, WaitsConcat
  <2>7. ASSUME NEW n \in Sinks, n \in subscribed
        PROVE  EndsWith(inbox', ParamOf(n), struct_node[n].mute, muted[n])
    BY <1>2, <1>6, <2>1, <2>4, <2>5, <2>7, EndsWithOthers
  <2>8. ASSUME Metadata \in subscribed, default_sink # Nobody
        PROVE  EndsWith(inbox', Properties, default_metadata.property, default_sink)
    BY <1>2, <1>6, <2>1, <2>4, <2>5, <2>8, EndsWithOthers
  <2>9. ServerIsFollowed'
    BY <1>1, <2>1, <2>7, <2>8 DEF ServerIsFollowed, ParamOf, Properties
  <2>. QED  BY <1>1, <1>2, <1>3, <1>5, <2>1, <2>4, <2>6, <2>9, ServerStep
<1>9. CASE call.what = "subscribe"
  <2>. DEFINE n == call.of
              m == Msg("param", n, muted[n])
  <2>1. /\ subscribed' = subscribed \union {n} /\ UNCHANGED <<default_sink, muted>>
        /\ inbox' = inbox \o <<m>>
    <3>1. Sent("param", n, muted[n]) = <<m>>
      BY SentIs
    <3>2. /\ subscribed' = subscribed \union {n} /\ UNCHANGED <<default_sink, muted>>
          /\ inbox' = inbox \o Sent("param", n, muted[n])
      BY <1>9 DEF ServerHandles
    <3>. QED  BY <3>1, <3>2, Zenon
  <2>2. n \in Sinks /\ muted[n] \in BOOLEAN /\ n # Metadata
    BY <1>2, <1>3, <1>9, OrderIs, MarksAssumption
  <2>3. m \in Posts /\ m \notin Properties /\ m.val = muted[n] /\ \A k : m \in ParamOf(k) <=> k = n
    BY <2>2, ParamIs, SentIs
  <2>. HIDE DEF m
  <2>4. <<m>> \in Seq(Posts) /\ inbox' \in Seq(Posts)
    BY <1>2, <2>1, <2>3, OneIs, ConcatIs
  <2>5. ~Waits(<<m>>, Properties)
    BY <2>3, WaitsOne
  <2>6. Waits(inbox', Properties) <=> Waits(inbox, Properties)
    BY <1>2, <2>1, <2>4, <2>5, WaitsConcat
  <2>7. ASSUME NEW k \in Sinks, k \in subscribed'
        PROVE  EndsWith(inbox', ParamOf(k), struct_node[k].mute, muted[k])
    <3>1. CASE k = n
      <4>1. m \in ParamOf(k) /\ muted[k] = m.val
        BY <2>3, <3>1
      <4>. QED  BY <1>2, <2>1, <2>3, <4>1, EndsWithNewest
    <3>2. CASE k # n
      <4>1. ~Waits(<<m>>, ParamOf(k)) /\ k \in subscribed
        BY <2>1, <2>3, <2>7, <3>2, WaitsOne
      <4>. QED  BY <1>2, <1>6, <2>1, <2>4, <4>1, EndsWithOthers
    <3>. QED  BY <3>1, <3>2
  <2>8. ASSUME Metadata \in subscribed', default_sink # Nobody
        PROVE  EndsWith(inbox', Properties, default_metadata.property, default_sink)
    <3>1. Metadata \in subscribed
      BY <2>1, <2>2, <2>8
    <3>. QED  BY <1>2, <1>6, <2>1, <2>4, <2>5, <2>8, <3>1, EndsWithOthers
  <2>9. ServerIsFollowed'
    BY <1>1, <2>1, <2>7, <2>8 DEF ServerIsFollowed, ParamOf, Properties
  <2>10. Metadata \in subscribed' => Metadata \in subscribed
    BY <2>1, <2>2
  <2>. QED  BY <1>1, <1>2, <1>3, <1>5, <2>1, <2>4, <2>6, <2>9, <2>10, ServerStep
<1>10. CASE call.what = "set default"
  <2>1. DefaultBecomes(call.val) /\ UNCHANGED <<muted, subscribed>>
    BY <1>10 DEF ServerHandles
  <2>2. call.val \in Sinks \union {Nobody}
    BY <1>3, <1>10, OrderIs
  <2>3. /\ default_sink' \in Sinks \union {Nobody} /\ inbox' \in Seq(Posts)
        /\ Waits(inbox', Properties) => default_metadata.bound
        /\ ServerIsFollowed'
    BY <1>1, <2>1, <2>2, DefaultBecomesMarks
  <2>. QED  BY <1>1, <1>2, <1>3, <1>5, <2>1, <2>3, ServerStep
<1>11. CASE call.what = "mute"
  <2>1. MutedBecomes(call.of, call.val) /\ UNCHANGED <<default_sink, subscribed>>
    BY <1>11 DEF ServerHandles
  <2>2. call.of \in Sinks /\ call.val \in BOOLEAN
    BY <1>3, <1>11, OrderIs
  <2>3. /\ muted' \in [Sinks -> BOOLEAN] /\ inbox' \in Seq(Posts)
        /\ Waits(inbox', Properties) => default_metadata.bound
        /\ ServerIsFollowed'
    BY <1>1, <2>1, <2>2, MutedBecomesMarks
  <2>. QED  BY <1>1, <1>2, <1>3, <1>5, <2>1, <2>3, ServerStep
<1>. QED  BY <1>3, <1>7, <1>8, <1>9, <1>10, <1>11, OrderIs

LEMMA NegationIs == \A b : (~b) \in BOOLEAN
OBVIOUS

LEMMA ForeignMarks ==
  ASSUME MarksInv, ForeignChange
  PROVE  MarksInv'
<1>1. UNCHANGED <<subscribed, calls, default_metadata, struct_node, tui_item, emitted>>
  BY DEF ForeignChange
<1>2. /\ calls \in Seq(Orders) /\ default_sink \in Sinks \union {Nobody}
      /\ muted \in [Sinks -> BOOLEAN]
      /\ Metadata \in subscribed \/ Waits(calls, MetadataBind) => default_metadata.bound
  BY DEF MarksInv, MarksTypes, BoundFirst
<1>3. ASSUME NEW n \in Sinks \union {Nobody}, DefaultBecomes(n), UNCHANGED muted
      PROVE  MarksInv'
  <2>1. /\ default_sink' \in Sinks \union {Nobody} /\ inbox' \in Seq(Posts)
        /\ Waits(inbox', Properties) => default_metadata.bound
        /\ ServerIsFollowed'
    BY <1>1, <1>3, DefaultBecomesMarks
  <2>. QED  BY <1>1, <1>2, <1>3, <2>1, ServerStep
<1>4. ASSUME NEW n \in Sinks, MutedBecomes(n, ~muted[n]), UNCHANGED default_sink
      PROVE  MarksInv'
  <2>1. (~muted[n]) \in BOOLEAN
    BY NegationIs
  <2>2. /\ muted' \in [Sinks -> BOOLEAN] /\ inbox' \in Seq(Posts)
        /\ Waits(inbox', Properties) => default_metadata.bound
        /\ ServerIsFollowed'
    BY <1>1, <1>4, <2>1, MutedBecomesMarks
  <2>. QED  BY <1>1, <1>2, <1>4, <2>2, ServerStep
<1>. QED  BY <1>3, <1>4 DEF ForeignChange

-----------------------------------------------------------------------------
(* Messages that are read.                                                 *)

\* Notices, by their kind.
LEMMA NoticeIs ==
  ASSUME NEW n \in Sinks
  PROVE  /\ Queued("node", n) \in Seq(Notices)
         /\ Queued("muted", n) \in Seq(Notices)
         /\ Queued("marked", n) \in Seq(Notices)
         /\ \A k : Waits(Queued("muted", n), MutedOf(k)) <=> k = n
         /\ \A k : Waits(Queued("marked", n), MarkedOf(k)) <=> k = n
         /\ \A k : ~Waits(Queued("muted", n), MarkedOf(k))
         /\ \A k : ~Waits(Queued("marked", n), MutedOf(k))
         /\ \A k : ~Waits(Queued("node", n), MutedOf(k)) /\ ~Waits(Queued("node", n), MarkedOf(k))
<1>. DEFINE node_event == [what |-> "node", of |-> n]
            mute_event == [what |-> "muted", of |-> n]
            mark_event == [what |-> "marked", of |-> n]
<1>1. node_event \in Notices /\ mute_event \in Notices /\ mark_event \in Notices
  BY DEF Notices
<1>2. ASSUME NEW k
      PROVE  /\ mute_event \in MutedOf(k) <=> k = n
             /\ mark_event \in MarkedOf(k) <=> k = n
             /\ mute_event \notin MarkedOf(k) /\ mark_event \notin MutedOf(k)
             /\ node_event \notin MutedOf(k) /\ node_event \notin MarkedOf(k)
  BY <1>1 DEF MutedOf, MarkedOf
<1>3. /\ Queued("node", n) = <<node_event>> /\ Queued("muted", n) = <<mute_event>>
      /\ Queued("marked", n) = <<mark_event>>
  BY DEF Queued
<1>. HIDE DEF node_event, mute_event, mark_event
<1>4. /\ <<node_event>> \in Seq(Notices) /\ <<mute_event>> \in Seq(Notices)
      /\ <<mark_event>> \in Seq(Notices)
  BY <1>1, OneIs
<1>5. ASSUME NEW k
      PROVE  /\ Waits(<<mute_event>>, MutedOf(k)) <=> k = n
             /\ Waits(<<mark_event>>, MarkedOf(k)) <=> k = n
             /\ ~Waits(<<mute_event>>, MarkedOf(k)) /\ ~Waits(<<mark_event>>, MutedOf(k))
             /\ ~Waits(<<node_event>>, MutedOf(k)) /\ ~Waits(<<node_event>>, MarkedOf(k))
  BY <1>2, WaitsOne
<1>. QED  BY <1>3, <1>4, <1>5, Zenon

LEMMA DefaultNoticeIs ==
  ASSUME NEW to \in SUBSET Sinks
  PROVE  /\ QueuedDefault(to) \in Seq(Notices)
         /\ \A k : Waits(QueuedDefault(to), DefaultTo(k)) <=> k \in to
         /\ \A k : ~Waits(QueuedDefault(to), MutedOf(k)) /\ ~Waits(QueuedDefault(to), MarkedOf(k))
<1>. DEFINE e == [what |-> "default", of |-> to]
<1>1. e \in Notices
  BY DEF Notices
<1>2. ASSUME NEW k
      PROVE  /\ e \in DefaultTo(k) <=> k \in to
             /\ e \notin MutedOf(k) /\ e \notin MarkedOf(k)
  BY <1>1 DEF DefaultTo, MutedOf, MarkedOf
<1>3. QueuedDefault(to) = <<e>>
  BY DEF QueuedDefault
<1>. HIDE DEF e
<1>4. <<e>> \in Seq(Notices)
  BY <1>1, OneIs
<1>. QED  BY <1>2, <1>3, <1>4, WaitsOne

\* What is read is gone, and what comes after it ends as before.
LEMMA ReadIs ==
  ASSUME MarksInv, inbox # <<>>, inbox' = Tail(inbox)
  PROVE  /\ Incoming \in Posts /\ inbox' \in Seq(Posts)
         /\ Waits(inbox, Properties) <=> Incoming.what = "property" \/ Waits(inbox', Properties)
         /\ \A n \in Sinks : n \in subscribed =>
              IF Incoming.what = "param" /\ Incoming.of = n
              THEN EndsWith(inbox', ParamOf(n), Incoming.val, muted[n])
              ELSE EndsWith(inbox', ParamOf(n), struct_node[n].mute, muted[n])
         /\ Metadata \in subscribed /\ default_sink # Nobody =>
              IF Incoming.what = "property"
              THEN EndsWith(inbox', Properties, Incoming.val, default_sink)
              ELSE EndsWith(inbox', Properties, default_metadata.property, default_sink)
<1>1. inbox \in Seq(Posts)
  BY DEF MarksInv, MarksTypes
<1>2. Incoming \in Posts /\ inbox' \in Seq(Posts)
  BY <1>1, TailIs DEF Incoming
<1>3. /\ \A k : Incoming \in ParamOf(k) <=> Incoming.what = "param" /\ Incoming.of = k
      /\ Incoming \in Properties <=> Incoming.what = "property"
  BY <1>2, PostIs
<1>4. Waits(inbox, Properties) <=> Incoming.what = "property" \/ Waits(inbox', Properties)
  BY <1>1, <1>3, WaitsTail DEF Incoming
<1>5. ASSUME NEW n \in Sinks, n \in subscribed
      PROVE  IF Incoming.what = "param" /\ Incoming.of = n
             THEN EndsWith(inbox', ParamOf(n), Incoming.val, muted[n])
             ELSE EndsWith(inbox', ParamOf(n), struct_node[n].mute, muted[n])
  <2>1. EndsWith(inbox, ParamOf(n), struct_node[n].mute, muted[n])
    BY <1>5 DEF MarksInv, ServerIsFollowed
  <2>2. /\ Head(inbox) \in ParamOf(n) => EndsWith(Tail(inbox), ParamOf(n), Head(inbox).val, muted[n])
        /\ Head(inbox) \notin ParamOf(n) =>
             EndsWith(Tail(inbox), ParamOf(n), struct_node[n].mute, muted[n])
    BY <1>1, <2>1, EndsWithTail
  <2>. QED  BY <1>3, <2>2 DEF Incoming
<1>6. ASSUME Metadata \in subscribed, default_sink # Nobody
      PROVE  IF Incoming.what = "property"
             THEN EndsWith(inbox', Properties, Incoming.val, default_sink)
             ELSE EndsWith(inbox', Properties, default_metadata.property, default_sink)
  <2>1. EndsWith(inbox, Properties, default_metadata.property, default_sink)
    BY <1>6 DEF MarksInv, ServerIsFollowed
  <2>2. /\ Head(inbox) \in Properties => EndsWith(Tail(inbox), Properties, Head(inbox).val, default_sink)
        /\ Head(inbox) \notin Properties =>
             EndsWith(Tail(inbox), Properties, default_metadata.property, default_sink)
    BY <1>1, <2>1, EndsWithTail
  <2>. QED  BY <1>3, <2>2 DEF Incoming
<1>. QED  BY <1>2, <1>4, <1>5, <1>6

\* A call that is not a bind of the metadata.
LEMMA CallIs ==
  ASSUME MarksInv, NEW what, NEW n, NEW val, Msg(what, n, val) \in Orders,
         calls' = calls \o Sent(what, n, val)
  PROVE  /\ calls' \in Seq(Orders)
         /\ Waits(calls', MetadataBind) <=>
              Waits(calls, MetadataBind) \/ Msg(what, n, val) \in MetadataBind
<1>. DEFINE c == Msg(what, n, val)
<1>1. calls' = calls \o <<c>> /\ c \in Orders
  <2>1. Sent(what, n, val) = <<c>>
    BY SentIs
  <2>. QED  BY <2>1, Zenon
<1>. HIDE DEF c
<1>2. calls \in Seq(Orders) /\ <<c>> \in Seq(Orders)
  BY <1>1, OneIs DEF MarksInv, MarksTypes
<1>3. calls' \in Seq(Orders)
  BY <1>1, <1>2, ConcatIs
<1>4. Waits(calls', MetadataBind) <=> Waits(calls, MetadataBind) \/ Waits(<<c>>, MetadataBind)
  <2>1. Waits(calls \o <<c>>, MetadataBind) <=>
          Waits(calls, MetadataBind) \/ Waits(<<c>>, MetadataBind)
    BY <1>2, WaitsConcat
  <2>. QED  BY <1>1, <2>1, Zenon
<1>5. Waits(<<c>>, MetadataBind) <=> c \in MetadataBind
  BY WaitsOne
<1>. QED  BY <1>3, <1>4, <1>5 DEF c

\* More is queued.
LEMMA QueueIs ==
  ASSUME MarksInv, NEW more \in Seq(Notices), emitted' = emitted \o more
  PROVE  /\ emitted' \in Seq(Notices)
         /\ \A n : /\ Waits(emitted', MutedOf(n)) <=> Waits(emitted, MutedOf(n)) \/ Waits(more, MutedOf(n))
                   /\ Waits(emitted', MarkedOf(n)) <=> Waits(emitted, MarkedOf(n)) \/ Waits(more, MarkedOf(n))
                   /\ Waits(emitted', DefaultTo(n)) <=> Waits(emitted, DefaultTo(n)) \/ Waits(more, DefaultTo(n))
<1>1. emitted \in Seq(Notices)
  BY DEF MarksInv, MarksTypes
<1>. QED  BY <1>1, ConcatIs, WaitsConcat

\* Items and nodes stay, and what is queued is not about marks.
LEMMA ItemsStay ==
  ASSUME MarksInv, NEW more \in Seq(Notices), emitted' = emitted \o more,
         \A n \in Sinks : ~Waits(more, MutedOf(n)) /\ ~Waits(more, MarkedOf(n)),
         UNCHANGED tui_item,
         \A n \in Sinks : /\ struct_node'[n].mute = struct_node[n].mute
                          /\ struct_node'[n].is_default = struct_node[n].is_default
                          /\ struct_node'[n].has_param_props = struct_node[n].has_param_props
                          /\ struct_node'[n].has_default = struct_node[n].has_default
  PROVE  ItemsAreTold'
<1>. SUFFICES ASSUME NEW n \in Sinks
              PROVE  /\ tui_item[n].shown =>
                          /\ tui_item[n].muted = struct_node[n].mute \/ Waits(emitted', MutedOf(n))
                          /\ tui_item[n].is_default = struct_node[n].is_default
                               \/ Waits(emitted', MarkedOf(n))
                     /\ ~tui_item[n].shown =>
                          /\ ~tui_item[n].muted /\ ~tui_item[n].is_default
                          /\ ~Waits(emitted', MutedOf(n)) /\ ~Waits(emitted', MarkedOf(n))
                     /\ struct_node[n].mute => struct_node[n].has_param_props
                     /\ struct_node[n].is_default => struct_node[n].has_default
  BY DEF ItemsAreTold, MutedOf, MarkedOf
<1>1. /\ Waits(emitted', MutedOf(n)) <=> Waits(emitted, MutedOf(n))
      /\ Waits(emitted', MarkedOf(n)) <=> Waits(emitted, MarkedOf(n))
  BY QueueIs
<1>. QED  BY <1>1 DEF MarksInv, ItemsAreTold

LEMMA OnGlobalMarks ==
  ASSUME MarksInv, OnGlobal
  PROVE  MarksInv'
<1>. DEFINE x == Incoming.of
<1>1. /\ inbox # <<>> /\ Incoming.what = "global" /\ inbox' = Tail(inbox)
      /\ calls' = calls \o Sent("bind", x, Nobody)
      /\ UNCHANGED <<default_sink, muted, subscribed, struct_node, tui_item>>
  BY DEF OnGlobal, Read, Incoming, server_vars
<1>2. /\ Incoming \in Posts /\ inbox' \in Seq(Posts)
      /\ Waits(inbox', Properties) <=> Waits(inbox, Properties)
      /\ \A n \in Sinks : n \in subscribed =>
           EndsWith(inbox', ParamOf(n), struct_node[n].mute, muted[n])
      /\ Metadata \in subscribed /\ default_sink # Nobody =>
           EndsWith(inbox', Properties, default_metadata.property, default_sink)
  BY <1>1, ReadIs
<1>3. x \in Sinks \union {Metadata}
  BY <1>1, <1>2, PostIs
<1>. HIDE DEF x
<1>4. Msg("bind", x, Nobody) \in Orders
  BY <1>3, OrdersAre
<1>5. /\ calls' \in Seq(Orders)
      /\ Waits(calls', MetadataBind) <=>
           Waits(calls, MetadataBind) \/ Msg("bind", x, Nobody) \in MetadataBind
  BY <1>1, <1>4, CallIs
<1>6. PICK more \in Seq(Notices) :
        /\ emitted' = emitted \o more
        /\ \A n \in Sinks : ~Waits(more, MutedOf(n)) /\ ~Waits(more, MarkedOf(n))
  <2>1. CASE x = Metadata
    <3>1. emitted' = emitted
      BY <2>1 DEF OnGlobal, x
    <3>2. emitted' = emitted \o <<>> /\ <<>> \in Seq(Notices)
      BY <3>1, ConcatEmptySeq DEF MarksInv, MarksTypes
    <3>. QED  BY <3>2, WaitsNone
  <2>2. CASE x # Metadata
    <3>1. emitted' = emitted \o Queued("node", x) /\ x \in Sinks
      BY <1>3, <2>2 DEF OnGlobal, x
    <3>. QED  BY <3>1, NoticeIs
  <2>. QED  BY <2>1, <2>2
<1>7. /\ default_metadata'.property = default_metadata.property
      /\ default_metadata'.bound <=> default_metadata.bound \/ x = Metadata
      /\ default_metadata' \in [bound : BOOLEAN, property : Sinks \union {Nobody}]
  <2>1. default_metadata \in [bound : BOOLEAN, property : Sinks \union {Nobody}]
    BY DEF MarksInv, MarksTypes
  <2>2. IF x = Metadata THEN default_metadata' = [default_metadata EXCEPT !.bound = TRUE]
                        ELSE default_metadata' = default_metadata
    BY DEF OnGlobal, x
  <2>. QED  BY <2>1, <2>2
<1>8. MarksTypes'
  BY <1>1, <1>2, <1>5, <1>6, <1>7, QueueIs DEF MarksInv, MarksTypes
<1>9. ItemsAreTold'
  BY <1>1, <1>6, ItemsStay
<1>10. NodesAreTold'
  BY <1>1, <1>6, <1>7, QueueIs DEF MarksInv, NodesAreTold, DefaultTo
<1>11. BoundFirst'
  <2>1. Msg("bind", x, Nobody) \in MetadataBind => x = Metadata
    BY <1>3, OrdersAre
  <2>. QED  BY <1>1, <1>2, <1>5, <1>7, <2>1 DEF MarksInv, BoundFirst, Properties, MetadataBind
<1>12. ServerIsFollowed'
  BY <1>1, <1>2, <1>7 DEF ServerIsFollowed, ParamOf, Properties
<1>. QED  BY <1>8, <1>9, <1>10, <1>11, <1>12 DEF MarksInv

LEMMA OnPropertyMarks ==
  ASSUME MarksInv, OnProperty
  PROVE  MarksInv'
<1>. DEFINE to == {n \in Sinks : struct_node[n].default_hook}
<1>1. /\ inbox # <<>> /\ Incoming.what = "property" /\ inbox' = Tail(inbox)
      /\ emitted' = emitted \o QueuedDefault(to)
      /\ default_metadata' = [default_metadata EXCEPT !.property = Incoming.val]
      /\ UNCHANGED <<default_sink, muted, subscribed, calls, struct_node, tui_item>>
  BY DEF OnProperty, Read, Incoming, server_vars
<1>2. /\ Incoming \in Posts /\ inbox' \in Seq(Posts)
      /\ Waits(inbox, Properties)
      /\ \A n \in Sinks : n \in subscribed =>
           EndsWith(inbox', ParamOf(n), struct_node[n].mute, muted[n])
      /\ Metadata \in subscribed /\ default_sink # Nobody =>
           EndsWith(inbox', Properties, Incoming.val, default_sink)
  BY <1>1, ReadIs
<1>3. Incoming.val \in Sinks
  BY <1>1, <1>2, PostIs
<1>4. /\ QueuedDefault(to) \in Seq(Notices)
      /\ \A n \in Sinks : /\ ~Waits(QueuedDefault(to), MutedOf(n))
                          /\ ~Waits(QueuedDefault(to), MarkedOf(n))
                          /\ struct_node[n].default_hook => Waits(QueuedDefault(to), DefaultTo(n))
  <2>1. to \in SUBSET Sinks /\ \A n \in Sinks : n \in to <=> struct_node[n].default_hook
    OBVIOUS
  <2>. HIDE DEF to
  <2>. QED  BY <2>1, DefaultNoticeIs
<1>. HIDE DEF to
<1>5. default_metadata.bound
  BY <1>2 DEF MarksInv, BoundFirst
<1>6. /\ default_metadata'.property = Incoming.val
      /\ default_metadata'.bound
      /\ default_metadata' \in [bound : BOOLEAN, property : Sinks \union {Nobody}]
  <2>1. default_metadata \in [bound : BOOLEAN, property : Sinks \union {Nobody}]
    BY DEF MarksInv, MarksTypes
  <2>. QED  BY <1>1, <1>3, <1>5, <2>1
<1>7. MarksTypes'
  BY <1>1, <1>2, <1>4, <1>6, QueueIs DEF MarksInv, MarksTypes
<1>8. ItemsAreTold'
  BY <1>1, <1>4, ItemsStay
<1>9. NodesAreTold'
  BY <1>1, <1>4, QueueIs DEF NodesAreTold, DefaultTo
<1>10. BoundFirst'
  BY <1>6 DEF BoundFirst
<1>11. ServerIsFollowed'
  BY <1>1, <1>2, <1>6 DEF ServerIsFollowed, ParamOf, Properties
<1>. QED  BY <1>7, <1>8, <1>9, <1>10, <1>11 DEF MarksInv

LEMMA OnInfoMarks ==
  ASSUME MarksInv, OnInfo
  PROVE  MarksInv'
<1>. DEFINE n == Incoming.of
<1>1. /\ inbox # <<>> /\ Incoming.what = "info" /\ inbox' = Tail(inbox)
      /\ calls' = calls \o Sent("subscribe", n, Nobody)
      /\ struct_node' = [struct_node EXCEPT ![n].default_hook = TRUE]
      /\ emitted' = emitted \o IF default_metadata.bound THEN QueuedDefault({n}) ELSE <<>>
      /\ UNCHANGED <<default_sink, muted, subscribed, default_metadata, tui_item>>
  BY DEF OnInfo, Read, Incoming, server_vars
<1>2. /\ Incoming \in Posts /\ inbox' \in Seq(Posts)
      /\ Waits(inbox', Properties) <=> Waits(inbox, Properties)
      /\ \A k \in Sinks : k \in subscribed =>
           EndsWith(inbox', ParamOf(k), struct_node[k].mute, muted[k])
      /\ Metadata \in subscribed /\ default_sink # Nobody =>
           EndsWith(inbox', Properties, default_metadata.property, default_sink)
  BY <1>1, ReadIs
<1>3. n \in Sinks /\ n # Nobody
  BY <1>1, <1>2, PostIs, MarksAssumption
<1>. HIDE DEF n
<1>4. /\ struct_node' \in [Sinks -> StructNodes]
      /\ \A k \in Sinks : /\ struct_node'[k].mute = struct_node[k].mute
                          /\ struct_node'[k].is_default = struct_node[k].is_default
                          /\ struct_node'[k].has_param_props = struct_node[k].has_param_props
                          /\ struct_node'[k].has_default = struct_node[k].has_default
                          /\ k # n => struct_node'[k] = struct_node[k]
  <2>1. struct_node \in [Sinks -> StructNodes]
    BY DEF MarksInv, MarksTypes
  <2>. QED  BY <1>1, <1>3, <2>1 DEF StructNodes
<1>5. /\ calls' \in Seq(Orders)
      /\ Waits(calls', MetadataBind) <=> Waits(calls, MetadataBind)
  <2>1. Msg("subscribe", n, Nobody) \in Orders /\ Msg("subscribe", n, Nobody) \notin MetadataBind
    BY <1>3, OrdersAre
  <2>. QED  BY <1>1, <2>1, CallIs
<1>6. PICK more \in Seq(Notices) :
        /\ emitted' = emitted \o more
        /\ \A k \in Sinks : ~Waits(more, MutedOf(k)) /\ ~Waits(more, MarkedOf(k))
        /\ default_metadata.bound => Waits(more, DefaultTo(n))
  <2>1. CASE default_metadata.bound
    <3>1. emitted' = emitted \o QueuedDefault({n}) /\ {n} \in SUBSET Sinks /\ n \in {n}
      BY <1>1, <1>3, <2>1
    <3>. QED  BY <3>1, DefaultNoticeIs
  <2>2. CASE ~default_metadata.bound
    <3>1. emitted' = emitted \o <<>> /\ <<>> \in Seq(Notices)
      BY <1>1, <2>2
    <3>. QED  BY <2>2, <3>1, WaitsNone
  <2>. QED  BY <2>1, <2>2
<1>7. MarksTypes'
  BY <1>1, <1>2, <1>4, <1>5, <1>6, QueueIs DEF MarksInv, MarksTypes
<1>8. ItemsAreTold'
  BY <1>1, <1>4, <1>6, ItemsStay
<1>9. NodesAreTold'
  <2>. SUFFICES ASSUME NEW k \in Sinks, struct_node'[k].default_hook
                PROVE  \/ struct_node[k].is_default <=> default_metadata.property = k
                       \/ Waits(emitted', DefaultTo(k))
    BY <1>1, <1>4 DEF NodesAreTold, DefaultTo
  <2>1. Waits(emitted', DefaultTo(k)) <=> Waits(emitted, DefaultTo(k)) \/ Waits(more, DefaultTo(k))
    BY <1>6, QueueIs
  <2>2. CASE k # n
    BY <1>4, <2>1, <2>2 DEF MarksInv, NodesAreTold
  <2>3. CASE k = n /\ default_metadata.bound
    BY <1>6, <2>1, <2>3
  <2>4. CASE k = n /\ ~default_metadata.bound
    BY <1>3, <2>4 DEF MarksInv, BoundFirst
  <2>. QED  BY <2>2, <2>3, <2>4
<1>10. BoundFirst'
  BY <1>1, <1>2, <1>4, <1>5 DEF MarksInv, BoundFirst, Properties, MetadataBind
<1>11. ServerIsFollowed'
  BY <1>1, <1>2, <1>4 DEF ServerIsFollowed, ParamOf, Properties
<1>. QED  BY <1>7, <1>8, <1>9, <1>10, <1>11 DEF MarksInv

LEMMA OnParamMarks ==
  ASSUME MarksInv, OnParam
  PROVE  MarksInv'
<1>. DEFINE n == Incoming.of
            changed == Incoming.val # struct_node[n].mute \/ ~struct_node[n].has_param_props
<1>1. /\ inbox # <<>> /\ Incoming.what = "param" /\ inbox' = Tail(inbox)
      /\ struct_node' = [struct_node EXCEPT ![n].mute = Incoming.val, ![n].has_param_props = TRUE]
      /\ emitted' = emitted \o IF changed THEN NodeQueues("muted", n) ELSE <<>>
      /\ UNCHANGED <<default_sink, muted, subscribed, calls, default_metadata, tui_item>>
  BY DEF OnParam, Read, Incoming, server_vars
<1>2. /\ Incoming \in Posts /\ inbox' \in Seq(Posts)
      /\ Waits(inbox', Properties) <=> Waits(inbox, Properties)
      /\ \A k \in Sinks : k \in subscribed =>
           IF Incoming.of = k
           THEN EndsWith(inbox', ParamOf(k), Incoming.val, muted[k])
           ELSE EndsWith(inbox', ParamOf(k), struct_node[k].mute, muted[k])
      /\ Metadata \in subscribed /\ default_sink # Nobody =>
           EndsWith(inbox', Properties, default_metadata.property, default_sink)
  BY <1>1, ReadIs
<1>3. n \in Sinks /\ Incoming.val \in BOOLEAN
  BY <1>1, <1>2, PostIs
<1>4. /\ struct_node' \in [Sinks -> StructNodes]
      /\ struct_node'[n].mute = Incoming.val /\ struct_node'[n].has_param_props
      /\ struct_node'[n].is_default = struct_node[n].is_default
      /\ struct_node'[n].has_default = struct_node[n].has_default
      /\ struct_node'[n].default_hook = struct_node[n].default_hook
      /\ \A k \in Sinks : k # n => struct_node'[k] = struct_node[k]
  <2>1. struct_node \in [Sinks -> StructNodes]
    BY DEF MarksInv, MarksTypes
  <2>. QED  BY <1>1, <1>3, <2>1 DEF StructNodes
<1>5. ~changed => struct_node'[n].mute = struct_node[n].mute
  BY <1>4
<1>. HIDE DEF n, changed
<1>6. PICK more \in Seq(Notices) :
        /\ emitted' = emitted \o more
        /\ \A k \in Sinks : ~Waits(more, MarkedOf(k)) /\ (k # n => ~Waits(more, MutedOf(k)))
        /\ changed /\ tui_item[n].shown => Waits(more, MutedOf(n))
        /\ ~tui_item[n].shown => ~Waits(more, MutedOf(n))
  <2>1. CASE changed /\ tui_item[n].shown
    <3>1. emitted' = emitted \o Queued("muted", n)
      BY <1>1, <2>1, Zenon DEF NodeQueues
    <3>2. /\ Queued("muted", n) \in Seq(Notices)
          /\ \A k : Waits(Queued("muted", n), MutedOf(k)) <=> k = n
          /\ \A k : ~Waits(Queued("muted", n), MarkedOf(k))
      BY <1>3, NoticeIs
    <3>. QED  BY <2>1, <3>1, <3>2
  <2>2. CASE ~(changed /\ tui_item[n].shown)
    <3>1. emitted' = emitted \o <<>>
      <4>1. CASE changed
        <5>1. ~tui_item[n].shown
          BY <2>2, <4>1
        <5>. QED  BY <1>1, <4>1, <5>1, Zenon DEF NodeQueues
      <4>2. CASE ~changed
        BY <1>1, <4>2, Zenon
      <4>. QED  BY <4>1, <4>2
    <3>2. <<>> \in Seq(Notices)
      OBVIOUS
    <3>. QED  BY <2>2, <3>1, <3>2, WaitsNone
  <2>. QED  BY <2>1, <2>2
<1>7. /\ emitted' \in Seq(Notices)
      /\ \A k : /\ Waits(emitted', MutedOf(k)) <=> Waits(emitted, MutedOf(k)) \/ Waits(more, MutedOf(k))
                /\ Waits(emitted', MarkedOf(k)) <=> Waits(emitted, MarkedOf(k)) \/ Waits(more, MarkedOf(k))
                /\ Waits(emitted', DefaultTo(k)) <=> Waits(emitted, DefaultTo(k)) \/ Waits(more, DefaultTo(k))
  BY <1>6, QueueIs
<1>8. MarksTypes'
  BY <1>1, <1>2, <1>4, <1>7 DEF MarksInv, MarksTypes
<1>9. ItemsAreTold'
  <2>. SUFFICES ASSUME NEW k \in Sinks
                PROVE  /\ tui_item[k].shown =>
                            /\ tui_item[k].muted = struct_node'[k].mute \/ Waits(emitted', MutedOf(k))
                            /\ tui_item[k].is_default = struct_node'[k].is_default
                                 \/ Waits(emitted', MarkedOf(k))
                       /\ ~tui_item[k].shown =>
                            /\ ~tui_item[k].muted /\ ~tui_item[k].is_default
                            /\ ~Waits(emitted', MutedOf(k)) /\ ~Waits(emitted', MarkedOf(k))
                       /\ struct_node'[k].mute => struct_node'[k].has_param_props
                       /\ struct_node'[k].is_default => struct_node'[k].has_default
    BY <1>1 DEF ItemsAreTold, MutedOf, MarkedOf
  <2>1. CASE k # n
    BY <1>4, <1>6, <1>7, <2>1 DEF MarksInv, ItemsAreTold
  <2>2. CASE k = n
    BY <1>3, <1>4, <1>5, <1>6, <1>7, <2>2 DEF MarksInv, ItemsAreTold
  <2>. QED  BY <2>1, <2>2
<1>10. NodesAreTold'
  <2>. SUFFICES ASSUME NEW k \in Sinks, struct_node'[k].default_hook
                PROVE  \/ struct_node'[k].is_default <=> default_metadata.property = k
                       \/ Waits(emitted', DefaultTo(k))
    BY <1>1 DEF NodesAreTold, DefaultTo
  <2>1. /\ struct_node'[k].is_default = struct_node[k].is_default
        /\ struct_node[k].default_hook
    BY <1>4
  <2>. QED  BY <1>7, <2>1 DEF MarksInv, NodesAreTold
<1>11. BoundFirst'
  <2>1. \A k \in Sinks : struct_node'[k].is_default = struct_node[k].is_default
    BY <1>4
  <2>. QED  BY <1>1, <1>2, <2>1 DEF MarksInv, BoundFirst, Properties, MetadataBind
<1>12. ServerIsFollowed'
  <2>1. ASSUME NEW k \in Sinks, k \in subscribed
        PROVE  EndsWith(inbox', ParamOf(k), struct_node'[k].mute, muted[k])
    <3>1. CASE Incoming.of = k
      BY <1>2, <1>4, <2>1, <3>1 DEF n
    <3>2. CASE Incoming.of # k
      BY <1>2, <1>4, <2>1, <3>2 DEF n
    <3>. QED  BY <3>1, <3>2
  <2>. QED  BY <1>1, <1>2, <2>1 DEF ServerIsFollowed, ParamOf, Properties
<1>. QED  BY <1>8, <1>9, <1>10, <1>11, <1>12 DEF MarksInv

-----------------------------------------------------------------------------
(* Events that are delivered.                                              *)

LEMMA NoticeKinds ==
  ASSUME NEW e \in Notices
  PROVE  /\ e.what \in {"node", "muted", "marked"} => e.of \in Sinks
         /\ e.what = "default" => e.of \in SUBSET Sinks
         /\ \A k : e \in MutedOf(k) <=> e.what = "muted" /\ e.of = k
         /\ \A k : e \in MarkedOf(k) <=> e.what = "marked" /\ e.of = k
         /\ \A k : e \in DefaultTo(k) <=> e.what = "default" /\ k \in e.of
<1>1. \A k : e \in MutedOf(k) <=> e.what = "muted" /\ e.of = k
  BY DEF MutedOf
<1>2. \A k : e \in MarkedOf(k) <=> e.what = "marked" /\ e.of = k
  BY DEF MarkedOf
<1>3. \A k : e \in DefaultTo(k) <=> e.what = "default" /\ k \in e.of
  BY DEF DefaultTo
<1>. QED  BY <1>1, <1>2, <1>3 DEF Notices

\* The event that was delivered is gone; its callbacks have queued more.
LEMMA DeliverIs ==
  ASSUME MarksInv, emitted # <<>>, NEW more \in Seq(Notices), emitted' = Tail(emitted) \o more
  PROVE  /\ Head(emitted) \in Notices /\ emitted' \in Seq(Notices)
         /\ \A k : IF Head(emitted) \in MutedOf(k)
                   THEN Waits(emitted, MutedOf(k))
                   ELSE Waits(emitted', MutedOf(k)) <=>
                          Waits(emitted, MutedOf(k)) \/ Waits(more, MutedOf(k))
         /\ \A k : IF Head(emitted) \in MarkedOf(k)
                   THEN Waits(emitted, MarkedOf(k))
                   ELSE Waits(emitted', MarkedOf(k)) <=>
                          Waits(emitted, MarkedOf(k)) \/ Waits(more, MarkedOf(k))
         /\ \A k : Head(emitted) \notin DefaultTo(k) =>
                     (Waits(emitted, DefaultTo(k)) => Waits(emitted', DefaultTo(k)))
<1>1. emitted \in Seq(Notices)
  BY DEF MarksInv, MarksTypes
<1>2. Tail(emitted) \in Seq(Notices) /\ Head(emitted) \in Notices
  BY <1>1, TailIs
<1>3. \A some : Waits(emitted, some) <=> Head(emitted) \in some \/ Waits(Tail(emitted), some)
  BY <1>1, WaitsTail
<1>4. \A some : Waits(Tail(emitted) \o more, some) <=>
                  Waits(Tail(emitted), some) \/ Waits(more, some)
  BY <1>2, WaitsConcat
<1>5. emitted' \in Seq(Notices)
  BY <1>2, ConcatIs
<1>. QED  BY <1>2, <1>3, <1>4, <1>5

\* The rest of the invariant is about what no event changes.
LEMMA DeliverRest ==
  ASSUME MarksInv, UNCHANGED <<server_vars, calls, inbox, default_metadata>>,
         emitted' \in Seq(Notices),
         struct_node' \in [Sinks -> StructNodes],
         tui_item' \in [Sinks -> [shown : BOOLEAN, muted : BOOLEAN, is_default : BOOLEAN]],
         \A n \in Sinks : struct_node'[n].mute = struct_node[n].mute,
         ~default_metadata.bound => \A n \in Sinks : ~struct_node'[n].is_default,
         ItemsAreTold', NodesAreTold'
  PROVE  MarksInv'
<1>1. MarksTypes'
  BY DEF MarksInv, MarksTypes, server_vars
<1>2. BoundFirst'
  BY DEF MarksInv, BoundFirst, Properties, MetadataBind, server_vars
<1>3. ServerIsFollowed'
  BY DEF MarksInv, ServerIsFollowed, ParamOf, Properties, server_vars
<1>. QED  BY <1>1, <1>2, <1>3 DEF MarksInv

LEMMA ShowSinkMarks ==
  ASSUME MarksInv, ShowSink
  PROVE  MarksInv'
<1>. DEFINE n == Head(emitted).of
            more == (IF struct_node[n].has_param_props THEN Queued("muted", n) ELSE <<>>)
                    \o (IF struct_node[n].has_default THEN Queued("marked", n) ELSE <<>>)
<1>1. /\ emitted # <<>> /\ Head(emitted).what = "node"
      /\ tui_item' = [tui_item EXCEPT ![n].shown = TRUE]
      /\ emitted' = Tail(emitted) \o more
      /\ UNCHANGED <<server_vars, calls, inbox, default_metadata, struct_node>>
  BY DEF ShowSink, NextEvent, Dispatched
<1>2. Head(emitted) \in Notices
  BY <1>1, TailIs DEF MarksInv, MarksTypes
<1>3. /\ n \in Sinks
      /\ \A k : /\ Head(emitted) \notin MutedOf(k) /\ Head(emitted) \notin MarkedOf(k)
                /\ Head(emitted) \notin DefaultTo(k)
  <2>1. Head(emitted).what # "muted" /\ Head(emitted).what # "marked"
        /\ Head(emitted).what # "default"
    BY <1>1
  <2>. QED  BY <1>1, <1>2, <2>1, NoticeKinds
<1>. HIDE DEF n
<1>4. /\ more \in Seq(Notices)
      /\ struct_node[n].has_param_props => Waits(more, MutedOf(n))
      /\ struct_node[n].has_default => Waits(more, MarkedOf(n))
      /\ \A k \in Sinks : k # n => ~Waits(more, MutedOf(k)) /\ ~Waits(more, MarkedOf(k))
  <2>. DEFINE mutes == IF struct_node[n].has_param_props THEN Queued("muted", n) ELSE <<>>
              marks == IF struct_node[n].has_default THEN Queued("marked", n) ELSE <<>>
  <2>0. \A some : ~Waits(<<>>, some)
    BY WaitsNone
  <2>1. /\ mutes \in Seq(Notices)
        /\ struct_node[n].has_param_props => Waits(mutes, MutedOf(n))
        /\ \A k \in Sinks : k # n => ~Waits(mutes, MutedOf(k)) /\ ~Waits(mutes, MarkedOf(k))
    <3>1. CASE struct_node[n].has_param_props
      <4>1. mutes = Queued("muted", n)
        BY <3>1
      <4>2. /\ Queued("muted", n) \in Seq(Notices)
            /\ \A k : Waits(Queued("muted", n), MutedOf(k)) <=> k = n
            /\ \A k : ~Waits(Queued("muted", n), MarkedOf(k))
        BY <1>3, NoticeIs
      <4>. HIDE DEF mutes
      <4>. QED  BY <4>1, <4>2
    <3>2. CASE ~struct_node[n].has_param_props
      <4>1. mutes = <<>> /\ <<>> \in Seq(Notices)
        BY <3>2
      <4>. QED  BY <2>0, <3>2, <4>1, Zenon
    <3>. QED  BY <3>1, <3>2
  <2>2. /\ marks \in Seq(Notices)
        /\ struct_node[n].has_default => Waits(marks, MarkedOf(n))
        /\ \A k \in Sinks : k # n => ~Waits(marks, MutedOf(k)) /\ ~Waits(marks, MarkedOf(k))
    <3>1. CASE struct_node[n].has_default
      <4>1. marks = Queued("marked", n)
        BY <3>1
      <4>2. /\ Queued("marked", n) \in Seq(Notices)
            /\ \A k : Waits(Queued("marked", n), MarkedOf(k)) <=> k = n
            /\ \A k : ~Waits(Queued("marked", n), MutedOf(k))
        BY <1>3, NoticeIs
      <4>. QED  BY <4>1, <4>2, Zenon
    <3>2. CASE ~struct_node[n].has_default
      <4>1. marks = <<>> /\ <<>> \in Seq(Notices)
        BY <3>2
      <4>. QED  BY <2>0, <3>2, <4>1, Zenon
    <3>. QED  BY <3>1, <3>2
  <2>3. more = mutes \o marks
    OBVIOUS
  <2>. HIDE DEF mutes, marks, more
  <2>4. more \in Seq(Notices) /\ \A some : Waits(more, some) <=> Waits(mutes, some) \/ Waits(marks, some)
    BY <2>1, <2>2, <2>3, ConcatIs, WaitsConcat
  <2>. QED  BY <2>1, <2>2, <2>4
<1>. HIDE DEF more
<1>5. /\ emitted' \in Seq(Notices)
      /\ \A k : /\ Waits(emitted', MutedOf(k)) <=> Waits(emitted, MutedOf(k)) \/ Waits(more, MutedOf(k))
                /\ Waits(emitted', MarkedOf(k)) <=> Waits(emitted, MarkedOf(k)) \/ Waits(more, MarkedOf(k))
                /\ Waits(emitted, DefaultTo(k)) => Waits(emitted', DefaultTo(k))
  BY <1>1, <1>3, <1>4, DeliverIs
<1>6. /\ tui_item' \in [Sinks -> [shown : BOOLEAN, muted : BOOLEAN, is_default : BOOLEAN]]
      /\ tui_item'[n].shown /\ tui_item'[n].muted = tui_item[n].muted
      /\ tui_item'[n].is_default = tui_item[n].is_default
      /\ \A k \in Sinks : k # n => tui_item'[k] = tui_item[k]
  <2>1. tui_item \in [Sinks -> [shown : BOOLEAN, muted : BOOLEAN, is_default : BOOLEAN]]
    BY DEF MarksInv, MarksTypes
  <2>. QED  BY <1>1, <1>3, <2>1
<1>7. ItemsAreTold'
  <2>. SUFFICES ASSUME NEW k \in Sinks
                PROVE  /\ tui_item'[k].shown =>
                            /\ tui_item'[k].muted = struct_node[k].mute \/ Waits(emitted', MutedOf(k))
                            /\ tui_item'[k].is_default = struct_node[k].is_default
                                 \/ Waits(emitted', MarkedOf(k))
                       /\ ~tui_item'[k].shown =>
                            /\ ~tui_item'[k].muted /\ ~tui_item'[k].is_default
                            /\ ~Waits(emitted', MutedOf(k)) /\ ~Waits(emitted', MarkedOf(k))
                       /\ struct_node[k].mute => struct_node[k].has_param_props
                       /\ struct_node[k].is_default => struct_node[k].has_default
    BY <1>1 DEF ItemsAreTold, MutedOf, MarkedOf
  <2>1. CASE k # n
    BY <1>4, <1>5, <1>6, <2>1 DEF MarksInv, ItemsAreTold
  <2>2. CASE k = n
    <3>1. CASE tui_item[n].shown
      BY <1>5, <1>6, <2>2, <3>1 DEF MarksInv, ItemsAreTold
    <3>2. CASE ~tui_item[n].shown
      <4>1. /\ ~tui_item[n].muted /\ ~tui_item[n].is_default
            /\ struct_node[n].mute => struct_node[n].has_param_props
            /\ struct_node[n].is_default => struct_node[n].has_default
        BY <1>3, <3>2 DEF MarksInv, ItemsAreTold
      <4>2. /\ tui_item[n].muted \in BOOLEAN /\ tui_item[n].is_default \in BOOLEAN
            /\ struct_node[n].mute \in BOOLEAN /\ struct_node[n].is_default \in BOOLEAN
        BY <1>3 DEF MarksInv, MarksTypes, StructNodes
      <4>3. tui_item[n].muted = struct_node[n].mute \/ struct_node[n].mute
        BY <4>1, <4>2
      <4>4. tui_item[n].is_default = struct_node[n].is_default \/ struct_node[n].is_default
        BY <4>1, <4>2
      <4>. QED  BY <1>4, <1>5, <1>6, <2>2, <4>1, <4>3, <4>4
    <3>. QED  BY <3>1, <3>2
  <2>. QED  BY <2>1, <2>2
<1>8. NodesAreTold'
  BY <1>1, <1>5 DEF MarksInv, NodesAreTold, DefaultTo
<1>9. /\ struct_node' \in [Sinks -> StructNodes]
      /\ \A k \in Sinks : struct_node'[k].mute = struct_node[k].mute
      /\ ~default_metadata.bound => \A k \in Sinks : ~struct_node'[k].is_default
  BY <1>1 DEF MarksInv, MarksTypes, BoundFirst
<1>. QED  BY <1>1, <1>5, <1>6, <1>7, <1>8, <1>9, DeliverRest

LEMMA OnMarkMarks ==
  ASSUME MarksInv, OnMark
  PROVE  MarksInv'
<1>. DEFINE n == Head(emitted).of
<1>1. /\ emitted # <<>> /\ Head(emitted).what \in {"marked", "muted"}
      /\ emitted' = Tail(emitted) \o <<>> /\ <<>> \in Seq(Notices)
      /\ UNCHANGED <<server_vars, calls, inbox, default_metadata, struct_node>>
  BY DEF OnMark, NextEvent, Dispatched
<1>2. Head(emitted) \in Notices
  BY <1>1, TailIs DEF MarksInv, MarksTypes
<1>3. /\ n \in Sinks
      /\ \A k : Head(emitted) \notin DefaultTo(k)
      /\ \A k : Head(emitted) \in MutedOf(k) <=> Head(emitted).what = "muted" /\ k = n
      /\ \A k : Head(emitted) \in MarkedOf(k) <=> Head(emitted).what = "marked" /\ k = n
  BY <1>1, <1>2, NoticeKinds
<1>4. \A some : ~Waits(<<>>, some)
  BY WaitsNone
<1>5. /\ emitted' \in Seq(Notices)
      /\ \A k : Waits(emitted, DefaultTo(k)) => Waits(emitted', DefaultTo(k))
      /\ \A k : IF Head(emitted).what = "muted" /\ k = n
                THEN Waits(emitted, MutedOf(k))
                ELSE Waits(emitted', MutedOf(k)) <=> Waits(emitted, MutedOf(k))
      /\ \A k : IF Head(emitted).what = "marked" /\ k = n
                THEN Waits(emitted, MarkedOf(k))
                ELSE Waits(emitted', MarkedOf(k)) <=> Waits(emitted, MarkedOf(k))
  BY <1>1, <1>3, <1>4, DeliverIs
<1>6. /\ tui_item' \in [Sinks -> [shown : BOOLEAN, muted : BOOLEAN, is_default : BOOLEAN]]
      /\ tui_item'[n].shown = tui_item[n].shown
      /\ IF Head(emitted).what = "muted" THEN tui_item'[n].muted = struct_node[n].mute
                                         ELSE tui_item'[n].muted = tui_item[n].muted
      /\ IF Head(emitted).what = "marked" THEN tui_item'[n].is_default = struct_node[n].is_default
                                          ELSE tui_item'[n].is_default = tui_item[n].is_default
      /\ \A k \in Sinks : k # n => tui_item'[k] = tui_item[k]
  <2>1. /\ tui_item \in [Sinks -> [shown : BOOLEAN, muted : BOOLEAN, is_default : BOOLEAN]]
        /\ struct_node[n].mute \in BOOLEAN /\ struct_node[n].is_default \in BOOLEAN
    BY <1>3 DEF MarksInv, MarksTypes, StructNodes
  <2>2. CASE Head(emitted).what = "muted"
    <3>1. tui_item' = [tui_item EXCEPT ![n].muted = struct_node[n].mute]
      BY <2>2 DEF OnMark, NextEvent
    <3>. QED  BY <1>3, <2>1, <2>2, <3>1
  <2>3. CASE Head(emitted).what = "marked"
    <3>1. tui_item' = [tui_item EXCEPT ![n].is_default = struct_node[n].is_default]
      BY <2>3 DEF OnMark, NextEvent
    <3>. QED  BY <1>3, <2>1, <2>3, <3>1
  <2>. QED  BY <1>1, <2>2, <2>3
<1>. HIDE DEF n
<1>7. tui_item[n].shown
  BY <1>1, <1>3, <1>5 DEF MarksInv, ItemsAreTold
<1>8. ItemsAreTold'
  <2>. SUFFICES ASSUME NEW k \in Sinks
                PROVE  /\ tui_item'[k].shown =>
                            /\ tui_item'[k].muted = struct_node[k].mute \/ Waits(emitted', MutedOf(k))
                            /\ tui_item'[k].is_default = struct_node[k].is_default
                                 \/ Waits(emitted', MarkedOf(k))
                       /\ ~tui_item'[k].shown =>
                            /\ ~tui_item'[k].muted /\ ~tui_item'[k].is_default
                            /\ ~Waits(emitted', MutedOf(k)) /\ ~Waits(emitted', MarkedOf(k))
                       /\ struct_node[k].mute => struct_node[k].has_param_props
                       /\ struct_node[k].is_default => struct_node[k].has_default
    BY <1>1 DEF ItemsAreTold, MutedOf, MarkedOf
  <2>1. CASE k # n
    BY <1>5, <1>6, <2>1 DEF MarksInv, ItemsAreTold
  <2>2. CASE k = n /\ Head(emitted).what = "muted"
    <3>1. Head(emitted).what # "marked"
      BY <2>2
    <3>. QED  BY <1>5, <1>6, <1>7, <2>2, <3>1 DEF MarksInv, ItemsAreTold
  <2>3. CASE k = n /\ Head(emitted).what = "marked"
    <3>1. Head(emitted).what # "muted"
      BY <2>3
    <3>. QED  BY <1>5, <1>6, <1>7, <2>3, <3>1 DEF MarksInv, ItemsAreTold
  <2>. QED  BY <1>1, <2>1, <2>2, <2>3
<1>9. NodesAreTold'
  BY <1>1, <1>5 DEF MarksInv, NodesAreTold, DefaultTo
<1>10. /\ struct_node' \in [Sinks -> StructNodes]
       /\ \A k \in Sinks : struct_node'[k].mute = struct_node[k].mute
       /\ ~default_metadata.bound => \A k \in Sinks : ~struct_node'[k].is_default
  BY <1>1 DEF MarksInv, MarksTypes, BoundFirst
<1>. QED  BY <1>1, <1>5, <1>6, <1>8, <1>9, <1>10, DeliverRest

LEMMA MarkedNodeIs ==
  ASSUME NEW s \in StructNodes, NEW b \in BOOLEAN, NEW t,
         t = [s EXCEPT !.is_default = b, !.has_default = TRUE]
  PROVE  /\ t \in StructNodes /\ t.is_default = b /\ t.has_default
         /\ t.mute = s.mute /\ t.has_param_props = s.has_param_props
         /\ t.default_hook = s.default_hook
  BY DEF StructNodes

LEMMA OnDefaultMarks ==
  ASSUME MarksInv, OnDefault
  PROVE  MarksInv'
<1>. DEFINE is(k) == default_metadata.property = k
            changed == {k \in Head(emitted).of :
                          is(k) # struct_node[k].is_default \/ ~struct_node[k].has_default}
            told == {k \in changed : tui_item[k].shown}
            told_in(order) == [i \in DOMAIN order |-> Queued("marked", order[i])[1]]
<1>1. /\ emitted # <<>> /\ Head(emitted).what = "default"
      /\ struct_node' = [k \in Sinks |->
            IF k \in changed
            THEN [struct_node[k] EXCEPT !.is_default = is(k), !.has_default = TRUE]
            ELSE struct_node[k]]
      /\ \E order \in [1..Cardinality(told) -> told] :
           /\ \A k \in told : \E i \in DOMAIN order : order[i] = k
           /\ Dispatched(told_in(order))
      /\ UNCHANGED tui_item
  BY DEF OnDefault, NextEvent
<1>2. PICK order \in [1..Cardinality(told) -> told] :
        /\ \A k \in told : \E i \in DOMAIN order : order[i] = k
        /\ Dispatched(told_in(order))
  BY <1>1
<1>3. /\ emitted' = Tail(emitted) \o told_in(order)
      /\ UNCHANGED <<server_vars, calls, inbox, default_metadata>>
  BY <1>2 DEF Dispatched
<1>4. Head(emitted) \in Notices
  BY <1>1, TailIs DEF MarksInv, MarksTypes
<1>5. /\ Head(emitted).of \in SUBSET Sinks
      /\ \A k : Head(emitted) \notin MutedOf(k) /\ Head(emitted) \notin MarkedOf(k)
      /\ \A k : Head(emitted) \in DefaultTo(k) <=> k \in Head(emitted).of
  <2>1. Head(emitted).what # "muted" /\ Head(emitted).what # "marked"
    BY <1>1
  <2>. QED  BY <1>1, <1>4, <2>1, NoticeKinds
<1>6. changed \subseteq Sinks /\ told \subseteq changed
      /\ \A k \in changed : k \in told <=> tui_item[k].shown
  BY <1>5
\* A node that is told and has not changed shows what it would show.
<1>7. ASSUME NEW k \in Head(emitted).of, k \notin changed
      PROVE  struct_node[k].is_default <=> is(k)
  <2>1. struct_node[k].is_default = is(k)
    BY <1>7, Zenon
  <2>. QED  BY <2>1, Zenon
<1>8. /\ struct_node \in [Sinks -> StructNodes]
      /\ tui_item \in [Sinks -> [shown : BOOLEAN, muted : BOOLEAN, is_default : BOOLEAN]]
  BY DEF MarksInv, MarksTypes
<1>9. \A k : is(k) \in BOOLEAN
  BY Zenon
<1>. HIDE DEF is, changed, told
<1>10. /\ struct_node' \in [Sinks -> StructNodes]
       /\ \A k \in Sinks : /\ struct_node'[k].mute = struct_node[k].mute
                           /\ struct_node'[k].has_param_props = struct_node[k].has_param_props
                           /\ struct_node'[k].default_hook = struct_node[k].default_hook
                           /\ k \in changed => struct_node'[k].is_default = is(k)
                           /\ k \in changed => struct_node'[k].has_default
                           /\ k \notin changed => struct_node'[k] = struct_node[k]
  <2>1. ASSUME NEW k \in Sinks, k \in changed
        PROVE  /\ struct_node'[k] \in StructNodes
               /\ struct_node'[k].mute = struct_node[k].mute
               /\ struct_node'[k].has_param_props = struct_node[k].has_param_props
               /\ struct_node'[k].default_hook = struct_node[k].default_hook
               /\ struct_node'[k].is_default = is(k)
               /\ struct_node'[k].has_default
    <3>1. struct_node'[k] = [struct_node[k] EXCEPT !.is_default = is(k), !.has_default = TRUE]
      BY <1>1, <2>1, Zenon
    <3>2. struct_node[k] \in StructNodes /\ is(k) \in BOOLEAN
      BY <1>8, <1>9, Zenon
    <3>3. PICK b \in BOOLEAN : b = is(k)
      BY <3>2, Zenon
    <3>4. PICK s \in StructNodes : s = struct_node[k]
      BY <3>2, Zenon
    <3>5. PICK t : t = [s EXCEPT !.is_default = b, !.has_default = TRUE]
      OBVIOUS
    <3>6. /\ t \in StructNodes /\ t.is_default = b /\ t.has_default
          /\ t.mute = s.mute /\ t.has_param_props = s.has_param_props
          /\ t.default_hook = s.default_hook
      BY <3>5, MarkedNodeIs
    <3>7. struct_node'[k] = t
      BY <3>1, <3>3, <3>4, <3>5, Zenon
    <3>. QED  BY <3>3, <3>4, <3>6, <3>7, Zenon
  <2>2. ASSUME NEW k \in Sinks, k \notin changed
        PROVE  struct_node'[k] = struct_node[k] /\ struct_node'[k] \in StructNodes
    <3>1. struct_node'[k] = struct_node[k]
      BY <1>1, <2>2, Zenon
    <3>. QED  BY <1>8, <3>1, Zenon
  <2>3. struct_node' \in [Sinks -> StructNodes]
    <3>1. /\ \A k \in Sinks : struct_node'[k] \in StructNodes
          /\ DOMAIN struct_node' = Sinks
          /\ struct_node' = [k \in Sinks |-> struct_node'[k]]
      BY <1>1, <2>1, <2>2, Zenon
    <3>. QED  BY <3>1, Zenon
  <2>. QED  BY <2>1, <2>2, <2>3
\* Each of those that are shown is told, in some order.
<1>11. /\ told_in(order) \in Seq(Notices)
       /\ \A k : ~Waits(told_in(order), MutedOf(k))
       /\ \A k : Waits(told_in(order), MarkedOf(k)) <=> k \in told
  <2>1. Cardinality(told) \in Nat
    <3>1. IsFiniteSet(Sinks) /\ told \subseteq Sinks
      BY <1>6, MarksAssumption
    <3>. QED  BY <3>1, FS_Subset, FS_CardinalityType
  <2>. DEFINE c == Cardinality(told)
              s == told_in(order)
  <2>2. /\ s = [i \in 1..c |-> Queued("marked", order[i])[1]]
        /\ \A i \in 1..c : order[i] \in told
    OBVIOUS
  <2>3. ASSUME NEW i \in 1..c
        PROVE  /\ s[i] \in Notices
               /\ \A k : s[i] \in MarkedOf(k) <=> k = order[i]
               /\ \A k : s[i] \notin MutedOf(k)
    <3>. DEFINE e == [what |-> "marked", of |-> order[i]]
    <3>1. s[i] = e
      BY <2>2 DEF Queued
    <3>2. order[i] \in Sinks
      BY <1>6, <2>2
    <3>3. e \in Notices
      BY <3>2 DEF Notices
    <3>4. e.what = "marked" /\ e.of = order[i] /\ e.what # "muted"
      OBVIOUS
    <3>. HIDE DEF e, s
    <3>. QED  BY <3>1, <3>3, <3>4, NoticeKinds
  <2>4. s \in Seq(Notices) /\ Len(s) = c
    <3>1. s \in [1..c -> Notices]
      BY <2>2, <2>3
    <3>. HIDE DEF s, c
    <3>2. c \in Nat
      BY <2>1 DEF c
    <3>. QED  BY <3>1, <3>2, SeqIs
  <2>5. \A k \in told : \E i \in 1..c : order[i] = k
    BY <1>2
  <2>. HIDE DEF s, c
  <2>6. /\ \A k : ~Waits(s, MutedOf(k))
        /\ \A k : Waits(s, MarkedOf(k)) <=> k \in told
    <3>1. ASSUME NEW k, NEW i \in 1..Len(s), s[i] \in MutedOf(k) PROVE FALSE
      BY <2>3, <2>4, <3>1
    <3>2. ASSUME NEW k, NEW i \in 1..Len(s), s[i] \in MarkedOf(k) PROVE k \in told
      <4>1. i \in 1..c /\ order[i] \in told
        BY <2>2, <2>4
      <4>2. k = order[i]
        BY <2>3, <3>2, <4>1
      <4>. QED  BY <4>1, <4>2
    <3>3. ASSUME NEW k \in told PROVE Waits(s, MarkedOf(k))
      <4>1. PICK i \in 1..c : order[i] = k
        BY <2>5
      <4>2. i \in 1..Len(s) /\ s[i] \in MarkedOf(k)
        BY <2>3, <2>4, <4>1
      <4>. QED  BY <4>2 DEF Waits
    <3>. QED  BY <3>1, <3>2, <3>3 DEF Waits
  <2>. QED  BY <2>4, <2>6 DEF s
<1>. HIDE DEF told_in
<1>12. /\ emitted' \in Seq(Notices)
       /\ \A k : /\ Waits(emitted', MutedOf(k)) <=> Waits(emitted, MutedOf(k))
                 /\ Waits(emitted', MarkedOf(k)) <=> Waits(emitted, MarkedOf(k)) \/ k \in told
                 /\ Waits(emitted, DefaultTo(k)) =>
                      Waits(emitted', DefaultTo(k)) \/ k \in Head(emitted).of
  BY <1>1, <1>3, <1>5, <1>11, DeliverIs
<1>13. ItemsAreTold'
  <2>. SUFFICES ASSUME NEW k \in Sinks
                PROVE  /\ tui_item[k].shown =>
                            /\ tui_item[k].muted = struct_node'[k].mute \/ Waits(emitted', MutedOf(k))
                            /\ tui_item[k].is_default = struct_node'[k].is_default
                                 \/ Waits(emitted', MarkedOf(k))
                       /\ ~tui_item[k].shown =>
                            /\ ~tui_item[k].muted /\ ~tui_item[k].is_default
                            /\ ~Waits(emitted', MutedOf(k)) /\ ~Waits(emitted', MarkedOf(k))
                       /\ struct_node'[k].mute => struct_node'[k].has_param_props
                       /\ struct_node'[k].is_default => struct_node'[k].has_default
    BY <1>1 DEF ItemsAreTold, MutedOf, MarkedOf
  <2>1. CASE k \notin changed
    BY <1>6, <1>10, <1>12, <2>1 DEF MarksInv, ItemsAreTold
  <2>2. CASE k \in changed
    BY <1>6, <1>10, <1>12, <2>2 DEF MarksInv, ItemsAreTold
  <2>. QED  BY <2>1, <2>2
<1>14. NodesAreTold'
  <2>. SUFFICES ASSUME NEW k \in Sinks, struct_node[k].default_hook,
                       ~Waits(emitted', DefaultTo(k))
                PROVE  struct_node'[k].is_default <=> is(k)
    BY <1>3, <1>10 DEF NodesAreTold, DefaultTo, is
  <2>1. CASE k \in changed
    BY <1>10, <2>1
  <2>2. CASE k \notin changed /\ k \in Head(emitted).of
    BY <1>7, <1>10, <2>2
  <2>3. CASE k \notin changed /\ k \notin Head(emitted).of
    <3>1. ~Waits(emitted, DefaultTo(k))
      BY <1>12, <2>3
    <3>2. struct_node[k].is_default <=> is(k)
      BY <3>1 DEF MarksInv, NodesAreTold, is
    <3>. QED  BY <1>10, <2>3, <3>2
  <2>. QED  BY <2>1, <2>2, <2>3
<1>15. ~default_metadata.bound => \A k \in Sinks : ~struct_node'[k].is_default
  <2>. SUFFICES ASSUME ~default_metadata.bound, NEW k \in Sinks
                PROVE  ~struct_node'[k].is_default
    OBVIOUS
  <2>1. ~is(k) /\ ~struct_node[k].is_default
    BY MarksAssumption DEF MarksInv, BoundFirst, is
  <2>. QED  BY <1>10, <2>1
<1>. QED  BY <1>1, <1>3, <1>8, <1>10, <1>12, <1>13, <1>14, <1>15, DeliverRest

-----------------------------------------------------------------------------
(* Keys, and the theorems.                                                 *)

LEMMA KeyMarks ==
  ASSUME MarksInv, NEW n \in Sinks, SetDefault(n) \/ SetMute(n)
  PROVE  MarksInv'
<1>1. UNCHANGED <<server_vars, inbox, default_metadata, struct_node, tui_item, emitted>>
  BY DEF SetDefault, SetMute
<1>2. /\ calls' \in Seq(Orders)
      /\ Waits(calls', MetadataBind) <=> Waits(calls, MetadataBind)
  <2>1. CASE calls' = calls
    BY <2>1 DEF MarksInv, MarksTypes, MetadataBind
  <2>2. CASE calls' = calls \o Sent("set default", Metadata, n)
    <3>1. /\ Msg("set default", Metadata, n) \in Orders
          /\ Msg("set default", Metadata, n) \notin MetadataBind
      BY OrdersAre
    <3>. QED  BY <2>2, <3>1, CallIs
  <2>3. ASSUME NEW b \in BOOLEAN, calls' = calls \o Sent("mute", n, b)
        PROVE  /\ calls' \in Seq(Orders)
               /\ Waits(calls', MetadataBind) <=> Waits(calls, MetadataBind)
    <3>1. Msg("mute", n, b) \in Orders /\ Msg("mute", n, b) \notin MetadataBind
      BY OrdersAre
    <3>. QED  BY <2>3, <3>1, CallIs
  <2>4. ASSUME SetDefault(n)
        PROVE  calls' = calls \/ calls' = calls \o Sent("set default", Metadata, n)
    BY <2>4 DEF SetDefault, PipewireSetDefault
  <2>5. ASSUME SetMute(n)
        PROVE  \E b \in BOOLEAN : calls' = calls \o Sent("mute", n, b)
    <3>1. PICK b \in {TRUE, FALSE, ~tui_item[n].muted} : NodeSetMute(n, b)
      BY <2>5 DEF SetMute
    <3>2. (~tui_item[n].muted) \in BOOLEAN
      BY NegationIs
    <3>3. b \in BOOLEAN
      BY <3>1, <3>2, Zenon
    <3>. QED  BY <3>1, <3>3, Zenon DEF NodeSetMute
  <2>. QED  BY <2>1, <2>2, <2>3, <2>4, <2>5
<1>3. ServerIsFollowed'
  BY <1>1 DEF MarksInv, ServerIsFollowed, ParamOf, Properties, server_vars
<1>. QED  BY <1>1, <1>2, <1>3, ServerStep DEF MarksInv, MarksTypes, BoundFirst, server_vars

LEMMA InitMarks == MarksInit => MarksInv
<1>. SUFFICES ASSUME MarksInit PROVE MarksInv
  OBVIOUS
<1>1. MarksTypes
  <2>1. /\ muted \in [Sinks -> BOOLEAN]
        /\ struct_node \in [Sinks -> StructNodes]
        /\ tui_item \in [Sinks -> [shown : BOOLEAN, muted : BOOLEAN, is_default : BOOLEAN]]
    BY DEF MarksInit, StructNodes
  <2>2. default_metadata \in [bound : BOOLEAN, property : Sinks \union {Nobody}]
    BY DEF MarksInit
  <2>3. calls \in Seq(Orders) /\ inbox \in Seq(Posts) /\ emitted \in Seq(Notices)
    BY DEF MarksInit
  <2>. QED  BY <2>1, <2>2, <2>3 DEF MarksInit, MarksTypes
<1>2. ItemsAreTold
  <2>1. \A some : ~Waits(emitted, some)
    BY WaitsNone DEF MarksInit
  <2>2. \A n \in Sinks : /\ ~tui_item[n].shown /\ ~tui_item[n].muted /\ ~tui_item[n].is_default
                         /\ ~struct_node[n].mute /\ ~struct_node[n].is_default
    BY DEF MarksInit
  <2>. QED  BY <2>1, <2>2 DEF ItemsAreTold
<1>3. NodesAreTold
  <2>1. \A n \in Sinks : ~struct_node[n].default_hook
    BY DEF MarksInit
  <2>. QED  BY <2>1 DEF NodesAreTold
<1>4. BoundFirst
  <2>1. default_metadata.property = Nobody /\ \A n \in Sinks : ~struct_node[n].is_default
    BY DEF MarksInit
  <2>2. Metadata \notin subscribed
    BY DEF MarksInit
  <2>3. ~Waits(inbox, Properties) /\ ~Waits(calls, MetadataBind)
    BY WaitsNone DEF MarksInit
  <2>. QED  BY <2>1, <2>2, <2>3 DEF BoundFirst
<1>5. ServerIsFollowed
  BY DEF MarksInit, ServerIsFollowed
<1>. QED  BY <1>1, <1>2, <1>3, <1>4, <1>5 DEF MarksInv

LEMMA NextMarks == MarksInv /\ [MarksNext]_marks_vars => MarksInv'
<1>. SUFFICES ASSUME MarksInv, [MarksNext]_marks_vars PROVE MarksInv'
  OBVIOUS
<1>1. ASSUME NEW x \in Sinks \union {Metadata}, Export(x) PROVE MarksInv'
  BY <1>1, ExportMarks
<1>2. CASE ServerHandles
  BY <1>2, ServerHandlesMarks
<1>3. CASE ForeignChange
  BY <1>3, ForeignMarks
<1>4. CASE OnGlobal
  BY <1>4, OnGlobalMarks
<1>5. CASE OnProperty
  BY <1>5, OnPropertyMarks
<1>6. CASE OnInfo
  BY <1>6, OnInfoMarks
<1>7. CASE OnParam
  BY <1>7, OnParamMarks
<1>8. CASE ShowSink
  BY <1>8, ShowSinkMarks
<1>9. CASE OnDefault
  BY <1>9, OnDefaultMarks
<1>10. CASE OnMark
  BY <1>10, OnMarkMarks
<1>11. ASSUME NEW n \in Sinks, SetDefault(n) \/ SetMute(n) PROVE MarksInv'
  BY <1>11, KeyMarks
<1>12. CASE UNCHANGED marks_vars
  <2>1. UNCHANGED <<default_sink, muted, subscribed, calls, inbox, default_metadata,
                    struct_node, tui_item, emitted>>
    BY <1>12 DEF marks_vars, server_vars
  <2>2. ServerIsFollowed'
    BY <2>1 DEF MarksInv, ServerIsFollowed, ParamOf, Properties
  <2>. QED  BY <2>1, <2>2, ServerStep DEF MarksInv, MarksTypes, BoundFirst
<1>. QED  BY <1>1, <1>2, <1>3, <1>4, <1>5, <1>6, <1>7, <1>8, <1>9, <1>10, <1>11, <1>12
            DEF MarksNext

\* Whatever is out of step is about to be told: an item of its node, a node of the
\* metadata, and both of the server, whose last message says what it has (common.c,
\* node.c).
THEOREM MarksHold == MarksSpec => []MarksInv
<1>. QED  BY InitMarks, NextMarks, PTL DEF MarksSpec

\* Between two dispatches an item shows its node's marks and one node is the default,
\* the metadata's; with nothing on its way back, they are the server's (common.c:107-111,
\* 153-193, node.c:135-154, 263-290).
THEOREM MarksAlwaysSettle == MarksSpec => []MarksSettle
<1>1. MarksInv => MarksSettle
  <2>. SUFFICES ASSUME MarksInv, emitted = <<>>, NEW n \in Sinks
                PROVE  /\ tui_item[n].shown =>
                            /\ tui_item[n].muted = struct_node[n].mute
                            /\ tui_item[n].is_default = struct_node[n].is_default
                       /\ struct_node[n].default_hook =>
                            (struct_node[n].is_default <=> default_metadata.property = n)
                       /\ inbox = <<>> =>
                            /\ n \in subscribed => struct_node[n].mute = muted[n]
                            /\ Metadata \in subscribed /\ default_sink # Nobody =>
                                 default_metadata.property = default_sink
    BY DEF MarksSettle
  <2>1. \A some : ~Waits(emitted, some)
    BY WaitsNone
  <2>2. /\ tui_item[n].shown =>
             /\ tui_item[n].muted = struct_node[n].mute
             /\ tui_item[n].is_default = struct_node[n].is_default
        /\ struct_node[n].default_hook =>
             (struct_node[n].is_default <=> default_metadata.property = n)
    BY <2>1 DEF MarksInv, ItemsAreTold, NodesAreTold
  <2>3. ASSUME inbox = <<>>
        PROVE  /\ n \in subscribed => struct_node[n].mute = muted[n]
               /\ Metadata \in subscribed /\ default_sink # Nobody =>
                    default_metadata.property = default_sink
    <3>1. \A some, old, val : EndsWith(inbox, some, old, val) => old = val
      <4>1. Len(inbox) = 0
        BY <2>3
      <4>. QED  BY <4>1, SmallRanges DEF EndsWith
    <3>. QED  BY <3>1 DEF MarksInv, ServerIsFollowed
  <2>. QED  BY <2>2, <2>3
<1>. QED  BY <1>1, MarksHold, PTL

=============================================================================
