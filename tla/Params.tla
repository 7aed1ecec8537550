------------------------------- MODULE Params -------------------------------
(***************************************************************************)
(* The routes and profiles of one device on their way to the screen: the   *)
(* round trip and the staging lists of src/pw/device.c, the copy that the  *)
(* node of this device filters for itself (src/pw/node.c), and the copies  *)
(* of the TUI's items (src/tui/tui.c).                                     *)
(*                                                                         *)
(* A change on the server makes the client enumerate everything again.     *)
(* The server (external) handles requests in order, one at a time, so what *)
(* it enumerates may change between two requests of one round trip, and a  *)
(* second round trip may begin before the first one is done.               *)
(*                                                                         *)
(* Events carry no data: a callback gets the lists as they are when the    *)
(* event is dispatched.  Params that answer one request arrive as one list *)
(* here; nothing looks at the staging lists between two of them.           *)
(***************************************************************************)
EXTENDS Integers, Sequences, SequencesExt, FiniteSetsExt

CONSTANTS
  ServerStates,     \* what a server has: profiles, profile, routes, selected
  RouteProfiles,    \* route->profiles, by index of the route
  OwnRoutes,        \* routes of the node's direction and card device
  MaxChanges        \* bound: changes on the server, and keys that ask for one

ASSUME ParamsAssumption ==
  /\ ServerStates # {}
  /\ \A s \in ServerStates :
       /\ s.profiles \in Seq(Nat) /\ IsInjective(s.profiles)
       /\ s.profile \in ToSet(s.profiles)
       /\ s.routes \in Seq(DOMAIN RouteProfiles) /\ IsInjective(s.routes)
       /\ s.selected \subseteq ToSet(s.routes)
  /\ OwnRoutes \subseteq DOMAIN RouteProfiles
  /\ MaxChanges \in Nat

VARIABLES
  actual,           \* the server's state
  changes,          \* changes and keys so far
  requests,         \* enum_params, sync and set_param calls under way
  messages,         \* info, param and done on their way back
  staging,          \* dev->staging
  device,           \* dev->profiles, dev->routes; known: has_profiles, has_routes
  node,             \* node->device_profile, node->routes; known: has_routes
  listening,        \* who has a hook: node and item on the device, item on the node
  events,           \* the queue of events, each with the hooks it goes to
  dispatching,      \* events_dispatch has not emptied the queue yet
  shown             \* the items' copies

server  == <<actual, changes, requests>>
vars    == <<actual, changes, requests, messages, staging, device, node, listening,
             events, dispatching, shown>>

NoLists == [profiles |-> <<>>, routes |-> <<>>]

Init ==
  /\ actual \in ServerStates /\ changes = 0
  /\ requests = <<>> /\ messages = <<[kind |-> "info", list |-> <<>>]>>
  /\ staging = NoLists
  /\ device = [profiles |-> <<>>, routes |-> <<>>, known |-> FALSE]
  /\ node = [profile |-> 0, routes |-> <<>>, known |-> FALSE]
  /\ listening = {} /\ events = <<>> /\ dispatching = FALSE
  /\ shown = NoLists

-----------------------------------------------------------------------------
(* The server (external).                                                  *)

Tell(kind, list) == Append(messages, [kind |-> kind, list |-> list])

Change(s) ==
  /\ actual' = s
  /\ messages' = Tell("info", <<>>)

\* Another client, or a plug, changes the state of the device.
ServerChanges ==
  /\ changes < MaxChanges /\ changes' = changes + 1
  /\ \E s \in ServerStates \ {actual} : Change(s)
  /\ UNCHANGED <<requests, staging, device, node, listening, events, dispatching, shown>>

Answer(ask) ==
  CASE ask = "EnumProfile" -> actual.profiles
    [] ask = "Profile"     -> <<actual.profile>>
    [] ask = "EnumRoute"   -> actual.routes
    [] ask = "Route"       -> SetToSeq(actual.selected)
    [] OTHER               -> <<>>

ServerAnswers ==
  /\ requests # <<>> /\ Head(requests).ask \notin {"SetProfile", "SetRoute"}
  /\ messages' = Tell(Head(requests).ask, Answer(Head(requests).ask))
  /\ requests' = Tail(requests)
  /\ UNCHANGED <<actual, changes, staging, device, node, listening, events,
                 dispatching, shown>>

\* The states in which the server has done what a request asks for.
Satisfying(request) ==
  {s \in ServerStates :
     IF request.ask = "SetProfile"
     THEN s.profile = request.index
     ELSE s.profile = actual.profile /\ request.index \in s.selected}

ServerSets ==
  /\ requests # <<>> /\ Head(requests).ask \in {"SetProfile", "SetRoute"}
  /\ \/ \E s \in Satisfying(Head(requests)) : Change(s)
     \/ Satisfying(Head(requests)) = {} /\ UNCHANGED <<actual, messages>>
  /\ requests' = Tail(requests)
  /\ UNCHANGED <<changes, staging, device, node, listening, events, dispatching, shown>>

-----------------------------------------------------------------------------
(* The device.                                                             *)

Idle == ~dispatching

Receive(kind) ==
  /\ Idle /\ messages # <<>> /\ Head(messages).kind = kind
  /\ messages' = Tail(messages)

Received == Head(messages).list

Request(ask, index) == [ask |-> ask, index |-> index]

RoundTrip == << Request("EnumProfile", 0), Request("Profile", 0),
                Request("EnumRoute", 0), Request("Route", 0), Request("sync", 0) >>

\* Broken: a change is ignored while a round trip delivers its results.
OnDeviceInfoBusy ==
  /\ Receive("info")
  /\ requests' = IF staging = NoLists THEN requests \o RoundTrip ELSE requests
  /\ UNCHANGED <<actual, changes, staging, device, node, listening, events,
                 dispatching, shown>>

\* on_device_info, for a change of the params.
OnDeviceInfo ==
  /\ Receive("info")
  /\ requests' = requests \o RoundTrip
  /\ UNCHANGED <<actual, changes, staging, device, node, listening, events,
                 dispatching, shown>>

Inactive(list) == [i \in DOMAIN list |-> [index |-> list[i], active |-> FALSE]]

Stage(lists) ==
  /\ staging' = lists
  /\ UNCHANGED <<server, device, node, listening, events, dispatching, shown>>

\* on_device_param_enum_profile
OnEnumProfile ==
  /\ Receive("EnumProfile")
  /\ Stage([staging EXCEPT !.profiles = @ \o Inactive(Received)])

\* on_device_param_profile: the last profile with this index that is not active.
OnProfile ==
  /\ Receive("Profile")
  /\ LET hits == {i \in DOMAIN staging.profiles :
                    /\ staging.profiles[i].index = Received[1]
                    /\ ~staging.profiles[i].active}
     IN  Stage(IF hits = {} THEN staging
               ELSE [staging EXCEPT !.profiles[Max(hits)].active = TRUE])

\* on_device_param_enum_route
OnEnumRoute ==
  /\ Receive("EnumRoute")
  /\ Stage([staging EXCEPT !.routes = @ \o Inactive(Received)])

\* The first route with an index, for every index, is active.
MarkFirst(routes, indices) ==
  [i \in DOMAIN routes |->
     [index  |-> routes[i].index,
      active |-> \/ routes[i].active
                 \/ /\ routes[i].index \in indices
                    /\ \A j \in 1..i - 1 : routes[j].index # routes[i].index]]

\* on_device_param_route
OnRoute ==
  /\ Receive("Route")
  /\ Stage([staging EXCEPT !.routes = MarkFirst(@, ToSet(Received))])

Emit(kind, to) == IF to = {} THEN <<>> ELSE <<[kind |-> kind, to |-> to]>>

\* What device_add_listener replays, and a round trip emits, to some hooks.
\* Nodes have callbacks for both, items of devices for profiles.
DeviceEvents(to) == Emit("profiles", to \ {"node item"})
                    \o Emit("routes", to \intersect {"node"})

Publish ==
  /\ Receive("sync")
  /\ device' = [profiles |-> staging.profiles, routes |-> staging.routes, known |-> TRUE]
  /\ UNCHANGED <<server, node, listening, dispatching, shown>>

\* Broken: the old lists stay in staging.
OnDoneUncleared ==
  /\ Publish
  /\ staging' = [profiles |-> device.profiles, routes |-> device.routes]
  /\ events' = events \o DeviceEvents(listening)

\* Broken: routes are announced before the profiles they are filtered by.
OnDoneRoutesFirst ==
  /\ Publish
  /\ staging' = NoLists
  /\ events' = events \o Emit("routes", listening \intersect {"node"})
                      \o Emit("profiles", listening \ {"node item"})

\* on_proxy_roundtrip_done
OnDone ==
  /\ Publish
  /\ staging' = NoLists
  /\ events' = events \o DeviceEvents(listening)

-----------------------------------------------------------------------------
(* Listeners.                                                              *)

\* on_node_info finds the device of the node.
LinkNode ==
  /\ Idle /\ "node" \notin listening
  /\ listening' = listening \union {"node"}
  /\ events' = IF device.known THEN events \o DeviceEvents({"node"}) ELSE events
  /\ UNCHANGED <<server, messages, staging, device, node, dispatching, shown>>

\* on_pipewire_device
ShowDevice ==
  /\ "device item" \notin listening
  /\ listening' = listening \union {"device item"}
  /\ events' = IF device.known THEN events \o DeviceEvents({"device item"}) ELSE events
  /\ UNCHANGED <<server, messages, staging, device, node, dispatching, shown>>

\* on_pipewire_node
ShowNode ==
  /\ "node item" \notin listening
  /\ listening' = listening \union {"node item"}
  /\ events' = IF node.known THEN events \o Emit("node routes", {"node item"}) ELSE events
  /\ UNCHANGED <<server, messages, staging, device, node, dispatching, shown>>

\* The dispatcher takes the first event; its callbacks emit more.
Deliver(kind, more) ==
  /\ events # <<>> /\ Head(events).kind = kind
  /\ events' = Tail(events) \o more
  /\ dispatching' = (events' # <<>>)
  /\ UNCHANGED <<server, messages, staging, device, listening>>

ActiveIn(list) == {i \in DOMAIN list : list[i].active}

\* node->device_profile, given the profiles of the device.
ProfileOf(profiles) ==
  IF ActiveIn(profiles) = {} THEN -1 ELSE profiles[Min(ActiveIn(profiles))].index

\* The routes of a device that are of use to the node.
RoutesFor(profile, routes) ==
  SelectSeq(routes, LAMBDA r : r.index \in OwnRoutes /\ profile \in RouteProfiles[r.index])

\* on_device_profiles of the node and of the item.
DeliverProfiles ==
  /\ Deliver("profiles", <<>>)
  /\ node' = IF "node" \in Head(events).to
             THEN [node EXCEPT !.profile = ProfileOf(device.profiles)] ELSE node
  /\ shown' = IF "device item" \in Head(events).to
              THEN [shown EXCEPT !.profiles = device.profiles] ELSE shown

\* on_device_routes of the node.
DeliverRoutes ==
  /\ Deliver("routes", Emit("node routes", listening \intersect {"node item"}))
  /\ node' = [node EXCEPT !.routes = RoutesFor(node.profile, device.routes),
                          !.known = TRUE]
  /\ UNCHANGED shown

\* on_node_routes of the item.
DeliverNodeRoutes ==
  /\ Deliver("node routes", <<>>)
  /\ shown' = [shown EXCEPT !.routes = node.routes]
  /\ UNCHANGED node

-----------------------------------------------------------------------------
(* Keys.  A menu keeps the choices it was opened with, which may have been *)
(* replaced since.                                                         *)

Ask(ask, index) ==
  /\ Idle
  /\ changes < MaxChanges /\ changes' = changes + 1
  /\ requests' = Append(requests, Request(ask, index))
  /\ UNCHANGED <<actual, messages, staging, device, node, listening, events,
                 dispatching, shown>>

\* device_set_profile, from on_profile_selection_done.
SelectProfile ==
  /\ "device item" \in listening /\ device.known
  /\ \E s \in ServerStates : \E p \in ToSet(s.profiles) : Ask("SetProfile", p)

\* node_set_route, from on_route_selection_done.
SelectRoute ==
  /\ "node item" \in listening /\ node.known
  /\ \E r \in OwnRoutes : Ask("SetRoute", r)

-----------------------------------------------------------------------------
Server == ServerAnswers \/ ServerSets

Handle == OnDeviceInfo \/ OnEnumProfile \/ OnProfile \/ OnEnumRoute \/ OnRoute
          \/ OnDone

Dispatch == DeliverProfiles \/ DeliverRoutes \/ DeliverNodeRoutes

Next == \/ ServerChanges \/ Server \/ Handle \/ Dispatch
        \/ LinkNode \/ ShowDevice \/ ShowNode
        \/ SelectProfile \/ SelectRoute

\* The server handles requests, the main loop reads messages and dispatches
\* events.  Nobody has to change anything.
Spec == /\ Init /\ [][Next]_vars
        /\ WF_vars(Server) /\ WF_vars(Handle) /\ WF_vars(Dispatch)

-----------------------------------------------------------------------------
Indices(list) == [i \in DOMAIN list |-> list[i].index]

\* "needed to atomically update routes and profiles" (device.c:26): each list
\* that listeners get is one answer of the server, whole and not mixed with that
\* to another round trip, and has at most one active profile.
SnapshotsWhole ==
  device.known =>
    /\ \E s \in ServerStates : Indices(device.profiles) = s.profiles
    /\ \E s \in ServerStates : Indices(device.routes) = s.routes
    /\ \A i, j \in ActiveIn(device.profiles) : i = j

\* When no event is queued, every copy is derived from the device's lists: the
\* node filters routes by the profile that goes with them (node.c:300-403), and
\* the items show what node and device have (tui.c:985, 1092).
ListenersFollow ==
  events = <<>> /\ device.known =>
    /\ "node" \in listening =>
         /\ node.profile = ProfileOf(device.profiles)
         /\ node.routes = RoutesFor(node.profile, device.routes)
    /\ "device item" \in listening => shown.profiles = device.profiles
    /\ "node item" \in listening => shown.routes = node.routes

Marked(list, active) ==
  [i \in DOMAIN list |-> [index |-> list[i], active |-> list[i] \in active]]

\* When the server no longer changes, the device comes to have what the server
\* has, however many round trips overlapped (device.c:356-388, 397-418).
ParamsConverge ==
  <>[](/\ device.profiles = Marked(actual.profiles, {actual.profile})
       /\ device.routes = Marked(actual.routes, actual.selected))
=============================================================================
