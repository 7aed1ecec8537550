----------------------------- MODULE Lifecycle ------------------------------
(***************************************************************************)
(* Nodes and devices from their appearance in the registry to their        *)
(* destruction: src/pw/common.c, the reference counts and listeners of     *)
(* src/pw/node.c and src/pw/device.c, and the items src/tui/tui.c shows.   *)
(*                                                                         *)
(* The event bus is taken as module EventBus promises it: an event is      *)
(* addressed to the hooks that listen when it is emitted and reaches those *)
(* of them that still do when its turn comes.  Between two dispatches the  *)
(* main loop hands messages of the pipewire server to the handlers;        *)
(* events_dispatch then empties the queue, also of the events that its     *)
(* callbacks emit, before the next message is read.  All callbacks of one  *)
(* event are one step, and so is the "after" function that ends it.        *)
(*                                                                         *)
(* An object stands for one pipewire object: an id the server uses again   *)
(* is another object.                                                      *)
(***************************************************************************)
EXTENDS Integers, Sequences, SequencesExt, FiniteSets

CONSTANTS
  Nodes, Devices,
  Defaultable,      \* sinks and sources: nodes that watch the default metadata
  Tabbed,           \* objects for which the configuration has a tab
  None, Item,       \* null; the hook of the TUI's item on its object
  MaxMessages,      \* bound: info and metadata messages in one behaviour
  MaxQueue          \* bound: events in the queue when a message is handled

Objects == Nodes \union Devices

ASSUME LifecycleAssumption ==
  /\ Nodes \cap Devices = {}
  /\ Defaultable \subseteq Nodes /\ Tabbed \subseteq Objects
  /\ None \notin Objects /\ Item \notin Objects
  /\ MaxMessages \in Nat /\ MaxQueue \in Nat

VARIABLES
  state,            \* an object is absent, live or destroyed
  refcnt,           \* struct node, struct device: refcnt
  mapped,           \* objects in pw.nodes and pw.devices
  gone,             \* objects whose proxy was removed
  hasInfo,          \* objects with has_props set
  device,           \* node->device, to which node->device_hook belongs
  watching,         \* nodes with node->default_hook
  shown,            \* objects the TUI has an item for, with its hook
  created,          \* how many items the TUI has created for the object
  late,             \* objects whose item came after the REMOVED event
  metadata,         \* pw.default_metadata is bound
  queue,            \* the event queue
  messages,         \* info and metadata messages so far
  pc                \* "idle", or in events_dispatch "deliver" or "after"

registry == <<mapped, gone, hasInfo, metadata>>
owned    == <<state, refcnt, device, watching>>
screen   == <<shown, created, late>>
vars     == <<state, refcnt, device, watching, mapped, gone, hasInfo, metadata,
              shown, created, late, queue, messages, pc>>

Kinds == {"announce", "default", "update", "removed"}

TypeOK ==
  /\ state \in [Objects -> {"absent", "live", "destroyed"}]
  /\ refcnt \in [Objects -> Nat]
  /\ mapped \subseteq Objects /\ gone \subseteq Objects /\ hasInfo \subseteq Objects
  /\ device \in [Nodes -> Devices \union {None}]
  /\ watching \subseteq Nodes
  /\ shown \subseteq Objects /\ late \subseteq Objects
  /\ created \in [Objects -> Nat]
  /\ metadata \in BOOLEAN
  /\ \A i \in DOMAIN queue :
       queue[i] \in [kind : Kinds, of : Objects \union {None},
                     to : SUBSET (Nodes \union {Item})]
  /\ messages \in 0..MaxMessages
  /\ pc \in {"idle", "deliver", "after"}

Init ==
  /\ state = [o \in Objects |-> "absent"] /\ refcnt = [o \in Objects |-> 0]
  /\ device = [n \in Nodes |-> None] /\ watching = {}
  /\ mapped = {} /\ gone = {} /\ hasInfo = {} /\ metadata = FALSE
  /\ shown = {} /\ created = [o \in Objects |-> 0] /\ late = {}
  /\ queue = <<>> /\ messages = 0 /\ pc = "idle"

-----------------------------------------------------------------------------
(* Events.  Events on pw.emitter are for the TUI and the default_hooks of  *)
(* nodes; events of a node for its item; events of a device for its item   *)
(* and for the hooks that nodes have on it.                                *)

Event(kind, o, to) == [kind |-> kind, of |-> o, to |-> to]

\* The hooks on the emitter of o.
Listeners(o) == (IF o \in shown THEN {Item} ELSE {})
                \union {n \in Nodes : device[n] = o}

Update(o) == Event("update", o, Listeners(o))

Emit(events) == queue' = queue \o events

\* What is known is announced to a new listener only: node_add_listener,
\* device_add_listener.
Replay(o, to) == IF o \in hasInfo THEN <<Event("update", o, {to})>> ELSE <<>>

\* Broken: node_destroy forgets device_unref.
UnrefKeepingDevice(o, count) ==
  LET dead == IF refcnt[o] = count THEN {o} ELSE {}
      dev  == IF o \in Nodes \cap dead THEN device[o] ELSE None
  IN  /\ refcnt' = [x \in Objects |->
                      refcnt[x] - (IF x = o THEN count ELSE 0)
                                - (IF x = dev THEN 1 ELSE 0)]
      /\ state' = [x \in Objects |-> IF x \in dead THEN "destroyed" ELSE state[x]]
      /\ device' = [n \in Nodes |-> IF n \in dead THEN None ELSE device[n]]
      /\ watching' = watching \ dead

\* Broken: node_destroy does not release the default_hook.
UnrefWatching(o, count) ==
  LET dies == refcnt[o] = count
      dev  == IF dies /\ o \in Nodes THEN device[o] ELSE None
      dead == (IF dies THEN {o} ELSE {})
                \union {d \in Devices : d = dev /\ refcnt[d] = 2}
  IN  /\ refcnt' = [x \in Objects |->
                      refcnt[x] - (IF x = o THEN count ELSE 0)
                                - (IF x = dev THEN 2 ELSE 0)]
      /\ state' = [x \in Objects |-> IF x \in dead THEN "destroyed" ELSE state[x]]
      /\ device' = [n \in Nodes |-> IF n \in dead THEN None ELSE device[n]]
      /\ UNCHANGED watching

\* node_unref and device_unref, count times.  The last reference destroys the
\* object; node_destroy also drops the node's reference to its device and
\* releases its hook there, which drops another.
Unref(o, count) ==
  LET dies == refcnt[o] = count
      dev  == IF dies /\ o \in Nodes THEN device[o] ELSE None
      dead == (IF dies THEN {o} ELSE {})
                \union {d \in Devices : d = dev /\ refcnt[d] = 2}
  IN  /\ refcnt' = [x \in Objects |->
                      refcnt[x] - (IF x = o THEN count ELSE 0)
                                - (IF x = dev THEN 2 ELSE 0)]
      /\ state' = [x \in Objects |-> IF x \in dead THEN "destroyed" ELSE state[x]]
      /\ device' = [n \in Nodes |-> IF n \in dead THEN None ELSE device[n]]
      /\ watching' = watching \ dead

-----------------------------------------------------------------------------
(* Messages of the server.                                                 *)

\* on_registry_global: node_create or device_create, map_insert, emit_node.
GlobalAppears(o) ==
  /\ pc = "idle" /\ state[o] = "absent"
  /\ state' = [state EXCEPT ![o] = "live"]
  /\ mapped' = mapped \union {o}
  /\ refcnt' = [refcnt EXCEPT ![o] = 2]
  /\ Emit(<<Event("announce", o, watching \union {Item})>>)
  /\ UNCHANGED <<device, watching, gone, hasInfo, metadata, screen, messages, pc>>

\* on_registry_global for the metadata named "default".
MetadataAppears ==
  /\ pc = "idle" /\ ~metadata
  /\ metadata' = TRUE
  /\ UNCHANGED <<owned, mapped, gone, hasInfo, screen, queue, messages, pc>>

GlobalRemoved(o) ==
  /\ pc = "idle" /\ o \in mapped
  /\ mapped' = mapped \ {o}
  /\ Unref(o, 1)
  /\ UNCHANGED <<gone, hasInfo, metadata, screen, queue, messages, pc>>

\* The server still knows the object that the proxy stands for.
Bound(o) == state[o] = "live" /\ o \notin gone

\* Broken: the REMOVED event goes to listeners of the core only.
ProxyRemovedSilently(o) ==
  /\ pc = "idle" /\ Bound(o)
  /\ gone' = gone \union {o}
  /\ Emit(<<Event("removed", o, {})>>)
  /\ UNCHANGED <<owned, mapped, hasInfo, metadata, screen, messages, pc>>

\* on_proxy_removed: the server is done with the object.
ProxyRemoved(o) ==
  /\ pc = "idle" /\ Bound(o)
  /\ gone' = gone \union {o}
  /\ Emit(<<Event("removed", o, Listeners(o))>>)
  /\ UNCHANGED <<owned, mapped, hasInfo, metadata, screen, messages, pc>>

Message == /\ pc = "idle"
           /\ messages < MaxMessages /\ messages' = messages + 1

\* on_default_metadata_property, for a key and a value of interest.
DefaultChanges ==
  /\ Message /\ metadata
  /\ Emit(<<Event("default", None, watching)>>)
  /\ UNCHANGED <<owned, registry, screen, pc>>

\* on_device_info with new properties, or the end of a round trip.
DeviceInfo(d) ==
  /\ Message /\ Bound(d)
  /\ Emit(<<Update(d)>>)
  /\ hasInfo' = hasInfo \union {d}
  /\ UNCHANGED <<owned, mapped, gone, metadata, screen, pc>>

\* on_node_param: new volumes.
NodeParam(n) ==
  /\ Message /\ Bound(n)
  /\ Emit(<<Update(n)>>)
  /\ UNCHANGED <<owned, registry, screen, pc>>

\* on_node_info with new properties: look up the device, unless there is one,
\* and start to watch the default metadata; pipewire_add_listener announces
\* every object and the known defaults to the new hook.
NodeInfo(n) ==
  /\ Message /\ Bound(n)
  /\ \E d \in IF device[n] = None THEN (mapped \cap Devices) \union {None}
                                  ELSE {None} :
       LET known    == IF n \in Defaultable \ watching THEN mapped ELSE {}
           defaults == IF n \in Defaultable \ watching /\ metadata
                       THEN <<Event("default", None, {n})>> ELSE <<>>
       IN  /\ device' = IF d # None THEN [device EXCEPT ![n] = d] ELSE device
           /\ refcnt' = [o \in Objects |->
                           refcnt[o] + (IF o \in known THEN 1 ELSE 0)
                                     + (IF o = d THEN 2 ELSE 0)]
           /\ \E order \in SetToSeqs(known) :
                Emit([i \in DOMAIN order |-> Event("announce", order[i], {n})]
                       \o defaults \o Replay(d, n) \o <<Update(n)>>)
  /\ watching' = watching \union ({n} \cap Defaultable)
  /\ hasInfo' = hasInfo \union {n}
  /\ UNCHANGED <<state, mapped, gone, metadata, screen, pc>>

-----------------------------------------------------------------------------
(* events_dispatch.                                                        *)

Current == Head(queue)

DispatchBegin ==
  /\ pc = "idle" /\ queue # <<>>
  /\ pc' = "deliver"
  /\ UNCHANGED <<owned, registry, screen, queue, messages>>

\* on_pipewire_node, on_pipewire_device: the item takes a reference, and its
\* hook another.
ShowItem(o) ==
  /\ shown' = shown \union {o}
  /\ created' = [created EXCEPT ![o] = @ + 1]
  /\ late' = IF o \in gone THEN late \union {o} ELSE late
  /\ refcnt' = [refcnt EXCEPT ![o] = @ + 2]
  /\ Emit(Replay(o, Item))

\* A default_hook has no callback for nodes and devices, the TUI none for
\* defaults.
DeliverAnnounce ==
  /\ pc = "deliver" /\ Current.kind = "announce"
  /\ IF Item \in Current.to /\ Current.of \in Tabbed
     THEN ShowItem(Current.of)
     ELSE UNCHANGED <<refcnt, screen, queue>>
  /\ pc' = "after"
  /\ UNCHANGED <<state, device, watching, registry, messages>>

\* on_default: a node that has become the default, or is it no more, says so.
DeliverDefault ==
  /\ pc = "deliver" /\ Current.kind = "default"
  /\ \E changed \in SUBSET (Current.to \cap watching) :
       \E order \in SetToSeqs(changed) :
         Emit([i \in DOMAIN order |-> Update(order[i])])
  /\ pc' = "after"
  /\ UNCHANGED <<owned, registry, screen, messages>>

\* Properties, volumes, routes, profiles: an item redraws; a node that listens
\* to its device emits its own routes in turn (on_device_routes).
DeliverUpdate ==
  /\ pc = "deliver" /\ Current.kind = "update"
  /\ \E order \in SetToSeqs({n \in Current.to \cap Nodes : device[n] = Current.of}) :
       Emit([i \in DOMAIN order |-> Update(order[i])])
  /\ pc' = "after"
  /\ UNCHANGED <<owned, registry, screen, messages>>

\* on_node_removed, on_device_removed: release the hook and the item.
DeliverRemoved ==
  /\ pc = "deliver" /\ Current.kind = "removed"
  /\ IF Item \in Current.to
     THEN /\ shown' = shown \ {Current.of}
          /\ Unref(Current.of, 2)
     ELSE UNCHANGED <<owned, shown>>
  /\ pc' = "after"
  /\ UNCHANGED <<registry, created, late, queue, messages>>

\* Broken: the event's reference is not dropped.
AfterKeepingReference ==
  /\ pc = "after"
  /\ queue' = Tail(queue)
  /\ pc' = IF Len(queue) = 1 THEN "idle" ELSE "deliver"
  /\ UNCHANGED <<owned, registry, screen, messages>>

\* after_emit_node, after_emit_device; then the next event, if there is one.
After ==
  /\ pc = "after"
  /\ IF Current.kind = "announce"
     THEN Unref(Current.of, 1)
     ELSE UNCHANGED owned
  /\ queue' = Tail(queue)
  /\ pc' = IF Len(queue) = 1 THEN "idle" ELSE "deliver"
  /\ UNCHANGED <<registry, screen, messages>>

Dispatch == DispatchBegin \/ DeliverAnnounce \/ DeliverDefault \/ DeliverUpdate
            \/ DeliverRemoved \/ After

Server ==
  /\ Len(queue) < MaxQueue
  /\ \/ MetadataAppears \/ DefaultChanges
     \/ \E o \in Objects :
          GlobalAppears(o) \/ GlobalRemoved(o) \/ ProxyRemoved(o)
     \/ \E d \in Devices : DeviceInfo(d)
     \/ \E n \in Nodes : NodeInfo(n) \/ NodeParam(n)

Next == Dispatch \/ Server

\* The main loop dispatches when the eventfd is readable, and callbacks return.
Spec == Init /\ [][Next]_vars /\ WF_vars(Dispatch)

-----------------------------------------------------------------------------
(* Safety.                                                                 *)

Announcements(o) ==
  {i \in DOMAIN queue : queue[i].kind = "announce" /\ queue[i].of = o}

\* Every reference has an owner: the map, an announcement that is not over, an
\* item and its hook, a node and its hook on the device.
Owners(o) == Cardinality(mapped \cap {o})
             + Cardinality(Announcements(o))
             + 2 * Cardinality(shown \cap {o})
             + 2 * Cardinality({n \in Nodes : device[n] = o})

\* References are neither lost nor dropped twice, and an object without one is
\* destroyed: no leak, no early destruction, and ASSERT(refcnt > 0) holds at
\* every reference taken or dropped (node.c:596-610, device.c:484-496).
RefcntsOwned ==
  \A o \in Objects :
    /\ refcnt[o] = Owners(o)
    /\ state[o] = "live" <=> refcnt[o] > 0

\* What a callback is given is still there: the object of an announcement, the
\* object of an item, the node behind a default_hook or a device_hook, and the
\* device it listens to (private_data and callbacks_data are plain pointers).
NothingUsedAfterFree ==
  \A o \in Objects :
    \/ Announcements(o) # {} \/ o \in shown \/ o \in watching
    \/ \E n \in Nodes : o \in {n, device[n]} /\ device[n] # None
    => state[o] = "live"

\* The screen agrees with the registry.  No object has two items, though the
\* broadcast of on_registry_global and the replays of pipewire_add_listener both
\* announce it; and once the queue is empty an object with a tab is shown exactly
\* from its announcement to the removal of its proxy, unless its item came after
\* the REMOVED event, which no later event takes away (common.c:94-114, 227,
\* tui.c:1194, 1267).
ScreenMatchesRegistry ==
  /\ \A o \in Objects : created[o] <= 1
  /\ pc = "idle" /\ queue = <<>> =>
       \A o \in Tabbed :
         state[o] = "live" => (o \in shown <=> o \notin gone \/ o \in late)

\* An object that the server has removed is destroyed in the end, whatever was
\* queued for it, unless its item came too late or a node still holds it.
ObjectsGoAway ==
  \A o \in Objects :
    o \in gone \ mapped ~> \/ state[o] = "destroyed"
                           \/ o \in late
                           \/ \E n \in Nodes : device[n] = o
=============================================================================
