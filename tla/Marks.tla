-------------------------------- MODULE Marks --------------------------------
(***************************************************************************)
(* What an item says of its node besides the volumes: that it is muted,    *)
(* and that it is the default.  The first comes from the node's params,    *)
(* the second from a property of the default metadata, which is an object  *)
(* of its own and may appear before or after any node (src/pw/common.c,    *)
(* src/pw/node.c).                                                         *)
(*                                                                         *)
(* Each mark goes through three copies: the server's, the node's and the   *)
(* item's.  Events carry no data: a callback reads what the copy before    *)
(* holds by then.  The nodes are sinks; the metadata has the one property  *)
(* default.audio.sink, for those of other kinds are ignored, and the value *)
(* is a node, for its name.  Nodes stay, and have a name from the start.   *)
(***************************************************************************)
EXTENDS Integers, Sequences, FiniteSets

CONSTANTS
  Sinks,            \* the nodes
  Metadata,         \* the default metadata, an object like them
  Nobody,           \* a property that is not set
  MaxPresses,       \* bound: keys
  MaxForeign        \* bound: changes by other clients

ASSUME MarksAssumption ==
  /\ IsFiniteSet(Sinks) /\ Metadata \notin Sinks /\ Nobody \notin Sinks
  /\ MaxPresses \in Nat /\ MaxForeign \in Nat

VARIABLES
  default_sink, muted,      \* the server's
  exported,                 \* globals the server has announced
  subscribed,               \* objects whose changes it reports
  calls,                    \* on their way to the server
  inbox,                    \* on their way back
  default_metadata,         \* pw.default_metadata: bound, and its property
  struct_node,              \* struct node: its marks, and what it has had
  tui_item,                 \* struct tui_tab_item
  emitted, emptying,        \* the queue, and that events_dispatch is emptying it
  null_proxy,               \* the metadata was used before it was bound
  presses, foreign          \* keys, changes by other clients, so far

server_vars == <<default_sink, muted, exported, subscribed, foreign>>
marks_vars  == <<server_vars, calls, inbox, default_metadata, struct_node, tui_item,
                 emitted, emptying, null_proxy, presses>>

MarksInit ==
  /\ default_sink = Nobody /\ muted = [n \in Sinks |-> FALSE]
  /\ exported = {} /\ subscribed = {}
  /\ calls = <<>> /\ inbox = <<>>
  /\ default_metadata = [bound |-> FALSE, property |-> Nobody]
  /\ struct_node = [n \in Sinks |-> [mute |-> FALSE, has_param_props |-> FALSE,
                                     is_default |-> FALSE, has_default |-> FALSE,
                                     default_hook |-> FALSE]]
  /\ tui_item = [n \in Sinks |-> [shown |-> FALSE, muted |-> FALSE, is_default |-> FALSE]]
  /\ emitted = <<>> /\ emptying = FALSE
  /\ null_proxy = FALSE
  /\ presses = 0 /\ foreign = 0

-----------------------------------------------------------------------------
(* The server, with the session manager and other clients (external).      *)

Sent(what, n, val) == <<[what |-> what, of |-> n, val |-> val]>>

\* Clients that are bound to the metadata are told; a property that is removed
\* comes without a type, and on_default_metadata_property ignores it.
DefaultBecomes(n) ==
  /\ default_sink' = n
  /\ inbox' = inbox \o
       IF Metadata \in subscribed /\ n # default_sink /\ n # Nobody
       THEN Sent("property", Metadata, n) ELSE <<>>

MutedBecomes(n, mute) ==
  /\ muted' = [muted EXCEPT ![n] = mute]
  /\ inbox' = inbox \o
       IF n \in subscribed /\ mute # muted[n] THEN Sent("param", n, mute) ELSE <<>>

Export(x) ==
  /\ x \notin exported
  /\ exported' = exported \union {x}
  /\ inbox' = inbox \o Sent("global", x, Nobody)
  /\ UNCHANGED <<default_sink, muted, subscribed, foreign, calls, default_metadata,
                 struct_node, tui_item, emitted, emptying, null_proxy, presses>>

ServerHandles ==
  /\ calls # <<>>
  /\ calls' = Tail(calls)
  /\ LET call == Head(calls) IN
     CASE call.what = "bind" /\ call.of = Metadata ->
            /\ subscribed' = subscribed \union {Metadata}
            /\ inbox' = inbox \o IF default_sink = Nobody THEN <<>>
                                       ELSE Sent("property", Metadata, default_sink)
            /\ UNCHANGED <<default_sink, muted>>
       [] call.what = "bind" /\ call.of # Metadata ->
            /\ inbox' = inbox \o Sent("info", call.of, Nobody)
            /\ UNCHANGED <<default_sink, muted, subscribed>>
       [] call.what = "subscribe" ->
            /\ subscribed' = subscribed \union {call.of}
            /\ inbox' = inbox \o Sent("param", call.of, muted[call.of])
            /\ UNCHANGED <<default_sink, muted>>
       [] call.what = "set default" ->
            DefaultBecomes(call.val) /\ UNCHANGED <<muted, subscribed>>
       [] call.what = "mute" ->
            MutedBecomes(call.of, call.val) /\ UNCHANGED <<default_sink, subscribed>>
  /\ UNCHANGED <<exported, foreign, default_metadata, struct_node, tui_item, emitted,
                 emptying, null_proxy, presses>>

ForeignChange ==
  /\ foreign < MaxForeign /\ foreign' = foreign + 1
  /\ \/ \E n \in Sinks \union {Nobody} : DefaultBecomes(n) /\ UNCHANGED muted
     \/ \E n \in Sinks : MutedBecomes(n, ~muted[n]) /\ UNCHANGED default_sink
  /\ UNCHANGED <<exported, subscribed, calls, default_metadata, struct_node, tui_item,
                 emitted, emptying, null_proxy, presses>>

-----------------------------------------------------------------------------
(* Messages.                                                               *)

\* The hooks on pw.emitter that look at DEFAULT events are those of the nodes; a
\* node's own events go to its item.
Queued(what, n)   == <<[what |-> what, of |-> n]>>
QueuedDefault(to) == <<[what |-> "default", of |-> to]>>
NodeQueues(what, n) == IF tui_item[n].shown THEN Queued(what, n) ELSE <<>>

\* The main loop reads what has come, unless it is dispatching events.
Read(what) == /\ ~emptying /\ ~null_proxy
              /\ inbox # <<>> /\ Head(inbox).what = what
              /\ inbox' = Tail(inbox)

Incoming == Head(inbox)

OnGlobal ==
  /\ Read("global")
  /\ calls' = calls \o Sent("bind", Incoming.of, Nobody)
  /\ IF Incoming.of = Metadata
     THEN /\ default_metadata' = [default_metadata EXCEPT !.bound = TRUE]
          /\ UNCHANGED emitted
     ELSE /\ emitted' = emitted \o Queued("node", Incoming.of)
          /\ UNCHANGED default_metadata
  /\ UNCHANGED <<server_vars, struct_node, tui_item, emptying, null_proxy, presses>>

\* on_default_metadata_property
OnProperty ==
  /\ Read("property")
  /\ default_metadata' = [default_metadata EXCEPT !.property = Incoming.val]
  /\ emitted' = emitted \o QueuedDefault({n \in Sinks : struct_node[n].default_hook})
  /\ UNCHANGED <<server_vars, calls, struct_node, tui_item, emptying, null_proxy, presses>>

\* Broken: pipewire_add_listener does not announce the defaults it knows.
OnInfoUninformed ==
  /\ Read("info")
  /\ struct_node' = [struct_node EXCEPT ![Incoming.of].default_hook = TRUE]
  /\ calls' = calls \o Sent("subscribe", Incoming.of, Nobody)
  /\ UNCHANGED <<server_vars, default_metadata, tui_item, emitted, emptying, null_proxy,
                 presses>>

\* on_node_info: the name is known, so the node listens to the defaults; what is
\* known of them is announced to it.
OnInfo ==
  /\ Read("info")
  /\ struct_node' = [struct_node EXCEPT ![Incoming.of].default_hook = TRUE]
  /\ emitted' = emitted \o
       IF default_metadata.bound THEN QueuedDefault({Incoming.of}) ELSE <<>>
  /\ calls' = calls \o Sent("subscribe", Incoming.of, Nobody)
  /\ UNCHANGED <<server_vars, default_metadata, tui_item, emptying, null_proxy, presses>>

\* on_node_param
OnParam ==
  /\ Read("param")
  /\ LET n == Incoming.of
     IN  /\ struct_node' = [struct_node EXCEPT ![n].mute = Incoming.val,
                                               ![n].has_param_props = TRUE]
         /\ emitted' = emitted \o
              IF Incoming.val # struct_node[n].mute \/ ~struct_node[n].has_param_props
              THEN NodeQueues("muted", n) ELSE <<>>
  /\ UNCHANGED <<server_vars, calls, default_metadata, tui_item, emptying, null_proxy,
                 presses>>

-----------------------------------------------------------------------------
(* Events.                                                                 *)

\* The next event has been delivered, and its callbacks have emitted new ones.
Dispatched(new) ==
  /\ emitted' = Tail(emitted) \o new
  /\ emptying' = (emitted' # <<>>)
  /\ UNCHANGED <<server_vars, calls, inbox, default_metadata, null_proxy, presses>>

NextEvent(what) == ~null_proxy /\ emitted # <<>> /\ Head(emitted).what = what

\* on_pipewire_node: an item, and node_add_listener announces what the node has.
ShowSink ==
  /\ NextEvent("node")
  /\ LET n == Head(emitted).of
     IN  /\ tui_item' = [tui_item EXCEPT ![n].shown = TRUE]
         /\ Dispatched(
              (IF struct_node[n].has_param_props THEN Queued("muted", n) ELSE <<>>)
              \o (IF struct_node[n].has_default THEN Queued("marked", n) ELSE <<>>))
  /\ UNCHANGED struct_node

\* on_default, in each of the nodes the event goes to.
OnDefault ==
  /\ NextEvent("default")
  /\ LET is(n)   == default_metadata.property = n
         changed == {n \in Head(emitted).of :
                       is(n) # struct_node[n].is_default \/ ~struct_node[n].has_default}
         told    == {n \in changed : tui_item[n].shown}
     IN  /\ struct_node' = [n \in Sinks |->
                IF n \in changed
                THEN [struct_node[n] EXCEPT !.is_default = is(n), !.has_default = TRUE]
                ELSE struct_node[n]]
         /\ \E order \in [1..Cardinality(told) -> told] :
              /\ \A n \in told : \E i \in DOMAIN order : order[i] = n
              /\ Dispatched([i \in DOMAIN order |-> Queued("marked", order[i])[1]])
  /\ UNCHANGED tui_item

\* on_node_default and on_node_mute
OnMark ==
  /\ \/ /\ NextEvent("marked")
        /\ tui_item' = [tui_item EXCEPT
              ![Head(emitted).of].is_default = struct_node[Head(emitted).of].is_default]
     \/ /\ NextEvent("muted")
        /\ tui_item' = [tui_item EXCEPT
              ![Head(emitted).of].muted = struct_node[Head(emitted).of].mute]
  /\ Dispatched(<<>>)
  /\ UNCHANGED struct_node

-----------------------------------------------------------------------------
(* Keys.                                                                   *)

Press(n) == /\ ~emptying /\ ~null_proxy /\ tui_item[n].shown
            /\ presses < MaxPresses /\ presses' = presses + 1

\* The metadata is used whether it is bound or not.
PipewireSetDefault(n) ==
  IF default_metadata.bound
  THEN calls' = calls \o Sent("set default", Metadata, n) /\ UNCHANGED null_proxy
  ELSE null_proxy' = TRUE /\ UNCHANGED calls

\* tui_bind_set_default and node_set_default; a name has come with the first info.
SetDefault(n) ==
  /\ Press(n)
  /\ IF struct_node[n].default_hook THEN PipewireSetDefault(n)
                                    ELSE UNCHANGED <<calls, null_proxy>>
  /\ UNCHANGED <<server_vars, inbox, default_metadata, struct_node, tui_item, emitted,
                 emptying>>

\* By the node or, for a node with a route, by its device.
NodeSetMute(n, mute) == calls' = calls \o Sent("mute", n, mute)

\* tui_bind_change_mute: enable, disable, or a toggle, which asks for what the item
\* does not show.
SetMute(n) ==
  /\ Press(n)
  /\ \E mute \in {TRUE, FALSE, ~tui_item[n].muted} : NodeSetMute(n, mute)
  /\ UNCHANGED <<server_vars, inbox, default_metadata, struct_node, tui_item, emitted,
                 emptying, null_proxy>>

MarksNext ==
  \/ \E x \in Sinks \union {Metadata} : Export(x)
  \/ ServerHandles \/ ForeignChange
  \/ OnGlobal \/ OnProperty \/ OnInfo \/ OnParam
  \/ ShowSink \/ OnDefault \/ OnMark
  \/ \E n \in Sinks : SetDefault(n) \/ SetMute(n)

MarksSpec == MarksInit /\ [][MarksNext]_marks_vars

-----------------------------------------------------------------------------
\* Between two dispatches an item shows the marks its node has, and the node that
\* the metadata names is the one that is marked, whichever came first; once
\* nothing is on its way back, they are the server's, whatever is asked of it. A default that is taken back is
\* still shown, as the property without a type is ignored (common.c:107-111,
\* 153-193, node.c:135-154, 263-290).
MarksSettle ==
  emitted = <<>> =>
    \A n \in Sinks :
      /\ tui_item[n].shown =>
           /\ tui_item[n].muted = struct_node[n].mute
           /\ tui_item[n].is_default = struct_node[n].is_default
      /\ struct_node[n].default_hook =>
           (struct_node[n].is_default <=> default_metadata.property = n)
      /\ inbox = <<>> =>
           /\ n \in subscribed => struct_node[n].mute = muted[n]
           /\ Metadata \in subscribed /\ default_sink # Nobody =>
                default_metadata.property = default_sink
=============================================================================
