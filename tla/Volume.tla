------------------------------- MODULE Volume -------------------------------
(***************************************************************************)
(* The volumes of one node: the server's (external), the copy that struct  *)
(* node keeps of what the server reported last, and the copy the TUI's     *)
(* item shows.  src/pw/node.c turns a key press into a request with a      *)
(* volume for every channel, computed from its own copy; the server        *)
(* applies requests in order and reports the volumes after each change.    *)
(*                                                                         *)
(* CHANNELS and VOLUME events carry no data: the callback reads what the   *)
(* node holds when the event is dispatched.  events_dispatch empties the   *)
(* queue before the main loop turns to the next message or key.            *)
(*                                                                         *)
(* Volumes are whole numbers of steps.  A channel i of the code is the     *)
(* element i + 1 of a sequence.                                            *)
(***************************************************************************)
EXTENDS Integers, Sequences, SequencesExt

CONSTANTS
  Settings,         \* volumes other clients give the node: nonempty sequences
  VolumeMin, VolumeMax, VolumeStep,     \* the configuration
  Presets,          \* N of the configured volume-set-N actions
  UIntMax,          \* the largest unsigned int, which is also ALL_CHANNELS
  MaxKeys,          \* bound: volume keys pressed in one behaviour
  MaxOthers         \* bound: changes by other clients

ASSUME VolumeAssumption ==
  /\ Settings # {} /\ \A s \in Settings : s \in Seq(Nat) /\ s # <<>>
  /\ {VolumeMin, VolumeMax} \subseteq Nat /\ VolumeMin <= VolumeMax
  /\ VolumeStep \in Nat \ {0} /\ Presets \subseteq Nat
  /\ UIntMax \in Nat /\ \A s \in Settings : Len(s) < UIntMax
  /\ MaxKeys \in Nat /\ MaxOthers \in Nat

VARIABLES
  actual,           \* the server's volumes
  requests,         \* set_param calls on their way to the server
  reports,          \* Props params on their way back
  reported,         \* node->param_props.channel_volumes; <<>> before the first
  listening,        \* the TUI has an item for the node
  events,           \* the node's events in the queue
  dispatching,      \* events_dispatch has not emptied the queue yet
  shown,            \* d->channels of the item, with d->n_channels
  focused,          \* d->focused_channel
  unlocked,         \* d->unlocked_channels
  overrun,          \* on_node_volume wrote past the end of d->channels
  keys, others      \* volume keys, changes by other clients, so far

server == <<actual, requests, reports, others>>
item   == <<shown, focused, unlocked>>
vars   == <<actual, requests, reports, others, reported, listening, events,
            dispatching, shown, focused, unlocked, overrun, keys>>

Unset == -1         \* the volume of a channel that xreallocarray has added

TypeOK ==
  /\ \A s \in {actual, reported} : \A i \in DOMAIN s : s[i] \in Nat
  /\ \A i \in DOMAIN requests : \A j \in DOMAIN requests[i] : requests[i][j] \in Nat
  /\ \A i \in DOMAIN events : events[i] \in {"channels", "volume"}
  /\ \A i \in DOMAIN shown : shown[i] \in Nat \union {Unset}
  /\ focused \in 0..UIntMax
  /\ {listening, dispatching, unlocked, overrun} \subseteq BOOLEAN
  /\ keys \in 0..MaxKeys /\ others \in 0..MaxOthers

Init ==
  /\ actual \in Settings /\ requests = <<>> /\ reports = <<actual>>
  /\ reported = <<>>
  /\ listening = FALSE /\ events = <<>> /\ dispatching = FALSE
  /\ shown = <<>> /\ focused = 0 /\ unlocked = FALSE /\ overrun = FALSE
  /\ keys = 0 /\ others = 0

-----------------------------------------------------------------------------
(* The server (external).                                                  *)

Report(volumes) == actual' = volumes /\ reports' = Append(reports, volumes)

\* A request that has the wrong number of channels has no effect.
ServerApplies ==
  /\ requests # <<>>
  /\ Report(IF Len(Head(requests)) = Len(actual) THEN Head(requests) ELSE actual)
  /\ requests' = Tail(requests)
  /\ UNCHANGED <<others, reported, listening, events, dispatching, item, overrun, keys>>

\* Another client sets volumes, or the format of the node changes.
OtherClient ==
  /\ others < MaxOthers /\ others' = others + 1
  /\ \E volumes \in Settings \ {actual} : Report(volumes)
  /\ UNCHANGED <<requests, reported, listening, events, dispatching, item, overrun, keys>>

-----------------------------------------------------------------------------
(* The node and the item.                                                  *)

Idle == ~dispatching

\* Broken: a changed number of channels is not announced.
OnNodeParamQuiet ==
  /\ Idle /\ reports # <<>>
  /\ events' = IF ~listening THEN events
               ELSE events \o (IF reported = <<>> THEN <<"channels">> ELSE <<>>)
                           \o <<"volume">>
  /\ reported' = Head(reports)
  /\ reports' = Tail(reports)
  /\ UNCHANGED <<actual, requests, others, listening, dispatching, item, overrun, keys>>

\* on_node_param.  Without an item no hook is there to receive the events.
OnNodeParam ==
  /\ Idle /\ reports # <<>>
  /\ events' = IF ~listening THEN events
               ELSE events \o (IF Len(reported) # Len(Head(reports))
                               THEN <<"channels">> ELSE <<>>)
                           \o <<"volume">>
  /\ reported' = Head(reports)
  /\ reports' = Tail(reports)
  /\ UNCHANGED <<actual, requests, others, listening, dispatching, item, overrun, keys>>

\* Broken: a new listener waits for the next change.
ShowItemSilently ==
  /\ Idle /\ ~listening
  /\ listening' = TRUE
  /\ UNCHANGED <<server, reported, events, dispatching, item, overrun, keys>>

\* on_pipewire_node: node_add_listener replays what is known.
ShowItem ==
  /\ Idle /\ ~listening
  /\ listening' = TRUE
  /\ events' = IF reported # <<>> THEN <<"channels", "volume">> ELSE <<>>
  /\ UNCHANGED <<server, reported, dispatching, item, overrun, keys>>

Delivered ==
  /\ events # <<>>
  /\ events' = Tail(events)
  /\ dispatching' = (Len(events) > 1)
  /\ UNCHANGED <<server, reported, listening, unlocked, keys>>

\* Broken: the focus is left where it is.
DeliverChannelsUnclamped ==
  /\ ~overrun /\ Delivered /\ Head(events) = "channels"
  /\ shown' = [i \in DOMAIN reported |->
                 IF i \in DOMAIN shown THEN shown[i] ELSE Unset]
  /\ UNCHANGED <<focused, overrun>>

\* on_node_channels
DeliverChannels ==
  /\ ~overrun /\ Delivered /\ Head(events) = "channels"
  /\ shown' = [i \in DOMAIN reported |->
                 IF i \in DOMAIN shown THEN shown[i] ELSE Unset]
  /\ focused' = IF focused >= Len(reported) THEN Len(reported) - 1 ELSE focused
  /\ UNCHANGED overrun

\* on_node_volume: one volume for each channel the node has now, which may be
\* more than the last CHANNELS event made room for.  What such a write does to
\* the heap is undefined: the model stops.
DeliverVolume ==
  /\ ~overrun /\ Delivered /\ Head(events) = "volume"
  /\ IF Len(reported) <= Len(shown)
     THEN /\ shown' = [i \in DOMAIN shown |->
                         IF i \in DOMAIN reported THEN reported[i] ELSE shown[i]]
          /\ UNCHANGED overrun
     ELSE overrun' = TRUE /\ UNCHANGED shown
  /\ UNCHANGED focused

-----------------------------------------------------------------------------
(* Keys.  The item is the only one of its tab.                             *)

Key == Idle /\ listening

VolumeKey == Key /\ keys < MaxKeys /\ keys' = keys + 1

\* The volume a relative change gives a channel: as it was, when the change
\* would leave the limits.
Stepped(old, delta) ==
  IF (delta >= 0 /\ old + delta > VolumeMax) \/ (delta < 0 /\ old + delta < VolumeMin)
  THEN old ELSE old + delta

\* tui_bind_change_volume, tui_bind_set_volume: the channel of the request.
Channel == IF unlocked THEN focused ELSE UIntMax

\* Broken: the channels that do not change are left at zero.
RequestZeroes(absolute, volume) ==
  requests' = Append(requests,
                [i \in DOMAIN reported |->
                   IF Channel \notin {UIntMax, i - 1} THEN 0
                   ELSE IF absolute THEN volume ELSE Stepped(reported[i], volume)])

\* node_change_volume: a volume for every channel the node knows.
Request(absolute, volume) ==
  requests' = Append(requests,
                [i \in DOMAIN reported |->
                   IF Channel \notin {UIntMax, i - 1} THEN reported[i]
                   ELSE IF absolute THEN volume ELSE Stepped(reported[i], volume)])

ChangeVolume(delta) ==
  /\ VolumeKey
  /\ Request(FALSE, delta)
  /\ UNCHANGED <<actual, reports, others, reported, listening, events, dispatching,
                 item, overrun>>

SetVolume(volume) ==
  /\ VolumeKey
  /\ Request(TRUE, volume)
  /\ UNCHANGED <<actual, reports, others, reported, listening, events, dispatching,
                 item, overrun>>

\* tui_bind_change_channel_lock
ChannelLock ==
  /\ Key
  /\ unlocked' = ~unlocked
  /\ UNCHANGED <<server, reported, listening, events, dispatching, shown, focused,
                 overrun, keys>>

\* tui_bind_change_focus: to the next channel, or past the last one around to
\* the first channel of the next item, which is this one.  Unsigned arithmetic:
\* an item that has no channels yet has the last channel UIntMax.
FocusDown ==
  /\ Key /\ unlocked
  /\ LET last == (Len(shown) - 1) % (UIntMax + 1)
     IN  focused' = IF focused < last THEN focused + 1 ELSE 0
  /\ UNCHANGED <<server, reported, listening, events, dispatching, shown, unlocked,
                 overrun, keys>>

FocusUp ==
  /\ Key /\ unlocked
  /\ focused' = IF focused > 0 THEN focused - 1
                ELSE (Len(shown) - 1) % (UIntMax + 1)
  /\ UNCHANGED <<server, reported, listening, events, dispatching, shown, unlocked,
                 overrun, keys>>

-----------------------------------------------------------------------------
Keys == \/ \E delta \in {VolumeStep, -VolumeStep} : ChangeVolume(delta)
        \/ \E volume \in Presets : SetVolume(volume)
        \/ ChannelLock \/ FocusDown \/ FocusUp

Deliver == DeliverChannels \/ DeliverVolume

Next == \/ ServerApplies \/ OtherClient
        \/ OnNodeParam \/ ShowItem \/ Deliver
        \/ ~overrun /\ Keys

\* The main loop reads reports and dispatches events; the server handles
\* requests.  Nobody has to press keys.
Spec == /\ Init /\ [][Next]_vars
        /\ WF_vars(ServerApplies) /\ WF_vars(OnNodeParam) /\ WF_vars(Deliver)

-----------------------------------------------------------------------------
\* When no event is queued the item shows the node's copy, channel for channel:
\* CHANNELS always comes with the VOLUME that fills it (node.c:500-519,
\* tui.c:1139-1175).
ItemShowsNode == listening /\ events = <<>> /\ ~overrun => shown = reported

\* The focus is on a channel the item has, once it has channels, whatever the
\* number of channels was when the focus was moved (tui.c:527, 556, 1162).  Without
\* channels the focus may be anywhere, UIntMax included.
FocusOnChannel == shown # <<>> => focused < Len(shown)

\* A volume key on one channel leaves the others as the server has them, if
\* nothing is under way between the server and the node.  If something is, the
\* request carries old volumes of the others and reverts their change, which is
\* why this cannot be said without the condition (node.c:203-222).  A focus of
\* UIntMax, which an item without channels can have, is ALL_CHANNELS to the node and
\* is excepted as well.
QuietKeysSpareOthers ==
  [][Len(requests') > Len(requests) /\ requests = <<>> /\ reports = <<>> =>
       /\ Len(requests'[1]) = Len(actual)
       /\ \A i \in DOMAIN actual :
            unlocked /\ focused # i - 1 /\ focused # UIntMax =>
              requests'[1][i] = actual[i]]_vars

\* When keys are no longer pressed the three copies come to agree.
CopiesConverge ==
  <>[](\/ overrun
       \/ /\ requests = <<>> /\ reports = <<>>
          /\ actual = reported /\ (listening => shown = reported))

\* "Max and min volume that can be set with pipemixer" (pipemixer.ini.5:25):
\* no request asks for a volume outside the limits.
RequestsWithinLimits ==
  \A i \in DOMAIN requests : \A j \in DOMAIN requests[i] :
    requests[i][j] \in VolumeMin..VolumeMax
=============================================================================
