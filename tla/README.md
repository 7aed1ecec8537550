# pipemixer in TLA+

pipemixer is a volume mixer for PipeWire in a terminal: a single-threaded C
program around PipeWire's main loop. This directory specifies the parts of it
whose correctness depends on the order in which things happen, and the containers
and parsers these stand on; model-checks them with TLC; and proves with TLAPS, for
every value of the constants, most of what the runs check: of the event bus and
its queue, the dictionary, the lives of objects, marks, volumes and params, the
screen's agreement with them, layout and focus, the refresh, the configuration, and
the parser of format strings. Paths below are relative to the
program's own `src/` (`events.c`, `pw/node.c`, `tui/tui.c`, ...).

## 1. The system

Everything runs in one thread. The main loop (PipeWire's) waits for the PipeWire
socket, standard input and three eventfds, and calls a handler for each that is
ready. Only the SIGWINCH handler interrupts that thread.

    server --messages--> pw/common, pw/node, pw/device
                              | event_emit            ^ node_*, device_* calls
                              v                       |
                         events.c  --callbacks-->  tui/tui.c  <--keys-- stdin
                                                      | trigger_update / _resize
                                                      v
                                                   terminal

| component | state | operations | how it interacts | what makes it correct |
|---|---|---|---|---|
| event bus, `events.c`, `collections/list.h` | emitters, hooks, reference counts, intrusive hook lists, queue, `efd_triggered` | create and release emitters, add and release hooks, emit to all or to one, `events_dispatch` | everything is notified through it; callbacks call back into it | events reach exactly the hooks that listened, once and in order; nothing is freed early or kept for ever; no wakeup is lost |
| event queue, `events.c:63-108` | a ring that doubles | push, pop | the dispatcher keeps a pointer to a popped slot | FIFO through wrap-around and growth; growth frees the popped slot (module `Events`) |
| registry, `pw/common.c` | maps of nodes and devices, metadata proxy | global appears, is removed, metadata property changes, add listener with replay | creates nodes and devices, announces them | each object is announced once to the TUI, with a reference held meanwhile |
| nodes, `pw/node.c` | reference count, properties, volumes, routes, links to device and metadata | info, param, volume, mute, route requests; callbacks for device and default | listens to its device and to the default metadata; talks to the server | references have owners; requests are what the user asked for; limits |
| devices, `pw/device.c` | reference count, routes, profiles, staging lists | info, params, round trip done, requests | as nodes | routes and profiles are replaced as a whole and followed by all listeners |
| TUI, `tui/*.c` | tabs, items, positions, focus, scroll position, pad, menu, update and resize flags | callbacks for objects, key bindings, refresh, resize | listens to objects, calls `node_*` and `device_*` | items mirror objects; layout without gaps; focus on an existing, visible item; what is drawn is shown |
| map, dict, `collections/map.c`, `dict.c` | hash table of chains, sorted array | insert, get, remove, clear, iterate | ids to objects, keys to binds; properties of objects | both are finite maps, through growth and collisions; a loop over the table visits every entry once |
| format strings, `format.c` | stack of the parser, tree | parse, render, free | configuration, items | accepts and renders the documented forms; a tree can be freed wherever an error leaves it |
| configuration, `config.c` | settings, binds, whether a line was wrong | one parser per kind of option, default lines, the user's lines, `tui_init`'s choice of a tab | the TUI starts with what the lines have left | a line applies as a whole or not at all; there are tabs to show; binds have one owner |
| vec, string, wstring; logging; utilities; start and shutdown | | run once, or stateless | | |

What is hard here: callbacks that change the lists and the queue the dispatcher
is walking; objects removed by the server while events, items, menus and other
objects refer to them; events without data, so that a callback sees a later
state than the one that caused the event; three copies of the volumes and of the
routes that messages in both directions keep in step; a signal handler between
any two steps; positions kept by increments; marks that depend on objects which
may come in any order; parsers that fail half way. `PROJECT.json` lists these hazards
by line.

## 2. Modules

| module | models | kind |
|---|---|---|
| `Events` | `events.c` and the lists of `collections/list.h` | detailed specification |
| `EventBus` | what the bus promises | abstract specification, implemented by `Events` |
| `EventsProofs` | | theorems about `Events`: references, lists, and that it implements `EventBus` |
| `EventQueue` | the ring of `events.c`, slot by slot | detailed specification |
| `Fifo` | a queue | abstract specification, implemented by `EventQueue` |
| `Dict` | `collections/dict.c` | detailed specification |
| `Map` | `collections/map.c` | detailed specification |
| `FiniteMap` | what the two promise | abstract specification, implemented by `Dict` and `Map` |
| `ContainersProofs` | | theorems about `EventQueue`, `Dict` and `Map` |
| `Lifecycle` | `pw/common.c`, lives and references in `pw/node.c`, `pw/device.c`, items of `tui/tui.c`, on the bus that `EventBus` promises | composition |
| `LifecycleProofs` | | theorems about `Lifecycle`: references, and the screen |
| `Marks` | mute and default: the metadata of `pw/common.c`, `pw/node.c`, items of `tui/tui.c` | composition with the server |
| `Params` | device round trips and staging, the node's and the items' copies | composition with the server |
| `ParamsProofs` | | theorems about `Params` and `Marks` |
| `Volume` | volumes of a node from key press to screen and back | composition with the server |
| `VolumeProofs` | | theorems about `Volume` |
| `Tabs` | lists of items, layout, focus, scrolling, menu | component |
| `TabsProofs` | | theorems about `Tabs` |
| `Refresh` | flags, eventfds, SIGWINCH, the order of `tui_init` | component with a signal handler |
| `RefreshProofs` | | theorems about `Refresh` |
| `Format` | `format.c` | component, with the manual's forms as its reference |
| `Config` | `config.c`, the first tab of `tui_init` | component |
| `ConfigProofs` | | theorems about `Config` and `Format` |
| `MCEvents`, `MCContainers`, `MCRegistry`, `MCParams`, `MCVolume`, `MCTabs`, `MCConfiguration` | | instances for TLC |

Four of the instances hold parts that share no state, with a variable `subject`
that says which of them a behaviour is about: three sizes of the event bus, and the
screen's refresh, in `MCEvents`; the ring, the array and the table in
`MCContainers`; lives and marks in `MCRegistry`; format strings and lines in
`MCConfiguration`.

Definitions keep the names of the code where they have one; comments name the
function that an action translates. Definitions under a comment that begins with
"Broken:" are not part of any specification: each is a variant of the definition
that follows it with a plausible mistake, kept to show that the properties notice
it.

### Events

`emitter` and `hook` hold the two structs; `next` and `prev` the intrusive lists,
in which the emitter is the list head; `event[n]` the references the n-th event
owns while it owns them. An event is named by its sequence number and the queue is
the interval `popped + 1 .. seq`: that the ring gives events back in this order is
what `EventQueue` shows. `pc` is the place in `events_dispatch`: between two
callbacks ("visit"), in a callback, at the end of an event, in its `after`
function. Client code, which is everything else in the program, may act when `pc`
is "idle", "callback" or "after" and do any sequence of operations there.

Two preconditions are put on client code, because the program observes them. An
emitter is released only without live hooks: every hook's `private_data` holds a
reference on the owner of the emitter. And a callback of a broadcast does not
release the hook that the iteration visits next, which `LIST_FOREACH` cannot cope
with. That the program keeps to this is read off its code, not checked: dispatches
do not nest, a callback for REMOVED releases the hook it is called for and no other
on that emitter, and what is destroyed with the last reference releases hooks on
other emitters than the one that is walked.

`events_dispatch` reads `event->seq` and `event->after` through a pointer into the
ring, which a push in a callback may have replaced and freed. This is undefined
behaviour; the model has both outcomes, the old value or something else
(`Misread`, after which the model stops). The liveness properties except it.

### EventQueue, Dict, Map

`EventQueue` keeps the slots, `read`, `write` and `size` of the ring. A push into a
full ring copies it, in one or two pieces, as `queue_grow` does. The pointer that
`events_dispatch` keeps to a popped slot, and that growth leaves dangling, is in
`Events`.

In `Dict` a step is one turn of the loop in `search`, or what the call does at the
index it ends at. The
bounds `l` and `r` may leave the array on either side. Keys are numbers, for
`strcmp` is a total order; slots beyond `dict_size` keep what was left there.

In `Map` the hash is the multiplication of `get_index`, modulo `WordSize`; an
insertion that resizes moves one entry or leaves one bucket a step, the others
are single steps. Each call of `map_iter_next` is a step, and no other call comes in
between: no loop of the program changes the map it goes over.

### Lifecycle

At the level of the bus: an event has the set of hooks it is addressed to, and all
callbacks of one event are one step. The main loop may read the socket before it
reads the eventfd, so messages may find events in the queue (up to `MaxQueue`);
once started, a dispatch empties it, callbacks' events included. One "update"
stands for the properties, routes, profiles, volume and default events of an
object: they differ in data only. An id that the server uses again is another
object here.

The announcement of an object may be dispatched after its REMOVED event was
emitted (the socket is read twice before the eventfd): the item is then created
too late to be removed. These are the `late` items which `ScreenMatchesRegistry`
and `ObjectsGoAway` except, and the run reaches them.

### Marks

What `Lifecycle` leaves out of the default metadata: that it is an object like
others, is bound when its global appears, sends the property when it is bound and
when it changes, and that a node listens to it from its first info on, with a
replay. The nodes here are sinks that stay and have a name. A default that is
taken back comes as a property without a type, which the program ignores: the item
stays marked, and `MarksSettle` says nothing of that case. `pipewire_set_default`
uses the metadata's proxy unseen; before it is bound this leads to `null_proxy`,
where the model stops.

### Params

The server handles requests one at a time and may change between two of them, so
an enumeration can be of two states; each change sends an info message that starts
another round trip, also while one is under way. Params that answer one request
arrive together, as nothing looks at the staging lists between them. The parts of
`param_route` that no callback tells apart (names, directions, devices) are in the
constant `OwnRoutes`. Which of the listed profiles and routes are active comes with other
answers, so that they are marked in lists that were staged before: the last profile
with that index that is not active yet (`OnProfile`), and the first route with it
(`MarkFirst`). In one answer of the server no index comes twice (`ParamsAssumption`).

### Volume

Volumes are whole numbers of steps; the server is external. CHANNELS and VOLUME
events make the item copy what the node has at that moment. If a VOLUME event of
an earlier report is dispatched when the node already has more channels, the item
is written past its end: the model goes to `overrun` and stops, and properties
except this state. The unsigned `n_channels - 1` of an item without channels is
modelled with its wrap-around, with `UIntMax` for the largest unsigned int. The focus
may then be `UIntMax`, which is also ALL_CHANNELS: `FocusOnChannel` says nothing of
an item without channels, and `QuietKeysSpareOthers` nothing of a request with that
focus.

### Tabs

Items are only added at the top of their tab, as the code does. `pos`, `height`
and `pad` follow `tui_tab_item_resize`; `focused`, `scroll_pos`, `user` follow
`tui_tab_item_focus` and its callers. A resize of the terminal may leave its height
as it is (`TermResize`); the handler then still scrolls to the focused item. What
`curses` is told to draw is left out.
Heights are of items with content, and 0 for one about to be freed. The menu keeps
the identity of its object; confirming it with an object that has left the
registry leads to `crashed`.

### Refresh

The three steps of `trigger_update`, test of the flag, signal, setting of the flag,
are separate because the SIGWINCH handler, which calls the same function, may run
between them. The loop's order within a batch of ready sources is left open. Any
`pw_loop_signal_event` may fail (`Signal`, `SignalUpdate`), and so may the `ioctl` of
`on_resize_triggered` (`GetSizeFails`), which has cleared its flag by then; nothing in
the code tries again. `failed` keeps for which source the last call has failed, until
one succeeds, and the properties except that source: they say that nothing is lost as
long as the calls succeed, and after the next one that does. SIGWINCH before the
sources exist leads to `crashed`, where the model stops.

### Format

Each step of the parser looks at one character. `frames` is the C stack, with the
function and the object it fills; `heap` is what was allocated, in order, so that
the tree is a relation on it. `Error` is the `longjmp` of `PARSER_ERROR`, which
drops all frames. Two plain characters stand for all: one that a key may hold and
one that it may not. `Formats` is the reference: the sentences of each length and
the text each expands to, defined from the forms in the manual
(`pipemixer.ini.5.in:141-156`), not from the parser. What a key may consist of it
takes from the grammar in the comment at `format.c:18`, as the manual does not say;
that the manual promises more is a finding (`format_names`). `Grammar` is that comment's
grammar as a whole, which allows `{key?}` and so goes beyond the manual's forms and
the parser: another finding (`format_grammar`).

### Config

One option stands for all that share a parser (`wraparound` for the boolean ones,
`separator` for wide strings, `border` for single characters, and so on). The
default lines (a constant; the assumption on them says that they are lines of known
options and that one of them is a valid order of tabs) are read first, and as in
`load_config` one that does not apply has no consequence. Then come up to
`MaxUserLines` of a file, any lines, valid or not; after each the file may end, and
`tui_init` chooses its tab. `objects` is what was allocated; `before` keeps the
settings from before a line for `LinesApplyWhole` to compare with. The border's first
character is stored before the second is found to be too much, which the property
excepts.

## 3. Runs

| run | checks | bounds |
|---|---|---|
| `events` | reference counts are those of outstanding events (`RefcntsExact`), released objects are freed exactly then (`FreedExactly`) and in the end (`ReleasedIsFreed`), events never wait without a wakeup (`NoLostWakeup`) and are retired (`EveryEventRetired`), the cursor stays on allocated hooks of its list (`CursorAllocated`), the lists are in one piece with younger hooks first (`ListsWellFormed`), `Events` implements `EventBus` (`BusSpec`); on the screen, a resize is due while sizes differ (`ResizeIsDue`), what callbacks draw is shown (`EventsReachScreen`), sizes follow (`SizeFollowsTerminal`) | 2 emitters, 2 hooks, 2 events; 1 emitter, 3 hooks, 2 events; 1 emitter, 2 hooks, 3 events; ring of 2 that grows; 2 resizes |
| `containers` | the ring implements `Fifo` (`FifoSpec`); `Dict` and `Map` implement `FiniteMap` (`DictIsMap`, `MapIsMap`), searches end (`CallsReturn`), a loop over the table gets each entry once (`VisitsEachOnce`) | ring of 2, two growths, up to 6 events; 3 keys, capacity asked for up to 3; 5 ids, first table of 2 |
| `lifecycle` | references have owners (`RefcntsOwned`), callbacks get live objects (`NothingUsedAfterFree`), screen and registry agree (`ScreenMatchesRegistry`), removed objects are destroyed in the end (`ObjectsGoAway`); marks agree with the nodes and, when all is quiet, with the server (`MarksSettle`) | a sink that watches defaults, a stream, a card, 3 messages; 2 sinks, the metadata, 1 key, 1 change by another client |
| `params` | published lists are whole (`SnapshotsWhole`), copies follow them (`ListenersFollow`), and they converge to the server's (`ParamsConverge`) | 3 states of a card, 2 changes or key presses |
| `volume` | item follows node (`ItemShowsNode`), focus stays on a channel (`FocusOnChannel`), a key on one channel spares the others (`QuietKeysSpareOthers`), copies converge (`CopiesConverge`) | stereo and mono, 2 keys, 2 changes by others |
| `tabs` | positions stack without gaps and the pad has room (`LayoutFits`), focus on a shown item (`FocusOnShown`), moves of the focus come into view, the user's focus is kept | 3 + 1 items in 2 tabs, heights 1-2, terminals 3-4 |
| `configuration` | strings render as documented (`RendersAsDocumented`), only strings that no documented form continues are refused (`ErrorsAreErrors`), the tree can be freed wherever the parser stops (`TreeCanBeFreed`); lines apply whole or not at all (`LinesApplyWhole`), there are tabs to show (`TabsUsable`), binds have one owner (`BindsOwned`) | strings of up to 7 characters; 2 tabs, 2 keys, 2 actions, any 3 lines |
| `refresh_draws`, `volume_limits`, `tabs_menu`, `format_grammar`, `format_names` | the five findings of section 5, one property each | as above, with fewer resizes and keys; strings of 4 characters |

Why the bounds are enough. In the instances of `events` three events let one be in
flight, one wait and one be pushed by a callback, with the ring growing under the
dispatcher; three hooks are needed to have one before and one after the cursor, and
two events to have one that is walked while callbacks emit another; with two emitters
one may be released while events of the other are delivered. What holds beyond is
proved (section 4). Two resizes let one come while the other is handled. Two growths of the ring cover growth with
and without rotation; five ids are entered into a table that starts with two
buckets, so that it doubles twice with chains of colliding keys. In `Lifecycle`
three messages suffice for link, default and update after or before any removal;
what holds beyond is proved too. In `Marks` one key and one change by another
client already race with each other; with two of each it has also been checked, in
7.8 million states, which is too long for a run. In `Params` two changes give two
overlapping round trips plus the initial one. In `Tabs` an item can be removed from
the middle, the top and the end. Seven characters hold the longest form that
differs in kind, a substitution with both alternatives, and one nested in another.
Three lines can set, set again and fail. The items of one tab are
declared symmetric in `tabs`, which checks no liveness; in `events`, which does, unused
emitters and hooks are taken in a fixed order instead, which leaves out only
renamings.

Deadlock is not checked where the model's bounds or identities are used up, or
where nobody has to act: `events`, `lifecycle`, `volume`, `params`, `tabs`,
`configuration`, and the findings on `Volume`, `Tabs` and `Format`. In `containers` and
`refresh_draws` it is.

Fairness. `Events` and `Lifecycle`: the main loop calls `events_dispatch` while the
eventfd is readable, and callbacks return. `Dict`: a call that has begun goes on
(`Turn`); that calls are made is not assumed. `Volume` and `Params`: the server
handles requests in order and the loop reads its messages; client code, keys and
other clients are under no obligation. `Refresh`: the main thread takes steps
while a source is ready; signals and input need not come. Each is weak fairness of
a disjunction that stays enabled until taken.

## 4. Proofs

Each part of a proof module establishes one inductive invariant, with a lemma for
every action that disturbs it, and derives the theorems from it.

`EventsProofs` proves, for any sets of emitters and (finitely many) hooks, any
number of events and any first ring of at least two slots: `TypesCorrect`, in
particular that counts never drop below zero; `RefcntsAreExact`; `NothingDangles`
(`FreedExactly`); `WakeupsNotLost`. All come from `Inv`. `RefcntsExact` and
`FreedExactly` are not inductive by themselves: to know that dropping a reference
does not free an object another event refers to, one needs counts to be exact; for
these to stay exact, that exactly the outstanding events own references
(`QueueOwns`: an event that is popped and finished owns nothing, one that is
queued owns its emitter); and to emit on a hook's emitter one needs that live
hooks have live emitters (`HooksOnLiveEmitters`), which rests on the precondition
of `event_emitter_release`. `CursorOnLinks` keeps the cursor in the domain of the
links. For the wakeup, `triggered = efd` makes `NoLostWakeup` inductive: the flag
is never raised without a signal under way. Cardinalities of reference sets come
from `FiniteSetTheorems`.

The second part of `EventsProofs` adds the shape of the intrusive lists: `ListsStayWellFormed`
and `CursorStaysAllocated`. Its `ListInv` says that `next` and `prev` are inverse to
one another (`LinksInverse`), that a link does not leave its emitter's list
(`StaysHome`), that a walk comes to an end (`Acyclic`), that hooks are in the order
of their ages, and where the cursor and its saved successor are. A walk is a
recursive notion, which the provers cannot handle; `Acyclic` replaces it by a rank
that falls along every link. A new hook takes a rank above that of its successor;
releasing one leaves the ranks.

The third part is the refinement: `EventsImplementBus` states `Spec => BusSpec`. Whom a
walk is still to meet is a set that walks do not leave (`Reach`), so that no
recursion is needed: a hook and what its successor reaches (`ReachHook`), never the
hook again (`NoReturn`, by the ranks), and from the head of a list every hook that
listens there (`ReachAll`: one that is missed, of highest rank, would have a missed
predecessor of higher rank). A callback that adds a hook changes no walk in progress
(`AddHookReach`), one that releases a hook takes just that one out of all walks
(`HookReleaseReach`). The mapping gives `Pending` event by event (`Whom`): `Visit`
and `PopUnicast` are `Deliver`, `Finish` is `Retire`, and the other steps of
`events_dispatch` are none of the bus; for `Skip` and `Visit` the invariant has to say
that the successor saved is the successor still when the loop looks at a hook
(`SuccessorSaved`). That a hook added after an event was emitted is no addressee is
`Ages`, and that one which an event in the queue names is not new is `FreedExactly`.

`ContainersProofs` proves of the ring `RingInvHolds` (indices in the ring, one slot empty, all
slots between `read` and `write` filled) and `RingIsFifo`: `Spec => FifoSpec`, step
by step through wrap-around, both branches of the growing copy and the first
allocation.

Of the dictionary it proves `DictInvHolds` and `DictImplementsMap`: `DictSpec =>
DictIsMap`. The invariant says that the array is sorted without duplicates, and of
a search that what it has excluded to the left is smaller and to the right is
larger than the key (`Bisects`); so where it ends without a match, the key is in
no slot, and the place it ends at is where an insertion keeps the array sorted.

Of the hash table, for any ids, objects, multiplier and width of the hash, it proves
`MapImplementsFiniteMap` (`MapSpec => MapIsMap`), `LoopsVisitEachOnce`
(`VisitsEachOnce`) and `MapInvHolds`. What the map holds is on either side of a
resize; `TableInv` says that an entry is in the chain its hash gives (`Placed`), that
what has not been moved has other keys than what has (`OldApart`), and that the
buckets the resize has left are empty (`Moved`), so that the insertion at its end finds
the key if it was anywhere. That a hash is a bucket's number needs the number of
buckets to divide the word, which doubling keeps (`UpperBits`, `IndexIs`). For a
loop, `LoopInv` says that it has been given the keys of the places it has passed.

`LifecycleProofs` proves, for any finite sets of nodes and devices and any number
of messages and events: `RefcntsAreOwned`, `NothingIsUsedAfterFree`, `TypesCorrect`. `Inv` is `Types /\ RefcntsOwned /\ HoldersLive /\ ShownOnce /\
RemovedOnce`. `RefcntsOwned` alone is inductive only if each action changes a
count and its owners alike, and for that one must know that what a node is linked
to and what the screen shows is alive (`HoldersLive`); that an object is not shown
twice (`ShownOnce`: at most one announcement that the TUI would take for a new
object, and none once it is shown), or one hook would stand for two owners; and
that a REMOVED event comes once (`RemovedOnce`), or its after function would drop a
reference it does not own. The owners of an object are counted over a queue: the lemmas
on `Announced` do the arithmetic of appending, delivering and popping.

Its second part proves `ScreenAgrees`: `Spec => []ScreenMatchesRegistry`. `ScreenInv`
says of every object what the TUI waits for: it is shown or its announcement is on
the way while the proxy is there, and an item that came in time hears of its
removal. With an empty queue nothing is on the way, and this is the property.

`TabsProofs` proves, for any items, tabs, heights and terminals, all that the run
`tabs` checks: `LayoutAlwaysFits`, `FocusStaysOnShown`, `FocusComesIntoView`,
`UsersFocusIsKept`, and `TypesCorrect`. Its `TabsInv` says of every list that its items
stack (`Stack`): each starts where the one before ends, any one ends above any
later one, and all end within the pad. The second of these follows from the first
only by induction over the list, which the prover cannot do, so the invariant
carries it: without it one could not see that an item that shrinks leaves those
below it at positions that are not negative. `Unplaced` says that an item takes no
place before it appears: this is why a new first item can be grown from nothing,
as the code does. The lemmas on lists say what putting an item first, taking one
out (`StackCloses`) and changing the height of one (`StackShifts`) do to a stack;
each action is then one lemma that shows the invariant and both action properties.

`RefreshProofs` proves, for any number of resizes and whichever signals and calls of
`ioctl` fail, `TypesCorrect`, `FlagsMeanSignals`: a raised flag stands for a signal,
wherever SIGWINCH interrupts, and `ResizesAreDue`: the windows have the size of the
terminal, or a resize is under way, or the last attempt at it has failed. Its
`RefreshInv` adds two facts. `SourcesExist`: until both
sources exist, nothing is signalled and no flag is raised, and only the first
places of `tui_init` are that early; without it a handler that interrupts would
raise a flag without a signal. `SignalBeforeFlag`: between the signal and the flag
in `trigger_update` the signal is still there, because the main thread alone takes
signals. From `FlagMeansSignal` follows that the handler of SIGWINCH, signal or no
signal, leaves a resize due, unless its signal fails.

`VolumeProofs` proves, for any numbers of channels, steps and changes, all that the
run `volume` checks but liveness: `ItemFollowsNode` (`ItemShowsNode`),
`FocusStaysOnChannel`, and `KeysSpareOthers` (`QuietKeysSpareOthers`), which relates
three copies. Its `Inv` says of what is between two copies how it ends: the last
report on its way, or else the node's copy, is what the server has
(`ReportsCatchUp`); an item that differs from its node has an event to come, and one
with another number of channels a CHANNELS event (`ItemWaits`); and the last event
that is queued is always one that fills the channels (`EventsFill`), without which a
CHANNELS event that leaves the volumes unset might be the end of it.

`ConfigProofs` proves, for any tabs and keys, any default lines one of which is a valid
order of tabs, and any lines of the user, `LinesAreApplied` (`LinesApplyWhole`), `TabsAreUsable` and
`BindsAreOwned`. The invariant behind them, `ConfigInv`, says that the settings from
before a line are still there while its parser is not done (`BeforeInv`), that what
the parser of `tab-order` has accepted and what is to come make up its line
(`ParserInv`), and that tabs are there once a default line has ordered them
(`TabsInv`). `Owned` keeps a bind from being in the map twice or freed while it is
there: it is what `BindsOwned` needs to survive a key that is bound again.

Its second part is about the trees of `format.c`, for strings of any length:
`TreesCanBeFreed`, wherever the parser stops. A pointer that is set leads to an object
allocated later (`Downwards`) and each object but the first has one pointer that
leads to it (`OwnedOnce`): that is a tree, without an induction over it. `FramesInv`
says that what a function of the parser fills next is not in use yet, and that the
objects of deeper frames are younger; `JunkInv` that a slot `realloc` has added is
that of the function that runs, which has looked ahead already and does not fail
before it fills it.

Its third part proves `RenderedAsDocumented` (`RendersAsDocumented`), again for
strings of any length. `Says` is the manual's relation of strings to what they
mean, read from its table of sentences (`Formats`), and its lemmas say how sentences join and what each form
says. `MeaningInv` (theorem `TextHasMeaning`) cuts the text read so far into what each running
function has read of its own (`Reading`): the tree that a function has filled means what it has
read, whatever the properties of the object, and what a waiting function has read
before its call is the beginning of a form that the answer completes. What a tree
renders is a recursive function over objects and what a string says one over
lengths; neither needs a principle of induction of the prover's: an object that renders
otherwise would have a least one among its successors, which the order
of allocation (`Downwards`) excludes.

Its fourth part proves the converse, `OnlyErrorsRefused` (`ErrorsAreErrors`): the
parser refuses nothing that the manual allows. `RefusalInv` (theorem `RefusalsHold`)
gives each running function a set of texts that may follow its return (`rest`), the
outermost the empty text alone, and says that whatever completes the text read
so far to a sentence is what the innermost can go on with (`Expects`), and that
what may follow a callee's return is what its caller can go on with (`Resumes`).
Two facts about the manual's table make this inductive. A sentence is a character or
a substitution, and maybe a sentence behind it (`SpokenUnitary`); the table has sentences one
after another, which is ambiguous, while the parser reads the first unit and loops.
And what follows a function begins otherwise than what it can still read
(`Suits`): a format is followed by `!`, `}` or the end, and what follows a literal and
looks like more of it may as well be read as such. So one character tells the
alternatives apart (`Starts`), and where the parser gives up, no set of texts begins with it.

`ParamsProofs` proves, for any card, any listeners and any number of changes,
`ListenersAlwaysFollow` and `SnapshotsAreWhole`. For the first, `CopiesInv` says that
what a copy lacks of the device's, or of the node's, is announced to it by an event
that is still queued; and that the node hears of routes after it has heard of
profiles (`NodeFollows`), as it looks for the routes of the profile it has. For the
second, `TripsInOrder` says that the answers on their way and after them the requests
on theirs are, in this order, the end of one round trip and then whole ones (`Runs`),
and that the staging lists are as far as the last answer read (`StagedFor`): so what
is published was begun with empty lists, and each list is one answer of the server.
Its second part is about `Marks`, for any finite
set of sinks: `MarksAlwaysSettle`. `MarksInv` says who is about to be told
(`ItemsAreTold`, `NodesAreTold`), that a metadata that is not bound has said nothing
(`BoundFirst`: why a node that came before it needs no replay), and that the last
message on its way brings what the server has (`ServerIsFollowed`). An item that
is not shown must be owed no event either, or one that comes late would mark it.

The assumptions are those of the modules on their constants
(`ConstantsAssumption`, `QueueAssumption`, `DictAssumption`, `MapAssumption`, `LifecycleAssumption`,
`TabsAssumption`, `MaxResizesAssumption`, `VolumeAssumption`, `ConfigAssumption`,
`DefaultsAssumption`, `FormatAssumption`, `ParamsAssumption`, `MarksAssumption`),
which TLC evaluates in its runs. The type invariants and the auxiliary parts of the
invariants are left to the proofs; TLC has checked them while these were developed.

Only model-checked: liveness, which the prover does not handle with fairness. Every
other property of a passing run is a theorem.

## 5. Where the code and its documentation disagree

- `refresh_draws`: a resize draws without asking for an update
  (`tui/tui.c:1321`), against the comment at `tui/tui.c:1357` that an update
  follows any event that might draw. If the loop handles the update first, the new
  layout is shown with the next event only.
- `volume_limits`: `volume-set-N` is not compared with `volume-max`
  (`pw/node.c:203`), against the manual (`pipemixer.ini.5.in:25`).
- `tabs_menu`: when the object of an open menu is gone, the callback logs so
  and uses the null pointer nevertheless (`tui/tui.c:874-876`).
- `format_grammar`: the grammar in the comment (`format.c:21`) makes the format after
  `?` optional, so that it has `{key?}`; the parser refuses an empty format there
  (`format.c:165`). The manual's forms agree with the parser, and `{key?}` is the only
  kind of string in which the two grammars differ.
- `format_names`: the manual lets any property be substituted
  (`pipemixer.ini.5.in:144`); a name with anything but a-z and dots, such as
  `api.bluez5.address`, is refused (`format.c:138`, in agreement with the comment at
  `format.c:18`).

Smaller remarks, without a run:

- when the `ioctl` or a signal fails, nothing tries again: the windows keep the old
  size until the next SIGWINCH, and what was drawn waits for the next trigger
  (`tui/tui.c:62-80`, `1325`); SIGWINCH before the sources exist signals a null source
  (`tui/tui.c:1384`);
- `wchar_parser` stores the first of several characters and then reports an error
  (`config.c:180`);
- `wstring_parser` and `format_parser` do not free the value they replace;
- `format_parse` uses its local `f` after a `longjmp`; `parse_format` has written it
  through its address since the `setjmp`, and it is not `volatile`, so that C leaves
  its value open; the model takes the last one written, as `f` lives in memory;
- a default that is taken back stays marked on the screen: the property comes
  without a type and is ignored (`pw/common.c:107`);
- `pipewire_set_default` before the metadata is bound uses a null proxy
  (`pw/common.c:148`); `Marks` reaches this state.

## 6. Not modelled

- `vec`, `string`, `wstring`: growing buffers, sequential, with no control beyond a
  reallocation.
- Logging and utilities: output, and stateless helpers.
- Start and shutdown apart from `tui_init`: straight-line code around the main loop,
  with nothing that it could interleave with.
- Parsing of params and of the metadata's JSON, the ini parser, percentages, key
  names: conversions without state, whose results are the inputs of the models.
- What the draw functions print.
- `device_set_props` apart from what it shares with `node_set_props`: it sends the
  same values by way of a route.

## 7. Plan

1. Done: `EventBus`, `Events`; `Fifo`, `EventQueue`; `Lifecycle`, `Volume`, `Params`,
   `Tabs`, `Refresh`; `FiniteMap`, `Dict`, `Map`; `Format`, `Config`; `Marks`; and the
   theorems of section 4.
2. The life of the metadata's proxy, should the program come to handle its removal.
