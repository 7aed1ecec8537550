------------------------------ MODULE Refresh -------------------------------
(***************************************************************************)
(* How changes reach the screen: trigger_update, trigger_resize and their  *)
(* handlers in src/tui/tui.c.                                              *)
(*                                                                         *)
(* Event callbacks and key bindings draw into ncurses windows and signal   *)
(* the update source; its handler sends the windows to the terminal.  The  *)
(* SIGWINCH handler signals the resize and the update source, and runs     *)
(* between any two steps of the main thread.  The main loop (external)     *)
(* collects the sources that are ready and calls the handler of each, in   *)
(* the order epoll lists them, which may be any.                           *)
(*                                                                         *)
(* pw_loop_signal_event and the ioctl that asks for the size may fail.     *)
(* The code reports this and goes on; `failed` is kept for the properties. *)
(***************************************************************************)
EXTENDS Integers

CONSTANT MaxResizes     \* bound: how often the terminal is resized

ASSUME MaxResizesAssumption == MaxResizes \in Nat

Sources == {"resize", "update"}

VARIABLES
  existing,         \* the sources tui_init has created
  signalled,        \* sources whose eventfd is readable
  raised,           \* tui.resize_triggered, tui.update_triggered
  failed,           \* sources whose last signal or handler has failed
  input,            \* a key press or a pipewire event is waiting
  batch,            \* what the main loop has collected and not handled
  terminal,         \* the size of the terminal, by number of resizes
  win_size,         \* the size the windows have
  unshown,          \* what drew into the windows since the last doupdate
  place             \* where the main thread is

flags        == <<existing, raised, failed>>
loop         == <<input, batch>>
screen       == <<terminal, win_size, unshown>>
refresh_vars == <<existing, signalled, raised, failed, input, batch,
                  terminal, win_size, unshown, place>>

NoWindows == -1     \* tui.pad_win is still a null pointer

Places == {"init", "resize source", "update source",
           "loop",
           "drawn", "unsignalled", "unflagged",
           "update", "refresh",
           "resize", "get size", "redraw",
           "crashed"}

RefreshTypeOK ==
  /\ existing \subseteq Sources
  /\ signalled \subseteq existing
  /\ raised \subseteq Sources /\ failed \subseteq Sources
  /\ input \in BOOLEAN
  /\ batch \subseteq Sources \union {"input"}
  /\ terminal \in 0..MaxResizes /\ win_size \in NoWindows..terminal
  /\ unshown \subseteq {"event", "resize"}
  /\ place \in Places

RefreshInit ==
  /\ existing = {} /\ signalled = {} /\ raised = {} /\ failed = {}
  /\ input = FALSE /\ batch = {}
  /\ terminal = 0 /\ win_size = NoWindows
  /\ unshown = {}
  /\ place = "init"

-----------------------------------------------------------------------------
(* tui_init: the signal handler is installed first, the sources come later *)
(* and each flag is cleared after its source was created.                  *)

CreateResizeSource ==
  /\ place = "init"
  /\ existing' = {"resize"}
  /\ place' = "resize source"
  /\ UNCHANGED <<signalled, raised, failed, loop, screen>>

CreateUpdateSource ==
  /\ place = "resize source"
  /\ existing' = Sources
  /\ place' = "update source"
  /\ UNCHANGED <<signalled, raised, failed, loop, screen>>

\* update_triggered = false; then on_resize_triggered is called directly.
StartResize ==
  /\ place = "update source"
  /\ raised' = raised \ {"update"}
  /\ place' = "resize"
  /\ UNCHANGED <<existing, signalled, failed, loop, screen>>

-----------------------------------------------------------------------------
(* The environment: keys, pipewire events, and the terminal.               *)

InputArrives ==
  /\ input' = TRUE
  /\ UNCHANGED <<flags, signalled, batch, screen, place>>

\* The calls of pw_loop_signal_event for these sources, of which some succeed.
Signal(sources) ==
  \E ok \in SUBSET sources :
    /\ signalled' = signalled \union ok
    /\ raised' = raised \union ok
    /\ failed' = (failed \union sources) \ ok

\* Broken: on_sigwinch triggers the update only.
SigwinchUpdating ==
  /\ place # "crashed"
  /\ terminal < MaxResizes
  /\ terminal' = terminal + 1
  /\ IF {"update"} \ raised \subseteq existing
     THEN Signal({"update"} \ raised) /\ UNCHANGED place
     ELSE place' = "crashed" /\ UNCHANGED <<signalled, raised, failed>>
  /\ UNCHANGED <<existing, loop, win_size, unshown>>

\* on_sigwinch: trigger_resize, then trigger_update.  Before the sources exist,
\* pw_loop_signal_event is called on a null pointer.
Sigwinch ==
  /\ place # "crashed"
  /\ terminal < MaxResizes
  /\ terminal' = terminal + 1
  /\ IF Sources \ raised \subseteq existing
     THEN Signal(Sources \ raised) /\ UNCHANGED place
     ELSE place' = "crashed" /\ UNCHANGED <<signalled, raised, failed>>
  /\ UNCHANGED <<existing, loop, win_size, unshown>>

-----------------------------------------------------------------------------
(* The main loop and the handlers it calls.                                *)

Ready == signalled \union (IF input THEN {"input"} ELSE {})

Poll ==
  /\ place = "loop" /\ batch = {} /\ Ready # {}
  /\ batch' = Ready
  /\ UNCHANGED <<flags, signalled, input, screen, place>>

\* on_stdin_ready or events_dispatch: a callback draws, if there is a window ...
Draw ==
  /\ place = "loop" /\ "input" \in batch
  /\ batch' = batch \ {"input"}
  /\ input' = FALSE
  /\ unshown' = IF win_size = NoWindows THEN unshown ELSE unshown \union {"event"}
  /\ place' = "drawn"
  /\ UNCHANGED <<flags, signalled, terminal, win_size>>

\* ... and calls trigger_update, which the signal handler may interrupt between
\* the test of the flag, the signal and the setting of the flag.
TestFlag ==
  /\ place = "drawn"
  /\ place' = IF "update" \in raised THEN "loop" ELSE "unsignalled"
  /\ UNCHANGED <<flags, signalled, loop, screen>>

SignalUpdate ==
  /\ place = "unsignalled"
  /\ \/ /\ signalled' = signalled \union {"update"}
        /\ failed' = failed \ {"update"}
        /\ place' = "unflagged"
     \/ /\ failed' = failed \union {"update"}
        /\ place' = "loop"
        /\ UNCHANGED signalled
  /\ UNCHANGED <<existing, raised, loop, screen>>

SetFlag ==
  /\ place = "unflagged"
  /\ raised' = raised \union {"update"}
  /\ place' = "loop"
  /\ UNCHANGED <<existing, signalled, failed, loop, screen>>

\* The loop reads the eventfd and calls the handler.
TakeSignal(source) ==
  /\ place = "loop" /\ source \in batch
  /\ batch' = batch \ {source}
  /\ signalled' = signalled \ {source}
  /\ place' = source
  /\ UNCHANGED <<flags, input, screen>>

\* Broken: on_update_triggered leaves the flag raised.
KeepUpdateFlag ==
  /\ place = "update"
  /\ place' = "refresh"
  /\ UNCHANGED <<flags, signalled, loop, screen>>

\* on_update_triggered
ClearUpdateFlag ==
  /\ place = "update"
  /\ raised' = raised \ {"update"}
  /\ place' = "refresh"
  /\ UNCHANGED <<existing, signalled, failed, loop, screen>>

RefreshScreen ==
  /\ place = "refresh"
  /\ unshown' = {}
  /\ failed' = failed \ {"update"}
  /\ place' = "loop"
  /\ UNCHANGED <<existing, raised, signalled, loop, terminal, win_size>>

\* Broken: on_resize_triggered leaves the flag raised.
KeepResizeFlag ==
  /\ place = "resize"
  /\ place' = "get size"
  /\ UNCHANGED <<flags, signalled, loop, screen>>

\* on_resize_triggered
ClearResizeFlag ==
  /\ place = "resize"
  /\ raised' = raised \ {"resize"}
  /\ place' = "get size"
  /\ UNCHANGED <<existing, signalled, failed, loop, screen>>

GetSize ==
  /\ place = "get size"
  /\ win_size' = terminal
  /\ failed' = failed \ {"resize"}
  /\ place' = "redraw"
  /\ UNCHANGED <<existing, raised, signalled, loop, terminal, unshown>>

\* ioctl fails: the handler returns, and its flag is down.
GetSizeFails ==
  /\ place = "get size"
  /\ failed' = failed \union {"resize"}
  /\ place' = "loop"
  /\ UNCHANGED <<existing, raised, signalled, loop, screen>>

Redraw ==
  /\ place = "redraw"
  /\ unshown' = unshown \union {"resize"}
  /\ place' = "loop"
  /\ UNCHANGED <<flags, signalled, loop, terminal, win_size>>

MainStep ==
  \/ CreateResizeSource \/ CreateUpdateSource \/ StartResize
  \/ Poll \/ Draw \/ TestFlag \/ SignalUpdate \/ SetFlag
  \/ \E source \in Sources : TakeSignal(source)
  \/ ClearUpdateFlag \/ RefreshScreen
  \/ ClearResizeFlag \/ GetSize \/ GetSizeFails \/ Redraw

RefreshNext == MainStep \/ InputArrives \/ Sigwinch

\* The main thread is never blocked while a source is ready.
RefreshSpec == RefreshInit /\ [][RefreshNext]_refresh_vars /\ WF_refresh_vars(MainStep)

-----------------------------------------------------------------------------
(* Safety.                                                                 *)

Crashed == place = "crashed"

\* A raised flag suppresses further signals, so it must stand for a signal that
\* is still to be handled, whenever the handler of SIGWINCH interrupts
\* (tui.c:63-69, 73-79, 1322, 1361).
FlagMeansSignal ==
  \A source \in raised : source \in signalled \/ place = source

\* While the windows do not have the size of the terminal, a resize is due, or the
\* last attempt has failed: nothing repeats a signal or an ioctl that failed, so
\* that the windows then wait for the next SIGWINCH (tui.c:73-79, 1321-1333).  A
\* SIGWINCH before the sources exist is excepted; it crashes (tui.c:1384).
ResizeIsDue ==
  win_size # terminal =>
    \/ "resize" \in signalled
    \/ place \in {"init", "resize source", "update source", "resize", "get size"}
    \/ "resize" \in failed
    \/ Crashed

-----------------------------------------------------------------------------
(* The inductive invariant behind RefreshTypeOK, FlagMeansSignal and       *)
(* ResizeIsDue (module RefreshProofs).                                     *)

\* Handlers run only when both sources exist; before, nothing was signalled.
SourcesExist ==
  /\ existing = Sources <=> place \notin {"init", "resize source", "crashed"}
  /\ existing # Sources => signalled = {} /\ raised = {}

\* trigger_update raises its flag after the signal, which is still there: only
\* the main thread takes it (tui.c:62-70).
SignalBeforeFlag == place = "unflagged" => "update" \in signalled

\* What makes it safe to suppress a signal when the flag is raised.
RefreshInv ==
  RefreshTypeOK /\ FlagMeansSignal /\ ResizeIsDue /\ SourcesExist /\ SignalBeforeFlag

-----------------------------------------------------------------------------
(* Liveness.                                                               *)

\* What a callback or a key binding draws reaches the screen, wherever SIGWINCH
\* interrupts.  When the signal fails the flag stays down and what was drawn waits
\* for the next trigger (tui.c:62-70, 1355-1375).
EventsReachScreen ==
  "event" \in unshown ~> "event" \notin unshown \/ "update" \in failed \/ Crashed

\* Once tui_init is under way, the windows follow the terminal, unless the signal
\* or the ioctl fails (tui.c:1321-1353).
SizeFollowsTerminal ==
  \A n \in 0..MaxResizes :
    place # "init" /\ terminal = n ~> win_size >= n \/ "resize" \in failed \/ Crashed

\* "Instead just update after any event that might or might not cause a draw"
\* (tui.c:1357): what is drawn, by whatever event, reaches the screen, if no call
\* fails.
DrawsReachScreen ==
  [](failed = {}) => (unshown # {} ~> unshown = {} \/ Crashed)
=============================================================================
