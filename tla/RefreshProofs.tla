--------------------------- MODULE RefreshProofs ---------------------------
(***************************************************************************)
(* Proofs about Refresh, for any number of resizes: wherever SIGWINCH      *)
(* interrupts the main thread, a raised flag stands for a signal that will *)
(* be handled, and a terminal that has changed its size has a resize due,  *)
(* unless the last signal or ioctl for it has failed.                      *)
(***************************************************************************)
EXTENDS Refresh, TLAPS

\* Before tui_init no flag is raised and there are no windows.
THEOREM InitInv == RefreshInit => RefreshInv
<1>. SUFFICES ASSUME RefreshInit PROVE RefreshInv
  OBVIOUS
<1>1. RefreshTypeOK
  <2>1. existing \subseteq Sources /\ signalled \subseteq existing
        /\ raised \subseteq Sources /\ failed \subseteq Sources
        /\ batch \subseteq Sources \union {"input"}
        /\ unshown \subseteq {"event", "resize"}
    BY DEF RefreshInit
  <2>2. terminal \in 0..MaxResizes /\ win_size \in NoWindows..terminal
    BY MaxResizesAssumption DEF RefreshInit, NoWindows
  <2>3. input \in BOOLEAN /\ place \in Places
    BY DEF RefreshInit, Places
  <2>. QED  BY <2>1, <2>2, <2>3 DEF RefreshTypeOK
<1>2. FlagMeansSignal /\ ResizeIsDue /\ SourcesExist /\ SignalBeforeFlag
  BY DEF RefreshInit, FlagMeansSignal, ResizeIsDue, SourcesExist,
         SignalBeforeFlag, Sources
<1>. QED  BY <1>1, <1>2 DEF RefreshInv

\* A terminal that is resized has one more size the windows may have.
LEMMA SizesInRange ==
  ASSUME RefreshTypeOK, Sigwinch
  PROVE  terminal' \in 0..MaxResizes /\ win_size' \in NoWindows..terminal'
BY MaxResizesAssumption DEF RefreshTypeOK, Sigwinch, NoWindows

\* The handler of SIGWINCH: a flag that is raised already stands for a signal, so
\* each source is signalled, about to be handled, or its call has failed
\* (tui.c:1377-1380).
LEMMA SigwinchInv == ASSUME RefreshInv, Sigwinch  PROVE RefreshInv'
<1>. USE DEF RefreshInv, Sigwinch
<1>0. input' = input /\ batch' = batch /\ unshown' = unshown /\ existing' = existing
  BY DEF loop
<1>1. CASE Sources \ raised \subseteq existing
  <2>1. place' = place
    BY <1>1
  <2>2. PICK ok \in SUBSET (Sources \ raised) :
          /\ signalled' = signalled \union ok
          /\ raised' = raised \union ok
          /\ failed' = (failed \union (Sources \ raised)) \ ok
    BY <1>1 DEF Signal
  <2>3. RefreshTypeOK'
    <3>1. /\ existing' \subseteq Sources /\ signalled' \subseteq existing'
          /\ raised' \subseteq Sources /\ failed' \subseteq Sources
      BY <1>0, <1>1, <2>2 DEF RefreshTypeOK
    <3>. QED  BY <1>0, <2>1, <3>1, SizesInRange DEF RefreshTypeOK
  <2>4. place \notin {"init", "resize source", "crashed"}
    <3>1. existing # Sources => Sources \subseteq existing
      BY <1>1 DEF SourcesExist
    <3>. QED  BY <3>1 DEF SourcesExist, RefreshTypeOK
  <2>5. FlagMeansSignal'
    BY <2>1, <2>2 DEF FlagMeansSignal
  <2>6. ResizeIsDue'
    <3>1. CASE "resize" \in raised
      BY <2>1, <2>2, <3>1 DEF FlagMeansSignal, ResizeIsDue
    <3>2. CASE "resize" \notin raised
      BY <2>2, <3>2 DEF ResizeIsDue, Sources
    <3>. QED  BY <3>1, <3>2
  <2>7. SourcesExist' /\ SignalBeforeFlag'
    BY <1>0, <2>1, <2>2, <2>4 DEF SourcesExist, SignalBeforeFlag
  <2>. QED  BY <2>3, <2>5, <2>6, <2>7
<1>2. CASE ~(Sources \ raised \subseteq existing)
  <2>1. /\ place' = "crashed"
        /\ signalled' = signalled /\ raised' = raised /\ failed' = failed
    BY <1>2
  <2>2. RefreshTypeOK'
    BY <1>0, <2>1, SizesInRange DEF RefreshTypeOK, Places
  <2>3. raised = {}
    BY <1>2 DEF SourcesExist, Sources
  <2>. QED
    BY <1>0, <2>1, <2>2, <2>3
    DEF FlagMeansSignal, ResizeIsDue, Crashed, SourcesExist, SignalBeforeFlag
<1>. QED  BY <1>1, <1>2

\* The first source exists; nothing was signalled before (tui.c:1419).
LEMMA CreateResizeSourceInv ==
  ASSUME RefreshInv, CreateResizeSource  PROVE RefreshInv'
<1>1. /\ place = "init" /\ place' = "resize source" /\ existing' = {"resize"}
      /\ win_size' = win_size /\ signalled' = signalled /\ raised' = raised
      /\ failed' = failed /\ input' = input /\ batch' = batch
      /\ terminal' = terminal /\ unshown' = unshown
  BY DEF CreateResizeSource, loop, screen
<1>2. signalled = {} /\ raised = {}
  BY <1>1 DEF RefreshInv, SourcesExist
<1>3. RefreshTypeOK'
  BY <1>1, <1>2 DEF RefreshInv, RefreshTypeOK, Places, Sources
<1>4. FlagMeansSignal' /\ ResizeIsDue' /\ SignalBeforeFlag'
  BY <1>1, <1>2 DEF FlagMeansSignal, ResizeIsDue, SignalBeforeFlag
<1>5. "update" \in Sources /\ "update" \notin existing'
  BY <1>1 DEF Sources
<1>6. SourcesExist'
  BY <1>1, <1>2, <1>5 DEF SourcesExist
<1>. QED  BY <1>3, <1>4, <1>6 DEF RefreshInv

\* tui_init creates the sources and clears the flags before the main loop runs
\* (tui.c:1419-1428).
LEMMA StartInv ==
  ASSUME RefreshInv, CreateResizeSource \/ CreateUpdateSource \/ StartResize
  PROVE  RefreshInv'
<1>. USE DEF RefreshInv, RefreshTypeOK, FlagMeansSignal, ResizeIsDue, SourcesExist,
             SignalBeforeFlag, Sources, Places, Crashed, loop, screen
<1>1. CASE CreateResizeSource
  BY <1>1, CreateResizeSourceInv
<1>2. CASE CreateUpdateSource
  BY <1>2 DEF CreateUpdateSource
<1>3. CASE StartResize
  BY <1>3 DEF StartResize
<1>. QED  BY <1>1, <1>2, <1>3

\* A callback draws and calls trigger_update (tui.c:62-70).
LEMMA TriggerInv ==
  ASSUME RefreshInv, Poll \/ Draw \/ TestFlag \/ SignalUpdate \/ SetFlag
  PROVE  RefreshInv'
<1>. USE DEF RefreshInv, RefreshTypeOK, FlagMeansSignal, ResizeIsDue, SourcesExist,
             SignalBeforeFlag, Sources, Places, Crashed, flags, loop, screen
<1>1. CASE Poll
  BY <1>1 DEF Poll, Ready
<1>2. CASE Draw
  BY <1>2 DEF Draw
<1>3. CASE TestFlag
  BY <1>3 DEF TestFlag
<1>4. CASE SignalUpdate
  BY <1>4 DEF SignalUpdate
<1>5. CASE SetFlag
  BY <1>5 DEF SetFlag
<1>. QED  BY <1>1, <1>2, <1>3, <1>4, <1>5

\* The new size is the terminal's: no resize is due any more (tui.c:1324-1333).
LEMMA GetSizeInv == ASSUME RefreshInv, GetSize  PROVE RefreshInv'
<1>1. /\ place = "get size" /\ place' = "redraw" /\ win_size' = terminal
      /\ existing' = existing /\ signalled' = signalled /\ raised' = raised
      /\ failed' = failed \ {"resize"} /\ input' = input /\ batch' = batch
      /\ terminal' = terminal /\ unshown' = unshown
  BY DEF GetSize, loop
<1>2. terminal' \in 0..MaxResizes /\ win_size' \in NoWindows..terminal'
  <2>1. terminal \in 0..MaxResizes
    BY DEF RefreshInv, RefreshTypeOK
  <2>2. terminal \in NoWindows..terminal
    BY <2>1, MaxResizesAssumption DEF NoWindows
  <2>. QED  BY <1>1, <2>1, <2>2
<1>3. RefreshTypeOK'
  BY <1>1, <1>2 DEF RefreshInv, RefreshTypeOK, Places
<1>4. FlagMeansSignal'
  BY <1>1 DEF RefreshInv, RefreshTypeOK, FlagMeansSignal, Sources
<1>5. ResizeIsDue' /\ SourcesExist' /\ SignalBeforeFlag'
  BY <1>1 DEF RefreshInv, ResizeIsDue, SourcesExist, SignalBeforeFlag
<1>. QED  BY <1>3, <1>4, <1>5 DEF RefreshInv

\* The loop takes a signal and its handler clears the flag first: until then the
\* place of the main thread stands for the signal (tui.c:1322, 1361).  A handler
\* that cannot ask for the size gives up (tui.c:1325-1328).
LEMMA HandlersInv ==
  ASSUME RefreshInv,
         \/ \E source \in Sources : TakeSignal(source)
         \/ ClearUpdateFlag \/ RefreshScreen
         \/ ClearResizeFlag \/ GetSize \/ GetSizeFails \/ Redraw
  PROVE  RefreshInv'
<1>. USE DEF RefreshInv, RefreshTypeOK, FlagMeansSignal, ResizeIsDue, SourcesExist,
             SignalBeforeFlag, Sources, Places, Crashed, flags, loop, screen
<1>1. ASSUME NEW source \in Sources, TakeSignal(source)  PROVE RefreshInv'
  BY <1>1 DEF TakeSignal
<1>2. CASE ClearUpdateFlag
  BY <1>2 DEF ClearUpdateFlag
<1>3. CASE RefreshScreen
  BY <1>3 DEF RefreshScreen
<1>4. CASE ClearResizeFlag
  BY <1>4 DEF ClearResizeFlag
<1>5. CASE GetSize
  BY <1>5, GetSizeInv
<1>6. CASE GetSizeFails
  BY <1>6 DEF GetSizeFails
<1>7. CASE Redraw
  BY <1>7 DEF Redraw
<1>. QED  BY <1>1, <1>2, <1>3, <1>4, <1>5, <1>6, <1>7

\* Every step of the main thread, and an interruption at any place in it, keeps
\* the invariant.
THEOREM NextInv == RefreshInv /\ [RefreshNext]_refresh_vars => RefreshInv'
<1>. SUFFICES ASSUME RefreshInv, [RefreshNext]_refresh_vars  PROVE RefreshInv'
  OBVIOUS
<1>1. CASE MainStep
  BY <1>1, StartInv, TriggerInv, HandlersInv DEF MainStep
<1>2. CASE InputArrives
  BY <1>2 DEF InputArrives, RefreshInv, RefreshTypeOK, FlagMeansSignal, ResizeIsDue,
              SourcesExist, SignalBeforeFlag, Crashed, flags, screen
<1>3. CASE Sigwinch
  BY <1>3, SigwinchInv
<1>4. CASE UNCHANGED refresh_vars
  BY <1>4 DEF refresh_vars, RefreshInv, RefreshTypeOK, FlagMeansSignal, ResizeIsDue,
              SourcesExist, SignalBeforeFlag, Crashed
<1>. QED  BY <1>1, <1>2, <1>3, <1>4 DEF RefreshNext

\* The invariant holds in every reachable state.
THEOREM InvHolds == RefreshSpec => []RefreshInv
BY InitInv, NextInv, PTL DEF RefreshSpec

\* No signal is sent to a source that does not exist, and the windows are never
\* given a size the terminal did not have (tui.c:1324-1333).
THEOREM TypesCorrect == RefreshSpec => []RefreshTypeOK
<1>1. RefreshInv => RefreshTypeOK
  BY DEF RefreshInv
<1>. QED  BY <1>1, InvHolds, PTL

\* Whenever SIGWINCH interrupts, a raised flag stands for a signal that is still
\* to be handled: suppressing the next signal loses nothing, and a signal that
\* fails raises no flag (tui.c:63-69, 73-79).
THEOREM FlagsMeanSignals == RefreshSpec => []FlagMeansSignal
<1>1. RefreshInv => FlagMeansSignal
  BY DEF RefreshInv
<1>. QED  BY <1>1, InvHolds, PTL

\* While the size of the windows is not that of the terminal, a resize is
\* signalled or being handled, or the last signal or ioctl for it has failed, which
\* the code reports and does not repeat (tui.c:73-79, 1321-1353).
THEOREM ResizesAreDue == RefreshSpec => []ResizeIsDue
<1>1. RefreshInv => ResizeIsDue
  BY DEF RefreshInv
<1>. QED  BY <1>1, InvHolds, PTL
=============================================================================
