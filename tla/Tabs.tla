-------------------------------- MODULE Tabs --------------------------------
(***************************************************************************)
(* The tabs of src/tui/tui.c: the list of items of each tab, their places  *)
(* in the pad, the focus, the scroll position, and the menu that covers    *)
(* them (src/tui/menu.c, src/tui/pad.c).                                   *)
(*                                                                         *)
(* Items come, change height and go with events of the server, in any      *)
(* order with the keys of the user and with resizes of the terminal.  A    *)
(* callback, a key binding and on_resize_triggered are one step each.      *)
(***************************************************************************)
EXTENDS Integers, Sequences, SequencesExt

CONSTANTS
  Items,            \* objects that may be shown, each with its item
  TabsCount,        \* number of configured tabs
  TabOf,            \* TabOf[i]: item->tab_index
  Heights,          \* heights an item may have
  TermHeights,      \* heights the terminal may have
  Wraparound,       \* config.wraparound
  MaxChoices,       \* the largest menu
  None

Tabs == 0..TabsCount - 1

ASSUME TabsAssumption ==
  /\ TabsCount \in Nat \ {0} /\ TabOf \in [Items -> Tabs] /\ None \notin Items
  /\ Heights \subseteq Nat \ {0} /\ TermHeights \subseteq Nat \ {0}
  /\ TermHeights # {} /\ Wraparound \in BOOLEAN /\ MaxChoices \in Nat

VARIABLES
  items,            \* items[t]: the list of tab t, from its head
  pos, height,      \* of the items that are in a list
  focused,          \* tab->focused
  scroll_pos,       \* tab->scroll_pos
  user,             \* tab->user_changed_focus
  tab_index,        \* the current tab
  term_height,
  pad,              \* height of pad_win
  menu,             \* the active menu: what it is for, selected, n_items
  mapped,           \* items whose object node_lookup or device_lookup finds
  crashed           \* a null pointer was used

layout == <<items, pos, height, pad>>
focus  == <<focused, scroll_pos, user>>
vars   == <<items, pos, height, pad, focused, scroll_pos, user, tab_index,
            term_height, menu, mapped, crashed>>

Menus == [of : Items, selected : Nat, n_items : 2..MaxChoices]

TypeOK ==
  /\ \A t \in Tabs : IsInjective(items[t]) /\ \A i \in ToSet(items[t]) : TabOf[i] = t
  /\ pos \in [Items -> Nat] /\ height \in [Items -> Nat]
  /\ focused \in [Tabs -> Items \union {None}]
  /\ scroll_pos \in [Tabs -> Nat] /\ user \in [Tabs -> BOOLEAN]
  /\ tab_index \in Tabs /\ term_height \in TermHeights /\ pad \in Nat
  /\ menu # None => (menu \in Menus /\ menu.selected < menu.n_items)
  /\ mapped \subseteq Items /\ crashed \in BOOLEAN

Init ==
  /\ items = [t \in Tabs |-> <<>>]
  /\ pos = [i \in Items |-> 0] /\ height = [i \in Items |-> 0]
  /\ focused = [t \in Tabs |-> None] /\ scroll_pos = [t \in Tabs |-> 0]
  /\ user = [t \in Tabs |-> FALSE]
  /\ tab_index \in Tabs /\ term_height \in TermHeights /\ pad = term_height
  /\ menu = None /\ mapped = {} /\ crashed = FALSE

Shown(i) == i \in ToSet(items[TabOf[i]])

AtLeast(low, n) == IF n < low THEN low ELSE n

-----------------------------------------------------------------------------
(* Layout and focus.                                                       *)

\* The place of i in its list, and the items below it.
PlaceOf(list, i) == CHOOSE k \in DOMAIN list : list[k] = i
Below(list, i)   == {list[k] : k \in PlaceOf(list, i) + 1..Len(list)}

\* Broken: items above move instead of those below.
ResizeAbove(list, i, new) ==
  LET diff  == new - height[i]
      last  == list[Len(list)]
      moved == ToSet(list) \ (Below(list, i) \union {i})
  IN  /\ pad' = AtLeast(pos[last] + height[last] + diff, pad)
      /\ height' = [height EXCEPT ![i] = new]
      /\ pos' = [j \in Items |-> IF j \in moved THEN pos[j] + diff ELSE pos[j]]

\* tui_tab_item_resize for an item of the list: the pad holds the whole tab,
\* and the items below move.  An item that shrinks to nothing is freed next, and
\* the next item for the object starts at 0.
Resize(list, i, new) ==
  LET diff == new - height[i]
      last == list[Len(list)]
  IN  /\ pad' = AtLeast(pos[last] + height[last] + diff, pad)
      /\ height' = [height EXCEPT ![i] = new]
      /\ pos' = [j \in Items |-> CASE j \in Below(list, i) -> pos[j] + diff
                                 [] j = i /\ new = 0 -> 0
                                 [] OTHER -> pos[j]]

\* Broken: the top bar is not subtracted.
ScrollToUnder(scroll, top, size, term) ==
  IF scroll > top THEN top
  ELSE IF top + size > scroll + term THEN top + size - term
  ELSE scroll

\* tui_tab_item_ensure_visible
ScrollTo(scroll, top, size, term) ==
  IF scroll > top THEN top
  ELSE IF top + size > scroll + (term - 1) THEN top + size - (term - 1)
  ELSE scroll

\* tui_tab_item_focus
Focus(t, i) ==
  /\ focused' = [focused EXCEPT ![t] = i]
  /\ scroll_pos' = IF focused[t] = i THEN scroll_pos
                   ELSE [scroll_pos EXCEPT
                           ![t] = ScrollTo(@, pos'[i], height'[i], term_height)]

-----------------------------------------------------------------------------
(* Events of the server.                                                   *)

\* Broken: a new item always takes the focus.
AppearFocused(i, new) ==
  LET t == TabOf[i]
  IN  /\ ~Shown(i) /\ i \notin mapped
      /\ mapped' = mapped \union {i}
      /\ items' = [items EXCEPT ![t] = <<i>> \o @]
      /\ Resize(items'[t], i, new)
      /\ Focus(t, i)
      /\ UNCHANGED <<user, tab_index, term_height, menu, crashed>>

\* on_pipewire_node, on_pipewire_device: the new item comes first in its tab.
Appear(i, new) ==
  LET t == TabOf[i]
  IN  /\ ~Shown(i) /\ i \notin mapped
      /\ mapped' = mapped \union {i}
      /\ items' = [items EXCEPT ![t] = <<i>> \o @]
      /\ Resize(items'[t], i, new)
      /\ IF focused[t] = None \/ ~user[t]
         THEN Focus(t, i)
         ELSE UNCHANGED <<focused, scroll_pos>>
      /\ UNCHANGED <<user, tab_index, term_height, menu, crashed>>

\* on_node_channels, on_node_routes.  The scroll position stays.
ChangeHeight(i, new) ==
  /\ Shown(i) /\ new # height[i]
  /\ Resize(items[TabOf[i]], i, new)
  /\ UNCHANGED <<items, focus, tab_index, term_height, menu, mapped, crashed>>

\* on_registry_global_remove
Unmap(i) ==
  /\ i \in mapped
  /\ mapped' = mapped \ {i}
  /\ UNCHANGED <<layout, focus, tab_index, term_height, menu, crashed>>

\* Broken: the focus goes to the next item or to none.
HeirBelow(list, i) ==
  LET at == PlaceOf(list, i)
  IN  IF at < Len(list) THEN list[at + 1] ELSE None

\* The item next in the list, or else the one before.
Heir(list, i) ==
  LET at == PlaceOf(list, i)
  IN  CASE at < Len(list) -> list[at + 1]
        [] at = Len(list) /\ at > 1 -> list[at - 1]
        [] OTHER -> None

\* tui_tab_item_unfocus
Unfocus(t, i) ==
  IF focused[t] # i THEN UNCHANGED <<focused, scroll_pos>>
  ELSE IF Heir(items[t], i) = None
       THEN focused' = [focused EXCEPT ![t] = None] /\ UNCHANGED scroll_pos
       ELSE Focus(t, Heir(items[t], i))

\* on_node_removed, on_device_removed: shrink to nothing, pass the focus on,
\* leave the list.
Disappear(i) ==
  LET t == TabOf[i]
  IN  /\ Shown(i)
      /\ Resize(items[t], i, 0)
      /\ Unfocus(t, i)
      /\ items' = [items EXCEPT ![t] = RemoveAt(@, PlaceOf(@, i))]
      /\ UNCHANGED <<user, tab_index, term_height, menu, mapped, crashed>>

\* on_resize_triggered, unless ioctl fails, which changes nothing.  The height may
\* be what it was, and only the width a new one.
TermResize(new) ==
  LET f == focused[tab_index]
  IN  /\ term_height' = new
      /\ pad' = AtLeast(new, pad)
      /\ scroll_pos' = IF f = None THEN scroll_pos
                       ELSE [scroll_pos EXCEPT
                               ![tab_index] = ScrollTo(@, pos[f], height[f], new)]
      /\ UNCHANGED <<items, pos, height, focused, user, tab_index, menu, mapped, crashed>>

-----------------------------------------------------------------------------
(* Keys.                                                                   *)

UserFocus(i) ==
  /\ UNCHANGED <<layout, tab_index, term_height, menu, mapped, crashed>>
  /\ user' = [user EXCEPT ![tab_index] = TRUE]
  /\ Focus(tab_index, i)

\* The place a step from place at of n leads to: it wraps around, or stays.
StepFrom(at, direction, n) ==
  CASE at + direction \in 1..n -> at + direction
    [] at + direction \notin 1..n /\ Wraparound -> IF direction > 0 THEN 1 ELSE n
    [] OTHER -> at

\* tui_bind_change_focus moves the focus of the tab, or of the menu.
ChangeFocus(direction) ==
  /\ menu = None /\ focused[tab_index] # None
  /\ LET list == items[tab_index]
         at   == PlaceOf(list, focused[tab_index])
         to   == StepFrom(at, direction, Len(list))
     IN  /\ to # at \/ Wraparound
         /\ UserFocus(list[to])

\* tui_menu_change_focus
ChangeSelection(direction) ==
  /\ menu # None
  /\ menu' = [menu EXCEPT !.selected = StepFrom(@ + 1, direction, menu.n_items) - 1]
  /\ UNCHANGED <<layout, focus, tab_index, term_height, mapped, crashed>>

\* tui_bind_focus_first, tui_bind_focus_last, also below a menu.
FocusEnd ==
  /\ items[tab_index] # <<>>
  /\ \E i \in {Head(items[tab_index]), Last(items[tab_index])} : UserFocus(i)

\* tui_bind_change_tab, tui_bind_set_tab, tui_bind_set_tab_index
SetTab(t) ==
  /\ menu = None /\ t # tab_index
  /\ tab_index' = t
  /\ UNCHANGED <<layout, focus, term_height, menu, mapped, crashed>>

\* tui_bind_select_route, tui_bind_select_profile: the active choice is selected.
OpenMenu ==
  /\ menu = None /\ focused[tab_index] # None
  /\ \E n \in 2..MaxChoices : \E selected \in 0..n - 1 :
       menu' = [of |-> focused[tab_index], selected |-> selected, n_items |-> n]
  /\ UNCHANGED <<layout, focus, tab_index, term_height, mapped, crashed>>

CancelSelection ==
  /\ menu # None
  /\ menu' = None
  /\ UNCHANGED <<layout, focus, tab_index, term_height, mapped, crashed>>

\* on_route_selection_done, on_profile_selection_done: a failed lookup is
\* logged, and its null result used nonetheless.
ConfirmSelection ==
  /\ menu # None
  /\ crashed' = (menu.of \notin mapped)
  /\ menu' = None
  /\ UNCHANGED <<layout, focus, tab_index, term_height, mapped>>

-----------------------------------------------------------------------------
Events == \E i \in Items :
            \/ \E new \in Heights : Appear(i, new) \/ ChangeHeight(i, new)
            \/ Unmap(i) \/ Disappear(i)

Keys == \/ \E direction \in {-1, 1} :
             ChangeFocus(direction) \/ ChangeSelection(direction)
        \/ FocusEnd \/ \E t \in Tabs : SetTab(t)
        \/ OpenMenu \/ CancelSelection \/ ConfirmSelection

Next == ~crashed /\ (Events \/ Keys \/ \E new \in TermHeights : TermResize(new))

Spec == Init /\ [][Next]_vars

-----------------------------------------------------------------------------
\* The items of a tab stand one below the other without gap or overlap, after
\* any sequence of insertions at the top, changes of height and removals, and the
\* pad has room for all of them, whichever tab is current: curses drops what is
\* drawn outside (tui.c:956-983, 1336).
LayoutFits ==
  /\ pad >= term_height
  /\ \A t \in Tabs : \A k \in DOMAIN items[t] :
       /\ pos[items[t][k]] =
            IF k = 1 THEN 0 ELSE pos[items[t][k - 1]] + height[items[t][k - 1]]
       /\ pos[items[t][k]] + height[items[t][k]] <= pad

\* A tab that is not empty has a focused item, one of its own; an empty one has
\* none, and no key binding gets a freed item (tui.c:463-507, 1194-1208).
FocusOnShown ==
  \A t \in Tabs : IF items[t] = <<>> THEN focused[t] = None
                  ELSE focused[t] \in ToSet(items[t])

InView(scroll, top, size) ==
  scroll <= top /\ top + size <= scroll + (term_height' - 1)

\* Where the focus goes, it can be seen, if the terminal is high enough
\* (tui.c:449-461).
FocusMovesIntoView ==
  [][\A t \in Tabs : LET f == focused'[t] IN
       f \notin {focused[t], None} /\ height'[f] < term_height' =>
         InView(scroll_pos'[t], pos'[f], height'[f])]_vars

\* Once the user has moved the focus, only the user moves it, unless the focused
\* item goes away (tui.c:1257, 1289).
UserFocusKept ==
  [][\A t \in Tabs :
       user[t] /\ focused[t] # focused'[t] /\ items[t] # items'[t]
         => focused[t] \notin ToSet(items'[t])]_vars

\* "node with id %d does not exist" (tui.c:874) is a case that the callbacks of
\* a menu provide for: confirming a selection does not use a null pointer.
MissingObjectHandled == ~crashed
=============================================================================
