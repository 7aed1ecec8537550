SPECIFICATION MCSpec
CONSTANTS
  playback = playback
  cards = cards
  j = j
  q = q
  down = down
  quit = quit
  MaxText = 7
  TabTypes = {playback, cards}
  Keycodes = {j, q}
  Actions = {down, quit}
  DefaultLines <- MCDefaultLines
  Invalid = Invalid
  MaxUserLines = 3
INVARIANTS
  RendersAsDocumented
  ErrorsAreErrors
  TreeCanBeFreed
  TabsUsable
  BindsOwned
PROPERTIES
  LinesApplyWhole
CHECK_DEADLOCK FALSE
